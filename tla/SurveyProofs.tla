---------------------------- MODULE SurveyProofs ----------------------------
(***************************************************************************)
(* Proofs about Survey, for every set of options and respondents and every *)
(* value of the limits.                                                    *)
(***************************************************************************)
EXTENDS Survey, FiniteSetTheorems, TLAPS

\* The inductive invariant.  No part is inductive alone: that nothing a
\* respondent has seen is unlisted keeps a fresh write-in private, and both are
\* needed for the unchanged-length test of saveResponseTx to be exact.
Inv ==
  /\ TypeOK
  /\ IsFiniteSet(answered)
  /\ ChoicesWereShown
  /\ PendingIsPrivate
  /\ MergesEnd
  /\ NeverOpenedHoldsOnlyPreviews

\* Options are only ever added to the rows a submission is saved against.
LEMMA ListedGrows ==
  ASSUME NEW stat, NEW new \in SUBSET OptionId, NEW as, as # "absent"
  PROVE  Listed(AddOptions(stat, new, as)) = Listed(stat) \cup new
BY DEF Listed, AddOptions

\* What saveResponseTx leaves on record, given that everything already on record
\* is listed: the picks on the ballot with every vote off the ballot, and the
\* ballot added to the seen set.  In particular skipping the insert when the seen
\* set kept its length loses nothing (response.go:232-245).
LEMMA SaveResponseEffect ==
  ASSUME TypeOK, ChoicesWereShown,
         NEW stat \in [OptionId -> OptionStatuses],
         Listed(status) \subseteq Listed(stat),
         NEW v \in Voter, NEW picks, NEW text, NEW allowPending, NEW preview,
         SaveResponseTx(stat, v, picks, text, allowPending, preview)
  PROVE  LET ballot == VisibleTo(stat, v, allowPending)
         IN  /\ choices' = [choices EXCEPT ![v] = (picks \cap ballot) \cup (@ \ ballot)]
             /\ seen' = [seen EXCEPT ![v] = @ \cup ballot]
<1> DEFINE ballot == VisibleTo(stat, v, allowPending)
           shown  == (ballot \cup seen[v]) \cap Listed(stat)
<1>1. ballot \subseteq Listed(stat)
  BY DEF VisibleTo, Listed
<1>2. /\ choices[v] \subseteq seen[v]
      /\ seen[v] \subseteq Listed(stat)
      /\ v \notin answered => seen[v] = {}
  BY DEF ChoicesWereShown
<1>3. shown = seen[v] \cup ballot
  BY <1>1, <1>2
<1>4. choices' = [choices EXCEPT ![v] = (picks \cap ballot) \cup (@ \ ballot)]
  <2>1. (choices[v] \cap Listed(stat)) \ ballot = choices[v] \ ballot
    BY <1>2
  <2>2. QED
    BY <2>1 DEF SaveResponseTx, TypeOK
<1>5. IsFiniteSet(shown)
  <2>1. shown \in SUBSET OptionId
    BY DEF Listed
  <2>2. QED
    BY <2>1, OptionsAssumption, FS_Subset
<1>6. CASE v \notin answered \/ Cardinality(shown) # Cardinality(seen[v])
  <2>1. seen' = [seen EXCEPT ![v] = @ \cup shown]
    BY <1>6 DEF SaveResponseTx, TypeOK
  <2>2. seen[v] \cup shown = seen[v] \cup ballot
    BY <1>3
  <2>3. QED
    BY <1>4, <2>1, <2>2
<1>7. CASE ~(v \notin answered \/ Cardinality(shown) # Cardinality(seen[v]))
  <2>1. seen[v] \in SUBSET shown
    BY <1>3
  <2>2. shown = seen[v]
    BY <1>5, <1>7, <2>1, FS_Subset
  <2>3. seen' = [seen EXCEPT ![v] = @]
    BY <1>7 DEF SaveResponseTx, TypeOK
  <2>4. QED
    BY <1>3, <1>4, <2>2, <2>3
<1>8. QED
  BY <1>6, <1>7

-----------------------------------------------------------------------------
(* Type correctness                                                        *)

LEMMA SaveResponseType ==
  ASSUME TypeOK, NEW stat, NEW v \in Voter, NEW picks,
         NEW text \in Comment \cup {NoComment}, NEW allowPending, NEW preview,
         SaveResponseTx(stat, v, picks, text, allowPending, preview)
  PROVE  /\ answered' \in SUBSET Voter
         /\ choices' \in [Voter -> SUBSET OptionId]
         /\ seen' \in [Voter -> SUBSET OptionId]
         /\ comment' \in [Voter -> Comment \cup {NoComment}]
         /\ origin' \in [Voter -> {"none", "preview", "public"}]
<1> DEFINE ballot == VisibleTo(stat, v, allowPending)
           kept   == (picks \cap ballot) \cup ((choices[v] \cap Listed(stat)) \ ballot)
           shown  == (ballot \cup seen[v]) \cap Listed(stat)
<1>1. kept \in SUBSET OptionId /\ shown \in SUBSET OptionId
  BY DEF VisibleTo, Listed, TypeOK
<1>2. answered' \in SUBSET Voter
  BY DEF SaveResponseTx, TypeOK
<1>3. choices' \in [Voter -> SUBSET OptionId]
  <2>1. choices' = [choices EXCEPT ![v] = kept]
    BY DEF SaveResponseTx
  <2>2. QED
    BY <1>1, <2>1 DEF TypeOK
<1>4. seen' \in [Voter -> SUBSET OptionId]
  <2>1. \/ seen' = [seen EXCEPT ![v] = @ \cup shown]
        \/ seen' = [seen EXCEPT ![v] = @]
    BY DEF SaveResponseTx
  <2>2. QED
    BY <1>1, <2>1 DEF TypeOK
<1>5. comment' \in [Voter -> Comment \cup {NoComment}]
  BY DEF SaveResponseTx, TypeOK
<1>6. origin' \in [Voter -> {"none", "preview", "public"}]
  BY DEF SaveResponseTx, TypeOK
<1>7. QED
  BY <1>2, <1>3, <1>4, <1>5, <1>6

LEMMA InitType == Init => TypeOK
<1> SUFFICES ASSUME Init PROVE TypeOK
  OBVIOUS
<1>1. settings \in [writeIns : BOOLEAN, comments : BOOLEAN]
  BY DEF Init
<1>2. choices \in [Voter -> SUBSET OptionId] /\ seen \in [Voter -> SUBSET OptionId]
  BY DEF Init
<1>3. QED
  BY <1>1, <1>2 DEF Init, TypeOK, SurveyStates, OptionStatuses, NoClose

LEMMA StepType ==
  ASSUME TypeOK, [Next]_vars
  PROVE  TypeOK'
<1> USE DEF TypeOK, SurveyStates, OptionStatuses
<1>1. ASSUME NEW opts \in SUBSET OptionId, CreateSurvey(opts)
      PROVE  TypeOK'
  BY <1>1 DEF CreateSurvey, SaveSurvey, AddOptions, NoClose, responses
<1>2. ASSUME NEW remove, NEW new, NEW s \in Settings, NEW close \in CloseTimes,
             EditSave(remove, new, s, close)
      PROVE  TypeOK'
  <2>1. s \in [writeIns : BOOLEAN, comments : BOOLEAN] /\ close \in Nat
    BY SettingsAssumption, ClockAssumption
  <2>2. status' \in [OptionId -> OptionStatuses]
    BY <1>2 DEF EditSave, SaveSurvey, AddOptions
  <2>3. QED
    BY <1>2, <2>1, <2>2 DEF EditSave, SaveSurvey, responses
<1>3. ASSUME NEW newState \in StateChoices, SetState(newState)
      PROVE  TypeOK'
  BY <1>3, RequestsAssumption DEF SetState, SaveSurvey, responses
<1>4. ASSUME Publish
      PROVE  TypeOK'
  BY <1>4 DEF Publish, SaveSurvey, ClearResponses, NoClose, responses
<1>5. ASSUME DeleteSurvey
      PROVE  TypeOK'
  BY <1>5 DEF DeleteSurvey, ClearResponses
<1>6. ASSUME NEW o \in OptionId, NEW stat \in {"approved", "rejected", "removed"},
             SetOptionStatus(o, stat)
      PROVE  TypeOK'
  BY <1>6 DEF SetOptionStatus, SaveSurvey, responses
<1>7. ASSUME NEW o \in OptionId, NEW target \in OptionId, Merge(o, target)
      PROVE  TypeOK'
  BY <1>7 DEF Merge, SaveSurvey, responses
<1>8. ASSUME NEW v \in Voter, NEW picks, NEW text \in Comment \cup {NoComment},
             NEW preview \in BOOLEAN, SaveResponse(v, picks, text, preview)
      PROVE  TypeOK'
  <2>1. SaveResponseTx(status, v, picks, text, NoOption, preview)
    BY <1>8 DEF SaveResponse
  <2>2. QED
    BY <1>8, <2>1, SaveResponseType DEF SaveResponse, survey, options
<1>9. ASSUME NEW v \in Voter, NEW o \in OptionId, NEW preview \in BOOLEAN,
             AddWriteIn(v, o, preview)
      PROVE  TypeOK'
  <2> DEFINE stat == AddOptions(status, {o}, "pending")
  <2>1. SaveResponseTx(stat, v, choices[v] \cup {o}, comment[v], o, preview)
    BY <1>9 DEF AddWriteIn
  <2>2. comment[v] \in Comment \cup {NoComment}
    OBVIOUS
  <2>3. /\ answered' \in SUBSET Voter
        /\ choices' \in [Voter -> SUBSET OptionId]
        /\ seen' \in [Voter -> SUBSET OptionId]
        /\ comment' \in [Voter -> Comment \cup {NoComment}]
        /\ origin' \in [Voter -> {"none", "preview", "public"}]
    BY <2>1, <2>2, SaveResponseType
  <2>4. stat \in [OptionId -> OptionStatuses]
    BY DEF AddOptions
  <2>5. QED
    BY <1>9, <2>3, <2>4 DEF AddWriteIn, SaveSurvey
<1>10. CASE Tick
  BY <1>10 DEF Tick, survey, options, responses
<1>11. CASE UNCHANGED vars
  BY <1>11 DEF vars, survey, options, responses
<1> HIDE DEF TypeOK, SurveyStates, OptionStatuses
<1>12. CASE EditorStep
  BY <1>1, <1>2, <1>3, <1>4, <1>5, <1>12 DEF EditorStep
<1>13. CASE ModeratorStep
  BY <1>6, <1>7, <1>13 DEF ModeratorStep
<1>14. CASE RespondentStep
  BY <1>8, <1>9, <1>14, RequestsAssumption DEF RespondentStep
<1>15. QED
  BY <1>10, <1>11, <1>12, <1>13, <1>14 DEF Next

\* Every variable keeps to its type, whatever the options, the respondents and
\* the limits.
THEOREM TypeCorrect == Spec => []TypeOK
<1>1. QED
  BY InitType, StepType, PTL DEF Spec

-----------------------------------------------------------------------------
(* The inductive invariant                                                 *)

\* Saving a response keeps every vote shown and every exposure listed.
LEMMA SaveKeepsChoicesShown ==
  ASSUME TypeOK, ChoicesWereShown,
         NEW stat \in [OptionId -> OptionStatuses],
         Listed(status) \subseteq Listed(stat), status' = stat,
         NEW v \in Voter, NEW picks, NEW text, NEW allowPending, NEW preview,
         SaveResponseTx(stat, v, picks, text, allowPending, preview)
  PROVE  ChoicesWereShown'
<1> DEFINE ballot == VisibleTo(stat, v, allowPending)
<1>1. /\ choices' = [choices EXCEPT ![v] = (picks \cap ballot) \cup (@ \ ballot)]
      /\ seen' = [seen EXCEPT ![v] = @ \cup ballot]
  BY SaveResponseEffect
<1>2. answered' = answered \cup {v} /\ Listed(status)' = Listed(stat)
  BY DEF SaveResponseTx, Listed
<1>3. ballot \subseteq Listed(stat)
  BY DEF VisibleTo, Listed
<1> HIDE DEF ballot
<1>4. ASSUME NEW w \in Voter
      PROVE  /\ choices'[w] \subseteq seen'[w]
             /\ seen'[w] \subseteq Listed(stat)
             /\ w \notin answered' => seen'[w] = {}
  <2>1. /\ choices[w] \subseteq seen[w]
        /\ seen[w] \subseteq Listed(stat)
        /\ w \notin answered => seen[w] = {}
    BY DEF ChoicesWereShown
  <2>2. CASE w = v
    BY <1>1, <1>2, <1>3, <2>1, <2>2 DEF TypeOK
  <2>3. CASE w # v
    BY <1>1, <1>2, <2>1, <2>3 DEF TypeOK
  <2>4. QED
    BY <2>2, <2>3
<1>5. QED
  BY <1>2, <1>4 DEF ChoicesWereShown

\* A survey that is open has FirstOpenedAt, and one that is not there has not.
OpeningIsStamped == (state = "open" => opened) /\ (state = "none" => ~opened)

LEMMA StepOpening ==
  ASSUME TypeOK, OpeningIsStamped, [Next]_vars
  PROVE  OpeningIsStamped'
<1>1. CASE EditorStep
  <2>1. ASSUME NEW opts, CreateSurvey(opts)
        PROVE  OpeningIsStamped'
    BY <2>1 DEF CreateSurvey, SaveSurvey, OpeningIsStamped
  <2>2. ASSUME NEW remove, NEW new, NEW s, NEW close, EditSave(remove, new, s, close)
        PROVE  OpeningIsStamped'
    BY <2>2 DEF EditSave, SaveSurvey, OpeningIsStamped, Exists
  <2>3. ASSUME NEW newState \in StateChoices, SetState(newState)
        PROVE  OpeningIsStamped'
    BY <2>3, RequestsAssumption DEF SetState, SaveSurvey, OpeningIsStamped
  <2>4. CASE Publish
    BY <2>4 DEF Publish, SaveSurvey, OpeningIsStamped
  <2>5. CASE DeleteSurvey
    BY <2>5 DEF DeleteSurvey, OpeningIsStamped
  <2>6. QED
    BY <1>1, <2>1, <2>2, <2>3, <2>4, <2>5 DEF EditorStep
<1>2. CASE ModeratorStep
  BY <1>2 DEF ModeratorStep, SetOptionStatus, Merge, SaveSurvey, OpeningIsStamped, Exists
<1>3. CASE RespondentStep
  <2>1. ASSUME NEW v, NEW picks, NEW text, NEW preview, SaveResponse(v, picks, text, preview)
        PROVE  OpeningIsStamped'
    BY <2>1 DEF SaveResponse, survey, OpeningIsStamped
  <2>2. ASSUME NEW v, NEW o, NEW preview, AddWriteIn(v, o, preview)
        PROVE  OpeningIsStamped'
    <3>1. Exists /\ state' = state /\ opened' = (opened \/ state = "open")
      BY <2>2 DEF AddWriteIn, MayPropose, SaveSurvey
    <3>2. QED
      BY <3>1 DEF OpeningIsStamped, Exists
  <2>3. QED
    BY <1>3, <2>1, <2>2 DEF RespondentStep
<1>4. CASE Tick \/ UNCHANGED vars
  BY <1>4 DEF Tick, vars, survey, OpeningIsStamped
<1>5. QED
  BY <1>1, <1>2, <1>3, <1>4 DEF Next

\* How a step changes the responses: not at all, by emptying them at the first
\* publication or at deletion, or by one submission.  Only at deletion are options
\* unlisted.
LEMMA ResponseSteps ==
  ASSUME TypeOK, OpeningIsStamped, [Next]_vars
  PROVE  \/ /\ UNCHANGED <<opened, responses>>
            /\ state' = "deleted" <=> state = "deleted"
            /\ Listed(status) \subseteq Listed(status')
         \/ /\ state' = "deleted" /\ state # "deleted" /\ OffBallots(status') = {}
            /\ ClearResponses
         \/ /\ ~opened /\ opened' /\ state # "deleted" /\ state' # "deleted"
            /\ UNCHANGED status
            /\ ClearResponses
         \/ /\ UNCHANGED <<opened, state>> /\ state # "deleted"
            /\ \E stat \in [OptionId -> OptionStatuses], v \in Voter :
               \E picks, text, preview, allowPending :
                 /\ Listed(status) \subseteq Listed(stat)
                 /\ status' = stat /\ OffBallots(stat) = OffBallots(status)
                 /\ SaveResponseTx(stat, v, picks, text, allowPending, preview)
<1> DEFINE Quiet == UNCHANGED <<opened, responses>>
                    /\ (state' = "deleted" <=> state = "deleted")
                    /\ Listed(status) \subseteq Listed(status')
           Gone  == /\ state' = "deleted" /\ state # "deleted"
                    /\ OffBallots(status') = {}
                    /\ ClearResponses
           Live  == /\ ~opened /\ opened' /\ state # "deleted" /\ state' # "deleted"
                    /\ UNCHANGED status
                    /\ ClearResponses
           Saved == /\ UNCHANGED <<opened, state>> /\ state # "deleted"
                    /\ \E stat \in [OptionId -> OptionStatuses], v \in Voter :
                       \E picks, text, preview, allowPending :
                         /\ Listed(status) \subseteq Listed(stat)
                         /\ status' = stat /\ OffBallots(stat) = OffBallots(status)
                         /\ SaveResponseTx(stat, v, picks, text, allowPending, preview)
<1>0. /\ opened \in BOOLEAN
      /\ status \in [OptionId -> OptionStatuses]
      /\ state = "open" => opened
      /\ state = "none" => ~opened
  BY DEF TypeOK, OpeningIsStamped
<1>1. ASSUME NEW opts \in SUBSET OptionId, CreateSurvey(opts)
      PROVE  Quiet
  <2>1. status' = AddOptions(status, opts, "approved")
    BY <1>1 DEF CreateSurvey, SaveSurvey
  <2>2. QED
    BY <1>0, <1>1, <2>1, ListedGrows DEF CreateSurvey, SaveSurvey
<1>2. ASSUME NEW remove, NEW new, NEW s, NEW close, EditSave(remove, new, s, close)
      PROVE  Quiet
  <2>1. \A o \in OptionId : status[o] # "absent" => status'[o] # "absent"
    BY <1>2 DEF EditSave, SaveSurvey, AddOptions
  <2>2. QED
    BY <1>0, <1>2, <2>1 DEF EditSave, SaveSurvey, Listed
<1>3. ASSUME NEW newState \in StateChoices, SetState(newState)
      PROVE  Quiet
  BY <1>0, <1>3, RequestsAssumption DEF SetState, SaveSurvey, Exists
<1>4. ASSUME Publish
      PROVE  Quiet \/ Live
  BY <1>0, <1>4 DEF Publish, SaveSurvey, Exists
<1>5. ASSUME DeleteSurvey
      PROVE  Gone
  BY <1>5 DEF DeleteSurvey, Exists, OffBallots
<1>6. ASSUME NEW o \in OptionId, NEW stat \in {"approved", "rejected", "removed"},
             SetOptionStatus(o, stat)
      PROVE  Quiet
  BY <1>0, <1>6 DEF SetOptionStatus, SaveSurvey, Listed
<1>7. ASSUME NEW o \in OptionId, NEW target \in OptionId, Merge(o, target)
      PROVE  Quiet
  BY <1>0, <1>7 DEF Merge, SaveSurvey, Listed
<1>8. ASSUME NEW v \in Voter, NEW picks, NEW text, NEW preview,
             SaveResponse(v, picks, text, preview)
      PROVE  Saved
  BY <1>0, <1>8 DEF SaveResponse, Exists, survey, options
<1>9. ASSUME NEW v \in Voter, NEW o \in OptionId, NEW preview, AddWriteIn(v, o, preview)
      PROVE  Saved
  <2> DEFINE stat == AddOptions(status, {o}, "pending")
  <2>1. stat \in [OptionId -> OptionStatuses] /\ Listed(status) \subseteq Listed(stat)
    <3>1. stat \in [OptionId -> OptionStatuses]
      BY <1>0 DEF AddOptions, OptionStatuses
    <3>2. QED
      BY <3>1, ListedGrows
  <2>2. /\ SaveResponseTx(stat, v, choices[v] \cup {o}, comment[v], o, preview)
        /\ UNCHANGED <<opened, state>> /\ state # "deleted" /\ status' = stat
    BY <1>0, <1>9 DEF AddWriteIn, MayPropose, SaveSurvey, Exists
  <2>3. OffBallots(stat) = OffBallots(status)
    BY <1>9 DEF AddWriteIn, AddOptions, OffBallots
  <2> HIDE DEF stat
  <2>4. QED
    BY <2>1, <2>2, <2>3
<1>10. Tick \/ UNCHANGED vars => Quiet
  BY DEF Tick, vars, survey, options
<1> HIDE DEF Quiet, Gone, Live, Saved
<1>11. EditorStep => Quiet \/ Live \/ Gone
  BY <1>1, <1>2, <1>3, <1>4, <1>5 DEF EditorStep
<1>12. ModeratorStep => Quiet
  BY <1>6, <1>7 DEF ModeratorStep
<1>13. RespondentStep => Saved
  BY <1>8, <1>9 DEF RespondentStep
<1>14. Quiet \/ Gone \/ Live \/ Saved
  BY <1>10, <1>11, <1>12, <1>13 DEF Next
<1>15. QED
  BY <1>14 DEF Quiet, Gone, Live, Saved

\* Every vote stays shown and every exposure listed, whatever is private.
LEMMA StepShown ==
  ASSUME TypeOK, OpeningIsStamped, ChoicesWereShown, [Next]_vars
  PROVE  ChoicesWereShown'
<1>1. CASE UNCHANGED responses /\ Listed(status) \subseteq Listed(status')
  BY <1>1 DEF responses, ChoicesWereShown, Listed
<1>2. CASE ClearResponses
  BY <1>2 DEF ClearResponses, ChoicesWereShown
<1>3. ASSUME NEW stat \in [OptionId -> OptionStatuses], NEW v \in Voter,
             NEW picks, NEW text, NEW preview, NEW allowPending,
             Listed(status) \subseteq Listed(stat), status' = stat,
             SaveResponseTx(stat, v, picks, text, allowPending, preview)
      PROVE  ChoicesWereShown'
  BY <1>3, SaveKeepsChoicesShown
<1>4. QED
  BY <1>1, <1>2, <1>3, ResponseSteps

\* One submission adds one respondent.
LEMMA StepFinite ==
  ASSUME TypeOK, OpeningIsStamped, IsFiniteSet(answered), [Next]_vars
  PROVE  IsFiniteSet(answered')
<1>1. answered' = answered \/ answered' = {} \/ \E v \in Voter : answered' = answered \cup {v}
  BY ResponseSteps DEF responses, ClearResponses, SaveResponseTx
<1>2. ASSUME NEW v \in Voter
      PROVE  IsFiniteSet(answered \cup {v})
  BY FS_AddElement
<1>3. QED
  BY <1>1, <1>2, FS_EmptySet

\* Saving a response shows v no pending option but v's own.
LEMMA SaveKeepsPendingPrivate ==
  ASSUME TypeOK, ChoicesWereShown,
         NEW stat \in [OptionId -> OptionStatuses],
         Listed(status) \subseteq Listed(stat), status' = stat,
         NEW v \in Voter, NEW picks, NEW text, NEW allowPending, NEW preview,
         SaveResponseTx(stat, v, picks, text, allowPending, preview),
         \A o \in OptionId, w \in Voter :
            stat[o] = "pending" /\ (o \in seen[w] \/ (w = v /\ o = allowPending))
              => author'[o] = w
  PROVE  PendingIsPrivate'
<1> DEFINE ballot == VisibleTo(stat, v, allowPending)
<1>1. seen' = [seen EXCEPT ![v] = @ \cup ballot]
  BY SaveResponseEffect
<1> SUFFICES ASSUME NEW o \in OptionId, stat[o] = "pending",
                    NEW w \in Voter, o \in seen'[w]
             PROVE  author'[o] = w
  BY DEF PendingIsPrivate, PendingOptions
<1>2. CASE o \in seen[w]
  BY <1>2
<1>3. CASE o \notin seen[w]
  <2>1. w = v /\ o \in ballot
    BY <1>1, <1>3 DEF TypeOK
  <2>2. o = allowPending \/ o \in choices[v]
    BY <2>1 DEF VisibleTo
  <2>3. choices[v] \subseteq seen[v]
    BY DEF ChoicesWereShown
  <2>4. QED
    BY <1>3, <2>1, <2>2, <2>3
<1>4. QED
  BY <1>2, <1>3

\* A change to the options that unlists nothing and puts nothing into moderation
\* leaves both exposure properties as they were.
LEMMA OptionsOnlyStep ==
  ASSUME TypeOK, ChoicesWereShown, PendingIsPrivate,
         UNCHANGED responses,
         Listed(status) \subseteq Listed(status)',
         \A o \in OptionId : status'[o] = "pending" =>
            status[o] = "pending" /\ author'[o] = author[o]
  PROVE  ChoicesWereShown' /\ PendingIsPrivate'
<1>1. answered' = answered /\ choices' = choices /\ seen' = seen
  BY DEF responses
<1>2. ChoicesWereShown'
  BY <1>1 DEF ChoicesWereShown
<1>3. PendingIsPrivate'
  BY <1>1 DEF PendingIsPrivate, PendingOptions
<1>4. QED
  BY <1>2, <1>3

\* Exposure and privacy survive every step.
LEMMA StepExposure ==
  ASSUME TypeOK, ChoicesWereShown, PendingIsPrivate, [Next]_vars
  PROVE  ChoicesWereShown' /\ PendingIsPrivate'
<1>1. ASSUME NEW opts \in SUBSET OptionId, CreateSurvey(opts)
      PROVE  ChoicesWereShown' /\ PendingIsPrivate'
  <2>1. status' = AddOptions(status, opts, "approved") /\ author' = author
        /\ UNCHANGED responses
    BY <1>1 DEF CreateSurvey, SaveSurvey
  <2>2. Listed(status)' = Listed(status')
    BY DEF Listed
  <2>3. Listed(status) \subseteq Listed(status)'
    BY <2>1, <2>2, ListedGrows
  <2>4. QED
    BY <2>1, <2>3, OptionsOnlyStep DEF AddOptions
<1>2. ASSUME NEW remove, NEW new, NEW s, NEW close, EditSave(remove, new, s, close)
      PROVE  ChoicesWereShown' /\ PendingIsPrivate'
  <2>1. UNCHANGED responses
    BY <1>2 DEF EditSave
  <2>2. ASSUME NEW o \in OptionId
        PROVE  /\ status[o] # "absent" => status'[o] # "absent"
               /\ status'[o] = "pending" => status[o] = "pending" /\ author'[o] = author[o]
    <3>1. status'[o] = IF o \in new THEN "approved"
                       ELSE IF status[o] \notin {"approved", "removed"} THEN status[o]
                       ELSE IF o \in remove THEN "removed" ELSE "approved"
      BY <1>2 DEF EditSave, SaveSurvey, AddOptions
    <3>2. author'[o] = IF o \in new THEN Editor ELSE author[o]
      BY <1>2 DEF EditSave
    <3>3. QED
      BY <3>1, <3>2
  <2>3. Listed(status) \subseteq Listed(status)'
    BY <2>2 DEF Listed
  <2>4. QED
    BY <2>1, <2>2, <2>3, OptionsOnlyStep
<1>3. ASSUME NEW newState, SetState(newState)
      PROVE  ChoicesWereShown' /\ PendingIsPrivate'
  BY <1>3, OptionsOnlyStep DEF SetState, SaveSurvey, Listed
<1>4. ASSUME Publish
      PROVE  ChoicesWereShown' /\ PendingIsPrivate'
  <2>1. status' = status /\ author' = author
    BY <1>4 DEF Publish, SaveSurvey
  <2>2. CASE opened
    BY <1>4, <2>1, <2>2, OptionsOnlyStep DEF Publish, Listed
  <2>3. CASE ~opened
    <3>1. choices' = [v \in Voter |-> {}] /\ seen' = [v \in Voter |-> {}]
      BY <1>4, <2>3 DEF Publish, ClearResponses
    <3>2. QED
      BY <3>1 DEF ChoicesWereShown, PendingIsPrivate, PendingOptions
  <2>4. QED
    BY <2>2, <2>3
<1>5. ASSUME DeleteSurvey
      PROVE  ChoicesWereShown' /\ PendingIsPrivate'
  <2>1. choices' = [v \in Voter |-> {}] /\ seen' = [v \in Voter |-> {}]
    BY <1>5 DEF DeleteSurvey, ClearResponses
  <2>2. QED
    BY <2>1 DEF ChoicesWereShown, PendingIsPrivate, PendingOptions
<1>6. ASSUME NEW o \in OptionId, NEW stat \in {"approved", "rejected", "removed"},
             SetOptionStatus(o, stat)
      PROVE  ChoicesWereShown' /\ PendingIsPrivate'
  <2>1. UNCHANGED responses /\ author' = author
    BY <1>6 DEF SetOptionStatus
  <2>2. status' = [status EXCEPT ![o] = stat]
    BY <1>6 DEF SetOptionStatus, SaveSurvey
  <2>3. QED
    BY <2>1, <2>2, OptionsOnlyStep DEF Listed, TypeOK
<1>7. ASSUME NEW o \in OptionId, NEW target \in OptionId, Merge(o, target)
      PROVE  ChoicesWereShown' /\ PendingIsPrivate'
  <2>1. UNCHANGED responses /\ author' = author
    BY <1>7 DEF Merge
  <2>2. status' = [status EXCEPT ![o] = "merged"]
    BY <1>7 DEF Merge, SaveSurvey
  <2>3. QED
    BY <2>1, <2>2, OptionsOnlyStep DEF Listed, TypeOK
<1>8. ASSUME NEW v \in Voter, NEW picks, NEW text, NEW preview,
             SaveResponse(v, picks, text, preview)
      PROVE  ChoicesWereShown' /\ PendingIsPrivate'
  <2>1. /\ SaveResponseTx(status, v, picks, text, NoOption, preview)
        /\ status' = status /\ author' = author
        /\ status \in [OptionId -> OptionStatuses]
    BY <1>8 DEF SaveResponse, options, TypeOK
  <2>2. ChoicesWereShown'
    BY <2>1, SaveKeepsChoicesShown
  <2>3. \A o \in OptionId, w \in Voter :
           status[o] = "pending" /\ (o \in seen[w] \/ (w = v /\ o = NoOption))
             => author'[o] = w
    BY <2>1, OptionsAssumption DEF PendingIsPrivate, PendingOptions
  <2>4. PendingIsPrivate'
    BY <2>1, <2>3, SaveKeepsPendingPrivate
  <2>5. QED
    BY <2>2, <2>4
<1>9. ASSUME NEW v \in Voter, NEW o \in OptionId, NEW preview, AddWriteIn(v, o, preview)
      PROVE  ChoicesWereShown' /\ PendingIsPrivate'
  <2> DEFINE stat == AddOptions(status, {o}, "pending")
  <2>1. /\ SaveResponseTx(stat, v, choices[v] \cup {o}, comment[v], o, preview)
        /\ status' = stat /\ author' = [author EXCEPT ![o] = v]
        /\ status[o] = "absent"
    BY <1>9 DEF AddWriteIn, MayPropose, SaveSurvey
  <2>2. stat \in [OptionId -> OptionStatuses]
    BY DEF AddOptions, TypeOK, OptionStatuses
  <2>3. Listed(status) \subseteq Listed(stat)
    BY ListedGrows
  <2>4. ASSUME NEW x \in OptionId, NEW w \in Voter,
               stat[x] = "pending", x \in seen[w] \/ (w = v /\ x = o)
        PROVE  author'[x] = w
    <3>1. CASE x = o
      <4>1. x \notin seen[w]
        BY <2>1, <3>1 DEF ChoicesWereShown, Listed
      <4>2. QED
        BY <2>1, <2>4, <3>1, <4>1 DEF TypeOK
    <3>2. CASE x # o
      <4>1. status[x] = "pending"
        BY <2>4, <3>2 DEF AddOptions
      <4>2. author'[x] = author[x]
        BY <2>1, <3>2 DEF TypeOK
      <4>3. QED
        BY <2>4, <3>2, <4>1, <4>2 DEF PendingIsPrivate, PendingOptions
    <3>3. QED
      BY <3>1, <3>2
  <2> HIDE DEF stat
  <2>5. ChoicesWereShown'
    BY <2>1, <2>2, <2>3, SaveKeepsChoicesShown
  <2>6. PendingIsPrivate'
    BY <2>1, <2>2, <2>3, <2>4, SaveKeepsPendingPrivate
  <2>7. QED
    BY <2>5, <2>6
<1>10. CASE Tick \/ UNCHANGED vars
  <2>1. UNCHANGED <<status, author, answered, choices, seen>>
    BY <1>10 DEF Tick, vars, options, responses
  <2>2. QED
    BY <2>1 DEF ChoicesWereShown, PendingIsPrivate, PendingOptions, Listed
<1>11. CASE EditorStep
  BY <1>1, <1>2, <1>3, <1>4, <1>5, <1>11 DEF EditorStep
<1>12. CASE ModeratorStep
  BY <1>6, <1>7, <1>12 DEF ModeratorStep
<1>13. CASE RespondentStep
  BY <1>8, <1>9, <1>13 DEF RespondentStep
<1>14. QED
  BY <1>10, <1>11, <1>12, <1>13 DEF Next

\* A step that merges nothing new and unlists nothing leaves merges well founded.
LEMMA MergesShrink ==
  ASSUME TypeOK, MergesEnd,
         \A o \in OptionId : status'[o] = "merged" =>
            /\ status[o] = "merged"
            /\ mergedInto'[o] = mergedInto[o]
            /\ mergedInto[o] \in Listed(status) => mergedInto[o] \in Listed(status)'
  PROVE  MergesEnd'
<1>1. ASSUME NEW o \in OptionId, status'[o] = "merged"
      PROVE  mergedInto'[o] \in Listed(status)'
  BY <1>1 DEF MergesEnd
<1>2. ASSUME NEW S \in SUBSET {o \in OptionId : status'[o] = "merged"}, S # {}
      PROVE  \E o \in S : mergedInto'[o] \notin S
  <2>1. S \in SUBSET {o \in OptionId : status[o] = "merged"}
    BY <1>2
  <2>2. PICK o \in S : mergedInto[o] \notin S
    BY <1>2, <2>1 DEF MergesEnd
  <2>3. QED
    BY <1>2, <2>2
<1>3. QED
  BY <1>1, <1>2 DEF MergesEnd

\* Merging into an option that is not merged cannot close a cycle: a set of
\* merged options that gains the new one has a member pointing out of it, since
\* the target is in no such set.
LEMMA MergeKeepsMergesEnd ==
  ASSUME TypeOK, MergesEnd, NEW m \in OptionId, NEW target \in OptionId, Merge(m, target)
  PROVE  MergesEnd'
<1>1. /\ status' = [status EXCEPT ![m] = "merged"]
      /\ mergedInto' = [mergedInto EXCEPT ![m] = target]
      /\ target # m /\ status[target] # "absent" /\ status[target] # "merged"
  BY DEF Merge, SaveSurvey
<1>2. ASSUME NEW o \in OptionId, status'[o] = "merged"
      PROVE  mergedInto'[o] \in Listed(status)'
  <2>1. Listed(status) \subseteq Listed(status)'
    BY <1>1 DEF Listed, TypeOK
  <2>2. CASE o = m
    BY <1>1, <2>1, <2>2 DEF Listed, TypeOK
  <2>3. CASE o # m
    BY <1>1, <1>2, <2>1, <2>3 DEF TypeOK, MergesEnd
  <2>4. QED
    BY <2>2, <2>3
<1>3. ASSUME NEW S \in SUBSET {o \in OptionId : status'[o] = "merged"}, S # {}
      PROVE  \E o \in S : mergedInto'[o] \notin S
  <2>1. CASE m \in S
    <3>1. target \notin S
      BY <1>1 DEF TypeOK
    <3>2. mergedInto'[m] = target
      BY <1>1 DEF TypeOK
    <3>3. QED
      BY <2>1, <3>1, <3>2
  <2>2. CASE m \notin S
    <3>1. S \in SUBSET {o \in OptionId : status[o] = "merged"}
      BY <1>1, <2>2 DEF TypeOK
    <3>2. PICK o \in S : mergedInto[o] \notin S
      BY <1>3, <3>1 DEF MergesEnd
    <3>3. mergedInto'[o] = mergedInto[o]
      BY <1>1, <2>2, <3>2 DEF TypeOK
    <3>4. QED
      BY <3>2, <3>3
  <2>3. QED
    BY <2>1, <2>2
<1>4. QED
  BY <1>2, <1>3 DEF MergesEnd

\* Merge pointers go nowhere new: what is merged was, into the same option.
MergesKept ==
  \A o \in OptionId : status'[o] = "merged" =>
    /\ status[o] = "merged"
    /\ mergedInto'[o] = mergedInto[o]
    /\ mergedInto[o] \in Listed(status) => mergedInto[o] \in Listed(status)'

\* Merge alone merges an option or moves a pointer.
LEMMA OnlyMergesMerge ==
  ASSUME TypeOK, [Next]_vars
  PROVE  MergesKept \/ \E o, target \in OptionId : Merge(o, target)
<1>1. ASSUME NEW opts \in SUBSET OptionId, CreateSurvey(opts)
      PROVE  MergesKept
  <2>1. mergedInto' = mergedInto /\ status' = AddOptions(status, opts, "approved")
    BY <1>1 DEF CreateSurvey, SaveSurvey
  <2>2. QED
    BY <2>1 DEF AddOptions, Listed, TypeOK, MergesKept
<1>2. ASSUME NEW remove, NEW new, NEW s, NEW close, EditSave(remove, new, s, close)
      PROVE  MergesKept
  <2>1. mergedInto' = mergedInto
        /\ status' = [o \in OptionId |->
                        IF o \in new THEN "approved"
                        ELSE IF status[o] \notin {"approved", "removed"} THEN status[o]
                        ELSE IF o \in remove THEN "removed" ELSE "approved"]
    BY <1>2 DEF EditSave, SaveSurvey, AddOptions
  <2>2. QED
    BY <2>1 DEF Listed, TypeOK, MergesKept
<1>3. ASSUME NEW newState, SetState(newState)
      PROVE  MergesKept
  BY <1>3 DEF SetState, SaveSurvey, Listed, MergesKept
<1>4. ASSUME Publish
      PROVE  MergesKept
  BY <1>4 DEF Publish, SaveSurvey, Listed, MergesKept
<1>5. ASSUME DeleteSurvey
      PROVE  MergesKept
  BY <1>5 DEF DeleteSurvey, MergesKept
<1>6. ASSUME NEW o \in OptionId, NEW stat \in {"approved", "rejected", "removed"},
             SetOptionStatus(o, stat)
      PROVE  MergesKept
  BY <1>6 DEF SetOptionStatus, SaveSurvey, Listed, TypeOK, MergesKept
<1>7. ASSUME NEW v \in Voter, NEW picks, NEW text, NEW preview,
             SaveResponse(v, picks, text, preview)
      PROVE  MergesKept
  BY <1>7 DEF SaveResponse, options, Listed, MergesKept
<1>8. ASSUME NEW v \in Voter, NEW o \in OptionId, NEW preview, AddWriteIn(v, o, preview)
      PROVE  MergesKept
  <2>1. mergedInto' = mergedInto /\ status' = AddOptions(status, {o}, "pending")
    BY <1>8 DEF AddWriteIn, SaveSurvey
  <2>2. QED
    BY <2>1 DEF AddOptions, Listed, TypeOK, MergesKept
<1>9. CASE Tick \/ UNCHANGED vars
  BY <1>9 DEF Tick, vars, options, Listed, MergesKept
<1>10. CASE EditorStep
  BY <1>1, <1>2, <1>3, <1>4, <1>5, <1>10 DEF EditorStep
<1>11. CASE ModeratorStep
  BY <1>6, <1>11 DEF ModeratorStep
<1>12. CASE RespondentStep
  BY <1>7, <1>8, <1>12 DEF RespondentStep
<1>13. QED
  BY <1>9, <1>10, <1>11, <1>12 DEF Next

LEMMA StepMerges ==
  ASSUME TypeOK, MergesEnd, [Next]_vars
  PROVE  MergesEnd'
<1>1. CASE MergesKept
  BY <1>1, MergesShrink DEF MergesKept
<1>2. ASSUME NEW o \in OptionId, NEW target \in OptionId, Merge(o, target)
      PROVE  MergesEnd'
  BY <1>2, MergeKeepsMergesEnd
<1>3. QED
  BY <1>1, <1>2, OnlyMergesMerge

\* A response saved as real is saved on a survey that has been open.
LEMMA SaveLifecycle ==
  ASSUME TypeOK, NeverOpenedHoldsOnlyPreviews, Exists,
         NEW stat, NEW v \in Voter, NEW picks, NEW text, NEW allowPending,
         NEW preview \in BOOLEAN, AcceptingFrom(preview),
         SaveResponseTx(stat, v, picks, text, allowPending, preview),
         state' = state, opened' = opened
  PROVE  NeverOpenedHoldsOnlyPreviews'
<1>1. answered' = answered \cup {v}
      /\ origin' = [origin EXCEPT ![v] = IF preview THEN "preview" ELSE "public"]
  BY DEF SaveResponseTx
<1>2. state # "none" /\ (~opened => preview)
  BY DEF Exists, AcceptingFrom, Accepting, NeverOpenedHoldsOnlyPreviews
<1>3. \A w \in Voter : origin'[w] = "none" <=> w \notin answered'
  BY <1>1 DEF NeverOpenedHoldsOnlyPreviews, TypeOK
<1>4. ~opened => \A w \in answered' : origin'[w] = "preview"
  BY <1>1, <1>2 DEF NeverOpenedHoldsOnlyPreviews, TypeOK
<1>5. QED
  BY <1>2, <1>3, <1>4 DEF NeverOpenedHoldsOnlyPreviews

LEMMA StepLifecycle ==
  ASSUME TypeOK, IsFiniteSet(answered), NeverOpenedHoldsOnlyPreviews, [Next]_vars
  PROVE  NeverOpenedHoldsOnlyPreviews' /\ IsFiniteSet(answered')
<1> DEFINE Good == NeverOpenedHoldsOnlyPreviews' /\ IsFiniteSet(answered')
<1>1. ASSUME NEW opts, CreateSurvey(opts)
      PROVE  Good
  BY <1>1 DEF CreateSurvey, SaveSurvey, responses, NeverOpenedHoldsOnlyPreviews
<1>2. ASSUME NEW remove, NEW new, NEW s, NEW close, EditSave(remove, new, s, close)
      PROVE  Good
  BY <1>2 DEF EditSave, SaveSurvey, Exists, responses, NeverOpenedHoldsOnlyPreviews
<1>3. ASSUME NEW newState \in StateChoices, SetState(newState)
      PROVE  Good
  BY <1>3, RequestsAssumption
     DEF SetState, SaveSurvey, Exists, responses, NeverOpenedHoldsOnlyPreviews
<1>4. ASSUME Publish
      PROVE  Good
  <2>1. state' = "open" /\ opened'
    BY <1>4 DEF Publish, SaveSurvey
  <2>2. CASE opened
    BY <1>4, <2>1, <2>2 DEF Publish, responses, NeverOpenedHoldsOnlyPreviews
  <2>3. CASE ~opened
    <3>1. answered' = {} /\ origin' = [v \in Voter |-> "none"]
      BY <1>4, <2>3 DEF Publish, ClearResponses
    <3>2. QED
      BY <2>1, <3>1, FS_EmptySet DEF NeverOpenedHoldsOnlyPreviews
  <2>4. QED
    BY <2>2, <2>3
<1>5. ASSUME DeleteSurvey
      PROVE  Good
  <2>1. state' = "deleted" /\ answered' = {} /\ origin' = [v \in Voter |-> "none"]
    BY <1>5 DEF DeleteSurvey, ClearResponses
  <2>2. QED
    BY <2>1, FS_EmptySet DEF NeverOpenedHoldsOnlyPreviews
<1>6. ASSUME NEW o, NEW stat, SetOptionStatus(o, stat)
      PROVE  Good
  BY <1>6 DEF SetOptionStatus, SaveSurvey, Exists, responses, NeverOpenedHoldsOnlyPreviews
<1>7. ASSUME NEW o, NEW target, Merge(o, target)
      PROVE  Good
  BY <1>7 DEF Merge, SaveSurvey, Exists, responses, NeverOpenedHoldsOnlyPreviews
<1>8. ASSUME NEW v \in Voter, NEW picks, NEW text, NEW preview \in BOOLEAN,
             SaveResponse(v, picks, text, preview)
      PROVE  Good
  <2>1. NeverOpenedHoldsOnlyPreviews'
    BY <1>8, SaveLifecycle DEF SaveResponse, survey
  <2>2. answered' = answered \cup {v}
    BY <1>8 DEF SaveResponse, SaveResponseTx
  <2>3. QED
    BY <2>1, <2>2, FS_AddElement
<1>9. ASSUME NEW v \in Voter, NEW o, NEW preview \in BOOLEAN, AddWriteIn(v, o, preview)
      PROVE  Good
  <2> DEFINE stat == AddOptions(status, {o}, "pending")
  <2>1. /\ SaveResponseTx(stat, v, choices[v] \cup {o}, comment[v], o, preview)
        /\ Exists /\ AcceptingFrom(preview)
        /\ state' = state /\ opened' = (opened \/ state = "open")
    BY <1>9 DEF AddWriteIn, MayPropose, SaveSurvey
  <2>2. opened' = opened
    BY <2>1 DEF NeverOpenedHoldsOnlyPreviews, TypeOK
  <2>3. NeverOpenedHoldsOnlyPreviews'
    BY <2>1, <2>2, SaveLifecycle
  <2>4. answered' = answered \cup {v}
    BY <2>1 DEF SaveResponseTx
  <2>5. QED
    BY <2>3, <2>4, FS_AddElement
<1>10. CASE Tick \/ UNCHANGED vars
  BY <1>10 DEF Tick, vars, survey, responses, NeverOpenedHoldsOnlyPreviews
<1> HIDE DEF Good
<1>11. EditorStep => Good
  BY <1>1, <1>2, <1>3, <1>4, <1>5 DEF EditorStep
<1>12. ModeratorStep => Good
  BY <1>6, <1>7 DEF ModeratorStep
<1>13. RespondentStep => Good
  BY <1>8, <1>9, RequestsAssumption DEF RespondentStep
<1>14. QED
  BY <1>10, <1>11, <1>12, <1>13 DEF Next, Good

LEMMA InitInv == Init => Inv
<1> SUFFICES ASSUME Init PROVE Inv
  OBVIOUS
<1>1. TypeOK
  BY InitType
<1>2. IsFiniteSet(answered)
  BY FS_EmptySet DEF Init
<1>3. ChoicesWereShown /\ PendingIsPrivate
  BY DEF Init, ChoicesWereShown, PendingIsPrivate, PendingOptions
<1>4. MergesEnd
  BY DEF Init, MergesEnd
<1>5. NeverOpenedHoldsOnlyPreviews
  BY DEF Init, NeverOpenedHoldsOnlyPreviews
<1>6. QED
  BY <1>1, <1>2, <1>3, <1>4, <1>5 DEF Inv

LEMMA StepInv == Inv /\ [Next]_vars => Inv'
BY StepType, StepExposure, StepMerges, StepLifecycle DEF Inv

\* The inductive invariant holds of every behaviour.
THEOREM Invariance == Spec => []Inv
BY InitInv, StepInv, PTL DEF Spec

-----------------------------------------------------------------------------
(* What Resolve comes to                                                   *)

\* Induction over numbers without an operator for what is proved: a finite set of
\* numbers has a least one, since finite sets are well founded under
\* inclusion, and 0..k is contained in 0..m only when k <= m.
LEMMA LeastNumber ==
  ASSUME NEW M \in Nat, NEW S \in SUBSET (0..M), S # {}
  PROVE  \E m \in S : \A k \in S : m <= k
<1> DEFINE T == {0..k : k \in S}
<1>1. T \subseteq FiniteSubsetsOf(0..M) /\ T # {}
  <2>1. \A k \in S : 0..k \in SUBSET (0..M) /\ IsFiniteSet(0..k)
    BY FS_Interval
  <2>2. QED
    BY <2>1 DEF FiniteSubsetsOf
<1>2. PICK t \in T : \A u \in T : <<u, t>> \notin StrictSubsetOrdering(0..M)
  <2> HIDE DEF T
  <2>1. QED
    BY <1>1, FS_StrictSubsetOrderingWellFounded, WFMin
<1>3. PICK m \in S : t = 0..m
  OBVIOUS
<1>4. ASSUME NEW k \in S, k < m PROVE FALSE
  <2>1. 0..k \in T /\ 0..k \subseteq 0..m /\ m \in 0..m /\ m \notin 0..k
    BY <1>4
  <2>2. <<0..k, 0..m>> \in StrictSubsetOrdering(0..M)
    BY <2>1 DEF StrictSubsetOrdering
  <2>3. QED
    BY <1>2, <1>3, <2>1, <2>2
<1>5. QED
  BY <1>4

\* A set that has 0, and each next number up to M, has them all.
LEMMA CountingUp ==
  ASSUME NEW M \in Nat, NEW S,
         0 \in S, \A n \in 0..M : n \in S /\ n < M => n + 1 \in S
  PROVE  0..M \subseteq S
<1> SUFFICES ASSUME (0..M) \ S # {} PROVE FALSE
  OBVIOUS
<1>1. PICK m \in (0..M) \ S : \A k \in (0..M) \ S : m <= k
  <2>1. (0..M) \ S \in SUBSET (0..M)
    OBVIOUS
  <2>2. QED
    BY <2>1, LeastNumber
<1>2. m # 0 /\ m - 1 \in 0..M /\ m - 1 < m /\ m - 1 < M
  OBVIOUS
<1>3. m - 1 \in S
  BY <1>1, <1>2
<1>4. (m - 1) + 1 \in S
  BY <1>2, <1>3
<1>5. QED
  BY <1>4

\* f starts with base, and each value follows from the one before it.
Iterates(f, M, V, base, G) ==
  /\ f \in [0..M -> V]
  /\ f[0] = base
  /\ \A n \in 1..M : f[n] = G[f[n - 1]]

\* A function can be defined by its first value and by how the next one follows.
LEMMA RecursionExists ==
  ASSUME NEW M \in Nat, NEW V, NEW base \in V, NEW G \in [V -> V]
  PROVE  \E f : Iterates(f, M, V, base, G)
<1> DEFINE Upto(m, f) == f[0] = base /\ \A n \in 1..m : f[n] = G[f[n - 1]]
           S == {m \in 0..M : \E f \in [0..M -> V] : Upto(m, f)}
<1>1. 0 \in S
  <2>1. [n \in 0..M |-> base] \in [0..M -> V] /\ Upto(0, [n \in 0..M |-> base])
    OBVIOUS
  <2>2. \E f \in [0..M -> V] : Upto(0, f)
    BY <2>1
  <2>3. QED
    BY <2>2
<1>2. ASSUME NEW m \in 0..M, m \in S, m < M PROVE m + 1 \in S
  <2>1. PICK f \in [0..M -> V] : Upto(m, f)
    BY <1>2
  <2> DEFINE g == [f EXCEPT ![m + 1] = G[f[m]]]
  <2>2. g \in [0..M -> V]
    OBVIOUS
  <2>3. g[0] = base
    BY <2>1
  <2>4. ASSUME NEW n \in 1..(m + 1) PROVE g[n] = G[g[n - 1]]
    <3>1. CASE n = m + 1
      BY <3>1, <1>2
    <3>2. CASE n # m + 1
      <4>1. n \in 1..m /\ n - 1 \in 0..M /\ n - 1 # m + 1 /\ n \in 0..M
        BY <3>2
      <4>2. QED
        BY <2>1, <4>1, <3>2
    <3>3. QED
      BY <3>1, <3>2
  <2>5. Upto(m + 1, g) /\ m + 1 \in 0..M
    BY <2>3, <2>4, <1>2
  <2>6. QED
    BY <2>2, <2>5
<1>3. M \in S
  <2> HIDE DEF S
  <2>1. 0..M \subseteq S
    BY <1>1, <1>2, CountingUp
  <2>2. QED
    BY <2>1
<1>4. QED
  BY <1>3 DEF Iterates

\* The condition under which the loop of Resolve goes on.
Follows(o) == status[o] = "merged" /\ mergedInto[o] # NoOption
Ends == [to : OptionId, counts : BOOLEAN]
AtEnd(o) == [to |-> o, counts |-> status[o] = "approved"]

\* One pass of the loop, from o, with n passes left and rest what they come to.
Pass(n, o, rest) ==
  IF status[o] = "merged" /\ mergedInto[o] # NoOption
  THEN IF n = 0 THEN [to |-> mergedInto[o], counts |-> FALSE] ELSE rest
  ELSE AtEnd(o)

\* The loop is never given more passes than this, and in this state Passes.
MostPasses == Cardinality(OptionId)
Passes == Cardinality(Listed(status))

LEMMA MostIsNat == MostPasses \in Nat
BY FS_CardinalityType, OptionsAssumption DEF MostPasses

\* A pass comes to an option, also by pointers that lead to no listed one.
LEMMA PassTypes ==
  ASSUME TypeOK, NEW o \in OptionId, NEW n, NEW g \in [OptionId -> Ends]
  PROVE  Pass(n, o, g[mergedInto[o]]) \in Ends
BY DEF TypeOK, Ends, Pass, AtEnd

\* Walk is the function its recursive definition describes.
LEMMA WalkIsComputed ==
  ASSUME TypeOK
  PROVE  Walk = [n \in 0..MostPasses |->
                   [o \in OptionId |-> Pass(n, o, Walk[n - 1][mergedInto[o]])]]
<1> DEFINE V == [OptionId -> Ends]
           any == [o \in OptionId |-> AtEnd(o)]
           base == [o \in OptionId |-> Pass(0, o, any[mergedInto[o]])]
           G == [g \in V |-> [o \in OptionId |-> Pass(1, o, g[mergedInto[o]])]]
           Def(f) == [n \in 0..MostPasses |->
                        [o \in OptionId |-> Pass(n, o, f[n - 1][mergedInto[o]])]]
<1>1. base \in V /\ G \in [V -> V]
  <2>1. any \in V
    BY DEF Ends, AtEnd
  <2>2. QED
    BY <2>1, PassTypes
<1>2. PICK f : /\ f \in [0..MostPasses -> V]
               /\ f[0] = base /\ \A n \in 1..MostPasses : f[n] = G[f[n - 1]]
  <2> HIDE DEF V, any, base, G, Def
  <2>1. PICK f : Iterates(f, MostPasses, V, base, G)
    BY <1>1, MostIsNat, RecursionExists
  <2>2. QED
    BY <2>1 DEF Iterates
<1>3. f = Def(f)
  <2>1. f[0] = Def(f)[0]
    <3>1. \A o \in OptionId : Pass(0, o, any[mergedInto[o]]) = Pass(0, o, f[0 - 1][mergedInto[o]])
      BY DEF Pass
    <3>2. f[0] = base /\ 0 \in 0..MostPasses
      BY <1>2, MostIsNat
    <3>3. QED
      BY <3>1, <3>2
  <2>2. ASSUME NEW n \in 1..MostPasses PROVE f[n] = Def(f)[n]
    <3>1. n # 0 /\ n \in 0..MostPasses /\ f[n - 1] \in V
      BY <1>2, MostIsNat
    <3>2. f[n] = [o \in OptionId |-> Pass(1, o, f[n - 1][mergedInto[o]])]
      BY <1>2, <3>1
    <3>3. QED
      BY <3>1, <3>2 DEF Pass
  <2>3. \A n \in 0..MostPasses : f[n] = Def(f)[n]
    <3> HIDE DEF Def
    <3>1. QED
      BY <2>1, <2>2, MostIsNat
  <2>4. QED
    BY <1>2, <2>3
<1>4. Walk = CHOOSE g : g = Def(g)
  BY DEF Walk, Pass, MostPasses, AtEnd
<1>5. QED
  BY <1>3, <1>4

\* What a pass does: it is over, it is the last one, or it hands on to the next.
LEMMA WalkUnfolds ==
  ASSUME TypeOK
  PROVE  /\ Walk \in [0..MostPasses -> [OptionId -> Ends]]
         /\ \A o \in OptionId, n \in 0..MostPasses : ~Follows(o) => Walk[n][o] = AtEnd(o)
         /\ \A o \in OptionId : Follows(o) =>
              Walk[0][o] = [to |-> mergedInto[o], counts |-> FALSE]
         /\ \A o \in OptionId, n \in 1..MostPasses : Follows(o) =>
              Walk[n][o] = Walk[n - 1][mergedInto[o]]
<1>1. \A n \in 0..MostPasses :
        Walk[n] = [o \in OptionId |-> Pass(n, o, Walk[n - 1][mergedInto[o]])]
  BY WalkIsComputed
<1>2. \A n \in 0..MostPasses, o \in OptionId :
        Walk[n][o] = Pass(n, o, Walk[n - 1][mergedInto[o]])
  BY <1>1
<1>3. \A n \in 0..MostPasses : Walk[n] \in [OptionId -> Ends]
  <2> DEFINE S == {n \in 0..MostPasses : Walk[n] \in [OptionId -> Ends]}
  <2>1. 0 \in S
    <3>1. 0 \in 0..MostPasses
      BY MostIsNat
    <3>2. \A o \in OptionId : Pass(0, o, Walk[0 - 1][mergedInto[o]]) \in Ends
      BY DEF Pass, AtEnd, TypeOK, Ends
    <3>3. QED
      BY <3>1, <3>2, <1>1
  <2>2. ASSUME NEW n \in 0..MostPasses, n \in S, n < MostPasses PROVE n + 1 \in S
    <3>1. n + 1 \in 0..MostPasses /\ (n + 1) - 1 = n
      BY <2>2, MostIsNat
    <3>2. \A o \in OptionId : Walk[n + 1][o] \in Ends
      BY <3>1, <2>2, <1>2, PassTypes
    <3>3. QED
      BY <3>1, <3>2, <1>1
  <2> HIDE DEF S
  <2>3. 0..MostPasses \subseteq S
    BY <2>1, <2>2, CountingUp, MostIsNat
  <2> USE DEF S
  <2>4. QED
    BY <2>3
<1>4. Walk \in [0..MostPasses -> [OptionId -> Ends]]
  BY <1>3, WalkIsComputed
<1>5. QED
  <2>1. 0 \in 0..MostPasses /\ \A n \in 1..MostPasses : n \in 0..MostPasses /\ n # 0
    BY MostIsNat
  <2>2. \A o \in OptionId, n \in 0..MostPasses : ~Follows(o) => Walk[n][o] = AtEnd(o)
    BY <1>2 DEF Pass, Follows
  <2>3. \A o \in OptionId : Follows(o) => Walk[0][o] = [to |-> mergedInto[o], counts |-> FALSE]
    BY <1>2, <2>1 DEF Pass, Follows
  <2>4. \A o \in OptionId, n \in 1..MostPasses :
          Follows(o) => Walk[n][o] = Walk[n - 1][mergedInto[o]]
    BY <1>2, <2>1 DEF Pass, Follows
  <2>5. QED
    BY <1>4, <2>2, <2>3, <2>4

\* The merged options that can be followed.
Merges == {o \in OptionId : Follows(o)}

\* The merged options that lead into S.
Into(S) == {o \in Merges : mergedInto[o] \in S}

\* left[n] are the options from which n passes end at a merged option.
Leaving(left) ==
  /\ left \in [0..MostPasses -> SUBSET Merges]
  /\ left[0] = Merges
  /\ \A n \in 1..MostPasses : left[n] = Into(left[n - 1])

\* Leaving describes a function that exists.
LEMMA LeavingExists == \E left : Leaving(left)
<1> DEFINE V == SUBSET Merges
           G == [S \in V |-> Into(S)]
<1>1. Merges \in V /\ G \in [V -> V]
  BY DEF Into
<1>2. PICK f : /\ f \in [0..MostPasses -> V]
               /\ f[0] = Merges /\ \A n \in 1..MostPasses : f[n] = G[f[n - 1]]
  <2> HIDE DEF V, G
  <2>1. PICK f : Iterates(f, MostPasses, V, Merges, G)
    BY <1>1, MostIsNat, RecursionExists
  <2>2. QED
    BY <2>1 DEF Iterates
<1>3. \A n \in 1..MostPasses : f[n] = Into(f[n - 1])
  <2>1. \A n \in 1..MostPasses : f[n - 1] \in V
    BY <1>2, MostIsNat
  <2>2. QED
    BY <1>2, <2>1
<1>4. QED
  BY <1>2, <1>3 DEF Leaving

\* There are as many passes as listed options, and no more merged options.
LEMMA PassesAndMerges ==
  ASSUME TypeOK
  PROVE  /\ Passes \in 0..MostPasses
         /\ \A S \in SUBSET Merges :
              IsFiniteSet(S) /\ Cardinality(S) \in Nat /\ Cardinality(S) <= Passes
<1>1. IsFiniteSet(Listed(status)) /\ Passes \in Nat /\ Passes <= MostPasses
  <2>1. Listed(status) \in SUBSET OptionId
    BY DEF Listed
  <2>2. QED
    BY <2>1, FS_Subset, FS_CardinalityType, OptionsAssumption DEF Passes, MostPasses
<1>2. Merges \subseteq Listed(status)
  BY DEF Merges, Follows, Listed
<1>3. ASSUME NEW S \in SUBSET Merges
      PROVE  IsFiniteSet(S) /\ Cardinality(S) \in Nat /\ Cardinality(S) <= Passes
  <2>1. S \in SUBSET Listed(status)
    BY <1>2
  <2>2. QED
    BY <1>1, <2>1, FS_Subset, FS_CardinalityType DEF Passes
<1>4. QED
  BY <1>1, <1>3, MostIsNat

\* Each pass gets nowhere new or leaves fewer options to go on from, so what is left
\* after all of them leads only into itself.
LEMMA PassesRunOut ==
  ASSUME TypeOK, NEW left, Leaving(left)
  PROVE  Into(left[Passes]) = left[Passes]
<1> DEFINE Fits(n) == /\ Into(left[n]) \subseteq left[n]
                      /\ Into(left[n]) = left[n] \/ Cardinality(left[n]) <= Passes - n
           S == {n \in 0..Passes : Fits(n)}
<1>0. /\ Passes \in 0..MostPasses /\ Passes \in Nat
      /\ \A n \in 0..Passes : n \in 0..MostPasses /\ left[n] \in SUBSET Merges
  BY PassesAndMerges, MostIsNat DEF Leaving
<1>1. 0 \in S
  <2>1. Into(Merges) \subseteq Merges
    BY DEF Into
  <2>2. Cardinality(Merges) <= Passes - 0
    BY PassesAndMerges
  <2>3. left[0] = Merges
    BY DEF Leaving
  <2>4. QED
    BY <1>0, <2>1, <2>2, <2>3
<1>2. ASSUME NEW n \in 0..Passes, n \in S, n < Passes PROVE n + 1 \in S
  <2>1. n + 1 \in 0..Passes /\ n + 1 \in 1..MostPasses /\ (n + 1) - 1 = n
    BY <1>0, <1>2
  <2>2. left[n + 1] = Into(left[n])
    BY <2>1 DEF Leaving
  <2>3. Into(left[n + 1]) \subseteq left[n + 1]
    BY <1>2, <2>2 DEF Into
  <2>4. CASE Into(left[n]) = left[n]
    BY <2>1, <2>2, <2>4
  <2>5. CASE Into(left[n]) # left[n]
    <3>1. /\ left[n + 1] \in SUBSET left[n] /\ left[n + 1] # left[n]
          /\ IsFiniteSet(left[n]) /\ Cardinality(left[n]) \in Nat
          /\ Cardinality(left[n]) <= Passes - n
      BY <1>0, <1>2, <2>2, <2>5, PassesAndMerges
    <3>2. /\ Cardinality(left[n + 1]) <= Cardinality(left[n])
          /\ Cardinality(left[n + 1]) # Cardinality(left[n])
      BY <3>1, FS_Subset
    <3>3. Cardinality(left[n + 1]) \in Nat
      BY <1>0, <2>1, PassesAndMerges
    <3>4. Cardinality(left[n + 1]) <= Passes - (n + 1)
      BY <3>1, <3>2, <3>3, <1>0
    <3>5. QED
      BY <2>1, <2>3, <3>4
  <2>6. QED
    BY <2>4, <2>5
<1>3. Passes \in S
  <2> HIDE DEF S
  <2>1. 0..Passes \subseteq S
    BY <1>0, <1>1, <1>2, CountingUp
  <2>2. QED
    BY <1>0, <2>1
<1>4. CASE Into(left[Passes]) = left[Passes]
  BY <1>4
<1>5. CASE Cardinality(left[Passes]) <= Passes - Passes
  <2>1. left[Passes] = {}
    BY <1>0, <1>5, PassesAndMerges, FS_EmptySet
  <2>2. QED
    BY <2>1 DEF Into
<1>6. QED
  BY <1>3, <1>4, <1>5

\* An end of the walk from o: an option that is not merged, which counts if it is
\* on the ballot.
Ended(end) == ~Follows(end.to) /\ end.counts = (status[end.to] = "approved")

\* Stopping where there is nothing to follow is such an end.
LEMMA AtEndIsEnded ==
  ASSUME NEW o, ~Follows(o)
  PROVE  Ended(AtEnd(o))
<1>1. AtEnd(o).to = o
  BY DEF AtEnd
<1>2. AtEnd(o).counts = (status[o] = "approved")
  BY Zenon DEF AtEnd
<1>3. QED
  BY <1>1, <1>2, Zenon DEF Ended

\* From an option that leads out of what is left the loop reaches an end, and the
\* same one as from its target: neither starts with a pass too few.
LEMMA WalksOutside ==
  ASSUME TypeOK, NEW left, Leaving(left)
  PROVE  \A o \in OptionId \ left[Passes] :
           Ended(Resolve(o)) /\ (Follows(o) => Resolve(o) = Resolve(mergedInto[o]))
<1> DEFINE Fits(n) == \A o \in OptionId \ left[n] :
                        /\ Ended(Walk[n][o])
                        /\ Follows(o) => Walk[n][o] = Walk[n][mergedInto[o]]
           S == {n \in 0..MostPasses : Fits(n)}
<1>0. Passes \in 0..MostPasses
  BY PassesAndMerges
<1>1. 0 \in S
  <2>1. \A o \in OptionId \ left[0] : ~Follows(o) /\ Walk[0][o] = AtEnd(o)
    BY WalkUnfolds, MostIsNat DEF Leaving, Merges
  <2>2. QED
    BY <2>1, MostIsNat, AtEndIsEnded
<1>2. ASSUME NEW n \in 0..MostPasses, n \in S, n < MostPasses PROVE n + 1 \in S
  <2>1. n + 1 \in 1..MostPasses /\ n + 1 \in 0..MostPasses /\ (n + 1) - 1 = n
    BY MostIsNat, <1>2
  <2>2. ASSUME NEW o \in OptionId \ left[n + 1]
        PROVE  /\ Ended(Walk[n + 1][o])
               /\ Follows(o) => Walk[n + 1][o] = Walk[n + 1][mergedInto[o]]
    <3>1. CASE ~Follows(o)
      BY <3>1, <2>1, WalkUnfolds, AtEndIsEnded
    <3>2. CASE Follows(o)
      <4> DEFINE to == mergedInto[o]
      <4>1. to \in OptionId \ left[n]
        BY <2>1, <3>2 DEF Leaving, Into, Merges, Follows, TypeOK
      <4>2. Walk[n + 1][o] = Walk[n][to]
        BY <2>1, <3>2, WalkUnfolds
      <4>3. CASE ~Follows(to)
        BY <4>1, <4>2, <4>3, <2>1, <1>2, WalkUnfolds
      <4>4. CASE Follows(to)
        <5>1. Walk[n + 1][to] = Walk[n][mergedInto[to]]
          BY <4>1, <4>4, <2>1, WalkUnfolds
        <5>2. Walk[n][to] = Walk[n][mergedInto[to]] /\ Ended(Walk[n][to])
          BY <1>2, <4>1, <4>4
        <5>3. QED
          BY <4>2, <5>1, <5>2
      <4>5. QED
        BY <4>3, <4>4
    <3>3. QED
      BY <3>1, <3>2
  <2>3. QED
    BY <2>1, <2>2
<1>3. Passes \in S
  <2> HIDE DEF S
  <2>1. 0..MostPasses \subseteq S
    BY <1>1, <1>2, MostIsNat, CountingUp
  <2>2. QED
    BY <1>0, <2>1
<1>4. QED
  BY <1>3 DEF Resolve, Passes

\* From what is left the bound ends the loop, at a merged option and uncounted.
LEMMA WalksInside ==
  ASSUME TypeOK, NEW left, Leaving(left)
  PROVE  \A o \in left[Passes] : Follows(Resolve(o).to) /\ ~Resolve(o).counts
<1> DEFINE Fits(n) == \A o \in left[n] :
                        ~Walk[n][o].counts /\ (o \in Into(left[n]) => Follows(Walk[n][o].to))
           S == {n \in 0..MostPasses : Fits(n)}
<1>0. Passes \in 0..MostPasses
  BY PassesAndMerges
<1>1. 0 \in S
  <2>1. \A o \in Merges : o \in OptionId /\ Follows(o)
    BY DEF Merges
  <2>2. \A o \in Merges : Walk[0][o] = [to |-> mergedInto[o], counts |-> FALSE]
    BY <2>1, WalkUnfolds
  <2>3. \A o \in Into(Merges) : Follows(mergedInto[o])
    BY <2>1 DEF Into
  <2>4. left[0] = Merges
    BY DEF Leaving
  <2>5. \A o \in Merges : ~Walk[0][o].counts /\ Walk[0][o].to = mergedInto[o]
    <3>1. \A to : LET end == [to |-> to, counts |-> FALSE]
                  IN  end.counts = FALSE /\ end.to = to
      BY Zenon
    <3>2. QED
      BY <2>2, <3>1, Zenon
  <2>6. \A o \in Into(Merges) : o \in Merges
    BY DEF Into
  <2>7. Fits(0)
    BY <2>3, <2>4, <2>5, <2>6
  <2>8. QED
    BY <2>7, MostIsNat
<1>2. ASSUME NEW n \in 0..MostPasses, n \in S, n < MostPasses PROVE n + 1 \in S
  <2>1. n + 1 \in 1..MostPasses /\ n + 1 \in 0..MostPasses /\ (n + 1) - 1 = n
    BY MostIsNat, <1>2
  <2>2. left[n + 1] = Into(left[n])
    BY <2>1 DEF Leaving
  <2>3. ASSUME NEW o \in left[n + 1]
        PROVE  ~Walk[n + 1][o].counts /\ (o \in Into(left[n + 1]) => Follows(Walk[n + 1][o].to))
    <3>1. o \in OptionId /\ Follows(o) /\ mergedInto[o] \in left[n]
      BY <2>2, <2>3 DEF Into, Merges
    <3>2. Walk[n + 1][o] = Walk[n][mergedInto[o]]
      BY <3>1, <2>1, WalkUnfolds
    <3>3. o \in Into(left[n + 1]) => mergedInto[o] \in Into(left[n])
      BY <2>2 DEF Into
    <3>4. QED
      BY <1>2, <3>1, <3>2, <3>3
  <2>4. QED
    BY <2>1, <2>3
<1>3. Passes \in S
  <2> HIDE DEF S
  <2>1. 0..MostPasses \subseteq S
    BY <1>1, <1>2, MostIsNat, CountingUp
  <2>2. QED
    BY <1>0, <2>1
<1>4. QED
  BY <1>3, PassesRunOut DEF Resolve, Passes

\* What Resolve comes to, for any merge pointers at all.  Some options lead round
\* in circles for ever, and from these the bound ends the loop, at an option that
\* is merged, and uncounted.  From every other option the loop ends at one that
\* is not merged, as it does from the next option on the way.
LEMMA ResolveEnds ==
  ASSUME TypeOK
  PROVE  \E circles \in SUBSET OptionId :
           /\ \A o \in circles :
                /\ Follows(o) /\ mergedInto[o] \in circles
                /\ Follows(Resolve(o).to) /\ ~Resolve(o).counts
           /\ \A o \in OptionId \ circles :
                Ended(Resolve(o)) /\ (Follows(o) => Resolve(o) = Resolve(mergedInto[o]))
<1>1. PICK left : Leaving(left)
  BY LeavingExists
<1>2. left[Passes] \in SUBSET Merges
  BY <1>1, PassesAndMerges DEF Leaving
<1>3. \A o \in left[Passes] : Follows(o) /\ mergedInto[o] \in left[Passes]
  BY <1>1, <1>2, PassesRunOut DEF Into, Merges
<1>4. left[Passes] \in SUBSET OptionId
  BY <1>2 DEF Merges
<1>5. QED
  BY <1>1, <1>3, <1>4, WalksInside, WalksOutside

\* Resolve follows the pointers to their end.
ResolveIsTheEnd ==
  /\ \A o \in OptionId :
       /\ Resolve(o) \in Ends
       /\ status[Resolve(o).to] # "merged"
       /\ Resolve(o).counts = (status[Resolve(o).to] = "approved")
  /\ \A o \in OptionId : status[o] # "merged" => Resolve(o) = AtEnd(o)
  /\ \A o \in OptionId : status[o] = "merged" => Resolve(o) = Resolve(mergedInto[o])

\* Resolve comes to an option, and stays where there is nothing to follow.
LEMMA ResolveTypes ==
  ASSUME TypeOK
  PROVE  \A o \in OptionId : /\ Resolve(o) \in Ends
                             /\ ~Follows(o) => Resolve(o) = AtEnd(o)
<1>1. Passes \in 0..MostPasses
  BY PassesAndMerges
<1>2. QED
  BY <1>1, WalkUnfolds DEF Resolve, Passes

\* Where no pointers form a cycle there is nothing for the bound to end.
LEMMA ResolveInvariant == TypeOK /\ MergesEnd => ResolveIsTheEnd
<1> SUFFICES ASSUME TypeOK, MergesEnd PROVE ResolveIsTheEnd
  OBVIOUS
<1>1. \A o \in OptionId : Follows(o) <=> status[o] = "merged"
  BY OptionsAssumption DEF MergesEnd, Listed, Follows
<1>2. PICK circles \in SUBSET OptionId :
        /\ \A o \in circles : Follows(o) /\ mergedInto[o] \in circles
        /\ \A o \in OptionId \ circles :
             Ended(Resolve(o)) /\ (Follows(o) => Resolve(o) = Resolve(mergedInto[o]))
  BY ResolveEnds
<1>3. circles = {}
  <2>1. circles \in SUBSET {o \in OptionId : status[o] = "merged"}
    BY <1>1, <1>2
  <2>2. QED
    BY <1>2, <2>1 DEF MergesEnd
<1>4. \A o \in OptionId : Resolve(o) \in Ends /\ Resolve(o).to \in OptionId
  BY ResolveTypes DEF Ends
<1>5. \A o \in OptionId : status[o] # "merged" => Resolve(o) = AtEnd(o)
  BY <1>1, ResolveTypes
<1>6. ASSUME NEW o \in OptionId
      PROVE  /\ status[Resolve(o).to] # "merged"
             /\ Resolve(o).counts = (status[Resolve(o).to] = "approved")
  BY <1>1, <1>2, <1>3, <1>4, Zenon DEF Ended
<1>7. \A o \in OptionId : status[o] = "merged" => Resolve(o) = Resolve(mergedInto[o])
  BY <1>1, <1>2, <1>3
<1>8. QED
  BY <1>4, <1>5, <1>6, <1>7 DEF ResolveIsTheEnd

-----------------------------------------------------------------------------
(* What follows from it                                                    *)

\* No vote is on record for an option its owner was not shown, whatever editors
\* and moderators do in between.
THEOREM VotesAreForShownOptions == Spec => []ChoicesWereShown
<1>1. Inv => ChoicesWereShown
  BY DEF Inv
<1>2. QED
  BY <1>1, Invariance, PTL

\* A suggestion in moderation is recorded against nobody but its author.
THEOREM SuggestionsArePrivate == Spec => []PendingIsPrivate
<1>1. Inv => PendingIsPrivate
  BY DEF Inv
<1>2. QED
  BY <1>1, Invariance, PTL

\* No sequence of merges and unmerges makes merge pointers cyclic.
THEOREM MergesAreWellFounded == Spec => []MergesEnd
<1>1. Inv => MergesEnd
  BY DEF Inv
<1>2. QED
  BY <1>1, Invariance, PTL

\* The bound on the loop of Resolve is never what ends it: every vote, through any
\* chain of merges, is resolved to an option that is not merged.
THEOREM EveryVoteReachesAnEnd == Spec => []ResolveReachesAnEnd
<1>1. Inv => ResolveReachesAnEnd
  BY ResolveInvariant DEF Inv, ResolveIsTheEnd, ResolveReachesAnEnd
<1>2. QED
  BY <1>1, Invariance, PTL

\* Resolve is used only as a function of the option: a vote that resolves to o is
\* on a row that also resolves to o in the voter's seen set.
LEMMA ShownBoundsTheTally ==
  ASSUME TypeOK, IsFiniteSet(answered), ChoicesWereShown
  PROVE  TallyIsBounded
<1> SUFFICES ASSUME NEW o \in OptionId
             PROVE  Votes(o) <= Shown(o) /\ Shown(o) <= Cardinality(answered)
  BY DEF TallyIsBounded
<1>1. CountOnce(o, choices) \in SUBSET CountOnce(o, seen)
  <2>1. \A v \in answered : choices[v] \subseteq seen[v]
    BY DEF TypeOK, ChoicesWereShown
  <2>2. QED
    BY <2>1 DEF CountOnce
<1>2. CountOnce(o, seen) \in SUBSET answered
  BY DEF CountOnce
<1>3. IsFiniteSet(CountOnce(o, seen)) /\ Shown(o) <= Cardinality(answered)
  BY <1>2, FS_Subset DEF Shown
<1>4. Votes(o) <= Shown(o)
  BY <1>1, <1>3, FS_Subset DEF Votes, Shown
<1>5. QED
  BY <1>3, <1>4

\* Votes <= Shown <= respondents, for every option at every moment.
THEOREM TallyBounds == Spec => []TallyIsBounded
<1>1. Inv => TallyIsBounded
  BY ShownBoundsTheTally DEF Inv
<1>2. QED
  BY <1>1, Invariance, PTL

\* Before the first publication nothing but previews is on record: what that
\* publication clears is never an answer.
THEOREM PreviewsOnlyBeforeOpening == Spec => []NeverOpenedHoldsOnlyPreviews
<1>1. Inv => NeverOpenedHoldsOnlyPreviews
  BY DEF Inv
<1>2. QED
  BY <1>1, Invariance, PTL

LEMMA InvStamped == Inv => OpeningIsStamped
BY DEF Inv, NeverOpenedHoldsOnlyPreviews, OpeningIsStamped

\* A real answer is taken away by nothing but the deletion of its survey.
THEOREM RealAnswersAreSafe == Spec => RealAnswersAreKept
<1>1. ASSUME Inv, [Next]_vars, NEW v \in Voter, origin[v] = "public"
      PROVE  v \in answered' \/ state' = "deleted"
  <2>1. v \in answered /\ opened
    BY <1>1 DEF Inv, TypeOK, NeverOpenedHoldsOnlyPreviews
  <2>2. answered' = answered \/ state' = "deleted" \/ \E w : answered' = answered \cup {w}
    BY <1>1, <2>1, ResponseSteps, InvStamped DEF Inv, responses, SaveResponseTx
  <2>3. QED
    BY <2>1, <2>2
<1>2. Inv /\ [Next]_vars =>
        [\A v \in Voter : origin[v] = "public" => v \in answered' \/ state' = "deleted"]_vars
  BY <1>1
<1>3. QED
  BY <1>2, Invariance, PTL DEF Spec, RealAnswersAreKept

\* Survey implements the ledger: its initial state is the ledger's, and every
\* step is a cast, one of the two wipes, or leaves the ledger alone.
THEOREM ImplementsTheLedger == Spec => KeepsTheLedger
<1>1. Init => Ledger!Init
  BY DEF Init, Ledger!Init, Ledger!Blank, OffBallots
<1>2. Inv /\ [Next]_vars => [Ledger!Next]_(Ledger!vars)
  <2> SUFFICES ASSUME Inv, [Next]_vars
               PROVE  [Ledger!Next]_(Ledger!vars)
    OBVIOUS
  <2>1. CASE /\ UNCHANGED <<opened, responses>>
             /\ state' = "deleted" <=> state = "deleted"
    <3>1. Ledger!Curate
      BY <2>1 DEF Ledger!Curate, OffBallots, responses
    <3>2. QED
      BY <3>1 DEF Ledger!Next
  <2>2. CASE /\ state' = "deleted" /\ state # "deleted" /\ OffBallots(status') = {}
             /\ ClearResponses
    <3>1. Ledger!Vanish
      BY <2>2 DEF Ledger!Vanish, Ledger!Wipe, Ledger!Blank, ClearResponses
    <3>2. QED
      BY <3>1 DEF Ledger!Next
  <2>3. CASE /\ ~opened /\ opened' /\ state # "deleted" /\ state' # "deleted"
             /\ UNCHANGED status
             /\ ClearResponses
    <3>1. Ledger!GoLive
      BY <2>3 DEF Ledger!GoLive, Ledger!Wipe, Ledger!Blank, ClearResponses
    <3>2. QED
      BY <3>1 DEF Ledger!Next
  <2>4. ASSUME UNCHANGED <<opened, state>>, state # "deleted",
               NEW stat \in [OptionId -> OptionStatuses], NEW v \in Voter,
               NEW allowPending, NEW picks, NEW text, NEW preview,
               Listed(status) \subseteq Listed(stat),
               status' = stat, OffBallots(stat) = OffBallots(status),
               SaveResponseTx(stat, v, picks, text, allowPending, preview)
        PROVE  Ledger!Next
    <3> DEFINE ballot == VisibleTo(stat, v, allowPending)
    <3>1. /\ choices' = [choices EXCEPT ![v] = (picks \cap ballot) \cup (@ \ ballot)]
          /\ seen' = [seen EXCEPT ![v] = @ \cup ballot]
      BY <2>4, SaveResponseEffect DEF Inv
    <3>2. ballot \cap OffBallots(status) = {}
      BY <2>4 DEF VisibleTo, OffBallots
    <3> HIDE DEF ballot
    <3>3. answered' = answered \cup {v}
      BY <2>4 DEF SaveResponseTx
    <3>4. ballot \in SUBSET OptionId /\ (picks \cap ballot) \in SUBSET ballot
      BY DEF VisibleTo, ballot
    <3>5. Ledger!Cast(v, ballot, picks \cap ballot)
      BY <2>4, <3>1, <3>2, <3>3, <3>4 DEF Ledger!Cast
    <3>6. QED
      BY <3>4, <3>5 DEF Ledger!Next
  <2>5. QED
    BY <2>1, <2>2, <2>3, <2>4, ResponseSteps, InvStamped DEF Inv
<1>3. QED
  BY <1>1, <1>2, Invariance, PTL DEF Spec, KeepsTheLedger, Ledger!Spec
\* Where a vote for o rests, counted or not.
To(o) == Resolve(o).to

\* A merge takes along whatever ended at the option and moves nothing else.  The
\* options that went astray would all be merged, and each would lead to another.
LEMMA MergeTakesItsVotesAlong ==
  ASSUME TypeOK, MergesEnd, MergesEnd', ResolveIsTheEnd, ResolveIsTheEnd',
         NEW a \in OptionId, NEW b \in OptionId, Merge(a, b), status[a] # "merged"
  PROVE  \A x \in OptionId : To(x)' = IF To(x) = a THEN b ELSE To(x)
<1> DEFINE Goes(x) == IF To(x) = a THEN b ELSE To(x)
           Astray == {x \in OptionId : To(x)' # Goes(x)}
<1>1. /\ b # a /\ status[b] # "merged"
      /\ status' = [status EXCEPT ![a] = "merged"]
      /\ mergedInto' = [mergedInto EXCEPT ![a] = b]
  BY DEF Merge, SaveSurvey
<1>2. \A x \in OptionId : status'[x] # "merged" => To(x)' = x
  BY DEF ResolveIsTheEnd, To, AtEnd
<1>3. \A x \in OptionId, y \in OptionId :
        status'[x] = "merged" /\ mergedInto'[x] = y => To(x)' = To(y)'
  BY DEF ResolveIsTheEnd, To
<1>4. \A x \in OptionId : /\ status[x] # "merged" => To(x) = x
                          /\ status[x] = "merged" => To(x) = To(mergedInto[x])
  BY DEF ResolveIsTheEnd, To, AtEnd
<1>5. ASSUME NEW x \in OptionId, status'[x] # "merged" PROVE x \notin Astray
  <2>1. x # a /\ status[x] # "merged"
    BY <1>1, <1>5 DEF TypeOK
  <2>2. QED
    BY <1>2, <1>4, <1>5, <2>1
<1>6. ASSUME NEW x \in OptionId, status'[x] = "merged", mergedInto'[x] \notin Astray
      PROVE  x \notin Astray
  <2>1. CASE x = a
    <3>1. mergedInto'[a] = b /\ status'[b] # "merged"
      BY <1>1 DEF TypeOK
    <3>2. To(a)' = To(b)' /\ To(b)' = b
      BY <1>2, <1>3, <1>6, <2>1, <3>1
    <3>3. To(x) = a
      BY <1>4, <2>1
    <3>4. QED
      BY <2>1, <3>2, <3>3
  <2>2. CASE x # a
    <3>1. status[x] = "merged" /\ mergedInto'[x] = mergedInto[x]
      BY <1>1, <1>6, <2>2 DEF TypeOK
    <3>2. PICK y \in OptionId : mergedInto[x] = y
      BY <3>1 DEF MergesEnd, Listed
    <3>3. To(x)' = To(y)' /\ To(x) = To(y)
      BY <1>3, <1>4, <1>6, <3>1, <3>2
    <3>4. y \notin Astray
      BY <1>6, <3>1, <3>2
    <3>5. QED
      BY <3>3, <3>4
  <2>3. QED
    BY <2>1, <2>2
<1>7. Astray = {}
  <2>1. Astray \in SUBSET {x \in OptionId : status'[x] = "merged"}
    BY <1>5
  <2>2. ASSUME Astray # {} PROVE FALSE
    <3> HIDE DEF Astray
    <3>1. PICK x \in Astray : mergedInto'[x] \notin Astray
      BY <2>1, <2>2 DEF MergesEnd
    <3>2. QED
      BY <2>1, <3>1, <1>6
  <2>3. QED
    BY <2>2
<1>8. QED
  BY <1>7

\* Merging moves everyone behind an option to its target, each respondent once, and
\* nobody else's vote moves, however long the chains that end at either.
THEOREM MergesMoveVotes == Spec => MergeMovesEveryVote
<1>1. ASSUME Inv, Inv', [Next]_vars, ResolveIsTheEnd, ResolveIsTheEnd',
             NEW o \in OptionId, NEW target \in OptionId,
             status[o] # "merged", status'[o] = "merged", mergedInto'[o] = target
      PROVE  /\ Behind(target)' = Behind(target) \cup Behind(o)
             /\ \A x \in OptionId \ {o, target} : Behind(x)' = Behind(x)
  <2>1. PICK a \in OptionId, b \in OptionId : Merge(a, b)
    BY <1>1, OnlyMergesMerge DEF Inv, MergesKept
  <2>2. a = o /\ b = target /\ target # o
    BY <1>1, <2>1 DEF Merge, SaveSurvey, Inv, TypeOK
  <2>3. \A x \in OptionId : To(x)' = IF To(x) = o THEN target ELSE To(x)
    BY <1>1, <2>1, <2>2, MergeTakesItsVotesAlong DEF Inv
  <2>4. answered' = answered /\ choices' = choices /\ choices \in [Voter -> SUBSET OptionId]
        /\ answered \subseteq Voter
    BY <1>1, <2>1 DEF Merge, responses, Inv, TypeOK
  <2>5. \A x : Behind(x) = {v \in answered : \E id \in choices[v] : To(id) = x}
    BY DEF Behind, To
  <2>6. \A x : Behind(x)' = {v \in answered : \E id \in choices[v] : To(id)' = x}
    BY <2>4 DEF Behind, To
  <2>7. QED
    BY <2>2, <2>3, <2>4, <2>5, <2>6
<1>2. Inv /\ Inv' /\ ResolveIsTheEnd /\ ResolveIsTheEnd' /\ [Next]_vars =>
        [\A o, target \in OptionId :
           (status[o] # "merged" /\ status'[o] = "merged" /\ mergedInto'[o] = target) =>
             /\ Behind(target)' = Behind(target) \cup Behind(o)
             /\ \A x \in OptionId \ {o, target} : Behind(x)' = Behind(x)]_vars
  BY <1>1
<1>3. Inv => ResolveIsTheEnd
  BY ResolveInvariant DEF Inv
<1>4. QED
  BY <1>2, <1>3, Invariance, PTL DEF Spec, MergeMovesEveryVote

-----------------------------------------------------------------------------
(* The ceilings                                                            *)

\* What respondent w has in moderation.
Awaiting(w) == choices[w] \cap PendingOptions

\* A step puts nothing into moderation but one suggestion that the three counts
\* had room for, and no other step gives anyone a vote on a pending option.
ModerationSteps ==
  \/ /\ PendingOptions' \subseteq PendingOptions
     /\ \A w \in Voter : Awaiting(w)' \subseteq Awaiting(w)
  \/ \E v \in Voter, o \in OptionId :
       /\ Cardinality(PendingOptions) < MaxPendingPerSurvey
       /\ Cardinality(Awaiting(v)) < MaxWriteInsPerVoter
       /\ PendingOptions' \subseteq PendingOptions \cup {o}
       /\ Awaiting(v)' \subseteq Awaiting(v) \cup {o}
       /\ \A w \in Voter \ {v} : Awaiting(w)' \subseteq Awaiting(w)

\* Nothing but a suggestion is put into moderation.
LEMMA StepModeration ==
  ASSUME TypeOK, ChoicesWereShown, [Next]_vars
  PROVE  ModerationSteps
<1> DEFINE Calm == /\ PendingOptions' \subseteq PendingOptions
                   /\ \A w \in Voter : Awaiting(w)' \subseteq Awaiting(w)
<1>0. /\ status \in [OptionId -> OptionStatuses]
      /\ choices \in [Voter -> SUBSET OptionId]
  BY DEF TypeOK
<1>1. ASSUME PendingOptions' \subseteq PendingOptions,
             choices' = choices \/ choices' = [v \in Voter |-> {}]
      PROVE  Calm
  BY <1>1 DEF Awaiting
<1>2. ASSUME NEW opts, CreateSurvey(opts)
      PROVE  Calm
  <2>1. status' = AddOptions(status, opts, "approved") /\ choices' = choices
    BY <1>2 DEF CreateSurvey, SaveSurvey, responses
  <2>2. PendingOptions' \subseteq PendingOptions
    BY <2>1 DEF AddOptions, PendingOptions
  <2>3. QED
    BY <1>1, <2>1, <2>2
<1>3. ASSUME NEW remove, NEW new, NEW s, NEW close, EditSave(remove, new, s, close)
      PROVE  Calm
  <2>1. choices' = choices
    BY <1>3 DEF EditSave, responses
  <2>2. PendingOptions' \subseteq PendingOptions
    BY <1>3 DEF EditSave, SaveSurvey, AddOptions, PendingOptions
  <2>3. QED
    BY <1>1, <2>1, <2>2
<1>4. ASSUME NEW newState, SetState(newState)
      PROVE  Calm
  BY <1>1, <1>4 DEF SetState, SaveSurvey, responses, PendingOptions
<1>5. ASSUME Publish
      PROVE  Calm
  <2>1. choices' = choices \/ choices' = [v \in Voter |-> {}]
    BY <1>5 DEF Publish, responses, ClearResponses
  <2>2. PendingOptions' = PendingOptions
    BY <1>5 DEF Publish, SaveSurvey, PendingOptions
  <2>3. QED
    BY <1>1, <2>1, <2>2
<1>6. ASSUME DeleteSurvey
      PROVE  Calm
  BY <1>1, <1>6 DEF DeleteSurvey, ClearResponses, PendingOptions
<1>7. ASSUME NEW o \in OptionId, NEW stat \in {"approved", "rejected", "removed"},
             SetOptionStatus(o, stat)
      PROVE  Calm
  <2>1. choices' = choices /\ status' = [status EXCEPT ![o] = stat]
    BY <1>7 DEF SetOptionStatus, SaveSurvey, responses
  <2>2. PendingOptions' \subseteq PendingOptions
    BY <1>0, <2>1 DEF PendingOptions
  <2>3. QED
    BY <1>1, <2>1, <2>2
<1>8. ASSUME NEW o \in OptionId, NEW target \in OptionId, Merge(o, target)
      PROVE  Calm
  <2>1. choices' = choices /\ status' = [status EXCEPT ![o] = "merged"]
    BY <1>8 DEF Merge, SaveSurvey, responses
  <2>2. PendingOptions' \subseteq PendingOptions
    BY <1>0, <2>1 DEF PendingOptions
  <2>3. QED
    BY <1>1, <2>1, <2>2
<1>9. ASSUME NEW v \in Voter, NEW picks, NEW text, NEW preview,
             SaveResponse(v, picks, text, preview)
      PROVE  Calm
  <2> DEFINE ballot == VisibleTo(status, v, NoOption)
  <2>1. /\ SaveResponseTx(status, v, picks, text, NoOption, preview)
        /\ status' = status
    BY <1>9 DEF SaveResponse, options
  <2>2. choices' = [choices EXCEPT ![v] = (picks \cap ballot) \cup (@ \ ballot)]
    BY <1>0, <2>1, SaveResponseEffect
  <2>3. ballot \cap PendingOptions \subseteq choices[v]
    BY OptionsAssumption DEF VisibleTo, PendingOptions
  <2>4. PendingOptions' = PendingOptions
    BY <2>1 DEF PendingOptions
  <2> HIDE DEF ballot
  <2>5. \A w \in Voter : choices'[w] \cap PendingOptions \subseteq choices[w]
    BY <1>0, <2>2, <2>3
  <2>6. QED
    BY <2>4, <2>5 DEF Awaiting
<1>10. ASSUME NEW v \in Voter, NEW o \in OptionId, NEW preview, AddWriteIn(v, o, preview)
       PROVE  ModerationSteps
  <2> DEFINE stat == AddOptions(status, {o}, "pending")
             ballot == VisibleTo(stat, v, o)
  <2>1. /\ SaveResponseTx(stat, v, choices[v] \cup {o}, comment[v], o, preview)
        /\ status' = stat
        /\ status[o] = "absent"
        /\ Cardinality(PendingOptions) < MaxPendingPerSurvey
        /\ Cardinality(Awaiting(v)) < MaxWriteInsPerVoter
    BY <1>10 DEF AddWriteIn, MayPropose, SaveSurvey, Awaiting
  <2>2. stat \in [OptionId -> OptionStatuses] /\ Listed(status) \subseteq Listed(stat)
    <3>1. stat \in [OptionId -> OptionStatuses]
      BY <1>0 DEF AddOptions, OptionStatuses
    <3>2. QED
      BY <3>1, ListedGrows
  <2>3. choices' = [choices EXCEPT ![v] = ((choices[v] \cup {o}) \cap ballot) \cup (@ \ ballot)]
    BY <2>1, <2>2, SaveResponseEffect
  <2>4. PendingOptions' = PendingOptions \cup {o}
    BY <2>1 DEF PendingOptions, AddOptions
  <2>5. \A w \in Voter : o \notin choices[w]
    BY <1>0, <2>1 DEF ChoicesWereShown, Listed
  <2> HIDE DEF stat, ballot
  <2>6. choices'[v] \subseteq choices[v] \cup {o} /\ \A w \in Voter \ {v} : choices'[w] = choices[w]
    BY <1>0, <2>3
  <2>7. Awaiting(v)' \subseteq Awaiting(v) \cup {o}
    BY <2>4, <2>6 DEF Awaiting
  <2>8. \A w \in Voter \ {v} : Awaiting(w)' \subseteq Awaiting(w)
    BY <2>4, <2>5, <2>6 DEF Awaiting
  <2>9. QED
    BY <2>1, <2>4, <2>7, <2>8 DEF ModerationSteps
<1>11. CASE Tick \/ UNCHANGED vars
  BY <1>1, <1>11 DEF Tick, vars, options, responses, PendingOptions, ModerationSteps
<1>12. Calm => ModerationSteps
  BY DEF ModerationSteps
<1> HIDE DEF Calm
<1>13. CASE EditorStep
  BY <1>2, <1>3, <1>4, <1>5, <1>6, <1>12, <1>13 DEF EditorStep
<1>14. CASE ModeratorStep
  BY <1>7, <1>8, <1>12, <1>14 DEF ModeratorStep
<1>15. CASE RespondentStep
  BY <1>9, <1>10, <1>12, <1>15 DEF RespondentStep
<1>16. QED
  BY <1>11, <1>13, <1>14, <1>15 DEF Next

\* A write of the survey keeps to the ceiling on options if it was kept to before.
LEMMA StepListed ==
  ASSUME TypeOK, Cardinality(Listed(status)) <= MaxOptions, [Next]_vars
  PROVE  Cardinality(Listed(status')) <= MaxOptions
<1> DEFINE Fits == Cardinality(Listed(status')) <= MaxOptions
<1>0. /\ IsFiniteSet(Listed(status)) /\ Cardinality(Listed(status)) \in Nat
      /\ IsFiniteSet(Listed(status')) /\ Cardinality(Listed(status')) \in Nat
      /\ MaxOptions \in Nat
  <2>1. Listed(status) \in SUBSET OptionId /\ Listed(status') \in SUBSET OptionId
    BY DEF Listed
  <2>2. QED
    BY <2>1, OptionsAssumption, LimitsAssumption, FS_Subset, FS_CardinalityType
<1>1. ASSUME NEW to, NEW first, NEW stat, NEW into, SaveSurvey(to, first, stat, into)
      PROVE  Fits
  <2>1. status' = stat /\ (Cardinality(Listed(stat)) > MaxOptions =>
                             Cardinality(Listed(stat)) <= Cardinality(Listed(status)))
    BY <1>1 DEF SaveSurvey
  <2>2. Cardinality(Listed(status')) > MaxOptions =>
          Cardinality(Listed(status')) <= Cardinality(Listed(status))
    BY <2>1
  <2>3. QED
    BY <1>0, <2>2
<1>2. ASSUME status' = status
      PROVE  Fits
  BY <1>2
<1>3. ASSUME DeleteSurvey
      PROVE  Fits
  <2>1. Listed(status') = {}
    BY <1>3 DEF DeleteSurvey, Listed
  <2>2. QED
    BY <1>0, <2>1, FS_EmptySet
<1> HIDE DEF Fits
<1>4. EditorStep => Fits
  <2>1. ASSUME NEW opts, CreateSurvey(opts) PROVE Fits
    BY <1>1, <2>1 DEF CreateSurvey
  <2>2. ASSUME NEW remove, NEW new, NEW s, NEW close, EditSave(remove, new, s, close)
        PROVE  Fits
    BY <1>1, <2>2 DEF EditSave
  <2>3. ASSUME NEW newState, SetState(newState) PROVE Fits
    BY <1>1, <2>3 DEF SetState
  <2>4. ASSUME Publish PROVE Fits
    BY <1>1, <2>4 DEF Publish
  <2>5. QED
    BY <1>3, <2>1, <2>2, <2>3, <2>4 DEF EditorStep
<1>5. ModeratorStep => Fits
  <2>1. ASSUME NEW o, NEW stat, SetOptionStatus(o, stat) PROVE Fits
    BY <1>1, <2>1 DEF SetOptionStatus
  <2>2. ASSUME NEW o, NEW target, Merge(o, target) PROVE Fits
    BY <1>1, <2>2 DEF Merge
  <2>3. QED
    BY <2>1, <2>2 DEF ModeratorStep
<1>6. ASSUME NEW v, NEW picks, NEW text, NEW preview, SaveResponse(v, picks, text, preview)
      PROVE  Fits
  BY <1>2, <1>6 DEF SaveResponse, options
<1>7. ASSUME NEW v, NEW o, NEW preview, AddWriteIn(v, o, preview)
      PROVE  Fits
  BY <1>1, <1>7 DEF AddWriteIn
<1>8. RespondentStep => Fits
  BY <1>6, <1>7 DEF RespondentStep
<1>9. Tick \/ UNCHANGED vars => Fits
  BY <1>2 DEF Tick, vars, options
<1>10. QED
  BY <1>4, <1>5, <1>8, <1>9 DEF Next, Fits

\* A set that is contained in one of the two counted sets is as small.
LEMMA CountsBound ==
  ASSUME NEW S, NEW T \in SUBSET OptionId, NEW o \in OptionId, NEW n \in Nat,
         \/ S \subseteq T /\ Cardinality(T) <= n
         \/ S \subseteq T \cup {o} /\ Cardinality(T) < n
  PROVE  Cardinality(S) <= n
<1>1. IsFiniteSet(T) /\ Cardinality(T) \in Nat
  BY OptionsAssumption, FS_Subset, FS_CardinalityType
<1>2. CASE S \subseteq T /\ Cardinality(T) <= n
  <2>1. IsFiniteSet(S) /\ Cardinality(S) <= Cardinality(T)
    BY <1>1, <1>2, FS_Subset
  <2>2. Cardinality(S) \in Nat
    BY <2>1, FS_CardinalityType
  <2>3. QED
    BY <1>1, <1>2, <2>1, <2>2
<1>3. CASE S \subseteq T \cup {o} /\ Cardinality(T) < n
  <2> DEFINE U == T \cup {o}
  <2>1. IsFiniteSet(U) /\ Cardinality(U) \in Nat /\ Cardinality(U) <= Cardinality(T) + 1
    <3>1. IsFiniteSet(U) /\ (Cardinality(U) = Cardinality(T) \/ Cardinality(U) = Cardinality(T) + 1)
      BY <1>1, FS_AddElement
    <3>2. QED
      BY <1>1, <3>1
  <2>2. S \in SUBSET U
    BY <1>3
  <2> HIDE DEF U
  <2>3. IsFiniteSet(S) /\ Cardinality(S) <= Cardinality(U)
    BY <2>1, <2>2, FS_Subset
  <2>4. Cardinality(S) \in Nat
    BY <2>3, FS_CardinalityType
  <2>5. QED
    BY <1>1, <1>3, <2>1, <2>3, <2>4
<1>4. QED
  BY <1>2, <1>3

\* Every path that adds options stops at the three ceilings, whatever their
\* values: no order of suggestions, edits, decisions and write-ins passes one.
THEOREM CeilingsAreKept == Spec => []CeilingsHold
<1>1. Init => CeilingsHold
  <2> SUFFICES ASSUME Init PROVE CeilingsHold
    OBVIOUS
  <2>1. Listed(status) = {} /\ PendingOptions = {}
    BY DEF Init, Listed, PendingOptions
  <2>2. \A v \in Voter : choices[v] \cap PendingOptions = {}
    BY <2>1
  <2>3. QED
    BY <2>1, <2>2, FS_EmptySet, LimitsAssumption DEF CeilingsHold
<1>2. Inv /\ CeilingsHold /\ [Next]_vars => CeilingsHold'
  <2> SUFFICES ASSUME Inv, CeilingsHold, [Next]_vars PROVE CeilingsHold'
    OBVIOUS
  <2>1. Cardinality(Listed(status'))  <= MaxOptions
    BY StepListed DEF Inv, CeilingsHold
  <2>2. ModerationSteps
    BY StepModeration DEF Inv
  <2>3. /\ PendingOptions \in SUBSET OptionId
        /\ \A w \in Voter : Awaiting(w) \in SUBSET OptionId
    BY DEF PendingOptions, Awaiting
  <2>4. /\ Cardinality(PendingOptions) <= MaxPendingPerSurvey
        /\ \A w \in Voter : Cardinality(Awaiting(w)) <= MaxWriteInsPerVoter
    BY DEF CeilingsHold, Awaiting
  <2>5. CASE OptionId = {}
    <3>1. PendingOptions' = {} /\ \A w \in Voter : Awaiting(w)' = {}
      BY <2>5 DEF PendingOptions, Awaiting
    <3>2. QED
      BY <2>1, <3>1, FS_EmptySet, LimitsAssumption DEF CeilingsHold, Awaiting, Listed
  <2>6. CASE OptionId # {}
    <3>1. PICK any : any \in OptionId
      BY <2>6
    <3>2. Cardinality(PendingOptions') <= MaxPendingPerSurvey
      BY <2>2, <2>3, <2>4, <3>1, CountsBound, LimitsAssumption DEF ModerationSteps
    <3>3. \A w \in Voter : Cardinality(Awaiting(w)') <= MaxWriteInsPerVoter
      BY <2>2, <2>3, <2>4, <3>1, CountsBound, LimitsAssumption DEF ModerationSteps
    <3>4. QED
      BY <2>1, <3>2, <3>3 DEF CeilingsHold, Awaiting, Listed
  <2>7. QED
    BY <2>5, <2>6
<1>3. QED
  BY <1>1, <1>2, Invariance, PTL DEF Spec
=============================================================================
