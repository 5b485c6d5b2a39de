--------------------------- MODULE BallotsProofs ---------------------------
(* Ballots, proved for any sets of respondents and options and any limits.  *)
EXTENDS Ballots, SurveyProofs

\* A request is let through as a preview or not, and both kinds are answered.
BothKinds == PreviewFlags = BOOLEAN

\* An edit form that is older than the survey says nothing of an option that has
\* since lost its row.
LEMMA EditSaveIgnoresTheUnlisted ==
  ASSUME NEW remove, NEW new, NEW s, NEW close, EditSave(remove, new, s, close)
  PROVE  EditSave(remove \cap Listed(status), new, s, close)
<1> DEFINE edited(r) == [o \in OptionId |->
             IF status[o] \notin {"approved", "removed"} THEN status[o]
             ELSE IF o \in r THEN "removed" ELSE "approved"]
<1>1. ASSUME NEW o \in OptionId PROVE edited(remove)[o] = edited(remove \cap Listed(status))[o]
  BY DEF Listed
<1>2. edited(remove) = edited(remove \cap Listed(status))
  BY <1>1
<1>3. /\ Exists /\ new \subseteq OptionId \ Listed(status) /\ RoomFor(new)
      /\ SaveSurvey(state, opened, AddOptions(edited(remove), new, "approved"), mergedInto)
      /\ settings' = s /\ closeAt' = close
      /\ author' = [o \in OptionId |-> IF o \in new THEN Editor ELSE author[o]]
      /\ UNCHANGED <<responses, now>>
  BY DEF EditSave
<1>4. SaveSurvey(state, opened, AddOptions(edited(remove \cap Listed(status)), new, "approved"),
                 mergedInto)
  BY <1>2, <1>3
<1> QED
  BY <1>3, <1>4 DEF EditSave

\* The respondents' pages and requests ask for nothing but options.
Asked == \A v \in Voter : post[v] # None => post[v] \in Post

\* What a step of the web does to the survey is a step of the survey.
LEMMA WebStepOfSurvey ==
  ASSUME BothKinds, Asked, [WebNext]_allVars
  PROVE  [Next]_vars
<1>1. ASSUME NEW v \in Voter, NEW text \in Comment \cup {NoComment}, Vote(v, text)
      PROVE  [Next]_vars
  <2>1. CASE UNCHANGED vars
    BY <2>1
  <2>2. CASE SaveResponse(v, post[v].picks, text, post[v].preview)
    <3>1. post[v] \in Post
      BY <1>1 DEF Vote, Asked
    <3>2. post[v].picks \in SUBSET OptionId /\ post[v].preview \in PreviewFlags
      BY <3>1 DEF Post, BothKinds
    <3> QED
      BY <2>2, <3>2 DEF Next, RespondentStep
  <2> QED
    BY <1>1, <2>1, <2>2 DEF Vote
<1>2. ASSUME NEW v \in Voter, WriteIn(v) PROVE [Next]_vars
  <2>1. CASE UNCHANGED vars
    BY <2>1
  <2>2. ASSUME NEW o \in OptionId, AddWriteIn(v, o, post[v].preview) PROVE [Next]_vars
    <3>1. post[v] \in Post
      BY <1>2 DEF WriteIn, Asked
    <3>2. post[v].preview \in PreviewFlags
      BY <3>1 DEF Post, BothKinds
    <3> QED
      BY <2>2, <3>2 DEF Next, RespondentStep
  <2> QED
    BY <1>2, <2>1, <2>2 DEF WriteIn
<1>3. ASSUME BrowserStep PROVE [Next]_vars
  BY <1>1, <1>2, <1>3 DEF BrowserStep, OpenBallot, Submit
<1>4. ASSUME NEW remove, NEW new \in SUBSET (OptionId \ Listed(status)),
             NEW s \in Settings, NEW close \in CloseTimes, SaveEditForm(remove, new, s, close)
      PROVE  [Next]_vars
  <2>1. EditSave(remove \cap Listed(status), new, s, close)
    BY <1>4, EditSaveIgnoresTheUnlisted DEF SaveEditForm
  <2>2. remove \cap Listed(status) \in SUBSET Listed(status)
    OBVIOUS
  <2> QED
    BY <2>1, <2>2 DEF Next, EditorStep
<1>5. ASSUME EditorFormStep PROVE [Next]_vars
  BY <1>4, <1>5 DEF EditorFormStep, OpenEditForm
<1>6. ASSUME AdminStep PROVE [Next]_vars
  BY <1>6 DEF AdminStep, Next, EditorStep
<1>7. CASE UNCHANGED allVars
  BY <1>7 DEF allVars
<1> QED
  BY <1>3, <1>5, <1>6, <1>7 DEF WebNext

-----------------------------------------------------------------------------
(* Pages and requests                                                       *)

PagesOK ==
  /\ form \in [Voter -> Form \cup {None}]
  /\ post \in [Voter -> Post \cup {None}]
  /\ editForm \in EditForm \cup {None}

LEMMA PagesKept ==
  ASSUME PagesOK, [WebNext]_allVars
  PROVE  PagesOK'
<1>1. ASSUME NEW v \in Voter, OpenBallot(v) PROVE PagesOK'
  <2>1. [shown |-> VisibleTo(status, v, NoOption)] \in Form
    BY DEF VisibleTo, Form
  <2> QED
    BY <1>1, <2>1 DEF OpenBallot, PagesOK
<1>2. ASSUME NEW v \in Voter, NEW picks \in SUBSET OptionId, NEW proposes \in BOOLEAN,
             Submit(v, picks, proposes)
      PROVE  PagesOK'
  <2>1. form[v] \in Form
    BY <1>2 DEF Submit, PagesOK
  <2>2. [shown |-> form[v].shown, picks |-> picks, proposes |-> proposes, preview |-> IsPreview] \in Post
    BY <2>1 DEF Form, Post, IsPreview
  <2> QED
    BY <1>2, <2>2 DEF Submit, PagesOK
<1>3. ASSUME NEW v \in Voter, NEW text, Vote(v, text) \/ WriteIn(v) PROVE PagesOK'
  BY <1>3 DEF Vote, WriteIn, PagesOK
<1>4. ASSUME BrowserStep PROVE PagesOK'
  BY <1>1, <1>2, <1>3, <1>4 DEF BrowserStep
<1>5. ASSUME OpenEditForm PROVE PagesOK'
  <2>1. [listed |-> {o \in OptionId : status[o] \in {"approved", "removed"}}] \in EditForm
    BY DEF EditForm
  <2> QED
    BY <1>5, <2>1 DEF OpenEditForm, PagesOK
<1>6. ASSUME NEW remove, NEW new, NEW s, NEW close, SaveEditForm(remove, new, s, close)
      PROVE  PagesOK'
  BY <1>6 DEF SaveEditForm, PagesOK
<1>7. CASE AdminStep \/ UNCHANGED allVars
  BY <1>7 DEF AdminStep, allVars, web, PagesOK
<1> QED
  BY <1>4, <1>5, <1>6, <1>7 DEF WebNext, EditorFormStep

\* The invariant of the survey holds under the web, with the types of its pages.
LEMMA WebInvStep ==
  ASSUME BothKinds, Inv, PagesOK, [WebNext]_allVars
  PROVE  Inv' /\ PagesOK'
<1>1. Asked
  BY DEF PagesOK, Asked
<1> QED
  BY <1>1, WebStepOfSurvey, StepInv, PagesKept

LEMMA WebInvariance == BothKinds => (WebSpec => [](Inv /\ PagesOK))
<1> SUFFICES ASSUME BothKinds PROVE WebSpec => [](Inv /\ PagesOK)
  OBVIOUS
<1>1. WebInit => Inv /\ PagesOK
  BY InitInv DEF WebInit, PagesOK
<1>2. (Inv /\ PagesOK) /\ [WebNext]_allVars => (Inv /\ PagesOK)'
  BY WebInvStep
<1> QED
  BY <1>1, <1>2, PTL DEF WebSpec

-----------------------------------------------------------------------------
\* public.go and admin.go change a survey through the operations of the store
\* alone, however old the page was that a request came from: the web is a run of
\* Survey, and keeps all that is proved of it.
THEOREM WebImplementsSurvey == ASSUME BothKinds PROVE WebSpec => Spec
<1>1. WebInit => Init
  BY DEF WebInit
<1>2. (Inv /\ PagesOK) /\ [WebNext]_allVars => [Next]_vars
  <2>1. PagesOK => Asked
    BY DEF PagesOK, Asked
  <2> QED
    BY <2>1, WebStepOfSurvey
<1> QED
  BY <1>1, <1>2, WebInvariance, PTL DEF WebSpec, Spec

\* What Survey promises holds behind its web pages: the tally's bounds, an end for
\* every vote, privacy in moderation, and that answers are kept and merges take
\* votes along.
THEOREM SurveyUnderTheWeb ==
  ASSUME BothKinds
  PROVE  WebSpec => /\ []TallyIsBounded /\ []ResolveReachesAnEnd
                    /\ []PendingIsPrivate
                    /\ RealAnswersAreKept /\ MergeMovesEveryVote
<1>1. WebSpec => Spec
  BY WebImplementsSurvey
<1> QED
  BY <1>1, TallyBounds, EveryVoteReachesAnEnd, SuggestionsArePrivate, RealAnswersAreSafe,
     MergesMoveVotes, PTL

\* The pages and requests of public.go and admin.go keep their types.
THEOREM WebTypes == ASSUME BothKinds PROVE WebSpec => []WebTypeOK
<1>1. Inv /\ PagesOK => WebTypeOK
  BY DEF Inv, PagesOK, WebTypeOK
<1> QED
  BY <1>1, WebInvariance, PTL

-----------------------------------------------------------------------------
(* What becomes of a submission                                             *)

\* A request is answered by the step of its handler alone.
LEMMA AnsweredByItsHandler ==
  ASSUME PagesOK, [WebNext]_allVars, NEW v \in Voter, Recorded(v)
  PROVE  /\ responses' # responses
         /\ \/ \E text \in Comment \cup {NoComment} : Vote(v, text)
            \/ WriteIn(v)
<1>1. post[v] # None /\ post'[v] # post[v] /\ responses' # responses
  BY DEF Recorded
<1>2. ASSUME NEW u \in Voter, NEW text \in Comment \cup {NoComment}, Vote(u, text) \/ WriteIn(u)
      PROVE  u = v
  <2>1. post' = [post EXCEPT ![u] = None]
    BY <1>2 DEF Vote, WriteIn
  <2> QED
    BY <1>1, <2>1 DEF PagesOK
<1>3. ASSUME NEW u \in Voter, OpenBallot(u) \/ \E picks, proposes : Submit(u, picks, proposes)
      PROVE  FALSE
  BY <1>1, <1>3 DEF OpenBallot, Submit, vars
<1>4. ASSUME EditorFormStep \/ AdminStep \/ UNCHANGED allVars PROVE FALSE
  BY <1>1, <1>4 DEF EditorFormStep, OpenEditForm, SaveEditForm, AdminStep, allVars, web
<1>5. BrowserStep
  BY <1>4 DEF WebNext
<1>6. PICK u \in Voter : \/ \E text \in Comment \cup {NoComment} : Vote(u, text)
                         \/ WriteIn(u)
  BY <1>3, <1>5 DEF BrowserStep
<1>7. u = v
  <2>1. CASE WriteIn(u)
    <3>1. NoComment \in Comment \cup {NoComment}
      OBVIOUS
    <3> QED
      BY <1>2, <2>1, <3>1
  <2>2. CASE \E text \in Comment \cup {NoComment} : Vote(u, text)
    BY <1>2, <2>2
  <2> QED
    BY <1>6, <2>1, <2>2
<1> QED
  BY <1>1, <1>6, <1>7

\* public.go, of handleVote: whatever happened since the ballot was drawn, every
\* option that was on it and still is on it is recorded as it was submitted.
THEOREM SubmissionsAreHonoured == ASSUME BothKinds PROVE WebSpec => SubmissionIsHonoured
<1>1. ASSUME Inv, PagesOK, [WebNext]_allVars, NEW v \in Voter, Recorded(v), ~ post[v].proposes,
             NEW o \in post[v].shown \cap VisibleTo(status, v, NoOption)
      PROVE  o \in choices'[v] <=> o \in post[v].picks
  <2>1. PICK text \in Comment \cup {NoComment} : Vote(v, text)
    BY <1>1, AnsweredByItsHandler DEF WriteIn
  <2>2. SaveResponseTx(status, v, post[v].picks, text, NoOption, post[v].preview)
    BY <1>1, <2>1 DEF Vote, Recorded, SaveResponse, vars
  <2>3. choices'[v] = (post[v].picks \cap VisibleTo(status, v, NoOption))
                      \cup ((choices[v] \cap Listed(status)) \ VisibleTo(status, v, NoOption))
    BY <1>1, <2>2 DEF SaveResponseTx, Inv, TypeOK
  <2> QED
    BY <1>1, <2>3
<1>2. Inv /\ PagesOK /\ [WebNext]_allVars =>
        [\A v \in Voter :
           (Recorded(v) /\ ~post[v].proposes) =>
             \A o \in post[v].shown \cap VisibleTo(status, v, NoOption) :
               o \in choices'[v] <=> o \in post[v].picks]_allVars
  BY <1>1
<1> QED
  BY <1>2, WebInvariance, PTL DEF WebSpec, SubmissionIsHonoured

\* public.go, of handleVote and handleWriteIn: a request that was let through while
\* the survey was open is refused once it is a draft.
THEOREM DraftsArePreviewed == ASSUME BothKinds PROVE WebSpec => DraftsTakeOnlyPreviews
<1>1. ASSUME PagesOK, [WebNext]_allVars, NEW v \in Voter, state = "draft", Recorded(v)
      PROVE  post[v].preview
  <2>1. ~ Accepting
    BY <1>1 DEF Accepting
  <2>2. ASSUME AcceptingFrom(post[v].preview) PROVE post[v].preview
    BY <2>1, <2>2 DEF AcceptingFrom
  <2>3. ASSUME NEW text, Vote(v, text) PROVE AcceptingFrom(post[v].preview)
    BY <1>1, <2>3 DEF Vote, Recorded, vars
  <2>4. ASSUME WriteIn(v) PROVE AcceptingFrom(post[v].preview)
    BY <1>1, <2>4 DEF WriteIn, Recorded, MayPropose, vars
  <2> QED
    BY <1>1, <2>2, <2>3, <2>4, AnsweredByItsHandler
<1>2. Inv /\ PagesOK /\ [WebNext]_allVars =>
        [\A v \in Voter : (state = "draft" /\ Recorded(v)) => post[v].preview]_allVars
  BY <1>1
<1> QED
  BY <1>2, WebInvariance, PTL DEF WebSpec, DraftsTakeOnlyPreviews

\* public.go, of handleWriteIn: proposing an option takes no selection and no
\* comment away from its author.
THEOREM WriteInsKeepTheRest == ASSUME BothKinds PROVE WebSpec => WriteInKeepsTheRest
<1>1. ASSUME Inv, PagesOK, [WebNext]_allVars, NEW v \in Voter, Recorded(v), post[v].proposes
      PROVE  /\ choices[v] \subseteq choices'[v]
             /\ settings.comments => comment'[v] = comment[v]
  <2>1. WriteIn(v)
    BY <1>1, AnsweredByItsHandler DEF Vote
  <2>2. PICK o \in OptionId : AddWriteIn(v, o, post[v].preview)
    BY <1>1, <2>1 DEF WriteIn, Recorded, vars
  <2> DEFINE stat == AddOptions(status, {o}, "pending")
  <2>3. SaveResponseTx(stat, v, choices[v] \cup {o}, comment[v], o, post[v].preview)
    BY <2>2 DEF AddWriteIn
  <2>4. choices[v] \subseteq Listed(stat)
    <3>1. choices[v] \subseteq Listed(status)
      BY <1>1 DEF Inv, ChoicesWereShown
    <3>2. Listed(stat) = Listed(status) \cup {o}
      BY ListedGrows
    <3> QED
      BY <3>1, <3>2
  <2> HIDE DEF stat
  <2>5. /\ choices'[v] = ((choices[v] \cup {o}) \cap VisibleTo(stat, v, o))
                         \cup ((choices[v] \cap Listed(stat)) \ VisibleTo(stat, v, o))
        /\ comment'[v] = IF settings.comments THEN comment[v] ELSE NoComment
    BY <1>1, <2>3 DEF SaveResponseTx, Inv, TypeOK
  <2> QED
    BY <2>4, <2>5
<1>2. Inv /\ PagesOK /\ [WebNext]_allVars =>
        [\A v \in Voter :
           (Recorded(v) /\ post[v].proposes) =>
             /\ choices[v] \subseteq choices'[v]
             /\ settings.comments => comment'[v] = comment[v]]_allVars
  BY <1>1
<1> QED
  BY <1>2, WebInvariance, PTL DEF WebSpec, WriteInKeepsTheRest

=============================================================================
