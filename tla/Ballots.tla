------------------------------- MODULE Ballots ------------------------------
(***************************************************************************)
(* The web handlers in front of one survey (internal/web/public.go and     *)
(* internal/web/admin.go).  A browser acts on a page that was rendered     *)
(* earlier: the ballot a respondent submits and the edit form an editor    *)
(* saves are as old as the page.  handleVote and handleWriteIn moreover    *)
(* read the survey once to decide who may answer it and how, and hand the  *)
(* decision to a store transaction that runs later.                        *)
(***************************************************************************)
EXTENDS Survey

CONSTANTS
  Previewer,   \* the browsers signed in to an approved editor account
  None         \* no page, or no request

ASSUME PreviewerAssumption == Previewer \subseteq Voter

VARIABLES
  form,       \* form[v]: the ballot on v's screen
  post,       \* post[v]: v's request, between visibleSurvey and the transaction
  editForm    \* the edit form on an editor's screen

web     == <<form, post, editForm>>
allVars == <<vars, web>>

Form == [shown : SUBSET OptionId]
Post == [shown : SUBSET OptionId, picks : SUBSET OptionId,
         proposes : BOOLEAN, preview : BOOLEAN]
EditForm == [listed : SUBSET OptionId]

WebTypeOK ==
  /\ TypeOK
  /\ form \in [Voter -> Form \cup {None}]
  /\ post \in [Voter -> Post \cup {None}]
  /\ editForm \in EditForm \cup {None}

-----------------------------------------------------------------------------
(* Respondents                                                             *)

\* visibleSurvey: a draft exists only for an editor, who is then previewing it.
VisibleSurvey(v) == Exists /\ (state = "draft" => v \in Previewer)
IsPreview == state = "draft"

\* handleBallot: a survey that is not accepting is rendered without a form.
OpenBallot(v) ==
  /\ VisibleSurvey(v)
  /\ post[v] = None
  /\ form' = [form EXCEPT ![v] =
                IF AcceptingFrom(IsPreview) THEN [shown |-> VisibleTo(status, v, NoOption)]
                ELSE None]
  /\ UNCHANGED <<vars, post, editForm>>

Submit(v, picks, proposes) ==
  /\ form[v] # None
  /\ VisibleSurvey(v)
  /\ picks \subseteq form[v].shown
  /\ post' = [post EXCEPT ![v] = [shown |-> form[v].shown, picks |-> picks,
                                  proposes |-> proposes, preview |-> IsPreview]]
  /\ form' = [form EXCEPT ![v] = None]
  /\ UNCHANGED <<vars, editForm>>

\* The transaction of handleVote, or its refusal.
Vote(v, text) ==
  /\ post[v] # None
  /\ ~post[v].proposes
  /\ IF Exists /\ AcceptingFrom(post[v].preview)
     THEN SaveResponse(v, post[v].picks, text, post[v].preview)
     ELSE UNCHANGED vars
  /\ post' = [post EXCEPT ![v] = None]
  /\ UNCHANGED <<form, editForm>>

\* The transaction of handleWriteIn, or its refusal.
WriteIn(v) ==
  /\ post[v] # None
  /\ post[v].proposes
  /\ IF MayPropose(v, post[v].preview)
     THEN \E o \in OptionId : AddWriteIn(v, o, post[v].preview)
     ELSE UNCHANGED vars
  /\ post' = [post EXCEPT ![v] = None]
  /\ UNCHANGED <<form, editForm>>

-----------------------------------------------------------------------------
(* Editors and moderators                                                  *)

\* handleEditForm: the form has a remove box for each approved or removed option.
OpenEditForm ==
  /\ Exists
  /\ editForm' = [listed |-> {o \in OptionId : status[o] \in {"approved", "removed"}}]
  /\ UNCHANGED <<vars, form, post>>

\* handleEditSave: only boxes that were on the form can be posted as ticked.
SaveEditForm(remove, new, s, close) ==
  /\ editForm # None
  /\ remove \subseteq editForm.listed
  /\ EditSave(remove, new, s, close)
  /\ editForm' = None
  /\ UNCHANGED <<form, post>>

-----------------------------------------------------------------------------
WebInit ==
  /\ Init
  /\ form = [v \in Voter |-> None]
  /\ post = [v \in Voter |-> None]
  /\ editForm = None

BrowserStep ==
  \E v \in Voter :
    \/ OpenBallot(v)
    \/ \E picks \in SUBSET OptionId : Submit(v, picks, FALSE)
    \/ Submit(v, {}, TRUE)
    \/ \E text \in Comment \cup {NoComment} : Vote(v, text)
    \/ WriteIn(v)

EditorFormStep ==
  \/ OpenEditForm
  \/ \E remove \in SUBSET OptionId, new \in SUBSET (OptionId \ Listed(status)),
        s \in Settings, close \in CloseTimes : SaveEditForm(remove, new, s, close)

\* The editor and moderator handlers that carry nothing from an earlier page but
\* the identifier they act on.
AdminStep ==
  /\ \/ \E opts \in SUBSET OptionId : CreateSurvey(opts)
     \/ \E newState \in StateChoices : SetState(newState)
     \/ Publish
     \/ DeleteSurvey
     \/ ModeratorStep
     \/ Tick
  /\ UNCHANGED web

WebNext == BrowserStep \/ EditorFormStep \/ AdminStep

WebSpec == WebInit /\ [][WebNext]_allVars

-----------------------------------------------------------------------------
(* Properties                                                              *)

\* v's request is answered in this step, and what it asked for is recorded.
Recorded(v) == post[v] # None /\ post'[v] = None /\ responses' # responses

\* For every option that was on the form and is still on the ballot, the
\* recorded answer is the submitted one, whatever happened in between:
\* "Deselecting something visible still works".
SubmissionIsHonoured ==
  [][\A v \in Voter :
       (Recorded(v) /\ ~post[v].proposes) =>
         \A o \in post[v].shown \cap VisibleTo(status, v, NoOption) :
           o \in choices'[v] <=> o \in post[v].picks]_allVars

\* Nothing gets into a draft but what was let through as an editor's preview, not
\* even a request that was let through while the survey was open.
DraftsTakeOnlyPreviews ==
  [][\A v \in Voter : (state = "draft" /\ Recorded(v)) => post[v].preview]_allVars

\* Writing an option in costs its author neither another selection nor the
\* comment on record: "proposing an option does not discard the rest of their
\* ballot".  The comment goes if comments have been turned off since.
WriteInKeepsTheRest ==
  [][\A v \in Voter :
       (Recorded(v) /\ post[v].proposes) =>
         /\ choices[v] \subseteq choices'[v]
         /\ settings.comments => comment'[v] = comment[v]]_allVars
=============================================================================
