------------------------------ MODULE Backfill ------------------------------
(***************************************************************************)
(* Opening a database written before the seen table existed                *)
(* (internal/store/store.go, backfillSeen).  A process that opens it gives *)
(* every recorded response a seen set, one survey to a transaction, and    *)
(* keeps two rows of meta: seen_backfilled_through, the last survey done,  *)
(* and seen_backfilled, set at the end.  The first read of each row takes  *)
(* no lock.  Several processes open the database (serve, backup, export),  *)
(* any of them is killed between two transactions and started again, and   *)
(* the first to finish serves while the others still believe there is work *)
(* to do.  While none of them runs, an older version may be put back and   *)
(* serve: it never writes seen (DESIGN.md, the rollback hazard).           *)
(*                                                                         *)
(* Options and responses belong to one survey for ever, SurveyOf.  Survey  *)
(* identifiers are numbers: backfillSeen goes through them in order.       *)
(***************************************************************************)
EXTENDS Naturals

CONSTANTS
  SurveyId,    \* survey identifiers, in the order of the database's index
  OptionId,    \* option identifiers
  ResponseId,  \* response identifiers
  SurveyOf,    \* the survey of each option and response
  Process,     \* the processes that open the data directory
  Downgrades   \* whether the older version may be put back

ASSUME IdsAssumption == SurveyId \subseteq Nat \ {0}
ASSUME SurveyOfAssumption == SurveyOf \in [OptionId \cup ResponseId -> SurveyId]
ASSUME DowngradesAssumption == Downgrades \in BOOLEAN

VARIABLES
  surveys,     \* the identifiers in surveys
  status,      \* status[o]: options.status, "absent" when there is no row
  answered,    \* the rows of responses
  choices,     \* choices[r]: r's rows in choices
  seen,        \* seen[r]: r's rows in seen
  done,        \* meta has seen_backfilled
  through,     \* meta's seen_backfilled_through, 0 when there is none
  phase,       \* phase[p]: how far p has got with opening the database
  from,        \* from[p]: the marker as p read it
  todo,        \* todo[p]: the surveys p has listed and not yet gone through
  assumed,     \* history: what r may be taken to have been shown before seen
  shownTo,     \* history: what r was shown by a version that records it
  unrecorded   \* history: answers the older version took too late to backfill

tables  == <<surveys, status, answered, choices, seen>>
meta    == <<done, through>>
process == <<phase, from, todo>>
history == <<assumed, shownTo, unrecorded>>
vars    == <<tables, meta, process, history>>

NoMarker == 0

Statuses == {"approved", "pending", "rejected", "removed", "merged"}

OptionsOf(s) == {o \in OptionId : SurveyOf[o] = s}

TypeOK ==
  /\ surveys \in SUBSET SurveyId
  /\ status \in [OptionId -> Statuses \cup {"absent"}]
  /\ answered \in SUBSET ResponseId
  /\ choices \in [ResponseId -> SUBSET OptionId]
  /\ seen \in [ResponseId -> SUBSET OptionId]
  /\ done \in BOOLEAN
  /\ through \in SurveyId \cup {NoMarker}
  /\ phase \in [Process -> {"down", "checked", "marked", "filling", "up"}]
  /\ from \in [Process -> SurveyId \cup {NoMarker}]
  /\ todo \in [Process -> SUBSET SurveyId]
  /\ assumed \in [ResponseId -> SUBSET OptionId]
  /\ shownTo \in [ResponseId -> SUBSET OptionId]
  /\ unrecorded \in SUBSET ResponseId

-----------------------------------------------------------------------------
(* What the backfill assumes                                               *)

\* Everyone who answered saw everything on the ballot, whatever became of it;
\* a suggestion that never got there was seen by those who voted for it.
Blanket(r, stat, picks) ==
  {o \in OptionsOf(SurveyOf[r]) :
     /\ stat[o] # "absent"
     /\ stat[o] \in {"pending", "rejected"} => o \in picks}

\* What the time before seen amounts to, for an answer it left behind: every
\* option that was ever on the ballot, and whatever the respondent voted for.
LegacyExposure(r, picks) ==
  {o \in OptionsOf(SurveyOf[r]) : status[o] \in {"approved", "removed", "merged"}} \cup picks

\* The surveys the two rows of meta say are done.
Filled(s) == done \/ s <= through

-----------------------------------------------------------------------------
(* Opening the database: backfillSeen                                      *)

\* The guard, read without a lock.
Open(p) ==
  /\ phase[p] = "down"
  /\ phase' = [phase EXCEPT ![p] = IF done THEN "up" ELSE "checked"]
  /\ UNCHANGED <<tables, meta, from, todo, history>>

ReadMarker(p) ==
  /\ phase[p] = "checked"
  /\ phase' = [phase EXCEPT ![p] = "marked"]
  /\ from' = [from EXCEPT ![p] = through]
  /\ UNCHANGED <<tables, meta, todo, history>>

\* surveyIDsAfter.
ListSurveys(p) ==
  /\ phase[p] = "marked"
  /\ phase' = [phase EXCEPT ![p] = "filling"]
  /\ todo' = [todo EXCEPT ![p] = {s \in surveys : s > from[p]}]
  /\ UNCHANGED <<tables, meta, from, history>>

\* The rows one transaction inserts.
Fill(s) ==
  [r \in ResponseId |->
     IF r \in answered /\ SurveyOf[r] = s
     THEN seen[r] \cup Blanket(r, status, choices[r]) ELSE seen[r]]

\* Mutant: the surveys are gone through in no particular order.
BackfillAnyOrder(p, s) ==
  /\ phase[p] = "filling"
  /\ s \in todo[p]
  /\ IF done
     THEN phase' = [phase EXCEPT ![p] = "up"] /\ UNCHANGED <<seen, through, todo>>
     ELSE /\ seen' = Fill(s)
          /\ through' = s
          /\ todo' = [todo EXCEPT ![p] = @ \ {s}]
          /\ UNCHANGED phase
  /\ UNCHANGED <<surveys, status, answered, choices, done, from, history>>

\* Mutant: the marker is not kept, and an interrupted backfill starts over.
BackfillUnmarked(p, s) ==
  /\ phase[p] = "filling"
  /\ s \in todo[p] /\ \A t \in todo[p] : s <= t
  /\ IF done
     THEN phase' = [phase EXCEPT ![p] = "up"] /\ UNCHANGED <<seen, through, todo>>
     ELSE /\ seen' = Fill(s)
          /\ todo' = [todo EXCEPT ![p] = @ \ {s}]
          /\ UNCHANGED <<phase, through>>
  /\ UNCHANGED <<surveys, status, answered, choices, done, from, history>>

\* Mutant: the guard is not read again inside the transaction.
BackfillUnchecked(p, s) ==
  /\ phase[p] = "filling"
  /\ s \in todo[p] /\ \A t \in todo[p] : s <= t
  /\ seen' = Fill(s)
  /\ through' = s
  /\ todo' = [todo EXCEPT ![p] = @ \ {s}]
  /\ UNCHANGED <<surveys, status, answered, choices, done, phase, from, history>>

\* backfillSeenForSurvey for the first survey left.  errBackfillDone ends the
\* backfill without an error, and the store is open.
BackfillSurvey(p, s) ==
  /\ phase[p] = "filling"
  /\ s \in todo[p] /\ \A t \in todo[p] : s <= t
  /\ IF done
     THEN phase' = [phase EXCEPT ![p] = "up"] /\ UNCHANGED <<seen, through, todo>>
     ELSE /\ seen' = Fill(s)
          /\ through' = s
          /\ todo' = [todo EXCEPT ![p] = @ \ {s}]
          /\ UNCHANGED phase
  /\ UNCHANGED <<surveys, status, answered, choices, done, from, history>>

\* Mutant: the marker is moved past the last survey instead of being deleted.
FinishPastTheLast(p) ==
  /\ phase[p] = "filling"
  /\ todo[p] = {}
  /\ done' = TRUE
  /\ through' = through + 1
  /\ phase' = [phase EXCEPT ![p] = "up"]
  /\ UNCHANGED <<tables, from, todo, history>>

\* The last transaction.  It reads nothing before it writes.
Finish(p) ==
  /\ phase[p] = "filling"
  /\ todo[p] = {}
  /\ done' = TRUE
  /\ through' = NoMarker
  /\ phase' = [phase EXCEPT ![p] = "up"]
  /\ UNCHANGED <<tables, from, todo, history>>

\* A kill, a failed transaction or an orderly exit: what was committed stays.
Stop(p) ==
  /\ phase[p] # "down"
  /\ phase' = [phase EXCEPT ![p] = "down"]
  /\ from' = [from EXCEPT ![p] = NoMarker]
  /\ todo' = [todo EXCEPT ![p] = {}]
  /\ UNCHANGED <<tables, meta, history>>

-----------------------------------------------------------------------------
(* Serving                                                                 *)

Ballot(r) ==
  {o \in OptionsOf(SurveyOf[r]) :
     status[o] = "approved" \/ (status[o] = "pending" /\ o \in choices[r])}

CreateSurvey(s) ==
  /\ s \notin surveys
  /\ surveys' = surveys \cup {s}
  /\ UNCHANGED <<status, answered, choices, seen, meta, process, history>>

AddOption(o) ==
  /\ SurveyOf[o] \in surveys
  /\ status[o] = "absent"
  /\ status' = [status EXCEPT ![o] = "approved"]
  /\ UNCHANGED <<surveys, answered, choices, seen, meta, process, history>>

SetOptionStatus(o, stat) ==
  /\ status[o] # "absent"
  /\ status' = [status EXCEPT ![o] = stat]
  /\ UNCHANGED <<surveys, answered, choices, seen, meta, process, history>>

\* saveResponseTx: what could be seen is taken from the submission, the rest is
\* carried forward, and what is on the ballot joins the seen set.
SaveResponse(r, picks) ==
  /\ SurveyOf[r] \in surveys
  /\ answered' = answered \cup {r}
  /\ choices' = [choices EXCEPT ![r] = (picks \cap Ballot(r)) \cup (@ \ Ballot(r))]
  /\ seen' = [seen EXCEPT ![r] = @ \cup Ballot(r)]
  /\ shownTo' = [shownTo EXCEPT ![r] = @ \cup Ballot(r)]
  /\ UNCHANGED <<surveys, status, meta, process, assumed, unrecorded>>

\* A process that has the store open serves it.
Serve ==
  /\ \E p \in Process : phase[p] = "up"
  /\ \/ \E s \in SurveyId : CreateSurvey(s)
     \/ \E o \in OptionId :
          AddOption(o) \/ \E stat \in {"approved", "rejected", "removed"} : SetOptionStatus(o, stat)
     \/ \E r \in ResponseId, picks \in SUBSET OptionId : SaveResponse(r, picks)

\* The older version, when it is put back, is the only one to run.
DowngradedOnly == Downgrades /\ \A p \in Process : phase[p] = "down"

\* It takes an answer and records no exposure.
OlderSaveResponse(r, picks) ==
  /\ DowngradedOnly
  /\ SurveyOf[r] \in surveys
  /\ r \notin answered
  /\ picks \subseteq Ballot(r)
  /\ answered' = answered \cup {r}
  /\ choices' = [choices EXCEPT ![r] = picks]
  /\ IF Filled(SurveyOf[r])
     THEN unrecorded' = unrecorded \cup {r} /\ UNCHANGED assumed
     ELSE /\ assumed' = [assumed EXCEPT ![r] = LegacyExposure(r, picks)]
          /\ UNCHANGED unrecorded
  /\ UNCHANGED <<surveys, status, seen, meta, process, shownTo>>

OlderAddOption(o) ==
  /\ DowngradedOnly
  /\ SurveyOf[o] \in surveys
  /\ status[o] = "absent"
  /\ status' = [status EXCEPT ![o] = "approved"]
  /\ assumed' = [r \in ResponseId |->
                   IF r \in answered /\ SurveyOf[r] = SurveyOf[o] /\ ~ Filled(SurveyOf[o])
                   THEN assumed[r] \cup {o} ELSE assumed[r]]
  /\ UNCHANGED <<surveys, answered, choices, seen, meta, process, shownTo, unrecorded>>

-----------------------------------------------------------------------------
\* A database of the older version: responses, choices and no seen.
Init ==
  /\ surveys \in SUBSET SurveyId
  /\ status \in [OptionId -> Statuses \cup {"absent"}]
  /\ \A o \in OptionId : SurveyOf[o] \notin surveys => status[o] = "absent"
  /\ answered \in SUBSET {r \in ResponseId : SurveyOf[r] \in surveys}
  /\ choices \in [ResponseId -> SUBSET OptionId]
  /\ \A r \in ResponseId :
       choices[r] \subseteq
         {o \in OptionsOf(SurveyOf[r]) : r \in answered /\ status[o] # "absent"}
  /\ seen = [r \in ResponseId |-> {}]
  /\ done = FALSE
  /\ through = NoMarker
  /\ phase = [p \in Process |-> "down"]
  /\ from = [p \in Process |-> NoMarker]
  /\ todo = [p \in Process |-> {}]
  /\ assumed = [r \in ResponseId |->
                  IF r \in answered THEN LegacyExposure(r, choices[r]) ELSE {}]
  /\ shownTo = [r \in ResponseId |-> {}]
  /\ unrecorded = {}

BackfillStep(p) ==
  \/ Open(p)
  \/ ReadMarker(p)
  \/ ListSurveys(p)
  \/ \E s \in SurveyId : BackfillSurvey(p, s)
  \/ Finish(p)

OlderStep ==
  \/ \E r \in ResponseId, picks \in SUBSET OptionId : OlderSaveResponse(r, picks)
  \/ \E o \in OptionId : OlderAddOption(o)

Next ==
  \/ \E p \in Process : BackfillStep(p) \/ Stop(p)
  \/ Serve
  \/ OlderStep

Spec == Init /\ [][Next]_vars

\* Processes are started again, and may be killed for ever after, but none is
\* for ever killed before one and the same step: a transaction the size of one
\* survey that is attempted again and again commits.
FairSpec ==
  /\ Spec
  /\ \A p \in Process :
       /\ WF_vars(Open(p))
       /\ SF_vars(ReadMarker(p))
       /\ SF_vars(ListSurveys(p))
       /\ SF_vars(\E s \in SurveyId : BackfillSurvey(p, s))
       /\ SF_vars(Finish(p))

-----------------------------------------------------------------------------
(* Properties                                                              *)

\* backfillSeenForSurvey: "the marker can never claim more than was committed".
\* Whatever the interruptions and however many processes, in every survey that
\* meta says is done each vote is for an option its owner is on record as having
\* been shown, and what the backfill was to assume is recorded.  Only answers
\* the older version took after their survey was done are without.
MarkerClaimsOnlyCommitted ==
  \A r \in answered \ unrecorded :
    Filled(SurveyOf[r]) => choices[r] \cup assumed[r] \subseteq seen[r]

\* backfillSeen: "options added after the upgrade are never marked as shown to
\* people who answered before they existed", and a suggestion in moderation is
\* marked for nobody but those who voted for it.  What is on record is what was
\* assumed of the time before seen and what was shown since, and no more.
ExposureIsReal ==
  \A r \in ResponseId : seen[r] \subseteq assumed[r] \cup shownTo[r]

\* "Per-survey commits bound the log and let a restart resume where it stopped":
\* however often it is interrupted, the backfill is completed.
BackfillCompletes == <>done
=============================================================================
