--------------------------- MODULE BackfillProofs ---------------------------
(***************************************************************************)
(* The backfill is right for any number of processes, surveys, options and *)
(* responses, and any number of interruptions.  The marker in meta may go  *)
(* backwards, when a process that started earlier commits after one that   *)
(* is ahead of it, so the argument cannot be about the marker alone: for   *)
(* each process it says which surveys are behind it, and a survey is       *)
(* Closed when nothing any process holds can reach it again.               *)
(***************************************************************************)
EXTENDS Backfill, TLAPS

Covered(r) == choices[r] \cup assumed[r] \subseteq seen[r]

Recorded == answered \ unrecorded

\* No process will go through s again.
Closed(s) ==
  \/ done
  \/ /\ s <= through
     /\ \A p \in Process :
          /\ phase[p] = "marked" => s <= from[p]
          /\ phase[p] = "filling" => \A t \in todo[p] : s < t

\* Votes are for options of the same survey that have a row, and only answers
\* have any.
RowsBelong ==
  /\ \A r \in ResponseId :
       choices[r] \subseteq {o \in OptionsOf(SurveyOf[r]) : status[o] # "absent"}
  /\ \A r \in ResponseId \ answered : choices[r] = {} /\ assumed[r] = {}
  /\ \A r \in answered : SurveyOf[r] \in surveys

ServesOnlyDone == \A p \in Process : phase[p] = "up" => done

\* What is behind a process, while the backfill is not completed, is covered.
BehindIsCovered ==
  ~done => \A p \in Process, r \in Recorded :
    /\ phase[p] = "marked" /\ SurveyOf[r] <= from[p] => Covered(r)
    /\ phase[p] = "filling" /\ SurveyOf[r] \notin todo[p] => Covered(r)

\* What a transaction may still insert is what was assumed.
OpenIsAssumed ==
  \A r \in answered :
    ~Closed(SurveyOf[r]) => Blanket(r, status, choices[r]) \subseteq assumed[r]

\* Until the backfill is completed nothing that was assumed is out of its reach.
AssumedIsReached ==
  ~done => \A r \in answered : assumed[r] \subseteq Blanket(r, status, choices[r])

LateIsClosed == \A r \in unrecorded : Closed(SurveyOf[r])

Inv ==
  /\ TypeOK
  /\ RowsBelong
  /\ ServesOnlyDone
  /\ MarkerClaimsOnlyCommitted
  /\ BehindIsCovered
  /\ ExposureIsReal
  /\ OpenIsAssumed
  /\ AssumedIsReached
  /\ LateIsClosed

-----------------------------------------------------------------------------
(* Lemmas                                                                  *)

\* The statuses the backfill goes by and the ones that were ever on the ballot
\* come to the same, for an answer whose votes have a row.
LEMMA BlanketIsExposure ==
  ASSUME TypeOK, RowsBelong, NEW r \in ResponseId, NEW picks \in SUBSET OptionId,
         picks \subseteq {o \in OptionsOf(SurveyOf[r]) : status[o] # "absent"}
  PROVE  /\ Blanket(r, status, picks) = LegacyExposure(r, picks)
         /\ picks \subseteq Blanket(r, status, picks)
  BY DEF Blanket, LegacyExposure, OptionsOf, TypeOK, Statuses

\* Survey identifiers and markers are numbers.
LEMMA Numbers ==
  ASSUME TypeOK
  PROVE  /\ \A s \in SurveyId : s \in Nat
         /\ through \in Nat
         /\ \A q \in Process : from[q] \in Nat /\ \A t \in todo[q] : t \in Nat
         /\ \A t \in surveys : t \in Nat
         /\ \A r \in ResponseId : SurveyOf[r] \in SurveyId /\ SurveyOf[r] \in Nat
<1>1. \A s \in SurveyId \cup {NoMarker} : s \in Nat
  BY IdsAssumption DEF NoMarker
<1>2. \A r \in ResponseId : SurveyOf[r] \in SurveyId
  BY SurveyOfAssumption
<1> QED BY <1>1, <1>2 DEF TypeOK

\* Every step keeps the types.
LEMMA TypeStep == TypeOK /\ [Next]_vars => TypeOK'
<1> SUFFICES ASSUME TypeOK, [Next]_vars PROVE TypeOK'
  OBVIOUS
<1> USE IdsAssumption, SurveyOfAssumption DEF TypeOK, NoMarker
<1>1. ASSUME NEW p \in Process, Open(p) PROVE TypeOK'
  BY <1>1 DEF Open, tables, meta, history
<1>2. ASSUME NEW p \in Process, ReadMarker(p) PROVE TypeOK'
  BY <1>2 DEF ReadMarker, tables, meta, history
<1>3. ASSUME NEW p \in Process, ListSurveys(p) PROVE TypeOK'
  BY <1>3 DEF ListSurveys, tables, meta, history
<1>4. ASSUME NEW p \in Process, NEW s \in SurveyId, BackfillSurvey(p, s) PROVE TypeOK'
  <2>1. Fill(s) \in [ResponseId -> SUBSET OptionId]
    BY DEF Fill, Blanket, OptionsOf
  <2> QED BY <1>4, <2>1 DEF BackfillSurvey, history
<1>5. ASSUME NEW p \in Process, Finish(p) PROVE TypeOK'
  BY <1>5 DEF Finish, tables, history
<1>6. ASSUME NEW p \in Process, Stop(p) PROVE TypeOK'
  BY <1>6 DEF Stop, tables, meta, history
<1>7. ASSUME Serve PROVE TypeOK'
  <2>1. ASSUME NEW s \in SurveyId, CreateSurvey(s) PROVE TypeOK'
    BY <2>1 DEF CreateSurvey, meta, process, history
  <2>2. ASSUME NEW o \in OptionId, AddOption(o) PROVE TypeOK'
    BY <2>2 DEF AddOption, meta, process, history, Statuses
  <2>3. ASSUME NEW o \in OptionId, NEW stat \in {"approved", "rejected", "removed"},
               SetOptionStatus(o, stat)
        PROVE TypeOK'
    BY <2>3 DEF SetOptionStatus, meta, process, history, Statuses
  <2>4. ASSUME NEW r \in ResponseId, NEW picks \in SUBSET OptionId, SaveResponse(r, picks)
        PROVE TypeOK'
    <3>1. Ballot(r) \subseteq OptionId
      BY DEF Ballot, OptionsOf
    <3> QED BY <2>4, <3>1 DEF SaveResponse, meta, process
  <2> QED BY <1>7, <2>1, <2>2, <2>3, <2>4 DEF Serve
<1>8. ASSUME OlderStep PROVE TypeOK'
  <2>1. ASSUME NEW r \in ResponseId, NEW picks \in SUBSET OptionId, OlderSaveResponse(r, picks)
        PROVE TypeOK'
    <3>1. LegacyExposure(r, picks) \subseteq OptionId
      BY DEF LegacyExposure, OptionsOf
    <3> QED BY <2>1, <3>1 DEF OlderSaveResponse, meta, process
  <2>2. ASSUME NEW o \in OptionId, OlderAddOption(o) PROVE TypeOK'
    BY <2>2 DEF OlderAddOption, meta, process, Statuses
  <2> QED BY <1>8, <2>1, <2>2 DEF OlderStep
<1>9. ASSUME UNCHANGED vars PROVE TypeOK'
  BY <1>9 DEF vars, tables, meta, process, history
<1> QED BY <1>1, <1>2, <1>3, <1>4, <1>5, <1>6, <1>7, <1>8, <1>9 DEF Next, BackfillStep

\* The steps of opening and leaving a database that write nothing to it.
QuietStep(p) == Open(p) \/ ReadMarker(p) \/ ListSurveys(p) \/ Stop(p)

LEMMA QuietKeepsInv ==
  ASSUME Inv, TypeOK', NEW p \in Process, QuietStep(p) PROVE Inv'
<1> USE IdsAssumption, SurveyOfAssumption
<1>1. UNCHANGED <<tables, meta, history>>
  BY DEF QuietStep, Open, ReadMarker, ListSurveys, Stop
<1>2. UNCHANGED <<surveys, status, answered, choices, seen, done, through, assumed, shownTo, unrecorded>>
  BY <1>1 DEF tables, meta, history
<1>3. RowsBelong'
  BY <1>2 DEF Inv, RowsBelong, OptionsOf
<1>4. ServesOnlyDone'
  BY <1>2 DEF Inv, ServesOnlyDone, TypeOK, QuietStep, Open, ReadMarker, ListSurveys, Stop
<1>5. MarkerClaimsOnlyCommitted'
  BY <1>2 DEF Inv, MarkerClaimsOnlyCommitted, Filled
<1>6. ExposureIsReal'
  BY <1>2 DEF Inv, ExposureIsReal
<1>7. BehindIsCovered'
  <2> SUFFICES ASSUME ~done', NEW q \in Process, NEW r \in Recorded'
               PROVE /\ phase'[q] = "marked" /\ SurveyOf[r] <= from'[q] => Covered(r)'
                     /\ phase'[q] = "filling" /\ SurveyOf[r] \notin todo'[q] => Covered(r)'
    BY DEF BehindIsCovered
  <2>1. ~done /\ r \in Recorded /\ r \in ResponseId /\ (Covered(r)' <=> Covered(r))
    BY <1>2 DEF Recorded, Covered, Inv, TypeOK
  <2>2. SurveyOf[r] \in surveys /\ SurveyOf[r] \in SurveyId
    BY <2>1 DEF Inv, RowsBelong, Recorded
  <2>3. SurveyOf[r] <= through => Covered(r)
    BY <2>1 DEF Inv, MarkerClaimsOnlyCommitted, Filled, Covered, Recorded
  <2>4. /\ phase[q] = "marked" /\ SurveyOf[r] <= from[q] => Covered(r)
        /\ phase[q] = "filling" /\ SurveyOf[r] \notin todo[q] => Covered(r)
    BY <2>1 DEF Inv, BehindIsCovered
  <2>5. CASE q # p
    BY <2>1, <2>4, <2>5 DEF Inv, TypeOK, QuietStep, Open, ReadMarker, ListSurveys, Stop
  <2>6. CASE q = p /\ (Open(p) \/ Stop(p))
    BY <2>6, <2>1 DEF Inv, TypeOK, Open, Stop
  <2>7. CASE q = p /\ ReadMarker(p)
    BY <2>7, <2>1, <2>3 DEF Inv, TypeOK, ReadMarker
  <2>8. CASE q = p /\ ListSurveys(p)
    <3>1. phase[p] = "marked" /\ phase'[p] = "filling" /\ todo'[p] = {s \in surveys : s > from[p]}
      BY <2>8 DEF Inv, TypeOK, ListSurveys
    <3>2. SurveyOf[r] \in Nat /\ from[p] \in Nat
      BY <2>2, Numbers DEF Inv
    <3>3. SurveyOf[r] \notin todo'[p] => SurveyOf[r] <= from[p]
      BY <3>1, <3>2, <2>2
    <3> QED BY <2>1, <2>4, <2>8, <3>1, <3>3
  <2> QED BY <2>5, <2>6, <2>7, <2>8 DEF QuietStep
<1>8. ASSUME NEW s \in SurveyId, Closed(s) PROVE Closed(s)'
  <2>1. CASE done
    BY <2>1, <1>2 DEF Closed
  <2>2. CASE ~done
    <3> SUFFICES ASSUME NEW q \in Process
                 PROVE  /\ phase'[q] = "marked" => s <= from'[q]
                        /\ phase'[q] = "filling" => \A t \in todo'[q] : s < t
      BY <1>2, <1>8, <2>2 DEF Closed
    <3>1. s <= through /\ (phase[q] = "marked" => s <= from[q])
                       /\ (phase[q] = "filling" => \A t \in todo[q] : s < t)
      BY <1>8, <2>2 DEF Closed
    <3>2. CASE q # p
      BY <3>1, <3>2 DEF Inv, TypeOK, QuietStep, Open, ReadMarker, ListSurveys, Stop
    <3>3. CASE q = p /\ (Open(p) \/ Stop(p))
      BY <3>3, <2>2 DEF Inv, TypeOK, Open, Stop
    <3>4. CASE q = p /\ ReadMarker(p)
      BY <3>4, <3>1 DEF Inv, TypeOK, ReadMarker
    <3>5. CASE q = p /\ ListSurveys(p)
      <4>1. phase[p] = "marked" /\ phase'[p] = "filling" /\ todo'[p] = {t \in surveys : t > from[p]}
        BY <3>5 DEF Inv, TypeOK, ListSurveys
      <4>2. s \in Nat /\ from[p] \in Nat /\ \A t \in surveys : t \in Nat
        BY Numbers DEF Inv
      <4> QED BY <3>1, <3>5, <4>1, <4>2
    <3> QED BY <3>2, <3>3, <3>4, <3>5 DEF QuietStep
  <2> QED BY <2>1, <2>2
<1>9. OpenIsAssumed'
  <2> SUFFICES ASSUME NEW r \in answered, ~Closed(SurveyOf[r])'
               PROVE Blanket(r, status, choices[r]) \subseteq assumed[r]
    BY <1>2 DEF OpenIsAssumed, Blanket, OptionsOf
  <2>1. SurveyOf[r] \in SurveyId
    BY DEF Inv, TypeOK
  <2> QED BY <2>1, <1>8 DEF Inv, OpenIsAssumed
<1>10. LateIsClosed'
  <2>1. \A r \in unrecorded : SurveyOf[r] \in SurveyId
    BY DEF Inv, TypeOK
  <2> QED BY <1>2, <1>8, <2>1 DEF Inv, LateIsClosed
<1>11. AssumedIsReached'
  BY <1>2 DEF Inv, AssumedIsReached, Blanket, OptionsOf
<1> QED BY <1>3, <1>4, <1>5, <1>6, <1>7, <1>9, <1>10, <1>11 DEF Inv

\* A transaction of the backfill: what it inserts was assumed, and the survey it
\* leaves in the marker has nothing uncovered before it.
LEMMA BackfillKeepsInv ==
  ASSUME Inv, TypeOK', NEW p \in Process, NEW s \in SurveyId, BackfillSurvey(p, s), ~done
  PROVE  Inv'
<1> USE IdsAssumption, SurveyOfAssumption
<1>1. /\ UNCHANGED <<surveys, status, answered, choices, done, from, assumed, shownTo, unrecorded, phase>>
      /\ seen' = Fill(s) /\ through' = s
      /\ phase[p] = "filling" /\ s \in todo[p] /\ \A t \in todo[p] : s <= t
      /\ todo' = [todo EXCEPT ![p] = @ \ {s}]
  BY DEF BackfillSurvey, history
<1>2. /\ s \in Nat /\ through \in Nat
      /\ \A q \in Process : from[q] \in Nat /\ \A t \in todo[q] : t \in Nat
      /\ \A r \in ResponseId : SurveyOf[r] \in SurveyId /\ SurveyOf[r] \in Nat
  BY Numbers DEF Inv
<1>3. /\ todo'[p] = todo[p] \ {s}
      /\ \A q \in Process : q # p => todo'[q] = todo[q]
  BY <1>1 DEF Inv, TypeOK
<1>4. \A r \in ResponseId : seen[r] \subseteq seen'[r]
  BY <1>1 DEF Fill
<1>5. ASSUME NEW r \in ResponseId, Covered(r) PROVE Covered(r)'
  BY <1>1, <1>4, <1>5 DEF Covered
<1>6. ASSUME NEW r \in Recorded, SurveyOf[r] = s PROVE Covered(r)'
  <2>1. r \in answered /\ r \in ResponseId
    BY DEF Recorded, Inv, TypeOK
  <2>2. seen'[r] = seen[r] \cup Blanket(r, status, choices[r])
    BY <1>1, <1>6, <2>1 DEF Fill
  <2>3. choices[r] \subseteq Blanket(r, status, choices[r])
    BY <2>1, BlanketIsExposure DEF Inv, RowsBelong, TypeOK
  <2>4. assumed[r] \subseteq Blanket(r, status, choices[r])
    BY <2>1 DEF Inv, AssumedIsReached
  <2> QED BY <1>1, <2>2, <2>3, <2>4 DEF Covered
<1>7. RowsBelong' /\ ServesOnlyDone' /\ AssumedIsReached'
  BY <1>1 DEF Inv, RowsBelong, ServesOnlyDone, AssumedIsReached, Blanket, OptionsOf
<1>8. ASSUME NEW r \in Recorded, SurveyOf[r] \notin todo'[p] PROVE Covered(r)'
  <2>1. r \in ResponseId
    BY DEF Recorded, Inv, TypeOK
  <2>2. CASE SurveyOf[r] = s
    BY <2>2, <1>6
  <2>3. CASE SurveyOf[r] # s
    BY <2>1, <2>3, <1>1, <1>3, <1>5, <1>8 DEF Inv, BehindIsCovered
  <2> QED BY <2>2, <2>3
<1>9. MarkerClaimsOnlyCommitted'
  <2> SUFFICES ASSUME NEW r \in Recorded, SurveyOf[r] <= s PROVE Covered(r)'
    BY <1>1 DEF MarkerClaimsOnlyCommitted, Filled, Recorded, Covered
  <2>1. r \in ResponseId
    BY DEF Recorded, Inv, TypeOK
  <2>2. SurveyOf[r] \notin todo'[p]
    BY <2>1, <1>1, <1>2, <1>3
  <2> QED BY <2>2, <1>8
<1>10. BehindIsCovered'
  <2> SUFFICES ASSUME NEW q \in Process, NEW r \in Recorded
               PROVE /\ phase[q] = "marked" /\ SurveyOf[r] <= from[q] => Covered(r)'
                     /\ phase[q] = "filling" /\ SurveyOf[r] \notin todo'[q] => Covered(r)'
    BY <1>1 DEF BehindIsCovered, Recorded
  <2>1. r \in ResponseId
    BY DEF Recorded, Inv, TypeOK
  <2>2. CASE q = p
    BY <2>2, <1>1, <1>8
  <2>3. CASE q # p
    BY <2>1, <2>3, <1>3, <1>5 DEF Inv, BehindIsCovered
  <2> QED BY <2>2, <2>3
<1>11. ExposureIsReal'
  <2> SUFFICES ASSUME NEW r \in ResponseId PROVE seen'[r] \subseteq assumed[r] \cup shownTo[r]
    BY <1>1 DEF ExposureIsReal
  <2>1. CASE ~ (r \in answered /\ SurveyOf[r] = s)
    BY <2>1, <1>1 DEF Inv, ExposureIsReal, Fill
  <2>2. CASE r \in answered /\ SurveyOf[r] = s
    <3>1. ~Closed(s)
      BY <1>1, <1>2 DEF Closed
    <3>2. Blanket(r, status, choices[r]) \subseteq assumed[r]
      BY <2>2, <3>1 DEF Inv, OpenIsAssumed
    <3> QED BY <2>2, <3>2, <1>1 DEF Inv, ExposureIsReal, Fill
  <2> QED BY <2>1, <2>2
<1>12. ASSUME NEW t \in SurveyId, Closed(t) PROVE Closed(t)'
  <2>1. t < s /\ t \in Nat
    BY <1>12, <1>1 DEF Closed
  <2>2. \A q \in Process : /\ phase[q] = "marked" => t <= from[q]
                           /\ phase[q] = "filling" => \A u \in todo[q] : t < u
    BY <1>12 DEF Closed
  <2> QED BY <2>1, <2>2, <1>1, <1>2, <1>3 DEF Closed
<1>13. OpenIsAssumed' /\ LateIsClosed'
  <2>1. \A r \in answered \cup unrecorded : r \in ResponseId
    BY DEF Inv, TypeOK
  <2> QED BY <2>1, <1>1, <1>2, <1>12 DEF Inv, OpenIsAssumed, LateIsClosed, Blanket, OptionsOf
<1> QED BY <1>7, <1>9, <1>10, <1>11, <1>13 DEF Inv

\* A process that finds the work done by another leaves the database alone, and
\* once it is done nothing but types, rows and exposure is left to be kept.
LEMMA DoneKeepsInv ==
  ASSUME Inv, TypeOK', RowsBelong', done',
         \A r \in Recorded' : Covered(r)',
         ExposureIsReal'
  PROVE  Inv'
BY DEF Inv, ServesOnlyDone, MarkerClaimsOnlyCommitted, Filled, BehindIsCovered, Recorded, Covered,
       OpenIsAssumed, AssumedIsReached, LateIsClosed, Closed

LEMMA FinishKeepsInv ==
  ASSUME Inv, TypeOK', NEW p \in Process, Finish(p) PROVE Inv'
<1>1. /\ UNCHANGED <<surveys, status, answered, choices, seen, assumed, shownTo, unrecorded>>
      /\ done' /\ phase[p] = "filling" /\ todo[p] = {}
  BY DEF Finish, tables, history
<1>2. RowsBelong' /\ ExposureIsReal'
  BY <1>1 DEF Inv, RowsBelong, ExposureIsReal, OptionsOf
<1>3. \A r \in Recorded : Covered(r)
  <2>1. CASE done
    BY <2>1 DEF Inv, MarkerClaimsOnlyCommitted, Filled, Recorded, Covered
  <2>2. CASE ~done
    BY <2>2, <1>1 DEF Inv, BehindIsCovered
  <2> QED BY <2>1, <2>2
<1> QED BY <1>1, <1>2, <1>3, DoneKeepsInv DEF Recorded, Covered

LEMMA ServeKeepsInv ==
  ASSUME Inv, TypeOK', Serve PROVE Inv'
<1> USE SurveyOfAssumption
<1>1. done
  BY DEF Serve, Inv, ServesOnlyDone
<1>2. \A r \in Recorded : Covered(r)
  BY <1>1 DEF Inv, MarkerClaimsOnlyCommitted, Filled, Recorded, Covered
<1>3. ASSUME NEW s \in SurveyId, CreateSurvey(s) PROVE Inv'
  <2>1. UNCHANGED <<status, answered, choices, seen, done, assumed, shownTo, unrecorded>> /\ surveys \subseteq surveys'
    BY <1>3 DEF CreateSurvey, meta, history
  <2>2. RowsBelong' /\ ExposureIsReal'
    BY <2>1 DEF Inv, RowsBelong, ExposureIsReal, OptionsOf
  <2> QED BY <1>1, <1>2, <2>1, <2>2, DoneKeepsInv DEF Recorded, Covered
<1>4. ASSUME NEW o \in OptionId, AddOption(o) \/ \E stat \in {"approved", "rejected", "removed"} : SetOptionStatus(o, stat)
      PROVE Inv'
  <2>1. UNCHANGED <<surveys, answered, choices, seen, done, assumed, shownTo, unrecorded>>
    BY <1>4 DEF AddOption, SetOptionStatus, meta, history
  <2>2. \A x \in OptionId : status[x] # "absent" => status'[x] # "absent"
    BY <1>4 DEF AddOption, SetOptionStatus, Inv, TypeOK
  <2>3. RowsBelong' /\ ExposureIsReal'
    BY <2>1, <2>2 DEF Inv, RowsBelong, ExposureIsReal, OptionsOf
  <2> QED BY <1>1, <1>2, <2>1, <2>3, DoneKeepsInv DEF Recorded, Covered
<1>5. ASSUME NEW r \in ResponseId, NEW picks \in SUBSET OptionId, SaveResponse(r, picks) PROVE Inv'
  <2>1. /\ UNCHANGED <<surveys, status, done, assumed, unrecorded>>
        /\ SurveyOf[r] \in surveys
        /\ answered' = answered \cup {r}
        /\ choices' = [choices EXCEPT ![r] = (picks \cap Ballot(r)) \cup (@ \ Ballot(r))]
        /\ seen' = [seen EXCEPT ![r] = @ \cup Ballot(r)]
        /\ shownTo' = [shownTo EXCEPT ![r] = @ \cup Ballot(r)]
    BY <1>5 DEF SaveResponse, meta
  <2>2. Ballot(r) \subseteq {o \in OptionsOf(SurveyOf[r]) : status[o] # "absent"}
    BY DEF Ballot
  <2>3. /\ choices'[r] \subseteq choices[r] \cup Ballot(r)
        /\ seen'[r] = seen[r] \cup Ballot(r) /\ shownTo'[r] = shownTo[r] \cup Ballot(r)
        /\ \A x \in ResponseId \ {r} :
             choices'[x] = choices[x] /\ seen'[x] = seen[x] /\ shownTo'[x] = shownTo[x]
    BY <2>1 DEF Inv, TypeOK
  <2>4. RowsBelong'
    BY <2>1, <2>2, <2>3 DEF Inv, RowsBelong, OptionsOf
  <2>5. ExposureIsReal'
    BY <2>1, <2>3 DEF Inv, ExposureIsReal
  <2>6. \A x \in Recorded' : Covered(x)'
    <3> SUFFICES ASSUME NEW x \in Recorded' PROVE choices'[x] \cup assumed[x] \subseteq seen'[x]
      BY <2>1 DEF Covered
    <3>1. x \in ResponseId /\ x \in answered' /\ x \notin unrecorded
      BY <2>1 DEF Recorded, TypeOK, Inv
    <3>2. choices[x] \cup assumed[x] \subseteq seen[x]
      BY <3>1, <2>1, <1>2 DEF Recorded, Covered, Inv, RowsBelong
    <3> QED BY <3>1, <3>2, <2>3
  <2> QED BY <1>1, <2>1, <2>4, <2>5, <2>6, DoneKeepsInv
<1> QED BY <1>3, <1>4, <1>5 DEF Serve

\* The older version runs alone, so a survey it finds filled is closed.
LEMMA OlderKeepsInv ==
  ASSUME Inv, TypeOK', OlderStep PROVE Inv'
<1> USE SurveyOfAssumption
<1>1. \A p \in Process : phase[p] = "down"
  BY DEF OlderStep, OlderSaveResponse, OlderAddOption, DowngradedOnly
<1>2. UNCHANGED <<surveys, seen, done, through, phase, from, todo, shownTo>>
  BY DEF OlderStep, OlderSaveResponse, OlderAddOption, meta, process
<1>3. \A s \in SurveyId : Filled(s) <=> Closed(s)
  BY <1>1 DEF Filled, Closed
<1>4. \A s \in SurveyId : (Closed(s)' <=> Closed(s)) /\ (Filled(s)' <=> Filled(s))
  BY <1>2 DEF Closed, Filled
<1>5. ServesOnlyDone' /\ BehindIsCovered'
  BY <1>1, <1>2 DEF ServesOnlyDone, BehindIsCovered
<1>6. ASSUME NEW r \in ResponseId, NEW picks \in SUBSET OptionId, OlderSaveResponse(r, picks)
      PROVE Inv'
  <2>1. /\ r \notin answered /\ SurveyOf[r] \in surveys /\ picks \subseteq Ballot(r)
        /\ answered' = answered \cup {r} /\ status' = status
        /\ choices' = [choices EXCEPT ![r] = picks]
        /\ SurveyOf[r] \in SurveyId
    BY <1>6 DEF OlderSaveResponse
  <2>2. choices'[r] = picks /\ \A x \in ResponseId \ {r} : choices'[x] = choices[x]
    BY <2>1 DEF Inv, TypeOK
  <2>3. choices[r] = {} /\ assumed[r] = {}
    BY <2>1 DEF Inv, RowsBelong
  <2>4. picks \subseteq {o \in OptionsOf(SurveyOf[r]) : status[o] # "absent"}
    BY <2>1 DEF Ballot
  <2>5. /\ Blanket(r, status, picks) = LegacyExposure(r, picks)
        /\ picks \subseteq Blanket(r, status, picks)
    BY <2>4, BlanketIsExposure DEF Inv
  <2>6. CASE Filled(SurveyOf[r])
    <3>1. unrecorded' = unrecorded \cup {r} /\ assumed' = assumed
      BY <1>6, <2>6 DEF OlderSaveResponse
    <3>2. RowsBelong' /\ ExposureIsReal'
      BY <1>2, <2>1, <2>2, <2>4, <3>1 DEF Inv, RowsBelong, ExposureIsReal, OptionsOf
    <3>3. MarkerClaimsOnlyCommitted'
      <4> SUFFICES ASSUME NEW x \in answered' \ unrecorded', Filled(SurveyOf[x])
                   PROVE choices'[x] \cup assumed[x] \subseteq seen[x]
        BY <1>2, <3>1 DEF MarkerClaimsOnlyCommitted, Filled
      <4>1. x \in answered \ unrecorded /\ x # r /\ x \in ResponseId
        BY <2>1, <3>1 DEF Inv, TypeOK
      <4> QED BY <4>1, <2>2 DEF Inv, MarkerClaimsOnlyCommitted
    <3>4. OpenIsAssumed' /\ LateIsClosed'
      <4>1. Closed(SurveyOf[r])
        BY <2>1, <2>6, <1>3
      <4>2. \A x \in answered \cup unrecorded : x \in ResponseId /\ SurveyOf[x] \in SurveyId
        BY DEF Inv, TypeOK
      <4>3. LateIsClosed'
        BY <4>1, <4>2, <1>4, <3>1, <2>1 DEF Inv, LateIsClosed
      <4>4. ASSUME NEW x \in answered', ~Closed(SurveyOf[x])'
            PROVE Blanket(x, status, choices'[x]) \subseteq assumed[x]
        <5>1. x # r /\ x \in answered /\ ~Closed(SurveyOf[x]) /\ x \in ResponseId
          BY <4>1, <4>2, <4>4, <2>1, <1>4
        <5> QED BY <5>1, <2>2 DEF Inv, OpenIsAssumed
      <4>5. OpenIsAssumed'
        BY <4>4, <3>1, <2>1 DEF OpenIsAssumed, Blanket, OptionsOf
      <4> QED BY <4>3, <4>5
    <3>5. AssumedIsReached'
      <4> SUFFICES ASSUME ~done, NEW x \in answered'
                   PROVE assumed[x] \subseteq Blanket(x, status, choices'[x])
        BY <1>2, <2>1, <3>1 DEF AssumedIsReached, Blanket, OptionsOf
      <4>1. CASE x = r
        BY <4>1, <2>3
      <4>2. CASE x # r
        <5>1. x \in answered /\ x \in ResponseId
          BY <4>2, <2>1 DEF Inv, TypeOK
        <5> QED BY <5>1, <4>2, <2>2 DEF Inv, AssumedIsReached
      <4> QED BY <4>1, <4>2
    <3> QED BY <3>2, <3>3, <3>4, <3>5, <1>5 DEF Inv
  <2>7. CASE ~Filled(SurveyOf[r])
    <3>1. unrecorded' = unrecorded /\ assumed' = [assumed EXCEPT ![r] = LegacyExposure(r, picks)]
      BY <1>6, <2>7 DEF OlderSaveResponse
    <3>2. /\ assumed'[r] = Blanket(r, status, picks)
          /\ \A x \in ResponseId \ {r} : assumed'[x] = assumed[x]
      BY <3>1, <2>5 DEF Inv, TypeOK
    <3>3. RowsBelong' /\ ExposureIsReal'
      BY <1>2, <2>1, <2>2, <2>3, <2>4, <3>1, <3>2 DEF Inv, RowsBelong, ExposureIsReal, OptionsOf
    <3>4. MarkerClaimsOnlyCommitted'
      <4> SUFFICES ASSUME NEW x \in answered' \ unrecorded', Filled(SurveyOf[x])
                   PROVE choices'[x] \cup assumed'[x] \subseteq seen[x]
        BY <1>2 DEF MarkerClaimsOnlyCommitted, Filled
      <4>1. x \in answered \ unrecorded /\ x # r /\ x \in ResponseId
        BY <2>1, <2>7, <3>1 DEF Inv, TypeOK
      <4> QED BY <4>1, <2>2, <3>2 DEF Inv, MarkerClaimsOnlyCommitted
    <3>5. \A x \in answered \cup unrecorded : x \in ResponseId /\ SurveyOf[x] \in SurveyId
      BY DEF Inv, TypeOK
    <3>6. LateIsClosed'
      BY <3>5, <1>4, <3>1 DEF Inv, LateIsClosed
    <3>7. ASSUME NEW x \in answered', ~Closed(SurveyOf[x])'
          PROVE Blanket(x, status, choices'[x]) \subseteq assumed'[x]
      <4>1. CASE x = r
        BY <4>1, <2>2, <3>2
      <4>2. CASE x # r
        <5>1. x \in answered /\ x \in ResponseId /\ ~Closed(SurveyOf[x])
          BY <4>2, <3>5, <3>7, <2>1, <1>4
        <5> QED BY <5>1, <4>2, <2>2, <3>2 DEF Inv, OpenIsAssumed
      <4> QED BY <4>1, <4>2
    <3>8. OpenIsAssumed'
      BY <3>7, <2>1 DEF OpenIsAssumed, Blanket, OptionsOf
    <3>9. AssumedIsReached'
      <4> SUFFICES ASSUME ~done, NEW x \in answered'
                   PROVE assumed'[x] \subseteq Blanket(x, status, choices'[x])
        BY <1>2, <2>1 DEF AssumedIsReached, Blanket, OptionsOf
      <4>1. CASE x = r
        BY <4>1, <2>2, <3>2
      <4>2. CASE x # r
        <5>1. x \in answered /\ x \in ResponseId
          BY <4>2, <2>1 DEF Inv, TypeOK
        <5> QED BY <5>1, <4>2, <2>2, <3>2 DEF Inv, AssumedIsReached
      <4> QED BY <4>1, <4>2
    <3> QED BY <3>3, <3>4, <3>6, <3>8, <3>9, <1>5 DEF Inv
  <2> QED BY <2>6, <2>7
<1>7. ASSUME NEW o \in OptionId, OlderAddOption(o) PROVE Inv'
  <2>1. /\ UNCHANGED <<answered, choices, unrecorded>>
        /\ status[o] = "absent" /\ status' = [status EXCEPT ![o] = "approved"]
        /\ assumed' = [r \in ResponseId |->
                         IF r \in answered /\ SurveyOf[r] = SurveyOf[o] /\ ~ Filled(SurveyOf[o])
                         THEN assumed[r] \cup {o} ELSE assumed[r]]
    BY <1>7 DEF OlderAddOption
  <2>2. \A r \in answered : r \in ResponseId /\ SurveyOf[r] \in SurveyId /\ SurveyOf[o] \in SurveyId
    BY DEF Inv, TypeOK
  <2>3. \A r \in ResponseId : Blanket(r, status', choices[r]) =
          IF SurveyOf[r] = SurveyOf[o] THEN Blanket(r, status, choices[r]) \cup {o}
          ELSE Blanket(r, status, choices[r])
    BY <2>1 DEF Inv, TypeOK, Blanket, OptionsOf
  <2>4. RowsBelong' /\ ExposureIsReal'
    BY <1>2, <2>1 DEF Inv, TypeOK, RowsBelong, ExposureIsReal, OptionsOf
  <2>5. MarkerClaimsOnlyCommitted'
    BY <1>2, <2>1, <2>2 DEF Inv, MarkerClaimsOnlyCommitted, Filled
  <2>6. OpenIsAssumed'
    <3> SUFFICES ASSUME NEW r \in answered, ~Closed(SurveyOf[r])'
                 PROVE Blanket(r, status', choices[r]) \subseteq assumed'[r]
      BY <2>1 DEF OpenIsAssumed, Blanket, OptionsOf
    <3>1. ~Closed(SurveyOf[r]) /\ ~Filled(SurveyOf[r])
      BY <2>2, <1>3, <1>4
    <3>2. Blanket(r, status, choices[r]) \subseteq assumed[r]
      BY <3>1 DEF Inv, OpenIsAssumed
    <3> QED BY <3>1, <3>2, <2>1, <2>2, <2>3
  <2>7. LateIsClosed'
    BY <2>1, <1>4 DEF Inv, LateIsClosed, TypeOK
  <2>8. AssumedIsReached'
    <3> SUFFICES ASSUME ~done, NEW r \in answered
                 PROVE assumed'[r] \subseteq Blanket(r, status', choices[r])
      BY <1>2, <2>1 DEF AssumedIsReached, Blanket, OptionsOf
    <3> QED BY <2>1, <2>2, <2>3 DEF Inv, AssumedIsReached
  <2> QED BY <2>4, <2>5, <2>6, <2>7, <2>8, <1>5 DEF Inv
<1> QED BY <1>6, <1>7 DEF OlderStep

-----------------------------------------------------------------------------
(* Theorems                                                                *)

LEMMA InitInv == Init => Inv
<1> SUFFICES ASSUME Init PROVE Inv
  OBVIOUS
<1> USE SurveyOfAssumption
<1>1. TypeOK
  <2>1. \A r \in ResponseId : LegacyExposure(r, choices[r]) \subseteq OptionId
    BY DEF Init, LegacyExposure, OptionsOf
  <2> QED BY <2>1 DEF Init, TypeOK, NoMarker, Statuses
<1>2. RowsBelong
  BY DEF Init, RowsBelong, OptionsOf
<1>3. ~done /\ \A r \in ResponseId : seen[r] = {}
  BY DEF Init
<1>4. \A r \in answered : Blanket(r, status, choices[r]) = assumed[r]
  <2> SUFFICES ASSUME NEW r \in answered PROVE Blanket(r, status, choices[r]) = assumed[r]
    OBVIOUS
  <2>1. r \in ResponseId /\ assumed[r] = LegacyExposure(r, choices[r])
    BY <1>1 DEF Init, TypeOK
  <2> QED BY <1>1, <1>2, <2>1, BlanketIsExposure DEF RowsBelong, TypeOK
<1>5. \A s \in SurveyId : ~ (s <= through)
  BY IdsAssumption DEF Init, NoMarker
<1>6. MarkerClaimsOnlyCommitted
  BY <1>1, <1>3, <1>5 DEF MarkerClaimsOnlyCommitted, Filled, TypeOK
<1>7. ServesOnlyDone /\ BehindIsCovered /\ ExposureIsReal /\ OpenIsAssumed /\ AssumedIsReached /\ LateIsClosed
  BY <1>1, <1>3, <1>4 DEF Init, ServesOnlyDone, BehindIsCovered, ExposureIsReal, OpenIsAssumed,
                         AssumedIsReached, LateIsClosed
<1> QED BY <1>1, <1>2, <1>6, <1>7 DEF Inv

LEMMA InvStep == Inv /\ [Next]_vars => Inv'
<1> SUFFICES ASSUME Inv, [Next]_vars PROVE Inv'
  OBVIOUS
<1>1. TypeOK'
  BY TypeStep DEF Inv
<1>2. ASSUME NEW p \in Process, QuietStep(p) PROVE Inv'
  BY <1>1, <1>2, QuietKeepsInv
<1>3. ASSUME NEW p \in Process, NEW s \in SurveyId, BackfillSurvey(p, s) PROVE Inv'
  <2>1. CASE ~done
    BY <1>1, <1>3, <2>1, BackfillKeepsInv
  <2>2. CASE done
    <3>1. UNCHANGED <<surveys, status, answered, choices, seen, done, assumed, shownTo, unrecorded>>
      BY <1>3, <2>2 DEF BackfillSurvey, history
    <3>2. RowsBelong' /\ ExposureIsReal'
      BY <3>1 DEF Inv, RowsBelong, ExposureIsReal, OptionsOf
    <3>3. \A r \in Recorded' : Covered(r)'
      BY <2>2, <3>1 DEF Inv, MarkerClaimsOnlyCommitted, Filled, Recorded, Covered
    <3> QED BY <1>1, <2>2, <3>1, <3>2, <3>3, DoneKeepsInv
  <2> QED BY <2>1, <2>2
<1>4. ASSUME NEW p \in Process, Finish(p) PROVE Inv'
  BY <1>1, <1>4, FinishKeepsInv
<1>5. CASE Serve
  BY <1>1, <1>5, ServeKeepsInv
<1>6. CASE OlderStep
  BY <1>1, <1>6, OlderKeepsInv
<1>7. CASE UNCHANGED vars
  <2>1. /\ UNCHANGED <<surveys, status, answered, choices, seen, done, through>>
        /\ UNCHANGED <<phase, from, todo, assumed, shownTo, unrecorded>>
    BY <1>7 DEF vars, tables, meta, process, history
  <2> QED BY <2>1, <1>1 DEF Inv, RowsBelong, ServesOnlyDone, MarkerClaimsOnlyCommitted, BehindIsCovered,
                           ExposureIsReal, OpenIsAssumed, AssumedIsReached, LateIsClosed, Closed, Filled,
                           Recorded, Covered, Blanket, OptionsOf
<1> QED BY <1>2, <1>3, <1>4, <1>5, <1>6, <1>7 DEF Next, BackfillStep, QuietStep

THEOREM InvHolds == Spec => []Inv
<1> QED BY InitInv, InvStep, PTL DEF Spec

\* Types.
THEOREM Typing == Spec => []TypeOK
<1>1. Inv => TypeOK
  BY DEF Inv
<1> QED BY InvHolds, <1>1, PTL

\* The marker never claims more than was committed, for any number of processes
\* and interruptions.
THEOREM MarkerIsTrue == Spec => []MarkerClaimsOnlyCommitted
<1>1. Inv => MarkerClaimsOnlyCommitted
  BY DEF Inv
<1> QED BY InvHolds, <1>1, PTL

\* Nobody is recorded as having been shown an option added after the upgrade
\* unless they were.
THEOREM NothingIsInvented == Spec => []ExposureIsReal
<1>1. Inv => ExposureIsReal
  BY DEF Inv
<1> QED BY InvHolds, <1>1, PTL
=============================================================================
