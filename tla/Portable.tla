------------------------------ MODULE Portable ------------------------------
(***************************************************************************)
(* Saving a survey to a file and restoring it under its own identifier     *)
(* (internal/store/portable.go, with the buttons of internal/web/admin.go).*)
(*                                                                         *)
(* SurveyDocument reads five tables one after another without a            *)
(* transaction, and anything may be written in between.  RestoreSurvey     *)
(* looks for the survey, builds its rows from the document, and writes     *)
(* them in a transaction of their own.  A restore without keepID makes     *)
(* another survey under identifiers of its own and is no step here.        *)
(*                                                                         *)
(* A document stands for a file whose header, enumerations and texts are   *)
(* in order; one that is refused for these is never restored.  Besides the *)
(* documents this instance writes there are Foreign ones, from an older    *)
(* version, another instance or somebody's editor.                         *)
(***************************************************************************)
EXTENDS Export

CONSTANTS
  Restorer,  \* the restore requests that may be in flight at once
  Foreign,   \* documents of this survey that this instance did not write
  SaveAgain, \* whether a second save is followed; bounds the runs
  NoFile     \* no document

\* What a file holds.  Option identifiers, statuses and merges, and everything
\* from opened on, are in a full backup only.
Document ==
  [full : BOOLEAN,
   state : {"draft", "open", "closed"},
   opened : BOOLEAN,
   closeAt : Nat,
   settings : [writeIns : BOOLEAN, comments : BOOLEAN],
   status : [OptionId -> OptionStatuses],
   mergedInto : [OptionId -> OptionId \cup {NoOption}],
   answered : SUBSET Voter,
   choices : [Voter -> SUBSET OptionId],
   seen : [Voter -> SUBSET OptionId],
   comment : [Voter -> Comment \cup {NoComment}],
   origin : [Voter -> {"none", "preview", "public"}]]

\* A definition is as SurveyDocument leaves one: without merges and responses.
ASSUME ForeignAssumption ==
  \A doc \in Foreign :
    /\ doc \in Document
    /\ IsFiniteSet(doc.answered)
    /\ ~doc.full => doc.answered = {} /\ doc.mergedInto = [o \in OptionId |-> NoOption]
ASSUME SaveAgainAssumption == SaveAgain \in BOOLEAN
ASSUME NoFileAssumption == NoFile \notin Document

VARIABLES
  phase,   \* how far the save in flight has got; "done" when the file is complete
  file,    \* the document it has read so far
  rows,    \* the respondents whose response row, as it was read, still exists
  before,  \* history: the survey when the save began, while nothing was written since
  held,    \* held[q]: the document q has found to be restorable, or NoFile
  issued   \* the option identifiers minted so far

saving       == <<phase, file, rows, before>>
portableVars == <<vars, saving, held, issued>>

Phases == {"none", "row", "options", "responses", "choices", "done"}

PortableTypeOK ==
  /\ TypeOK
  /\ phase \in Phases
  /\ file \in Document \cup {NoFile}
  /\ rows \in SUBSET Voter
  /\ before \in Document \cup {NoFile}
  /\ held \in [Restorer -> Document \cup {NoFile}]
  /\ issued \in SUBSET OptionId

-----------------------------------------------------------------------------
(* SurveyDocument                                                          *)

\* The survey as one transaction would have read it.
Snapshot ==
  [full |-> TRUE, state |-> state, opened |-> opened, closeAt |-> closeAt,
   settings |-> settings, status |-> status, mergedInto |-> mergedInto,
   answered |-> answered, choices |-> choices, seen |-> seen,
   comment |-> comment, origin |-> origin]

Unread == [o \in OptionId |-> "absent"]
Unmerged == [o \in OptionId |-> NoOption]
Nobody == [v \in Voter |-> {}]

\* Mutant: a definition's state is left empty, and a restore would store it so.
SavedStateEmpty(full) == IF full THEN state ELSE ""

\* A definition says nothing of the state, which a restore takes for a draft.
SavedState(full) == IF full THEN state ELSE "draft"

\* The survey's row.
SaveBegins(full) ==
  /\ Exists
  /\ phase = "none" \/ (SaveAgain /\ phase = "done")
  /\ phase' = "row"
  /\ file' = [full |-> full, state |-> SavedState(full),
              opened |-> full /\ opened,
              closeAt |-> IF full THEN closeAt ELSE NoClose,
              settings |-> settings, status |-> Unread, mergedInto |-> Unmerged,
              answered |-> {}, choices |-> Nobody, seen |-> Nobody,
              comment |-> [v \in Voter |-> NoComment], origin |-> [v \in Voter |-> "none"]]
  /\ rows' = {}
  /\ before' = IF full THEN Snapshot ELSE NoFile
  /\ UNCHANGED <<vars, held, issued>>

\* Its options: those on the ballot for a definition, which ends with them, and
\* all of them for a backup.
SaveOptions ==
  /\ phase = "row"
  /\ IF file.full
     THEN /\ phase' = "options"
          /\ file' = [file EXCEPT !.status = status, !.mergedInto = mergedInto]
     ELSE /\ phase' = "done"
          /\ file' = [file EXCEPT !.status =
                        [o \in OptionId |-> IF status[o] = "approved" THEN "approved" ELSE "absent"]]
  /\ UNCHANGED <<vars, rows, before, held, issued>>

\* Responses reads the rows of responses first,
SaveResponses ==
  /\ phase = "options"
  /\ phase' = "responses"
  /\ rows' = answered
  /\ file' = [file EXCEPT !.answered = answered, !.comment = comment, !.origin = origin]
  /\ UNCHANGED <<vars, before, held, issued>>

\* then attaches to them the rows of choices
SaveChoices ==
  /\ phase = "responses"
  /\ phase' = "choices"
  /\ file' = [file EXCEPT !.choices = [v \in Voter |-> IF v \in rows THEN choices[v] ELSE {}]]
  /\ UNCHANGED <<vars, rows, before, held, issued>>

\* and those of seen.
SaveSeen ==
  /\ phase = "choices"
  /\ phase' = "done"
  /\ file' = [file EXCEPT !.seen = [v \in Voter |-> IF v \in rows THEN seen[v] ELSE {}]]
  /\ rows' = {}
  /\ UNCHANGED <<vars, before, held, issued>>

-----------------------------------------------------------------------------
(* RestoreSurvey                                                           *)

\* Mutant: nobody looks where the merges lead.
RestorableWhateverMerged(doc) ==
  LET there == Listed(doc.status)
  IN  \A v \in doc.answered : doc.choices[v] \cup doc.seen[v] \subseteq there

\* What a document must be consistent in: merges, choices and exposure name
\* options it contains.
Restorable(doc) ==
  LET there == Listed(doc.status)
  IN  /\ \A o \in there : doc.mergedInto[o] \in there \cup {NoOption}
      /\ \A v \in doc.answered : doc.choices[v] \cup doc.seen[v] \subseteq there

\* Mutant: the exposure is restored as the document has it.
RestoredSeenAsSaved(doc, v) == IF v \in doc.answered THEN doc.seen[v] ELSE {}

\* restorableResponses: whatever somebody chose was on their ballot.
RestoredSeen(doc, v) ==
  IF v \in doc.answered THEN doc.seen[v] \cup doc.choices[v] ELSE {}

\* Mutant: the publication history is left out, so only an open survey has been open.
RestoredWithoutHistory(doc) ==
  [doc EXCEPT !.opened = doc.state = "open",
              !.seen = [v \in Voter |-> RestoredSeen(doc, v)]]

\* The rows a document is turned into; opening is stamped by saveSurvey.
Restored(doc) ==
  [doc EXCEPT !.opened = @ \/ doc.state = "open",
              !.seen = [v \in Voter |-> RestoredSeen(doc, v)]]

\* A definition's options go back under new identifiers; a backup's keep theirs.
Renamings(doc) ==
  IF doc.full THEN {doc}
  ELSE {[doc EXCEPT !.status = [o \in OptionId |-> IF o \in new THEN "approved" ELSE "absent"]] :
         new \in {fresh \in SUBSET (OptionId \ issued) :
                    Cardinality(fresh) = Cardinality(Listed(doc.status))}}

\* The checks, and the look for a survey that already has the identifier, which
\* is a read of its own.  The identifier is known only once there was a survey.
CheckRestore(q, doc) ==
  /\ held[q] = NoFile
  /\ state # "none"
  /\ ~Exists
  /\ Restorable(doc)
  /\ \E named \in Renamings(doc) :
       /\ held' = [held EXCEPT ![q] = named]
       /\ issued' = issued \cup Listed(named.status)
  /\ UNCHANGED <<vars, saving>>

\* The document's rows where it has them, and what there was elsewhere.
Over(ids, new, old) == [i \in DOMAIN old |-> IF i \in ids THEN new[i] ELSE old[i]]

\* saveSurvey writes over a survey that has appeared since the check.
WriteSurvey(doc) ==
  LET ids == Listed(doc.status)
  IN  /\ state' = doc.state
      /\ opened' = doc.opened
      /\ closeAt' = doc.closeAt
      /\ settings' = doc.settings
      /\ status' = Over(ids, doc.status, status)
      /\ mergedInto' = Over(ids, doc.mergedInto, mergedInto)
      /\ UNCHANGED author

InsertResponses(doc) ==
  /\ answered' = answered \cup doc.answered
  /\ choices' = Over(doc.answered, doc.choices, choices)
  /\ seen' = Over(doc.answered, doc.seen, seen)
  /\ comment' = Over(doc.answered, doc.comment, comment)
  /\ origin' = Over(doc.answered, doc.origin, origin)

\* What takes the transaction back: the ceiling on options, and a second response
\* of somebody who has one.
Conflicts(doc) ==
  \/ /\ Cardinality(Listed(doc.status)) > MaxOptions
     /\ Cardinality(Listed(doc.status)) > Cardinality(Listed(status))
  \/ doc.answered \cap answered # {}

\* The transaction.
ApplyRestore(q) ==
  LET doc == Restored(held[q])
  IN  /\ held[q] # NoFile
      /\ held' = [held EXCEPT ![q] = NoFile]
      /\ IF Conflicts(doc) THEN UNCHANGED <<vars, before>>
         ELSE /\ WriteSurvey(doc)
              /\ InsertResponses(doc)
              /\ before' = IF phase = "done" THEN before ELSE NoFile
              /\ UNCHANGED now
      /\ UNCHANGED <<phase, file, rows, issued>>

-----------------------------------------------------------------------------
\* Everything else that is done to the survey meanwhile.  Identifiers are never
\* minted twice; a response that goes is not the one that comes back.
SurveyStep ==
  /\ Next
  /\ (Listed(status') \ Listed(status)) \cap issued = {}
  /\ issued' = issued \cup Listed(status')
  /\ rows' = rows \cap answered'
  /\ before' = IF phase = "done" \/ UNCHANGED <<survey, options, responses>>
               THEN before ELSE NoFile
  /\ UNCHANGED <<phase, file, held>>

PortableInit ==
  /\ Init
  /\ phase = "none"
  /\ file = NoFile
  /\ rows = {}
  /\ before = NoFile
  /\ held = [q \in Restorer |-> NoFile]
  /\ issued = {}

Files == Foreign \cup (IF phase = "done" THEN {file} ELSE {})

PortableNext ==
  \/ SurveyStep
  \/ \E full \in BOOLEAN : SaveBegins(full)
  \/ SaveOptions
  \/ SaveResponses
  \/ SaveChoices
  \/ SaveSeen
  \/ \E q \in Restorer, doc \in Files : CheckRestore(q, doc)
  \/ \E q \in Restorer : ApplyRestore(q)

PortableSpec == PortableInit /\ [][PortableNext]_portableVars

-----------------------------------------------------------------------------
(* Properties                                                              *)

\* The file is a full backup that nothing was written during.
Undisturbed == phase = "done" /\ file.full /\ before # NoFile

\* Its options are not more than the ceiling lets through.  Restores that overtake
\* each other may leave a survey with the options of both files.
WithinCeiling == Cardinality(Listed(file.status)) <= MaxOptions

\* Such a backup can always be restored, and a restore of it that finds the
\* survey gone when it writes brings it back as it was: state, publication,
\* settings, every option with its status and merge, every answer with its
\* exposure.
BackupBringsItBack ==
  /\ [](Undisturbed => Restorable(file))
  /\ [][\A q \in Restorer :
          Undisturbed /\ WithinCeiling /\ held[q] = file /\ held'[q] = NoFile /\ ~Exists
            => Snapshot' = before]_portableVars

\* Every full backup can be restored, also one that was taken while the survey
\* was answered: "It is how you put back something you are about to delete".
BackupsCanBeRestored == (phase = "done" /\ file.full) => Restorable(file)

\* Merge pointers that lead from each option of S to another of them.
Circle(stat, into, S) == S # {} /\ \A o \in S : stat[o] = "merged" /\ into[o] \in S

\* survey.go's "malformed or cyclic chain" has one origin: merges form a circle
\* only if a file that this instance did not write has one.  None comes of saving
\* while options are merged, nor of restores that overtake each other and lay one
\* file's merges over another's.
CirclesAreForeign ==
  \A S \in SUBSET OptionId : Circle(status, mergedInto, S) =>
    \E doc \in Foreign, T \in SUBSET S : Circle(doc.status, doc.mergedInto, T)

\* portable.go, of keepID: a document "is refused if a survey already holds that
\* ID".  A restore writes nothing to a survey that exists when it writes.
RestoreNeverOverwrites ==
  [][\A q \in Restorer :
       held[q] # NoFile /\ held'[q] = NoFile /\ Exists => UNCHANGED vars]_portableVars
=============================================================================
