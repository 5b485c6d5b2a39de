--------------------------- MODULE PortableProofs ---------------------------
(***************************************************************************)
(* Proofs about Export and Portable, for every set of options,             *)
(* respondents, restore requests and foreign documents, and every value of *)
(* the limits.                                                             *)
(***************************************************************************)
EXTENDS Portable, SurveyProofs

-----------------------------------------------------------------------------
(* The exports                                                             *)

\* Where the export puts a vote and where the tally does: in the column of an option
\* that is on the ballot if and only if it counts there.  This is so of any merge
\* pointers, cyclic ones included.
LEMMA ColumnsAreWhereVotesCount ==
  ASSUME TypeOK, NEW o \in OptionId, status[o] = "approved", NEW id \in OptionId
  PROVE  ResolveVia(ResolveMap, id) = o <=> Resolve(id) = [to |-> o, counts |-> TRUE]
<1>0. Resolve(id) \in Ends
  BY ResolveTypes
<1>1. CASE status[id] # "merged"
  <2>1. ResolveVia(ResolveMap, id) = id /\ Resolve(id) = AtEnd(id)
    BY <1>1, ResolveTypes DEF ResolveVia, ResolveMap, Follows
  <2>2. CASE id = o
    <3>1. AtEnd(id) = [to |-> o, counts |-> TRUE]
      BY <2>2 DEF AtEnd
    <3>2. QED
      BY <2>1, <2>2, <3>1
  <2>3. CASE id # o
    <3>1. AtEnd(id) # [to |-> o, counts |-> TRUE]
      BY <2>3 DEF AtEnd
    <3>2. QED
      BY <2>1, <2>3, <3>1
  <2>4. QED
    BY <2>2, <2>3
<1>2. CASE status[id] = "merged"
  <2>1. ResolveVia(ResolveMap, id) = Resolve(id).to
    BY <1>2 DEF ResolveVia, ResolveMap
  <2>2. ~Follows(o)
    BY DEF Follows
  <2>3. \/ Follows(Resolve(id).to) /\ ~Resolve(id).counts
        \/ Ended(Resolve(id))
    BY ResolveEnds
  <2>4. CASE Follows(Resolve(id).to) /\ ~Resolve(id).counts
    BY <2>1, <2>2, <2>4
  <2>5. CASE Ended(Resolve(id))
    <3>1. Resolve(id).to = o => Resolve(id).counts = TRUE
      BY <2>5, Zenon DEF Ended
    <3>2. Resolve(id) = [to |-> o, counts |-> TRUE] <=>
            Resolve(id).to = o /\ Resolve(id).counts = TRUE
      BY <1>0 DEF Ends
    <3>3. QED
      BY <2>1, <3>1, <3>2
  <2>6. QED
    BY <2>3, <2>4, <2>5
<1>3. QED
  BY <1>1, <1>2

\* The respondents with a vote, or with an exposure, in a column are those who are
\* counted for it.
LEMMA ColumnsCountOnce ==
  ASSUME TypeOK, NEW o \in OptionId, status[o] = "approved",
         NEW table \in [Voter -> SUBSET OptionId]
  PROVE  {v \in answered : o \in ResolvedSet(table, v)} = CountOnce(o, table)
<1>1. ASSUME NEW v \in answered
      PROVE  o \in ResolvedSet(table, v) <=>
               \E id \in table[v] : Resolve(id) = [to |-> o, counts |-> TRUE]
  <2>1. \A id \in table[v] : id \in OptionId
    BY DEF TypeOK
  <2>2. o \in ResolvedSet(table, v) <=> \E id \in table[v] : ResolveVia(ResolveMap, id) = o
    BY DEF ResolvedSet
  <2>3. QED
    BY <2>1, <2>2, ColumnsAreWhereVotesCount
<1>2. QED
  BY <1>1 DEF CountOnce

\* So the wide table's columns add up to the summary's rows.
LEMMA CellsAreCounted ==
  ASSUME TypeOK, IsFiniteSet(answered), ChoicesWereShown
  PROVE  ExportsAgree
<1> DEFINE down(o, marks) == {v \in answered : Cell(v, o) \in marks}
<1>1. ASSUME NEW o \in Columns, status[o] = "approved"
      PROVE  /\ down(o, {"1"}) = CountOnce(o, choices)
             /\ down(o, {"0", "1"}) = CountOnce(o, seen)
             /\ Shown(o) \in Nat
  <2>1. o \in OptionId
    BY DEF Columns, Listed
  <2>2. \A v \in answered : Cell(v, o) \in {"1"} <=> o \in ResolvedSet(choices, v)
    BY DEF Cell
  <2>3. \A v \in answered :
          Cell(v, o) \in {"0", "1"} <=>
            o \in ResolvedSet(choices, v) \/ o \in ResolvedSet(seen, v)
    BY DEF Cell
  <2>4. \A v \in answered : ResolvedSet(choices, v) \subseteq ResolvedSet(seen, v)
    BY DEF ResolvedSet, ChoicesWereShown, TypeOK
  <2>5. /\ {v \in answered : o \in ResolvedSet(choices, v)} = CountOnce(o, choices)
        /\ {v \in answered : o \in ResolvedSet(seen, v)} = CountOnce(o, seen)
    BY <1>1, <2>1, ColumnsCountOnce DEF TypeOK
  <2>6. CountOnce(o, seen) \in SUBSET answered
    BY DEF CountOnce
  <2>7. Shown(o) \in Nat
    BY <2>6, FS_Subset, FS_CardinalityType DEF Shown
  <2>8. QED
    BY <2>2, <2>3, <2>4, <2>5, <2>7
<1> HIDE DEF down
<1>2. ASSUME NEW o \in Columns, status[o] = "approved"
      PROVE  /\ Cardinality(down(o, {"1"})) = SummaryRow(o).votes
             /\ Cardinality(down(o, {"0", "1"})) = SummaryRow(o).shown
             /\ SummaryRow(o).interest <=> Cardinality(down(o, {"0", "1"})) # 0
  <2>1. /\ Cardinality(down(o, {"1"})) = Votes(o)
        /\ Cardinality(down(o, {"0", "1"})) = Shown(o)
    BY <1>1, <1>2 DEF Votes, Shown
  <2>2. Shown(o) > 0 <=> Shown(o) # 0
    BY <1>1, <1>2
  <2>3. /\ SummaryRow(o).votes = Votes(o) /\ SummaryRow(o).shown = Shown(o)
        /\ SummaryRow(o).interest = (Shown(o) > 0)
    BY Zenon DEF SummaryRow
  <2>4. QED
    BY <2>1, <2>2, <2>3
<1>3. QED
  BY <1>2 DEF down, ExportsAgree

\* The two files an editor downloads agree about every option that is on the ballot,
\* whatever was merged, removed and restored before.
THEOREM FilesAgree == Spec => []ExportsAgree
<1>1. Inv => ExportsAgree
  BY CellsAreCounted DEF Inv
<1>2. QED
  BY <1>1, Invariance, PTL

\* Where a vote ends is a listed option: the options that do not lead to one are all
\* merged, and each leads to another.
LEMMA EndsAreListed ==
  ASSUME TypeOK, MergesEnd, ResolveIsTheEnd
  PROVE  \A o \in Listed(status) : Resolve(o).to \in Columns
<1> DEFINE Astray == {o \in Listed(status) : Resolve(o).to \notin Listed(status)}
<1>1. \A o \in Listed(status) : status[o] # "merged" => o \notin Astray
  BY DEF ResolveIsTheEnd, AtEnd, Listed
<1>2. ASSUME NEW o \in Astray PROVE mergedInto[o] \in Astray
  <2>1. o \in OptionId /\ status[o] = "merged"
    BY <1>1 DEF Listed
  <2>2. mergedInto[o] \in Listed(status) /\ Resolve(o) = Resolve(mergedInto[o])
    BY <2>1 DEF MergesEnd, ResolveIsTheEnd
  <2>3. QED
    BY <2>2
<1>3. Astray \in SUBSET {o \in OptionId : status[o] = "merged"}
  BY <1>1 DEF Listed
<1> HIDE DEF Astray
<1>4. Astray = {}
  BY <1>2, <1>3 DEF MergesEnd
<1>5. QED
  BY <1>4 DEF Astray, Columns, ResolveIsTheEnd, Listed

\* A respondent's ones are where their votes end, once each.
LEMMA VotesHaveColumns ==
  ASSUME TypeOK, ChoicesWereShown, MergesEnd
  PROVE  NoVoteWithoutAColumn
<1>0. ResolveIsTheEnd
  BY ResolveInvariant
<1>1. \A id \in OptionId : ResolveVia(ResolveMap, id) = Resolve(id).to
  BY <1>0 DEF ResolveIsTheEnd, AtEnd, ResolveVia, ResolveMap
<1>2. ASSUME NEW v \in answered
      PROVE  /\ \A id \in choices[v] : Resolve(id).to \in Columns /\ Cell(v, Resolve(id).to) = "1"
             /\ Selections(v) = Cardinality({Resolve(id).to : id \in choices[v]})
  <2>1. choices[v] \subseteq Listed(status) /\ choices[v] \subseteq OptionId
    BY DEF ChoicesWereShown, TypeOK
  <2>2. ResolvedSet(choices, v) = {Resolve(id).to : id \in choices[v]}
    BY <1>1, <2>1 DEF ResolvedSet
  <2>3. \A id \in choices[v] : Resolve(id).to \in Columns
    BY <1>0, <2>1, EndsAreListed
  <2>4. \A o : Cell(v, o) = "1" <=> o \in ResolvedSet(choices, v)
    BY DEF Cell
  <2>5. {o \in Columns : Cell(v, o) = "1"} = {Resolve(id).to : id \in choices[v]}
    BY <2>2, <2>3, <2>4
  <2>6. QED
    BY <2>2, <2>3, <2>4, <2>5 DEF Selections
<1>3. QED
  BY <1>2 DEF NoVoteWithoutAColumn

\* No vote is lost between the columns of the wide table, and two that were merged
\* into one option are a single one.
THEOREM EveryVoteHasAColumn == Spec => []NoVoteWithoutAColumn
<1>1. Inv => NoVoteWithoutAColumn
  BY VotesHaveColumns DEF Inv
<1>2. QED
  BY <1>1, Invariance, PTL

-----------------------------------------------------------------------------
(* The invariants of Portable                                              *)

\* What every document has, wherever it comes from: finitely many responses, and
\* neither responses nor merges when it is a definition.
Sound(doc) ==
  /\ IsFiniteSet(doc.answered)
  /\ ~doc.full => doc.answered = {} /\ doc.mergedInto = Unmerged

\* What survives of Survey's invariant when torn and foreign documents are
\* restored.
SurveyInv ==
  /\ OpeningIsStamped
  /\ IsFiniteSet(answered)
  /\ ChoicesWereShown

FilesInv ==
  /\ phase # "none" => file # NoFile
  /\ file # NoFile => Sound(file)
  /\ phase \in {"options", "responses", "choices"} => file.full
  /\ \A q \in Restorer : held[q] # NoFile => Sound(held[q]) /\ Restorable(held[q])

\* The inductive invariant, for any number of restores at once.
PortableInv == PortableTypeOK /\ SurveyInv /\ FilesInv

-----------------------------------------------------------------------------
(* Documents                                                               *)

LEMMA SnapshotIsADocument ==
  ASSUME TypeOK, Exists
  PROVE  Snapshot \in Document
BY DEF TypeOK, Exists, Snapshot, Document, SurveyStates

\* What a document is turned into is one that can be told from it by its
\* exposure and its opening alone.
LEMMA RestoredFields ==
  ASSUME NEW doc \in Document
  PROVE  /\ Restored(doc) \in Document
         /\ Restored(doc).full = doc.full
         /\ Restored(doc).state = doc.state
         /\ Restored(doc).opened = (doc.opened \/ doc.state = "open")
         /\ Restored(doc).closeAt = doc.closeAt
         /\ Restored(doc).settings = doc.settings
         /\ Restored(doc).status = doc.status
         /\ Restored(doc).mergedInto = doc.mergedInto
         /\ Restored(doc).answered = doc.answered
         /\ Restored(doc).choices = doc.choices
         /\ Restored(doc).seen = [v \in Voter |-> RestoredSeen(doc, v)]
         /\ Restored(doc).comment = doc.comment
         /\ Restored(doc).origin = doc.origin
<1>1. [v \in Voter |-> RestoredSeen(doc, v)] \in [Voter -> SUBSET OptionId]
  BY DEF Document, RestoredSeen
<1>2. QED
  BY <1>1 DEF Document, Restored

\* A renamed definition is as sound as it was, and consistent.
LEMMA RenamingIsRestorable ==
  ASSUME NEW doc \in Document, Sound(doc), Restorable(doc), NEW named \in Renamings(doc)
  PROVE  /\ named \in Document
         /\ Sound(named)
         /\ Restorable(named)
<1>1. CASE doc.full
  BY <1>1 DEF Renamings
<1>2. CASE ~doc.full
  <2>1. PICK new \in SUBSET OptionId :
          named = [doc EXCEPT !.status =
                     [o \in OptionId |-> IF o \in new THEN "approved" ELSE "absent"]]
    BY <1>2 DEF Renamings
  <2>2. named \in Document
    BY <2>1 DEF Document, OptionStatuses
  <2>3. /\ named.full = doc.full /\ named.answered = doc.answered
        /\ named.mergedInto = doc.mergedInto
    BY <2>1 DEF Document
  <2>4. Sound(named)
    BY <2>3 DEF Sound
  <2>5. Restorable(named)
    BY <1>2, <2>3 DEF Sound, Restorable, Listed, Unmerged
  <2>6. QED
    BY <2>2, <2>4, <2>5
<1>3. QED
  BY <1>1, <1>2

-----------------------------------------------------------------------------
(* The saving of a file                                                    *)

\* Every step of a save leaves a document.
LEMMA SaveSteps ==
  ASSUME PortableInv,
         \/ \E full \in BOOLEAN : SaveBegins(full)
         \/ SaveOptions
         \/ SaveResponses
         \/ SaveChoices
         \/ SaveSeen
  PROVE  /\ UNCHANGED <<vars, held, issued>>
         /\ phase' \in Phases \ {"none"}
         /\ file' \in Document
         /\ Sound(file')
         /\ phase' \in {"options", "responses", "choices"} => file'.full
         /\ rows' \in SUBSET Voter
         /\ before' \in Document \cup {NoFile}
<1> DEFINE Good == /\ UNCHANGED <<vars, held, issued>>
                   /\ phase' \in Phases \ {"none"}
                   /\ file' \in Document
                   /\ Sound(file')
                   /\ phase' \in {"options", "responses", "choices"} => file'.full
                   /\ rows' \in SUBSET Voter
                   /\ before' \in Document \cup {NoFile}
<1>0. /\ TypeOK
      /\ phase # "none" => file \in Document /\ Sound(file)
      /\ phase \in {"options", "responses", "choices"} => file.full
      /\ before \in Document \cup {NoFile}
      /\ rows \in SUBSET Voter
  BY DEF PortableInv, PortableTypeOK, FilesInv
<1>1. ASSUME NEW full \in BOOLEAN, SaveBegins(full)
      PROVE  Good
  <2>1. UNCHANGED <<vars, held, issued>> /\ phase' = "row" /\ rows' = {}
    BY <1>1 DEF SaveBegins
  <2>2. file' \in Document
    BY <1>0, <1>1 DEF SaveBegins, TypeOK, Exists, Document, SurveyStates, OptionStatuses,
                      SavedState, Unread, Unmerged, Nobody, NoClose
  <2>3. file'.answered = {} /\ file'.mergedInto = Unmerged
    BY <1>1 DEF SaveBegins
  <2>4. before' \in Document \cup {NoFile}
    BY <1>0, <1>1, SnapshotIsADocument DEF SaveBegins
  <2>5. QED
    BY <2>1, <2>2, <2>3, <2>4, FS_EmptySet DEF Phases, Sound
<1>2. ASSUME SaveOptions
      PROVE  Good
  <2>1. /\ UNCHANGED <<vars, held, issued, rows, before>>
        /\ phase' \in {"options", "done"} /\ file \in Document /\ Sound(file)
    BY <1>0, <1>2 DEF SaveOptions
  <2>2. /\ file' \in Document /\ file'.full = file.full /\ file'.answered = file.answered
        /\ ~file.full => file'.mergedInto = file.mergedInto /\ phase' = "done"
    <3>1. CASE file.full
      <4>1. file' = [file EXCEPT !.status = status, !.mergedInto = mergedInto]
        BY <1>2, <3>1 DEF SaveOptions
      <4>2. /\ status \in [OptionId -> OptionStatuses]
            /\ mergedInto \in [OptionId -> OptionId \cup {NoOption}]
        BY <1>0 DEF TypeOK
      <4>3. file' \in Document
        BY <2>1, <4>1, <4>2 DEF Document
      <4>4. file'.full = file.full /\ file'.answered = file.answered
        BY <2>1, <4>1 DEF Document
      <4>5. QED
        BY <3>1, <4>3, <4>4
    <3>2. CASE ~file.full
      <4> DEFINE ballot == [o \in OptionId |-> IF status[o] = "approved" THEN "approved" ELSE "absent"]
      <4>1. file' = [file EXCEPT !.status = ballot] /\ phase' = "done"
        BY <1>2, <3>2 DEF SaveOptions
      <4>2. ballot \in [OptionId -> OptionStatuses]
        BY DEF OptionStatuses
      <4> HIDE DEF ballot
      <4>3. QED
        BY <2>1, <4>1, <4>2 DEF Document
    <3>3. QED
      BY <3>1, <3>2
  <2>3. QED
    BY <1>0, <2>1, <2>2 DEF Phases, Sound
<1>3. ASSUME SaveResponses
      PROVE  Good
  <2>1. /\ UNCHANGED <<vars, held, issued, before>>
        /\ phase' = "responses" /\ file \in Document /\ file.full
        /\ rows' = answered
        /\ file' = [file EXCEPT !.answered = answered, !.comment = comment, !.origin = origin]
    BY <1>0, <1>3 DEF SaveResponses
  <2>2. file' \in Document /\ file'.full /\ file'.answered = answered
    BY <1>0, <2>1 DEF TypeOK, Document
  <2>3. IsFiniteSet(answered)
    BY DEF PortableInv, SurveyInv
  <2>4. QED
    BY <1>0, <2>1, <2>2, <2>3 DEF TypeOK, Phases, Sound
<1>4. ASSUME SaveChoices
      PROVE  Good
  <2>1. /\ UNCHANGED <<vars, held, issued, rows, before>>
        /\ phase' = "choices" /\ file \in Document /\ Sound(file)
    BY <1>0, <1>4 DEF SaveChoices
  <2>2. QED
    BY <1>0, <1>4, <2>1 DEF SaveChoices, TypeOK, Document, Phases, Sound
<1>5. ASSUME SaveSeen
      PROVE  Good
  <2>1. /\ UNCHANGED <<vars, held, issued, before>> /\ rows' = {}
        /\ phase' = "done" /\ file \in Document /\ Sound(file)
    BY <1>0, <1>5 DEF SaveSeen
  <2>2. QED
    BY <1>0, <1>5, <2>1 DEF SaveSeen, TypeOK, Document, Phases, Sound
<1>6. QED
  BY <1>1, <1>2, <1>3, <1>4, <1>5

-----------------------------------------------------------------------------
(* Restoring                                                               *)

\* A restored document leaves the survey well typed and consistent, also where
\* it is written over rows that are there.
LEMMA RestoreKeepsSurvey ==
  ASSUME PortableInv, NEW q \in Restorer, ApplyRestore(q)
  PROVE  /\ TypeOK'
         /\ OpeningIsStamped'
         /\ IsFiniteSet(answered')
         /\ ChoicesWereShown'
         /\ before' \in Document \cup {NoFile}
<1> DEFINE doc == Restored(held[q])
<1>0. /\ TypeOK
      /\ OpeningIsStamped /\ IsFiniteSet(answered) /\ ChoicesWereShown
      /\ before \in Document \cup {NoFile}
      /\ held[q] \in Document /\ Sound(held[q]) /\ Restorable(held[q])
  BY DEF PortableInv, PortableTypeOK, SurveyInv, FilesInv, ApplyRestore
<1>1. CASE UNCHANGED <<vars, before>>
  <2>1. TypeOK' = TypeOK /\ OpeningIsStamped' = OpeningIsStamped
        /\ ChoicesWereShown' = ChoicesWereShown /\ answered' = answered /\ before' = before
    BY <1>1 DEF vars, survey, options, responses, TypeOK, OpeningIsStamped, ChoicesWereShown, Listed
  <2>2. QED
    BY <1>0, <2>1
<1>2. CASE WriteSurvey(doc) /\ InsertResponses(doc) /\ now' = now /\ before' \in {before, NoFile}
  <2>1. /\ doc \in Document
        /\ doc.opened = (held[q].opened \/ held[q].state = "open")
        /\ doc.state = held[q].state /\ doc.answered = held[q].answered
        /\ doc.choices = held[q].choices /\ doc.status = held[q].status
        /\ doc.seen = [v \in Voter |-> RestoredSeen(held[q], v)]
    BY <1>0, RestoredFields
  <2>2. \A v \in doc.answered : doc.choices[v] \subseteq doc.seen[v] /\ doc.seen[v] \subseteq Listed(doc.status)
    BY <1>0, <2>1 DEF Restorable, RestoredSeen, Document
  <2>3. /\ IsFiniteSet(doc.answered) /\ doc.answered \in SUBSET Voter
        /\ (doc.state = "open" => doc.opened) /\ doc.state # "none"
    BY <1>0, <2>1 DEF Sound, Document
  <2> HIDE DEF doc
  <2>4. TypeOK'
    BY <1>0, <1>2, <2>1 DEF TypeOK, WriteSurvey, InsertResponses, Over, Document, SurveyStates
  <2>5. OpeningIsStamped'
    BY <1>2, <2>3 DEF OpeningIsStamped, WriteSurvey
  <2>6. IsFiniteSet(answered')
    BY <1>0, <1>2, <2>3, FS_Union DEF InsertResponses
  <2>7. Listed(status) \subseteq Listed(status') /\ Listed(doc.status) \subseteq Listed(status')
    BY <1>0, <1>2, <2>1 DEF WriteSurvey, Over, Listed, TypeOK, Document
  <2>8. ASSUME NEW v \in Voter
        PROVE  /\ choices'[v] \subseteq seen'[v]
               /\ seen'[v] \subseteq Listed(status')
               /\ v \notin answered' => seen'[v] = {}
    <3>1. /\ choices'[v] = IF v \in doc.answered THEN doc.choices[v] ELSE choices[v]
          /\ seen'[v] = IF v \in doc.answered THEN doc.seen[v] ELSE seen[v]
          /\ answered' = answered \cup doc.answered
      BY <1>0, <1>2 DEF InsertResponses, Over, TypeOK
    <3>2. /\ choices[v] \subseteq seen[v] /\ seen[v] \subseteq Listed(status)
          /\ v \notin answered => seen[v] = {}
      BY <1>0 DEF ChoicesWereShown
    <3>3. QED
      BY <2>2, <2>7, <3>1, <3>2
  <2>9. ChoicesWereShown'
    BY <2>8 DEF ChoicesWereShown, Listed
  <2>10. QED
    BY <1>0, <1>2, <2>4, <2>5, <2>6, <2>9
<1>3. QED
  BY <1>1, <1>2 DEF ApplyRestore

-----------------------------------------------------------------------------
(* The inductive invariant                                                 *)

LEMMA PortableInitInv == PortableInit => PortableInv
<1> SUFFICES ASSUME PortableInit PROVE PortableInv
  OBVIOUS
<1>1. Init
  BY DEF PortableInit
<1>2. TypeOK
  BY <1>1, InitType
<1>3. OpeningIsStamped /\ IsFiniteSet(answered) /\ ChoicesWereShown
  BY <1>1, FS_EmptySet DEF Init, OpeningIsStamped, ChoicesWereShown
<1>4. QED
  BY <1>2, <1>3 DEF PortableInit, PortableInv, PortableTypeOK, SurveyInv, FilesInv, Phases

LEMMA PortableStepInv == PortableInv /\ [PortableNext]_portableVars => PortableInv'
<1> SUFFICES ASSUME PortableInv, [PortableNext]_portableVars PROVE PortableInv'
  OBVIOUS
<1>0. /\ TypeOK /\ OpeningIsStamped /\ IsFiniteSet(answered) /\ ChoicesWereShown
      /\ phase \in Phases /\ file \in Document \cup {NoFile} /\ rows \in SUBSET Voter
      /\ before \in Document \cup {NoFile} /\ held \in [Restorer -> Document \cup {NoFile}]
      /\ issued \in SUBSET OptionId
  BY DEF PortableInv, PortableTypeOK, SurveyInv
<1>1. ASSUME SurveyStep
      PROVE  PortableInv'
  <2>1. [Next]_vars /\ UNCHANGED <<phase, file, held>>
    BY <1>1 DEF SurveyStep
  <2>2. TypeOK' /\ OpeningIsStamped' /\ IsFiniteSet(answered') /\ ChoicesWereShown'
    BY <1>0, <2>1, StepType, StepOpening, StepFinite, StepShown
  <2>3. rows' \in SUBSET Voter /\ before' \in Document \cup {NoFile} /\ issued' \in SUBSET OptionId
    BY <1>0, <1>1 DEF SurveyStep, Listed
  <2>4. QED
    BY <1>0, <2>1, <2>2, <2>3 DEF PortableInv, PortableTypeOK, SurveyInv, FilesInv
<1>2. ASSUME \/ \E full \in BOOLEAN : SaveBegins(full)
             \/ SaveOptions \/ SaveResponses \/ SaveChoices \/ SaveSeen
      PROVE  PortableInv'
  <2>1. /\ UNCHANGED <<vars, held, issued>>
        /\ phase' \in Phases \ {"none"}
        /\ file' \in Document
        /\ Sound(file')
        /\ phase' \in {"options", "responses", "choices"} => file'.full
        /\ rows' \in SUBSET Voter
        /\ before' \in Document \cup {NoFile}
    BY <1>2, SaveSteps
  <2>2. TypeOK' /\ OpeningIsStamped' /\ IsFiniteSet(answered') /\ ChoicesWereShown'
    BY <1>0, <2>1 DEF vars, survey, options, responses, TypeOK, OpeningIsStamped, ChoicesWereShown, Listed
  <2>3. FilesInv'
    BY <2>1, NoFileAssumption DEF FilesInv, PortableInv
  <2>4. QED
    BY <1>0, <2>1, <2>2, <2>3 DEF PortableInv, PortableTypeOK, SurveyInv
<1>3. ASSUME NEW q \in Restorer, NEW doc \in Files, CheckRestore(q, doc)
      PROVE  PortableInv'
  <2>1. doc \in Document /\ Sound(doc)
    <3>1. CASE doc \in Foreign
      BY <3>1, ForeignAssumption DEF Sound, Unmerged
    <3>2. CASE doc \notin Foreign
      BY <1>0, <3>2 DEF Files, PortableInv, FilesInv
    <3>3. QED
      BY <3>1, <3>2
  <2>2. PICK named \in Renamings(doc) :
          held' = [held EXCEPT ![q] = named] /\ issued' = issued \cup Listed(named.status)
    BY <1>3 DEF CheckRestore
  <2>3. named \in Document /\ Sound(named) /\ Restorable(named)
    BY <1>3, <2>1, RenamingIsRestorable DEF CheckRestore
  <2>4. UNCHANGED <<vars, saving>>
    BY <1>3 DEF CheckRestore
  <2>5. TypeOK' /\ OpeningIsStamped' /\ IsFiniteSet(answered') /\ ChoicesWereShown'
    BY <1>0, <2>4 DEF vars, survey, options, responses, TypeOK, OpeningIsStamped, ChoicesWereShown, Listed
  <2>6. held' \in [Restorer -> Document \cup {NoFile}] /\ issued' \in SUBSET OptionId
    BY <1>0, <2>2, <2>3 DEF Listed
  <2>7. \A r \in Restorer : held'[r] # NoFile => Sound(held'[r]) /\ Restorable(held'[r])
    BY <1>0, <2>2, <2>3 DEF PortableInv, FilesInv
  <2>8. QED
    BY <1>0, <2>4, <2>5, <2>6, <2>7 DEF saving, PortableInv, PortableTypeOK, SurveyInv, FilesInv
<1>4. ASSUME NEW q \in Restorer, ApplyRestore(q)
      PROVE  PortableInv'
  <2>1. TypeOK' /\ OpeningIsStamped' /\ IsFiniteSet(answered') /\ ChoicesWereShown'
        /\ before' \in Document \cup {NoFile}
    BY <1>4, RestoreKeepsSurvey
  <2>2. held' = [held EXCEPT ![q] = NoFile] /\ UNCHANGED <<phase, file, rows, issued>>
    BY <1>4 DEF ApplyRestore
  <2>3. FilesInv'
    BY <1>0, <2>2 DEF FilesInv, PortableInv
  <2>4. QED
    BY <1>0, <2>1, <2>2, <2>3 DEF PortableInv, PortableTypeOK, SurveyInv
<1>5. CASE UNCHANGED portableVars
  <2>1. UNCHANGED vars /\ UNCHANGED <<phase, file, rows, before, held, issued>>
    BY <1>5 DEF portableVars, saving
  <2>2. TypeOK' /\ OpeningIsStamped' /\ IsFiniteSet(answered') /\ ChoicesWereShown'
    BY <1>0, <2>1 DEF vars, survey, options, responses, TypeOK, OpeningIsStamped, ChoicesWereShown, Listed
  <2>3. QED
    BY <1>0, <2>1, <2>2 DEF PortableInv, PortableTypeOK, SurveyInv, FilesInv
<1>6. QED
  BY <1>1, <1>2, <1>3, <1>4, <1>5 DEF PortableNext

\* Whatever is saved, torn or foreign, and however many restores there are at
\* once, the survey and the documents stay as the invariant says.
THEOREM PortableInvariance == PortableSpec => []PortableInv
BY PortableInitInv, PortableStepInv, PTL DEF PortableSpec

\* Every variable keeps to its type.
THEOREM PortableTypes == PortableSpec => []PortableTypeOK
<1>1. PortableInv => PortableTypeOK
  BY DEF PortableInv
<1>2. QED
  BY <1>1, PortableInvariance, PTL

\* No restore, of a torn backup, a partial or an older document, even one written
\* over a survey that has come back, records a vote for an option its owner was
\* not shown or that is not there.
THEOREM RestoredVotesWereShown == PortableSpec => []ChoicesWereShown
<1>1. PortableInv => ChoicesWereShown
  BY DEF PortableInv, SurveyInv
<1>2. QED
  BY <1>1, PortableInvariance, PTL

\* So Votes <= Shown <= respondents survives every restore.
THEOREM RestoredTallyBounds == PortableSpec => []TallyIsBounded
<1>1. PortableInv => TallyIsBounded
  BY ShownBoundsTheTally DEF PortableInv, PortableTypeOK, SurveyInv
<1>2. QED
  BY <1>1, PortableInvariance, PTL

\* The exports go on agreeing with each other after any restore, also of a document
\* whose merges form a cycle: tsv.go's "A cyclic merge chain cannot cause a bogus
\* attribution here".
THEOREM RestoredFilesAgree == PortableSpec => []ExportsAgree
<1>1. PortableInv => ExportsAgree
  BY CellsAreCounted DEF PortableInv, PortableTypeOK, SurveyInv
<1>2. QED
  BY <1>1, PortableInvariance, PTL

-----------------------------------------------------------------------------
(* Where circles of merges come from                                       *)

\* Every circle of these merges contains one that a foreign document has.
Traced(stat, into) ==
  \A S \in SUBSET OptionId : Circle(stat, into, S) =>
    \E doc \in Foreign, T \in SUBSET S : Circle(doc.status, doc.mergedInto, T)

\* The survey's merges are traced, and those of whatever may be written over them.
CirclesInv ==
  /\ Traced(status, mergedInto)
  /\ file # NoFile => Traced(file.status, file.mergedInto)
  /\ \A q \in Restorer : held[q] # NoFile => Traced(held[q].status, held[q].mergedInto)

\* Merges of which every circle contains one of traced merges are traced.
LEMMA CirclesWithin ==
  ASSUME NEW stat, NEW into, NEW newStat, NEW newInto, Traced(stat, into),
         \A S \in SUBSET OptionId : Circle(newStat, newInto, S) =>
           \E R \in SUBSET S : Circle(stat, into, R)
  PROVE  Traced(newStat, newInto)
<1> SUFFICES ASSUME NEW S \in SUBSET OptionId, Circle(newStat, newInto, S)
             PROVE  \E doc \in Foreign, T \in SUBSET S : Circle(doc.status, doc.mergedInto, T)
  BY DEF Traced
<1>1. PICK R \in SUBSET S : Circle(stat, into, R)
  OBVIOUS
<1>2. PICK doc \in Foreign, T \in SUBSET R : Circle(doc.status, doc.mergedInto, T)
  BY <1>1 DEF Traced
<1>3. T \in SUBSET S
  BY <1>2
<1>4. QED
  BY <1>2, <1>3

\* Where nothing is merged there is no circle.
LEMMA NoMergesNoCircles ==
  ASSUME NEW stat, NEW into, \A o \in OptionId : stat[o] # "merged"
  PROVE  Traced(stat, into)
BY DEF Traced, Circle

\* A merge joins o to an option that leads out of every circle.
LEMMA StepCircles ==
  ASSUME TypeOK, [Next]_vars, Traced(status, mergedInto)
  PROVE  Traced(status', mergedInto')
<1>1. ASSUME NEW S \in SUBSET OptionId, Circle(status', mergedInto', S)
      PROVE  Circle(status, mergedInto, S)
  <2>1. S # {} /\ \A x \in S : status'[x] = "merged" /\ mergedInto'[x] \in S
    BY <1>1 DEF Circle
  <2>2. CASE MergesKept
    BY <2>1, <2>2 DEF MergesKept, Circle
  <2>3. ASSUME NEW o \in OptionId, NEW target \in OptionId, Merge(o, target)
        PROVE  Circle(status, mergedInto, S)
    <3>1. /\ target # o
          /\ status[target] # "merged"
          /\ status' = [status EXCEPT ![o] = "merged"]
          /\ mergedInto' = [mergedInto EXCEPT ![o] = target]
      BY <2>3 DEF Merge, SaveSurvey
    <3>2. status'[target] # "merged" /\ mergedInto'[o] = target
      BY <3>1 DEF TypeOK
    <3>3. o \notin S
      BY <2>1, <3>2
    <3>4. \A x \in S : status'[x] = status[x] /\ mergedInto'[x] = mergedInto[x]
      BY <3>1, <3>3 DEF TypeOK
    <3>5. QED
      BY <2>1, <3>4 DEF Circle
  <2>4. QED
    BY <2>2, <2>3, OnlyMergesMerge
<1>2. \A S \in SUBSET OptionId : Circle(status', mergedInto', S) =>
        \E R \in SUBSET S : Circle(status, mergedInto, R)
  BY <1>1
<1>3. QED
  BY <1>2, CirclesWithin

\* A save takes statuses and merges in one read, or has none of either.
LEMMA SaveCircles ==
  ASSUME PortableInv, CirclesInv,
         \/ \E full \in BOOLEAN : SaveBegins(full)
         \/ SaveOptions
         \/ SaveResponses
         \/ SaveChoices
         \/ SaveSeen
  PROVE  Traced(file'.status, file'.mergedInto)
<1>0. phase # "none" => file \in Document /\ Traced(file.status, file.mergedInto)
  BY DEF PortableInv, PortableTypeOK, FilesInv, CirclesInv
<1>1. ASSUME NEW full \in BOOLEAN, SaveBegins(full)
      PROVE  Traced(file'.status, file'.mergedInto)
  <2>1. file'.status = Unread
    BY <1>1 DEF SaveBegins
  <2>2. QED
    BY <2>1, NoMergesNoCircles DEF Unread
<1>2. ASSUME SaveOptions
      PROVE  Traced(file'.status, file'.mergedInto)
  <2>1. file \in Document
    BY <1>0, <1>2 DEF SaveOptions
  <2>2. CASE file.full
    <3>1. file' = [file EXCEPT !.status = status, !.mergedInto = mergedInto]
      BY <1>2, <2>2 DEF SaveOptions
    <3>2. file'.status = status /\ file'.mergedInto = mergedInto
      BY <2>1, <3>1 DEF Document
    <3>3. QED
      BY <3>2 DEF CirclesInv
  <2>3. CASE ~file.full
    <3> DEFINE ballot == [o \in OptionId |-> IF status[o] = "approved" THEN "approved" ELSE "absent"]
    <3>1. file' = [file EXCEPT !.status = ballot]
      BY <1>2, <2>3 DEF SaveOptions
    <3>2. \A o \in OptionId : ballot[o] # "merged"
      OBVIOUS
    <3> HIDE DEF ballot
    <3>3. file'.status = ballot
      BY <2>1, <3>1 DEF Document
    <3>4. QED
      BY <3>2, <3>3, NoMergesNoCircles
  <2>4. QED
    BY <2>2, <2>3
<1>3. ASSUME SaveResponses \/ SaveChoices \/ SaveSeen
      PROVE  Traced(file'.status, file'.mergedInto)
  <2>1. file \in Document /\ Traced(file.status, file.mergedInto)
    BY <1>0, <1>3 DEF SaveResponses, SaveChoices, SaveSeen
  <2>2. file'.status = file.status /\ file'.mergedInto = file.mergedInto
    BY <1>3, <2>1 DEF SaveResponses, SaveChoices, SaveSeen, Document
  <2>3. QED
    BY <2>1, <2>2
<1>4. QED
  BY <1>1, <1>2, <1>3

\* A foreign document brings the circles it has, and a renamed definition none.
LEMMA CheckCircles ==
  ASSUME PortableInv, CirclesInv, NEW doc \in Files, NEW named \in Renamings(doc)
  PROVE  Traced(named.status, named.mergedInto)
<1>1. doc \in Document /\ Traced(doc.status, doc.mergedInto)
  <2>1. CASE doc \in Foreign
    BY <2>1, ForeignAssumption DEF Traced
  <2>2. CASE doc \notin Foreign
    BY <2>2 DEF Files, PortableInv, PortableTypeOK, FilesInv, CirclesInv
  <2>3. QED
    BY <2>1, <2>2
<1>2. CASE doc.full
  BY <1>1, <1>2 DEF Renamings
<1>3. CASE ~doc.full
  <2>1. PICK new \in SUBSET OptionId :
          named = [doc EXCEPT !.status =
                     [o \in OptionId |-> IF o \in new THEN "approved" ELSE "absent"]]
    BY <1>3 DEF Renamings
  <2>2. named.status = [o \in OptionId |-> IF o \in new THEN "approved" ELSE "absent"]
    BY <1>1, <2>1 DEF Document
  <2>3. QED
    BY <2>2, NoMergesNoCircles
<1>4. QED
  BY <1>2, <1>3

\* A restored document's merges lead nowhere outside it, so a circle that passes
\* through one of its options has a circle of the document in it, and any other is
\* one the survey had.
LEMMA RestoreCircles ==
  ASSUME PortableInv, CirclesInv, NEW q \in Restorer, ApplyRestore(q)
  PROVE  Traced(status', mergedInto')
<1> DEFINE doc == Restored(held[q])
<1> DEFINE ids == Listed(held[q].status)
<1>0. /\ TypeOK
      /\ held[q] \in Document /\ Restorable(held[q])
      /\ Traced(held[q].status, held[q].mergedInto)
      /\ Traced(status, mergedInto)
  BY DEF PortableInv, PortableTypeOK, FilesInv, CirclesInv, ApplyRestore
<1>1. CASE UNCHANGED vars
  <2>1. status' = status /\ mergedInto' = mergedInto
    BY <1>1 DEF vars, options
  <2>2. QED
    BY <1>0, <2>1
<1>2. CASE WriteSurvey(doc)
  <2>1. doc.status = held[q].status /\ doc.mergedInto = held[q].mergedInto
    BY <1>0, RestoredFields
  <2> HIDE DEF doc
  <2>2. \A o \in OptionId :
          /\ status'[o] = IF o \in ids THEN held[q].status[o] ELSE status[o]
          /\ mergedInto'[o] = IF o \in ids THEN held[q].mergedInto[o] ELSE mergedInto[o]
    BY <1>0, <1>2, <2>1 DEF WriteSurvey, Over, TypeOK
  <2>3. \A o \in ids : held[q].mergedInto[o] \in ids \cup {NoOption}
    BY <1>0 DEF Restorable
  <2>4. ids \subseteq OptionId
    BY DEF Listed
  <2> HIDE DEF ids
  <2>5. ASSUME NEW S \in SUBSET OptionId, Circle(status', mergedInto', S)
        PROVE  \E f \in Foreign, T \in SUBSET S : Circle(f.status, f.mergedInto, T)
    <3>1. S # {} /\ \A o \in S : status'[o] = "merged" /\ mergedInto'[o] \in S
      BY <2>5 DEF Circle
    <3>2. CASE S \cap ids = {}
      <4>1. Circle(status, mergedInto, S)
        BY <2>2, <3>1, <3>2 DEF Circle
      <4>2. QED
        BY <1>0, <4>1 DEF Traced
    <3>3. CASE S \cap ids # {}
      <4>1. Circle(held[q].status, held[q].mergedInto, S \cap ids)
        BY <2>2, <2>3, <3>1, <3>3, OptionsAssumption DEF Circle
      <4>2. PICK f \in Foreign, T \in SUBSET (S \cap ids) : Circle(f.status, f.mergedInto, T)
        BY <1>0, <4>1 DEF Traced
      <4>3. T \in SUBSET S
        BY <4>2
      <4>4. QED
        BY <4>2, <4>3
    <3>4. QED
      BY <3>2, <3>3
  <2>6. QED
    BY <2>5 DEF Traced
<1>3. QED
  BY <1>1, <1>2 DEF ApplyRestore

\* What may come to be written over the survey stays traced, and so does the survey.
LEMMA CirclesStepInv ==
  PortableInv /\ CirclesInv /\ [PortableNext]_portableVars => CirclesInv'
<1> SUFFICES ASSUME PortableInv, CirclesInv, [PortableNext]_portableVars PROVE CirclesInv'
  OBVIOUS
<1>0. TypeOK /\ held \in [Restorer -> Document \cup {NoFile}]
  BY DEF PortableInv, PortableTypeOK
<1>1. ASSUME SurveyStep
      PROVE  CirclesInv'
  <2>1. [Next]_vars /\ UNCHANGED <<file, held>>
    BY <1>1 DEF SurveyStep
  <2>2. Traced(status', mergedInto')
    BY <1>0, <2>1, StepCircles DEF CirclesInv
  <2>3. QED
    BY <2>1, <2>2 DEF CirclesInv
<1>2. ASSUME \/ \E full \in BOOLEAN : SaveBegins(full)
             \/ SaveOptions \/ SaveResponses \/ SaveChoices \/ SaveSeen
      PROVE  CirclesInv'
  <2>1. UNCHANGED <<vars, held>>
    BY <1>2, SaveSteps
  <2>2. Traced(file'.status, file'.mergedInto)
    BY <1>2, SaveCircles
  <2>3. QED
    BY <2>1, <2>2 DEF CirclesInv, vars, options
<1>3. ASSUME NEW q \in Restorer, NEW doc \in Files, CheckRestore(q, doc)
      PROVE  CirclesInv'
  <2>1. PICK named \in Renamings(doc) : held' = [held EXCEPT ![q] = named]
    BY <1>3 DEF CheckRestore
  <2>2. Traced(named.status, named.mergedInto)
    BY <2>1, CheckCircles
  <2>3. \A r \in Restorer : held'[r] = named \/ held'[r] = held[r]
    BY <1>0, <2>1
  <2>4. UNCHANGED <<status, mergedInto, file>>
    BY <1>3 DEF CheckRestore, vars, options, saving
  <2>5. QED
    BY <2>2, <2>3, <2>4 DEF CirclesInv
<1>4. ASSUME NEW q \in Restorer, ApplyRestore(q)
      PROVE  CirclesInv'
  <2>1. Traced(status', mergedInto')
    BY <1>4, RestoreCircles
  <2>2. held' = [held EXCEPT ![q] = NoFile] /\ file' = file
    BY <1>4 DEF ApplyRestore
  <2>3. \A r \in Restorer : held'[r] = NoFile \/ held'[r] = held[r]
    BY <1>0, <2>2
  <2>4. QED
    BY <2>1, <2>2, <2>3 DEF CirclesInv
<1>5. CASE UNCHANGED portableVars
  BY <1>5 DEF portableVars, vars, options, saving, CirclesInv
<1>6. QED
  BY <1>1, <1>2, <1>3, <1>4, <1>5 DEF PortableNext

\* Merges form a circle only if a file that this instance did not write has one,
\* whatever is saved while options are merged and however restores overtake each
\* other.
THEOREM CirclesComeFromFiles == PortableSpec => []CirclesAreForeign
<1>1. PortableInit => CirclesInv
  BY NoMergesNoCircles DEF PortableInit, Init, CirclesInv
<1>2. CirclesInv => CirclesAreForeign
  BY DEF CirclesInv, CirclesAreForeign, Traced
<1>3. QED
  BY <1>1, <1>2, CirclesStepInv, PortableInvariance, PTL DEF PortableSpec

\* Resolve's bound ends its loop, at an option that has further to go.
BoundIsReached == \E o \in OptionId : Follows(Resolve(o).to)

ForeignCircle == \E doc \in Foreign, T \in SUBSET OptionId : Circle(doc.status, doc.mergedInto, T)

\* survey.go: "A malformed or cyclic chain resolves to not-counted rather than
\* looping".  The loop's bound is called upon only by merges that a file brought in
\* circles from elsewhere: an instance that restores nothing but its own backups
\* never loses a vote to it.
THEOREM BoundIsForFilesFromElsewhere == PortableSpec => [](BoundIsReached => ForeignCircle)
<1>1. ASSUME TypeOK, CirclesAreForeign, NEW o \in OptionId, Follows(Resolve(o).to)
      PROVE  ForeignCircle
  <2>1. PICK circles \in SUBSET OptionId :
          /\ \A x \in circles : Follows(x) /\ mergedInto[x] \in circles
          /\ \A x \in OptionId \ circles : Ended(Resolve(x))
    BY <1>1, ResolveEnds
  <2>2. ~Ended(Resolve(o))
    BY <1>1 DEF Ended
  <2>3. o \in circles
    BY <2>1, <2>2
  <2>4. Circle(status, mergedInto, circles)
    BY <2>1, <2>3 DEF Circle, Follows
  <2>5. PICK doc \in Foreign, T \in SUBSET circles : Circle(doc.status, doc.mergedInto, T)
    BY <1>1, <2>4 DEF CirclesAreForeign
  <2>6. T \in SUBSET OptionId
    BY <2>5
  <2>7. QED
    BY <2>5, <2>6 DEF ForeignCircle
<1>2. PortableTypeOK /\ CirclesAreForeign => (BoundIsReached => ForeignCircle)
  BY <1>1 DEF PortableTypeOK, BoundIsReached
<1>3. QED
  BY <1>2, PortableTypes, CirclesComeFromFiles, PTL

-----------------------------------------------------------------------------
(* What is left of a survey, however files are laid over it                *)

\* What is left to say of the survey: merges and listed options, blank responses,
\* and nothing where there is no survey any more.
MergesAreListed ==
  \A o \in OptionId :
    \/ mergedInto[o] = NoOption
    \/ o \in Listed(status) /\ mergedInto[o] \in Listed(status)

UnansweredIsBlank ==
  \A v \in Voter \ answered : comment[v] = NoComment /\ origin[v] = "none"

GoneIsEmpty == ~Exists => Listed(status) = {} /\ answered = {}

SurveyWhole == MergesAreListed /\ UnansweredIsBlank /\ GoneIsEmpty

\* The same of a document, for one that was read in one go.
Consistent(doc) ==
  /\ doc.full
  /\ doc.state = "open" => doc.opened
  /\ \A o \in OptionId :
       \/ doc.mergedInto[o] = NoOption
       \/ o \in Listed(doc.status) /\ doc.mergedInto[o] \in Listed(doc.status)
  /\ \A v \in Voter :
       doc.choices[v] \subseteq doc.seen[v] /\ doc.seen[v] \subseteq Listed(doc.status)
  /\ \A v \in Voter \ doc.answered :
       /\ doc.choices[v] = {} /\ doc.seen[v] = {}
       /\ doc.comment[v] = NoComment /\ doc.origin[v] = "none"

\* While nothing has been written since the save began, the file is the survey as
\* far as it has been read.
Faithful ==
  before # NoFile =>
    /\ phase # "none"
    /\ Consistent(before)
    /\ phase # "done" => Snapshot = before
    /\ file.full /\ file.state = before.state /\ file.opened = before.opened
    /\ file.closeAt = before.closeAt /\ file.settings = before.settings
    /\ phase # "row" => file.status = before.status /\ file.mergedInto = before.mergedInto
    /\ phase \in {"responses", "choices", "done"} =>
         /\ file.answered = before.answered /\ file.comment = before.comment
         /\ file.origin = before.origin
    /\ phase \in {"responses", "choices"} => rows = before.answered
    /\ phase \in {"choices", "done"} => file.choices = before.choices
    /\ phase = "done" => file.seen = before.seen

WholeInv == PortableInv /\ SurveyWhole /\ Faithful

LEMMA StepMergesListed ==
  ASSUME TypeOK, MergesAreListed, [Next]_vars
  PROVE  MergesAreListed'
<1>0. /\ status \in [OptionId -> OptionStatuses]
      /\ mergedInto \in [OptionId -> OptionId \cup {NoOption}]
  BY DEF TypeOK
<1>1. ASSUME mergedInto' = mergedInto, \A o \in OptionId : status[o] # "absent" => status'[o] # "absent"
      PROVE  MergesAreListed'
  BY <1>1 DEF MergesAreListed, Listed
<1>2. ASSUME NEW opts, CreateSurvey(opts)
      PROVE  MergesAreListed'
  BY <1>1, <1>2 DEF CreateSurvey, SaveSurvey, AddOptions
<1>3. ASSUME NEW remove, NEW new, NEW s, NEW close, EditSave(remove, new, s, close)
      PROVE  MergesAreListed'
  <2>1. mergedInto' = mergedInto
    BY <1>3 DEF EditSave, SaveSurvey
  <2>2. \A o \in OptionId : status[o] # "absent" => status'[o] # "absent"
    BY <1>3 DEF EditSave, SaveSurvey, AddOptions
  <2>3. QED
    BY <1>1, <2>1, <2>2
<1>4. ASSUME NEW newState, SetState(newState)
      PROVE  MergesAreListed'
  BY <1>1, <1>4 DEF SetState, SaveSurvey
<1>5. ASSUME Publish
      PROVE  MergesAreListed'
  BY <1>1, <1>5 DEF Publish, SaveSurvey
<1>6. ASSUME DeleteSurvey
      PROVE  MergesAreListed'
  BY <1>6 DEF DeleteSurvey, MergesAreListed
<1>7. ASSUME NEW o \in OptionId, NEW stat \in {"approved", "rejected", "removed"},
             SetOptionStatus(o, stat)
      PROVE  MergesAreListed'
  <2>1. /\ status' = [status EXCEPT ![o] = stat] /\ mergedInto' = [mergedInto EXCEPT ![o] = NoOption]
        /\ status[o] # "absent"
    BY <1>7 DEF SetOptionStatus, SaveSurvey
  <2>2. QED
    BY <1>0, <2>1 DEF MergesAreListed, Listed
<1>8. ASSUME NEW o \in OptionId, NEW target \in OptionId, Merge(o, target)
      PROVE  MergesAreListed'
  <2>1. /\ status' = [status EXCEPT ![o] = "merged"] /\ mergedInto' = [mergedInto EXCEPT ![o] = target]
        /\ status[o] # "absent" /\ status[target] # "absent"
    BY <1>8 DEF Merge, SaveSurvey
  <2>2. QED
    BY <1>0, <2>1 DEF MergesAreListed, Listed
<1>9. ASSUME NEW v, NEW picks, NEW text, NEW preview, SaveResponse(v, picks, text, preview)
      PROVE  MergesAreListed'
  BY <1>1, <1>9 DEF SaveResponse, options
<1>10. ASSUME NEW v, NEW o, NEW preview, AddWriteIn(v, o, preview)
       PROVE  MergesAreListed'
  BY <1>1, <1>10 DEF AddWriteIn, SaveSurvey, AddOptions
<1>11. CASE Tick \/ UNCHANGED vars
  BY <1>1, <1>11 DEF Tick, vars, options
<1>12. CASE EditorStep
  BY <1>2, <1>3, <1>4, <1>5, <1>6, <1>12 DEF EditorStep
<1>13. CASE ModeratorStep
  BY <1>7, <1>8, <1>13 DEF ModeratorStep
<1>14. CASE RespondentStep
  BY <1>9, <1>10, <1>14 DEF RespondentStep
<1>15. QED
  BY <1>11, <1>12, <1>13, <1>14 DEF Next

LEMMA StepUnanswered ==
  ASSUME TypeOK, OpeningIsStamped, UnansweredIsBlank, [Next]_vars
  PROVE  UnansweredIsBlank'
<1>1. CASE UNCHANGED responses
  BY <1>1 DEF responses, UnansweredIsBlank
<1>2. CASE ClearResponses
  BY <1>2 DEF ClearResponses, UnansweredIsBlank
<1>3. ASSUME NEW stat, NEW v \in Voter, NEW picks, NEW text, NEW preview, NEW allowPending,
             SaveResponseTx(stat, v, picks, text, allowPending, preview)
      PROVE  UnansweredIsBlank'
  <2>1. /\ answered' = answered \cup {v}
        /\ \A w \in Voter \ {v} : comment'[w] = comment[w] /\ origin'[w] = origin[w]
    BY <1>3 DEF SaveResponseTx, TypeOK
  <2>2. QED
    BY <2>1 DEF UnansweredIsBlank
<1>4. QED
  BY <1>1, <1>2, <1>3, ResponseSteps

\* Deletion leaves nothing behind, and nothing but a creation is done to a survey
\* that does not exist.
LEMMA StepGone ==
  ASSUME TypeOK, GoneIsEmpty, [Next]_vars
  PROVE  GoneIsEmpty'
<1>1. ASSUME NEW opts, CreateSurvey(opts) PROVE GoneIsEmpty'
  BY <1>1 DEF CreateSurvey, SaveSurvey, Exists, GoneIsEmpty
<1>2. ASSUME state' = state, Exists PROVE GoneIsEmpty'
  BY <1>2 DEF Exists, GoneIsEmpty
<1>3. ASSUME NEW remove, NEW new, NEW s, NEW close, EditSave(remove, new, s, close)
      PROVE  GoneIsEmpty'
  BY <1>2, <1>3 DEF EditSave, SaveSurvey
<1>4. ASSUME NEW newState \in StateChoices, SetState(newState) PROVE GoneIsEmpty'
  BY <1>4, RequestsAssumption DEF SetState, SaveSurvey, Exists, GoneIsEmpty
<1>5. ASSUME Publish PROVE GoneIsEmpty'
  BY <1>5 DEF Publish, SaveSurvey, Exists, GoneIsEmpty
<1>6. ASSUME DeleteSurvey PROVE GoneIsEmpty'
  BY <1>6 DEF DeleteSurvey, ClearResponses, Listed, GoneIsEmpty
<1>7. ASSUME ModeratorStep PROVE GoneIsEmpty'
  BY <1>2, <1>7 DEF ModeratorStep, SetOptionStatus, Merge, SaveSurvey
<1>8. ASSUME NEW v, NEW picks, NEW text, NEW preview, SaveResponse(v, picks, text, preview)
      PROVE  GoneIsEmpty'
  BY <1>2, <1>8 DEF SaveResponse, survey
<1>9. ASSUME NEW v, NEW o, NEW preview, AddWriteIn(v, o, preview)
      PROVE  GoneIsEmpty'
  BY <1>2, <1>9 DEF AddWriteIn, MayPropose, SaveSurvey
<1>10. CASE Tick \/ UNCHANGED vars
  BY <1>10 DEF Tick, vars, survey, options, responses, Exists, Listed, GoneIsEmpty
<1>11. CASE EditorStep
  BY <1>1, <1>3, <1>4, <1>5, <1>6, <1>11 DEF EditorStep
<1>12. CASE RespondentStep
  BY <1>8, <1>9, <1>12 DEF RespondentStep
<1>13. QED
  BY <1>7, <1>10, <1>11, <1>12 DEF Next

-----------------------------------------------------------------------------
(* What a save that is not disturbed has in its file                       *)

\* Two documents are the same if they are the same in every field.
LEMMA DocumentsAreTheirFields ==
  ASSUME NEW a \in Document, NEW b \in Document,
         a.full = b.full, a.state = b.state, a.opened = b.opened, a.closeAt = b.closeAt,
         a.settings = b.settings, a.status = b.status, a.mergedInto = b.mergedInto,
         a.answered = b.answered, a.choices = b.choices, a.seen = b.seen,
         a.comment = b.comment, a.origin = b.origin
  PROVE  a = b
BY DEF Document

LEMMA SnapshotFields ==
  /\ Snapshot.full = TRUE /\ Snapshot.state = state /\ Snapshot.opened = opened
  /\ Snapshot.closeAt = closeAt /\ Snapshot.settings = settings
  /\ Snapshot.status = status /\ Snapshot.mergedInto = mergedInto
  /\ Snapshot.answered = answered /\ Snapshot.choices = choices /\ Snapshot.seen = seen
  /\ Snapshot.comment = comment /\ Snapshot.origin = origin
BY DEF Snapshot

\* What one transaction would read is consistent.
LEMMA SnapshotIsConsistent ==
  ASSUME TypeOK, SurveyInv, SurveyWhole
  PROVE  Consistent(Snapshot)
<1>1. /\ state = "open" => opened
      /\ \A o \in OptionId :
           \/ mergedInto[o] = NoOption
           \/ o \in Listed(status) /\ mergedInto[o] \in Listed(status)
      /\ \A v \in Voter : choices[v] \subseteq seen[v] /\ seen[v] \subseteq Listed(status)
      /\ \A v \in Voter \ answered :
           choices[v] = {} /\ seen[v] = {} /\ comment[v] = NoComment /\ origin[v] = "none"
  BY DEF SurveyInv, SurveyWhole, OpeningIsStamped, MergesAreListed, UnansweredIsBlank,
         ChoicesWereShown
<1>2. QED
  BY <1>1, SnapshotFields DEF Consistent

\* A save's own steps.
LEMMA SaveKeepsFaith ==
  ASSUME WholeInv,
         \/ \E full \in BOOLEAN : SaveBegins(full)
         \/ SaveOptions
         \/ SaveResponses
         \/ SaveChoices
         \/ SaveSeen
  PROVE  Faithful'
<1>0. /\ TypeOK /\ SurveyInv /\ SurveyWhole /\ Faithful
      /\ phase # "none" => file \in Document
      /\ rows \in SUBSET Voter
  BY DEF WholeInv, PortableInv, PortableTypeOK, FilesInv
<1>1. UNCHANGED vars /\ Snapshot' = Snapshot
  <2>1. UNCHANGED vars
    BY DEF SaveBegins, SaveOptions, SaveResponses, SaveChoices, SaveSeen
  <2>2. QED
    BY <2>1 DEF vars, survey, options, responses, Snapshot
<1>2. CASE before' = NoFile
  BY <1>2 DEF Faithful
<1>3. ASSUME NEW full \in BOOLEAN, SaveBegins(full), before' # NoFile
      PROVE  Faithful'
  <2>1. full /\ before' = Snapshot /\ phase' = "row"
    BY <1>3 DEF SaveBegins
  <2>2. Consistent(before')
    BY <1>0, <2>1, SnapshotIsConsistent
  <2>3. /\ file'.full /\ file'.state = state /\ file'.opened = opened
        /\ file'.closeAt = closeAt /\ file'.settings = settings
    BY <1>0, <1>3, <2>1 DEF SaveBegins, SavedState, TypeOK
  <2>4. QED
    BY <1>1, <2>1, <2>2, <2>3, SnapshotFields DEF Faithful
<1>4. ASSUME before' # NoFile, before' = before, phase \in {"row", "options", "responses", "choices"}
      PROVE  /\ Consistent(before) /\ Snapshot = before /\ file \in Document
             /\ file.full /\ file.state = before.state /\ file.opened = before.opened
             /\ file.closeAt = before.closeAt /\ file.settings = before.settings
             /\ phase # "row" => file.status = before.status /\ file.mergedInto = before.mergedInto
             /\ phase \in {"responses", "choices"} =>
                  /\ file.answered = before.answered /\ file.comment = before.comment
                  /\ file.origin = before.origin /\ rows = before.answered
             /\ phase = "choices" => file.choices = before.choices
  BY <1>0, <1>4 DEF Faithful
<1>5. ASSUME SaveOptions, before' # NoFile
      PROVE  Faithful'
  <2>1. before' = before /\ phase = "row"
    BY <1>5 DEF SaveOptions
  <2>2. phase' = "options" /\ file' = [file EXCEPT !.status = status, !.mergedInto = mergedInto]
    BY <1>4, <1>5, <2>1 DEF SaveOptions
  <2>3. /\ file'.full = file.full /\ file'.state = file.state /\ file'.opened = file.opened
        /\ file'.closeAt = file.closeAt /\ file'.settings = file.settings
        /\ file'.status = status /\ file'.mergedInto = mergedInto
    BY <1>4, <1>5, <2>1, <2>2 DEF Document
  <2>4. before.status = status /\ before.mergedInto = mergedInto
    BY <1>4, <1>5, <2>1, SnapshotFields
  <2>5. QED
    BY <1>1, <1>4, <1>5, <2>1, <2>2, <2>3, <2>4 DEF Faithful
<1>6. ASSUME SaveResponses, before' # NoFile
      PROVE  Faithful'
  <2>1. /\ before' = before /\ phase = "options" /\ phase' = "responses" /\ rows' = answered
        /\ file' = [file EXCEPT !.answered = answered, !.comment = comment, !.origin = origin]
    BY <1>6 DEF SaveResponses
  <2>2. /\ file'.full = file.full /\ file'.state = file.state /\ file'.opened = file.opened
        /\ file'.closeAt = file.closeAt /\ file'.settings = file.settings
        /\ file'.status = file.status /\ file'.mergedInto = file.mergedInto
        /\ file'.answered = answered /\ file'.comment = comment /\ file'.origin = origin
    BY <1>4, <1>6, <2>1 DEF Document
  <2>3. before.answered = answered /\ before.comment = comment /\ before.origin = origin
    BY <1>4, <1>6, <2>1, SnapshotFields
  <2>4. QED
    BY <1>1, <1>4, <1>6, <2>1, <2>2, <2>3 DEF Faithful
<1>7. ASSUME SaveChoices, before' # NoFile
      PROVE  Faithful'
  <2>1. /\ before' = before /\ phase = "responses" /\ phase' = "choices" /\ rows' = rows
        /\ file' = [file EXCEPT !.choices = [v \in Voter |-> IF v \in rows THEN choices[v] ELSE {}]]
    BY <1>7 DEF SaveChoices
  <2>2. /\ file'.full = file.full /\ file'.state = file.state /\ file'.opened = file.opened
        /\ file'.closeAt = file.closeAt /\ file'.settings = file.settings
        /\ file'.status = file.status /\ file'.mergedInto = file.mergedInto
        /\ file'.answered = file.answered /\ file'.comment = file.comment
        /\ file'.origin = file.origin
        /\ file'.choices = [v \in Voter |-> IF v \in rows THEN choices[v] ELSE {}]
    BY <1>4, <1>7, <2>1 DEF Document
  <2>3. before.answered = answered /\ before.choices = choices /\ rows = answered
    BY <1>4, <1>7, <2>1, SnapshotFields
  <2>4. \A v \in Voter \ answered : choices[v] = {}
    BY <1>4, <1>7, <2>1, <2>3 DEF Consistent
  <2>5. [v \in Voter |-> IF v \in rows THEN choices[v] ELSE {}] = choices
    BY <1>0, <2>3, <2>4 DEF TypeOK
  <2>6. QED
    BY <1>1, <1>4, <1>7, <2>1, <2>2, <2>3, <2>5 DEF Faithful
<1>8. ASSUME SaveSeen, before' # NoFile
      PROVE  Faithful'
  <2>1. /\ before' = before /\ phase = "choices" /\ phase' = "done"
        /\ file' = [file EXCEPT !.seen = [v \in Voter |-> IF v \in rows THEN seen[v] ELSE {}]]
    BY <1>8 DEF SaveSeen
  <2>2. /\ file'.full = file.full /\ file'.state = file.state /\ file'.opened = file.opened
        /\ file'.closeAt = file.closeAt /\ file'.settings = file.settings
        /\ file'.status = file.status /\ file'.mergedInto = file.mergedInto
        /\ file'.answered = file.answered /\ file'.comment = file.comment
        /\ file'.origin = file.origin /\ file'.choices = file.choices
        /\ file'.seen = [v \in Voter |-> IF v \in rows THEN seen[v] ELSE {}]
    BY <1>4, <1>8, <2>1 DEF Document
  <2>3. before.answered = answered /\ before.seen = seen /\ rows = answered
    BY <1>4, <1>8, <2>1, SnapshotFields
  <2>4. \A v \in Voter \ answered : seen[v] = {}
    BY <1>4, <1>8, <2>1, <2>3 DEF Consistent
  <2>5. [v \in Voter |-> IF v \in rows THEN seen[v] ELSE {}] = seen
    BY <1>0, <2>3, <2>4 DEF TypeOK
  <2>6. QED
    BY <1>4, <1>8, <2>1, <2>2, <2>3, <2>5 DEF Faithful
<1>9. QED
  BY <1>2, <1>3, <1>5, <1>6, <1>7, <1>8
\* Applying a document to a survey that is gone, or taking the transaction back.
LEMMA RestoreOfGone ==
  ASSUME WholeInv, ~Exists, NEW q \in Restorer, ApplyRestore(q)
  PROVE  LET doc == Restored(held[q])
         IN  \/ Conflicts(doc)
             \/ /\ state' = doc.state /\ opened' = doc.opened
                /\ closeAt' = doc.closeAt /\ settings' = doc.settings
                /\ status' \in [OptionId -> OptionStatuses]
                /\ mergedInto' \in [OptionId -> OptionId \cup {NoOption}]
                /\ \A o \in OptionId :
                     IF o \in Listed(doc.status)
                     THEN status'[o] = doc.status[o] /\ mergedInto'[o] = doc.mergedInto[o]
                     ELSE status'[o] = "absent" /\ mergedInto'[o] = NoOption
                /\ answered' = doc.answered
                /\ choices' = [v \in Voter |-> IF v \in doc.answered THEN doc.choices[v] ELSE {}]
                /\ seen' = [v \in Voter |-> IF v \in doc.answered THEN doc.seen[v] ELSE {}]
                /\ comment' = [v \in Voter |-> IF v \in doc.answered THEN doc.comment[v] ELSE NoComment]
                /\ origin' = [v \in Voter |-> IF v \in doc.answered THEN doc.origin[v] ELSE "none"]
<1> DEFINE doc == Restored(held[q])
<1>0. /\ TypeOK /\ ChoicesWereShown /\ MergesAreListed /\ UnansweredIsBlank
      /\ Listed(status) = {} /\ answered = {}
      /\ held[q] \in Document
  BY DEF WholeInv, PortableInv, PortableTypeOK, SurveyInv, SurveyWhole, GoneIsEmpty,
         ApplyRestore
<1>1. CASE Conflicts(doc)
  BY <1>1
<1>2. CASE ~Conflicts(doc)
  <2>1. WriteSurvey(doc) /\ InsertResponses(doc)
    BY <1>2 DEF ApplyRestore
  <2>2. doc \in Document
    BY <1>0, RestoredFields
  <2>3. /\ \A o \in OptionId : status[o] = "absent" /\ mergedInto[o] = NoOption
        /\ \A v \in Voter : choices[v] = {} /\ seen[v] = {} /\ comment[v] = NoComment /\ origin[v] = "none"
    BY <1>0 DEF Listed, MergesAreListed, ChoicesWereShown, UnansweredIsBlank
  <2> HIDE DEF doc
  <2>5. /\ status' = [o \in OptionId |-> IF o \in Listed(doc.status) THEN doc.status[o] ELSE status[o]]
        /\ mergedInto' = [o \in OptionId |-> IF o \in Listed(doc.status) THEN doc.mergedInto[o] ELSE mergedInto[o]]
    BY <1>0, <2>1 DEF WriteSurvey, Over, TypeOK
  <2>6. /\ answered' = doc.answered
        /\ choices' = [v \in Voter |-> IF v \in doc.answered THEN doc.choices[v] ELSE choices[v]]
        /\ seen' = [v \in Voter |-> IF v \in doc.answered THEN doc.seen[v] ELSE seen[v]]
        /\ comment' = [v \in Voter |-> IF v \in doc.answered THEN doc.comment[v] ELSE comment[v]]
        /\ origin' = [v \in Voter |-> IF v \in doc.answered THEN doc.origin[v] ELSE origin[v]]
    BY <1>0, <2>1 DEF InsertResponses, Over, TypeOK
  <2>7. /\ status' \in [OptionId -> OptionStatuses]
        /\ mergedInto' \in [OptionId -> OptionId \cup {NoOption}]
    BY <1>0, <2>2, <2>5 DEF TypeOK, Document
  <2>8. QED
    BY <2>1, <2>3, <2>5, <2>6, <2>7 DEF WriteSurvey, doc
<1>3. QED
  BY <1>1, <1>2

\* A restore, of rows that are gone or of rows that are there: those of the document
\* refer to each other, and those that are left refer to rows that stay.
LEMMA RestoreKeepsWhole ==
  ASSUME WholeInv, NEW q \in Restorer, ApplyRestore(q)
  PROVE  SurveyWhole' /\ Faithful'
<1> DEFINE doc == Restored(held[q])
<1>0. /\ TypeOK /\ MergesAreListed /\ UnansweredIsBlank /\ GoneIsEmpty /\ Faithful
      /\ held[q] \in Document /\ Restorable(held[q])
      /\ UNCHANGED <<phase, file, rows>>
  BY DEF WholeInv, SurveyWhole, PortableInv, PortableTypeOK, FilesInv, ApplyRestore
<1>1. CASE Conflicts(doc)
  <2>1. UNCHANGED <<vars, before>>
    BY <1>1 DEF ApplyRestore
  <2>2. QED
    BY <1>0, <2>1 DEF vars, survey, options, responses, SurveyWhole, MergesAreListed,
                      UnansweredIsBlank, GoneIsEmpty, Exists, Listed, Faithful, Snapshot
<1>2. CASE ~Conflicts(doc)
  <2>1. /\ WriteSurvey(doc) /\ InsertResponses(doc)
        /\ before' = IF phase = "done" THEN before ELSE NoFile
    BY <1>2 DEF ApplyRestore
  <2>2. /\ doc \in Document
        /\ \A o \in Listed(doc.status) : doc.mergedInto[o] \in Listed(doc.status) \cup {NoOption}
    BY <1>0, RestoredFields DEF Restorable
  <2> HIDE DEF doc
  <2>3. \A o \in OptionId :
          IF o \in Listed(doc.status)
          THEN status'[o] = doc.status[o] /\ mergedInto'[o] = doc.mergedInto[o]
          ELSE status'[o] = status[o] /\ mergedInto'[o] = mergedInto[o]
    BY <1>0, <2>1 DEF WriteSurvey, Over, TypeOK
  <2>4. \A v \in Voter \ answered' : comment'[v] = comment[v] /\ origin'[v] = origin[v]
    BY <1>0, <2>1 DEF InsertResponses, Over, TypeOK
  <2>5. MergesAreListed'
    <3>1. Listed(doc.status) \subseteq Listed(status') /\ Listed(status) \subseteq Listed(status')
      BY <2>3 DEF Listed
    <3>2. QED
      BY <1>0, <2>2, <2>3, <3>1 DEF MergesAreListed
  <2>6. UnansweredIsBlank'
    BY <1>0, <2>1, <2>4 DEF InsertResponses, UnansweredIsBlank
  <2>7. GoneIsEmpty'
    BY <2>1, <2>2 DEF WriteSurvey, Document, Exists, GoneIsEmpty
  <2>8. Faithful'
    BY <1>0, <2>1 DEF Faithful
  <2>9. QED
    BY <2>5, <2>6, <2>7, <2>8 DEF SurveyWhole
<1>3. QED
  BY <1>1, <1>2

LEMMA WholeInitInv == PortableInit => WholeInv
<1> SUFFICES ASSUME PortableInit PROVE WholeInv
  OBVIOUS
<1>1. PortableInv
  BY PortableInitInv
<1>2. Init /\ before = NoFile /\ held = [q \in Restorer |-> NoFile]
  BY DEF PortableInit
<1>3. Listed(status) = {}
  BY <1>2 DEF Init, Listed
<1>4. SurveyWhole
  BY <1>2, <1>3 DEF Init, SurveyWhole, MergesAreListed, UnansweredIsBlank, GoneIsEmpty
<1>5. QED
  BY <1>1, <1>2, <1>4 DEF WholeInv, Faithful

\* Whatever is done to the survey, and however many restores there are.
LEMMA WholeStepInv ==
  ASSUME WholeInv, [PortableNext]_portableVars
  PROVE  WholeInv'
<1>0. /\ PortableInv' /\ PortableInv
      /\ TypeOK /\ OpeningIsStamped /\ SurveyWhole /\ Faithful
  BY PortableStepInv DEF WholeInv, PortableInv, PortableTypeOK, SurveyInv
<1>1. ASSUME UNCHANGED vars
      PROVE  SurveyWhole' /\ Snapshot' = Snapshot
  BY <1>0, <1>1 DEF vars, survey, options, responses, SurveyWhole, MergesAreListed,
                    UnansweredIsBlank, GoneIsEmpty, Exists, Listed, Snapshot
<1>2. ASSUME SurveyStep
      PROVE  WholeInv'
  <2>1. [Next]_vars /\ UNCHANGED <<phase, file, held>>
    BY <1>2 DEF SurveyStep
  <2>2. SurveyWhole'
    BY <1>0, <2>1, StepMergesListed, StepUnanswered, StepGone DEF SurveyWhole
  <2>3. Faithful'
    <3>1. CASE before' = NoFile
      BY <3>1 DEF Faithful
    <3>2. CASE phase = "done" /\ before' = before
      BY <1>0, <2>1, <3>2 DEF Faithful
    <3>3. CASE before' = before /\ before # NoFile /\ UNCHANGED <<survey, options, responses>>
               /\ phase # "done"
      <4>1. Snapshot' = Snapshot
        BY <3>3 DEF survey, options, responses, Snapshot
      <4>2. phase \in {"responses", "choices"} => rows' = before.answered
        <5>1. rows' = rows \cap answered' /\ answered' = answered
          BY <1>2, <3>3 DEF SurveyStep, responses
        <5>2. answered = before.answered
          BY <1>0, <3>3, SnapshotFields DEF Faithful
        <5>3. QED
          BY <1>0, <3>3, <5>1, <5>2 DEF Faithful
      <4>3. QED
        BY <1>0, <2>1, <3>3, <4>1, <4>2 DEF Faithful
    <3>4. QED
      BY <1>2, <3>1, <3>2, <3>3 DEF SurveyStep
  <2>4. QED
    BY <1>0, <2>2, <2>3 DEF WholeInv
<1>3. ASSUME \/ \E full \in BOOLEAN : SaveBegins(full)
             \/ SaveOptions \/ SaveResponses \/ SaveChoices \/ SaveSeen
      PROVE  WholeInv'
  <2>1. UNCHANGED <<vars, held>>
    BY <1>3 DEF SaveBegins, SaveOptions, SaveResponses, SaveChoices, SaveSeen
  <2>2. Faithful'
    BY <1>3, SaveKeepsFaith
  <2>3. QED
    BY <1>0, <1>1, <2>1, <2>2 DEF WholeInv
<1>4. ASSUME NEW q \in Restorer, NEW doc \in Files, CheckRestore(q, doc)
      PROVE  WholeInv'
  <2>1. UNCHANGED <<vars, saving>>
    BY <1>4 DEF CheckRestore
  <2>2. Faithful'
    BY <1>0, <1>1, <2>1 DEF saving, Faithful
  <2>3. QED
    BY <1>0, <1>1, <2>1, <2>2 DEF WholeInv
<1>5. ASSUME NEW q \in Restorer, ApplyRestore(q)
      PROVE  WholeInv'
  BY <1>0, <1>5, RestoreKeepsWhole DEF WholeInv
<1>6. CASE UNCHANGED portableVars
  <2>1. UNCHANGED <<vars, phase, file, rows, before, held>>
    BY <1>6 DEF portableVars, saving
  <2>2. Faithful'
    BY <1>0, <1>1, <2>1 DEF Faithful
  <2>3. QED
    BY <1>0, <1>1, <2>1, <2>2 DEF WholeInv
<1>7. QED
  BY <1>2, <1>3, <1>4, <1>5, <1>6 DEF PortableNext

\* A file that nothing was written during has every field of the survey.
LEMMA UndisturbedFile ==
  ASSUME WholeInv, Undisturbed
  PROVE  file = before /\ Consistent(file)
<1>1. file \in Document /\ before \in Document
  BY DEF WholeInv, PortableInv, PortableTypeOK, FilesInv, Undisturbed
<1>2. Consistent(before)
  BY DEF WholeInv, Faithful, Undisturbed
<1>3. file = before
  BY <1>1, <1>2, DocumentsAreTheirFields DEF WholeInv, Faithful, Undisturbed, Consistent
<1>4. QED
  BY <1>2, <1>3

\* A full backup that nothing was written during can always be restored, and
\* brings back every field of the survey, through any restore that finds the survey
\* gone when it writes, however many others there are.
THEOREM BackupsBringBack == PortableSpec => BackupBringsItBack
<1> DEFINE BroughtBack == \A q \in Restorer :
             Undisturbed /\ WithinCeiling /\ held[q] = file /\ held'[q] = NoFile /\ ~Exists
               => Snapshot' = before
<1>1. WholeInv /\ [PortableNext]_portableVars => WholeInv'
  BY WholeStepInv
<1>2. WholeInv => (Undisturbed => Restorable(file))
  <2> SUFFICES ASSUME WholeInv, Undisturbed PROVE Restorable(file)
    OBVIOUS
  <2>1. Consistent(file) /\ file \in Document
    BY UndisturbedFile DEF WholeInv, PortableInv, PortableTypeOK, FilesInv, Undisturbed
  <2>2. QED
    BY <2>1 DEF Consistent, Restorable, Document, Listed
<1>3. ASSUME WholeInv, PortableNext, NEW q \in Restorer,
             Undisturbed, WithinCeiling, held[q] = file, held'[q] = NoFile, ~Exists
      PROVE  Snapshot' = before
  <2>1. file = before /\ Consistent(file) /\ file \in Document /\ held[q] \in Document
    BY <1>3, UndisturbedFile DEF WholeInv, PortableInv, PortableTypeOK, FilesInv, Undisturbed
  <2>2. held[q] # NoFile /\ held \in [Restorer -> Document \cup {NoFile}]
    BY <1>3, <2>1, NoFileAssumption DEF WholeInv, PortableInv, PortableTypeOK
  <2>3. ApplyRestore(q)
    <3>1. ~SurveyStep /\ ~(\E full \in BOOLEAN : SaveBegins(full)) /\ ~SaveOptions
          /\ ~SaveResponses /\ ~SaveChoices /\ ~SaveSeen
      BY <1>3, <2>2 DEF SurveyStep, SaveBegins, SaveOptions, SaveResponses, SaveChoices, SaveSeen
    <3>2. ASSUME NEW r \in Restorer, NEW doc \in Files, CheckRestore(r, doc)
          PROVE  FALSE
      BY <1>3, <2>2, <3>2 DEF CheckRestore
    <3>3. ASSUME NEW r \in Restorer, ApplyRestore(r), r # q
          PROVE  FALSE
      BY <1>3, <2>2, <3>3 DEF ApplyRestore
    <3>4. QED
      BY <1>3, <3>1, <3>2, <3>3 DEF PortableNext
  <2> DEFINE doc == Restored(file)
  <2>4. /\ doc.opened = file.opened /\ doc.state = file.state
        /\ doc.closeAt = file.closeAt /\ doc.settings = file.settings
        /\ doc.status = file.status /\ doc.mergedInto = file.mergedInto
        /\ doc.answered = file.answered /\ doc.choices = file.choices
        /\ doc.seen = [v \in Voter |-> RestoredSeen(file, v)]
        /\ doc.comment = file.comment /\ doc.origin = file.origin
    <3>1. doc.opened = (file.opened \/ file.state = "open") /\ file.opened \in BOOLEAN
      BY <2>1, RestoredFields DEF Document
    <3>2. QED
      BY <2>1, <3>1, RestoredFields DEF Consistent
  <2>5. ~Conflicts(doc)
    <3>1. answered = {}
      BY <1>3 DEF WholeInv, SurveyWhole, GoneIsEmpty
    <3>2. Cardinality(Listed(doc.status)) <= MaxOptions
      BY <1>3, <2>4 DEF WithinCeiling
    <3>3. Cardinality(Listed(doc.status)) \in Nat
      <4>1. Listed(doc.status) \in SUBSET OptionId
        BY DEF Listed
      <4>2. QED
        BY <4>1, OptionsAssumption, FS_Subset, FS_CardinalityType
    <3> HIDE DEF doc
    <3>4. QED
      BY <3>1, <3>2, <3>3, LimitsAssumption DEF Conflicts
  <2>6. /\ state' = file.state /\ opened' = file.opened
        /\ closeAt' = file.closeAt /\ settings' = file.settings
        /\ status' \in [OptionId -> OptionStatuses]
        /\ mergedInto' \in [OptionId -> OptionId \cup {NoOption}]
        /\ \A o \in OptionId :
             IF o \in Listed(file.status)
             THEN status'[o] = file.status[o] /\ mergedInto'[o] = file.mergedInto[o]
             ELSE status'[o] = "absent" /\ mergedInto'[o] = NoOption
        /\ answered' = file.answered
        /\ choices' = [v \in Voter |-> IF v \in file.answered THEN file.choices[v] ELSE {}]
        /\ seen' = [v \in Voter |-> IF v \in file.answered THEN doc.seen[v] ELSE {}]
        /\ comment' = [v \in Voter |-> IF v \in file.answered THEN file.comment[v] ELSE NoComment]
        /\ origin' = [v \in Voter |-> IF v \in file.answered THEN file.origin[v] ELSE "none"]
    <3> HIDE DEF doc
    <3>1. Restored(held[q]) = doc
      BY <1>3 DEF doc
    <3>2. QED
      BY <1>3, <2>3, <2>4, <2>5, <3>1, RestoreOfGone
  <2>7. status' = file.status /\ mergedInto' = file.mergedInto
    <3>1. /\ file.status \in [OptionId -> OptionStatuses]
          /\ file.mergedInto \in [OptionId -> OptionId \cup {NoOption}]
      BY <2>1 DEF Document
    <3>2. \A o \in OptionId \ Listed(file.status) : file.status[o] = "absent" /\ file.mergedInto[o] = NoOption
      BY <2>1 DEF Consistent, Listed
    <3>3. QED
      BY <2>6, <3>1, <3>2
  <2>8. choices' = file.choices /\ seen' = file.seen /\ comment' = file.comment /\ origin' = file.origin
    <3>1. /\ file.choices \in [Voter -> SUBSET OptionId] /\ file.seen \in [Voter -> SUBSET OptionId]
          /\ file.comment \in [Voter -> Comment \cup {NoComment}]
          /\ file.origin \in [Voter -> {"none", "preview", "public"}]
      BY <2>1 DEF Document
    <3>2. \A v \in Voter : v \in file.answered => doc.seen[v] = file.seen[v]
      <4>1. ASSUME NEW v \in Voter, v \in file.answered
            PROVE  doc.seen[v] = file.seen[v]
        <5>1. doc.seen[v] = RestoredSeen(file, v)
          BY <2>4
        <5>2. file.choices[v] \subseteq file.seen[v]
          BY <2>1 DEF Consistent
        <5>3. QED
          BY <4>1, <5>1, <5>2 DEF RestoredSeen
      <4>2. QED
        BY <4>1
    <3>3. \A v \in Voter \ file.answered :
            /\ file.choices[v] = {} /\ file.seen[v] = {}
            /\ file.comment[v] = NoComment /\ file.origin[v] = "none"
      BY <2>1 DEF Consistent
    <3>4. QED
      BY <2>6, <3>1, <3>2, <3>3
  <2>9. file = [full |-> TRUE, state |-> file.state, opened |-> file.opened,
                closeAt |-> file.closeAt, settings |-> file.settings, status |-> file.status,
                mergedInto |-> file.mergedInto, answered |-> file.answered,
                choices |-> file.choices, seen |-> file.seen, comment |-> file.comment,
                origin |-> file.origin]
    BY <2>1 DEF Document, Consistent
  <2>10. QED
    BY <2>1, <2>6, <2>7, <2>8, <2>9 DEF Snapshot
<1>4. WholeInv /\ [PortableNext]_portableVars => [BroughtBack]_portableVars
  BY <1>3
<1>5. QED
  BY <1>1, <1>2, <1>4, WholeInitInv, PTL DEF PortableSpec, BackupBringsItBack
=============================================================================
