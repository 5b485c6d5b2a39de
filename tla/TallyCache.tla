----------------------------- MODULE TallyCache -----------------------------
(***************************************************************************)
(* The cached tally (Store.Tally in internal/store/response.go) against    *)
(* the write path every commit takes (Store.tx in internal/store/store.go).*)
(* A tally is computed from five SELECTs that share no transaction, while  *)
(* other connections commit; the cache is keyed on a counter that a writer *)
(* bumps after its commit.  What is counted is left out: a table is        *)
(* represented by the number of writes to its survey that it reflects.     *)
(***************************************************************************)
EXTENDS Naturals, Sequences

CONSTANTS
  Process,     \* the server processes that share the data directory
  SurveyId,
  Reader,      \* the requests that may be in Tally at once
  Writer,      \* the requests that may be in tx at once
  None,        \* no entry, no request
  MaxWrites    \* bound on the writes to each survey

ASSUME WritesAssumption == MaxWrites \in Nat

VARIABLES
  committed,   \* committed[s]: writes to s in the database
  settled,     \* settled[s]: the last of them that has returned to its caller
  gen,         \* Store.gen of each process
  tallyGen,    \* Store.tallyGen of each process
  tallyCache,  \* Store.tallyCache of each process
  writing,     \* writing[w]: a tx between its commit and its bump of gen
  pc,          \* pc[r]: where a call of Tally is
  call,        \* call[r]: what it was called with, and the gen it loaded
  got          \* got[r]: what it has read

vars == <<committed, settled, gen, tallyGen, tallyCache, writing, pc, call, got>>
reading == <<pc, call, got>>

\* survey, options, responses, choices and seen, in the order computeTally reads them.
Tables == 5

Write == [at : Process, of : SurveyId, version : Nat]

\* floor is history: the writes to the survey that had returned before the call.
TallyCall == [at : Process, of : SurveyId, gen : Nat, floor : Nat]

TypeOK ==
  /\ committed \in [SurveyId -> Nat]
  /\ settled \in [SurveyId -> Nat]
  /\ gen \in [Process -> Nat]
  /\ tallyGen \in [Process -> Nat]
  /\ tallyCache \in [Process -> [SurveyId -> Seq(Nat) \cup {None}]]
  /\ writing \in [Writer -> Write \cup {None}]
  /\ pc \in [Reader -> {"idle", "lookup", "compute", "store", "done"}]
  /\ call \in [Reader -> TallyCall \cup {None}]
  /\ got \in [Reader -> Seq(Nat)]
  /\ \A r \in Reader : pc[r] # "idle" => call[r] \in TallyCall

Empty == [s \in SurveyId |-> None]

-----------------------------------------------------------------------------
(* Writing                                                                 *)

\* tx up to tx.Commit.  A transaction that fails leaves no trace.
Commit(w, p, s) ==
  /\ writing[w] = None
  /\ committed[s] < MaxWrites
  /\ committed' = [committed EXCEPT ![s] = @ + 1]
  /\ writing' = [writing EXCEPT ![w] = [at |-> p, of |-> s, version |-> committed[s] + 1]]
  /\ UNCHANGED <<settled, gen, tallyGen, tallyCache, reading>>

\* tx from s.gen.Add(1) to its return.
Bump(w) ==
  LET x == writing[w] IN
  /\ x # None
  /\ gen' = [gen EXCEPT ![x.at] = @ + 1]
  /\ settled' = [settled EXCEPT ![x.of] = IF @ < x.version THEN x.version ELSE @]
  /\ writing' = [writing EXCEPT ![w] = None]
  /\ UNCHANGED <<committed, tallyGen, tallyCache, reading>>

-----------------------------------------------------------------------------
(* Reading                                                                 *)

\* The call, and gen := s.gen.Load().
Call(r, p, s) ==
  /\ pc[r] = "idle"
  /\ pc' = [pc EXCEPT ![r] = "lookup"]
  /\ call' = [call EXCEPT ![r] = [at |-> p, of |-> s, gen |-> gen[p], floor |-> settled[s]]]
  /\ UNCHANGED <<committed, settled, gen, tallyGen, tallyCache, writing, got>>

Entry(c) == tallyCache[c.at][c.of]

\* Mutant: a map of the right gen answers the call, entry or no entry.
LookupUnchecked(r) ==
  /\ pc[r] = "lookup"
  /\ IF tallyGen[call[r].at] = call[r].gen
     THEN /\ pc' = [pc EXCEPT ![r] = "done"]
          /\ got' = [got EXCEPT ![r] = Entry(call[r])]
     ELSE /\ pc' = [pc EXCEPT ![r] = "compute"]
          /\ UNCHANGED got
  /\ UNCHANGED <<committed, settled, gen, tallyGen, tallyCache, writing, call>>

\* The first critical section: a hit answers the call.
Lookup(r) ==
  /\ pc[r] = "lookup"
  /\ IF tallyGen[call[r].at] = call[r].gen /\ Entry(call[r]) # None
     THEN /\ pc' = [pc EXCEPT ![r] = "done"]
          /\ got' = [got EXCEPT ![r] = Entry(call[r])]
     ELSE /\ pc' = [pc EXCEPT ![r] = "compute"]
          /\ UNCHANGED got
  /\ UNCHANGED <<committed, settled, gen, tallyGen, tallyCache, writing, call>>

\* One SELECT of computeTally.  A survey that is gone ends it after the first.
Select(r) ==
  /\ pc[r] = "compute"
  /\ got' = [got EXCEPT ![r] = Append(@, committed[call[r].of])]
  /\ \/ Len(got[r]) + 1 \in {1, Tables} /\ pc' = [pc EXCEPT ![r] = "store"]
     \/ Len(got[r]) + 1 < Tables /\ UNCHANGED pc
  /\ UNCHANGED <<committed, settled, gen, tallyGen, tallyCache, writing, call>>

\* Mutant: the result is kept without asking whether a write landed meanwhile.
KeepUnchecked(r) ==
  LET p == call[r].at
      map == IF tallyGen[p] # gen[p] THEN Empty ELSE tallyCache[p]
  IN  /\ pc[r] = "store"
      /\ tallyGen' = [tallyGen EXCEPT ![p] = gen[p]]
      /\ tallyCache' = [tallyCache EXCEPT ![p] = [map EXCEPT ![call[r].of] = got[r]]]
      /\ pc' = [pc EXCEPT ![r] = "done"]
      /\ UNCHANGED <<committed, settled, gen, writing, call, got>>

\* Mutant: a call that finds the map at another gen drops it and keeps nothing.
KeepOrDrop(r) ==
  LET p == call[r].at
      c == call[r]
  IN  /\ pc[r] = "store"
      /\ UNCHANGED tallyGen
      /\ tallyCache' = [tallyCache EXCEPT ![p] =
           IF tallyGen[p] # c.gen THEN Empty ELSE [@ EXCEPT ![c.of] = got[r]]]
      /\ pc' = [pc EXCEPT ![r] = "done"]
      /\ UNCHANGED <<committed, settled, gen, writing, call, got>>

\* The second critical section: the map is dropped if it belongs to another gen,
\* and the result kept only if no write has been counted since the call began.
Keep(r) ==
  LET c == call[r]
      map == IF tallyGen[c.at] # c.gen THEN Empty ELSE tallyCache[c.at]
  IN  /\ pc[r] = "store"
      /\ tallyGen' = [tallyGen EXCEPT ![c.at] = c.gen]
      /\ tallyCache' = [tallyCache EXCEPT ![c.at] =
           IF gen[c.at] = c.gen THEN [map EXCEPT ![c.of] = got[r]] ELSE map]
      /\ pc' = [pc EXCEPT ![r] = "done"]
      /\ UNCHANGED <<committed, settled, gen, writing, call, got>>

Return(r) ==
  /\ pc[r] = "done"
  /\ pc' = [pc EXCEPT ![r] = "idle"]
  /\ call' = [call EXCEPT ![r] = None]
  /\ got' = [got EXCEPT ![r] = <<>>]
  /\ UNCHANGED <<committed, settled, gen, tallyGen, tallyCache, writing>>

-----------------------------------------------------------------------------
Init ==
  /\ committed = [s \in SurveyId |-> 0]
  /\ settled = [s \in SurveyId |-> 0]
  /\ gen = [p \in Process |-> 0]
  /\ tallyGen = [p \in Process |-> 0]
  /\ tallyCache = [p \in Process |-> Empty]
  /\ writing = [w \in Writer |-> None]
  /\ pc = [r \in Reader |-> "idle"]
  /\ call = [r \in Reader |-> None]
  /\ got = [r \in Reader |-> <<>>]

WriterStep(w) == Bump(w) \/ \E p \in Process, s \in SurveyId : Commit(w, p, s)

\* What a call does once it has been made.
Proceed(r) == Lookup(r) \/ Select(r) \/ Keep(r) \/ Return(r)

ReaderStep(r) == Proceed(r) \/ \E p \in Process, s \in SurveyId : Call(r, p, s)

Next == (\E w \in Writer : WriterStep(w)) \/ (\E r \in Reader : ReaderStep(r))

Spec == Init /\ [][Next]_vars

\* The scheduler starves no goroutine that has begun a call or a write, and
\* every survey's ballots keep being loaded.
Fairness ==
  /\ \A w \in Writer : WF_vars(Bump(w))
  /\ \A r \in Reader : WF_vars(Proceed(r))
  /\ \A p \in Process, s \in SurveyId : SF_vars(\E r \in Reader : Call(r, p, s))

FairSpec == Spec /\ Fairness

-----------------------------------------------------------------------------
(* Properties                                                              *)

\* Every table of a tally was read at this version of its survey or a later one.
Reflects(rows, version) == \A i \in 1..Len(rows) : rows[i] >= version

\* "A stale entry is never readable": what Tally returns reflects every write
\* that had returned when Tally was called, in each of the tables it is counted
\* from.  A reader therefore sees its own vote, and a moderator the decision
\* they have just made.
TallyReflectsReturnedWrites ==
  \A r \in Reader :
    pc[r] = "done" => Reflects(got[r], call[r].floor)

\* DESIGN.md, "the hit rate stays high": once writes stop, every process ends
\* with every survey's tally in its cache, whatever slow calls from before the
\* last write do to the map when they finish.
Cached(p, s) == tallyGen[p] = gen[p] /\ tallyCache[p][s] # None

CacheSettles == \A p \in Process, s \in SurveyId : <>[]Cached(p, s)
=============================================================================
