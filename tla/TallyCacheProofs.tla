-------------------------- MODULE TallyCacheProofs --------------------------
(* TallyCache, proved for any number of surveys, readers, writers and       *)
(* writes, in one server process.                                           *)
EXTENDS TallyCache, TLAPS

\* What a call knows at each point.  A call whose gen is still current has read
\* nothing older than the last settled write, which is what makes its result
\* good to keep; a call about to look in a map of its own gen would find there
\* nothing older than the writes it has to reflect.
CallInv(r) ==
  pc[r] # "idle" =>
    /\ call[r].gen <= gen[call[r].at]
    /\ call[r].floor <= settled[call[r].of]
    /\ Reflects(got[r], call[r].floor)
    /\ (call[r].gen = gen[call[r].at] /\ pc[r] \in {"lookup", "compute", "store"})
         => Reflects(got[r], settled[call[r].of])
    /\ (pc[r] = "lookup" /\ call[r].gen = tallyGen[call[r].at] /\ Entry(call[r]) # None)
         => Reflects(Entry(call[r]), call[r].floor)

\* An entry is fresh, but only while no write has been counted since its map was
\* keyed.
EntryInv(p, s) ==
  (tallyGen[p] = gen[p] /\ tallyCache[p][s] # None) => Reflects(tallyCache[p][s], settled[s])

\* The inductive invariant.
Inv ==
  /\ TypeOK
  /\ \A s \in SurveyId : settled[s] <= committed[s]
  /\ \A w \in Writer : writing[w] # None => writing[w].version <= committed[writing[w].of]
  /\ \A p \in Process : tallyGen[p] <= gen[p]
  /\ \A p \in Process, s \in SurveyId : EntryInv(p, s)
  /\ \A r \in Reader : pc[r] = "idle" => got[r] = <<>>
  /\ \A r \in Reader : CallInv(r)

\* Rows that reflect a version reflect the earlier ones.
LEMMA ReflectsEarlier ==
  ASSUME NEW rows \in Seq(Nat), NEW m \in Nat, NEW n \in Nat, Reflects(rows, n), m <= n
  PROVE  Reflects(rows, m)
<1> SUFFICES ASSUME NEW i \in 1..Len(rows) PROVE rows[i] >= m
  BY DEF Reflects
<1>1. rows[i] \in Nat /\ rows[i] >= n
  BY DEF Reflects
<1> QED
  BY <1>1

\* Reading one more table as new as a version keeps what was read as new as it.
LEMMA ReflectsOneMore ==
  ASSUME NEW rows \in Seq(Nat), NEW v \in Nat, NEW n \in Nat, Reflects(rows, n), n <= v
  PROVE  Append(rows, v) \in Seq(Nat) /\ Reflects(Append(rows, v), n)
<1>1. Append(rows, v) \in Seq(Nat) /\ Len(Append(rows, v)) = Len(rows) + 1
  OBVIOUS
<1>2. ASSUME NEW i \in 1..Len(Append(rows, v)) PROVE Append(rows, v)[i] >= n
  <2>1. CASE i \in 1..Len(rows)
    <3>1. Append(rows, v)[i] = rows[i]
      BY <2>1
    <3> QED
      BY <3>1, <2>1 DEF Reflects
  <2>2. CASE i = Len(rows) + 1
    BY <2>2
  <2> QED
    BY <1>1, <2>1, <2>2
<1> QED
  BY <1>1, <1>2 DEF Reflects

\* Every step keeps the variables within their types.
LEMMA TypeStep == TypeOK /\ [Next]_vars => TypeOK'
<1> SUFFICES ASSUME TypeOK, [Next]_vars PROVE TypeOK'
  OBVIOUS
<1>1. ASSUME NEW w \in Writer, NEW p \in Process, NEW s \in SurveyId, Commit(w, p, s)
      PROVE  TypeOK'
  <2>1. [at |-> p, of |-> s, version |-> committed[s] + 1] \in Write
    BY DEF TypeOK, Write
  <2>2. writing' \in [Writer -> Write \cup {None}]
    BY <1>1, <2>1 DEF Commit, TypeOK
  <2>3. committed' \in [SurveyId -> Nat]
    BY <1>1 DEF Commit, TypeOK
  <2> QED
    BY <1>1, <2>2, <2>3 DEF Commit, TypeOK, reading
<1>2. ASSUME NEW w \in Writer, Bump(w) PROVE TypeOK'
  <2>1. writing[w] \in Write
    BY <1>2 DEF Bump, TypeOK
  <2>2. writing[w].at \in Process /\ writing[w].of \in SurveyId /\ writing[w].version \in Nat
    BY <2>1 DEF Write
  <2>3. gen' \in [Process -> Nat] /\ settled' \in [SurveyId -> Nat]
    BY <1>2, <2>2 DEF Bump, TypeOK
  <2>4. writing' \in [Writer -> Write \cup {None}]
    BY <1>2 DEF Bump, TypeOK
  <2> QED
    BY <1>2, <2>3, <2>4 DEF Bump, TypeOK, reading
<1>3. ASSUME NEW r \in Reader, NEW p \in Process, NEW s \in SurveyId, Call(r, p, s)
      PROVE  TypeOK'
  BY <1>3 DEF Call, TypeOK, TallyCall
<1>4. ASSUME NEW r \in Reader, Lookup(r) PROVE TypeOK'
  <2>1. call[r] \in TallyCall
    BY <1>4 DEF Lookup, TypeOK
  <2>2. call[r].at \in Process /\ call[r].of \in SurveyId
    BY <2>1 DEF TallyCall
  <2>3. Entry(call[r]) \in Seq(Nat) \cup {None}
    BY <2>2 DEF Entry, TypeOK
  <2>4. got' \in [Reader -> Seq(Nat)]
    BY <1>4, <2>3 DEF Lookup, TypeOK
  <2>5. pc' \in [Reader -> {"idle", "lookup", "compute", "store", "done"}]
    BY <1>4 DEF Lookup, TypeOK
  <2>6. \A q \in Reader : pc'[q] # "idle" => call[q] \in TallyCall
    BY <1>4, <2>1 DEF Lookup, TypeOK
  <2> QED
    BY <1>4, <2>4, <2>5, <2>6 DEF Lookup, TypeOK
<1>5. ASSUME NEW r \in Reader, Select(r) PROVE TypeOK'
  <2>1. call[r] \in TallyCall
    BY <1>5 DEF Select, TypeOK
  <2>2. call[r].of \in SurveyId
    BY <2>1 DEF TallyCall
  <2>3. Append(got[r], committed[call[r].of]) \in Seq(Nat)
    BY <2>2 DEF TypeOK
  <2>4. got' \in [Reader -> Seq(Nat)]
    BY <1>5, <2>3, Z3 DEF Select, TypeOK
  <2>5. pc' \in [Reader -> {"idle", "lookup", "compute", "store", "done"}]
    BY <1>5 DEF Select, TypeOK
  <2>6. \A q \in Reader : pc'[q] # "idle" => call[q] \in TallyCall
    BY <1>5, <2>1 DEF Select, TypeOK
  <2> QED
    BY <1>5, <2>4, <2>5, <2>6 DEF Select, TypeOK
<1>6. ASSUME NEW r \in Reader, Keep(r) PROVE TypeOK'
  BY <1>6 DEF Keep, Empty, TypeOK, TallyCall
<1>7. ASSUME NEW r \in Reader, Return(r) PROVE TypeOK'
  BY <1>7 DEF Return, TypeOK
<1>8. CASE UNCHANGED vars
  BY <1>8 DEF vars, TypeOK
<1> QED
  BY <1>1, <1>2, <1>3, <1>4, <1>5, <1>6, <1>7, <1>8
     DEF Next, WriterStep, ReaderStep, Proceed

\* The types of what a call that is under way refers to.
LEMMA CallTypes ==
  ASSUME TypeOK, NEW r \in Reader, pc[r] # "idle"
  PROVE  /\ call[r].at \in Process /\ call[r].of \in SurveyId
         /\ call[r].gen \in Nat /\ call[r].floor \in Nat
         /\ gen[call[r].at] \in Nat /\ settled[call[r].of] \in Nat
         /\ committed[call[r].of] \in Nat
         /\ got[r] \in Seq(Nat)
         /\ Entry(call[r]) \in Seq(Nat) \cup {None}
<1>1. call[r] \in TallyCall
  BY DEF TypeOK
<1>2. /\ call[r].at \in Process /\ call[r].of \in SurveyId
      /\ call[r].gen \in Nat /\ call[r].floor \in Nat
  BY <1>1 DEF TallyCall
<1> QED
  BY <1>2 DEF TypeOK, Entry

\* Every step of a single process keeps the invariant.
LEMMA InvStep ==
  ASSUME \A p, q \in Process : p = q, Inv, [Next]_vars
  PROVE  Inv'
<1>0. TypeOK /\ TypeOK'
  BY TypeStep DEF Inv
<1>1. ASSUME NEW w \in Writer, NEW p \in Process, NEW s \in SurveyId, Commit(w, p, s)
      PROVE  Inv'
  <2>1. /\ committed[s] \in Nat
        /\ committed' = [committed EXCEPT ![s] = committed[s] + 1]
        /\ writing' = [writing EXCEPT ![w] = [at |-> p, of |-> s, version |-> committed[s] + 1]]
    BY <1>0, <1>1 DEF Commit, TypeOK
  <2>2. \A t \in SurveyId : committed[t] \in Nat /\ committed'[t] \in Nat /\ committed[t] <= committed'[t]
    BY <1>0, <2>1 DEF TypeOK
  <2>3. \A t \in SurveyId : settled'[t] <= committed'[t]
    BY <1>0, <1>1, <2>2 DEF Commit, Inv, TypeOK
  <2>4. ASSUME NEW u \in Writer, writing'[u] # None
        PROVE  writing'[u].version <= committed'[writing'[u].of]
    <3>1. CASE u = w
      <4>1. writing'[u] = [at |-> p, of |-> s, version |-> committed[s] + 1]
        BY <1>0, <2>1, <3>1 DEF TypeOK
      <4>2. committed'[s] = committed[s] + 1
        BY <1>0, <2>1 DEF TypeOK
      <4> QED
        BY <4>1, <4>2, <2>1
    <3>2. CASE u # w
      <4>1. writing'[u] = writing[u]
        BY <1>0, <2>1, <3>2 DEF TypeOK
      <4>2. writing[u] \in Write /\ writing[u].version <= committed[writing[u].of]
        BY <1>0, <2>4, <4>1 DEF TypeOK, Inv
      <4>3. writing[u].of \in SurveyId /\ writing[u].version \in Nat
        BY <4>2 DEF Write
      <4> QED
        BY <4>1, <4>2, <4>3, <2>2
    <3> QED
      BY <3>1, <3>2
  <2>5. \A q \in Process : tallyGen'[q] <= gen'[q]
    BY <1>1 DEF Commit, Inv
  <2>6. \A q \in Process, t \in SurveyId : EntryInv(q, t)'
    BY <1>1 DEF Commit, Inv, EntryInv, Reflects
  <2>7. \A r \in Reader : CallInv(r)' /\ (pc'[r] = "idle" => got'[r] = <<>>)
    BY <1>1 DEF Commit, Inv, CallInv, Reflects, Entry, reading
  <2> QED
    BY <1>0, <2>3, <2>4, <2>5, <2>6, <2>7 DEF Inv
<1>2. ASSUME NEW w \in Writer, Bump(w) PROVE Inv'
  <2> DEFINE x == writing[w]
  <2>1. x \in Write /\ x # None /\ x.version <= committed[x.of]
    BY <1>0, <1>2 DEF Bump, TypeOK, Inv
  <2>2. x.at \in Process /\ x.of \in SurveyId /\ x.version \in Nat
    BY <2>1 DEF Write
  <2>3. /\ gen' = [gen EXCEPT ![x.at] = @ + 1]
        /\ settled' = [settled EXCEPT ![x.of] = IF @ < x.version THEN x.version ELSE @]
        /\ writing' = [writing EXCEPT ![w] = None]
        /\ UNCHANGED <<committed, tallyGen, tallyCache, pc, call, got>>
    BY <1>2 DEF Bump, reading
  <2> HIDE DEF x
  \* There is one process, so its counter is past every gen seen before.
  <2>4. \A q \in Process : gen[q] \in Nat /\ gen'[q] = gen[q] + 1 /\ tallyGen[q] <= gen[q]
                           /\ tallyGen[q] \in Nat
    BY <1>0, <2>2, <2>3 DEF TypeOK, Inv
  <2>5. \A t \in SurveyId : /\ settled[t] \in Nat /\ settled'[t] \in Nat /\ settled[t] <= settled'[t]
                            /\ settled'[t] <= committed'[t]
    BY <1>0, <2>1, <2>2, <2>3 DEF TypeOK, Inv
  <2>6. ASSUME NEW u \in Writer, writing'[u] # None
        PROVE  writing'[u].version <= committed'[writing'[u].of]
    <3>1. writing'[u] = writing[u]
      BY <1>0, <2>3, <2>6 DEF TypeOK
    <3> QED
      BY <3>1, <2>3, <2>6 DEF Inv
  <2>7. \A q \in Process : tallyGen'[q] <= gen'[q]
    BY <2>3, <2>4
  <2>8. \A q \in Process, t \in SurveyId : EntryInv(q, t)'
    BY <2>3, <2>4 DEF EntryInv
  <2>9. ASSUME NEW r \in Reader PROVE CallInv(r)'
    <3> SUFFICES ASSUME pc[r] # "idle" PROVE CallInv(r)'
      BY <2>3 DEF CallInv
    <3>1. CallInv(r)
      BY DEF Inv
    <3>2. /\ call[r].at \in Process /\ call[r].of \in SurveyId
          /\ call[r].gen \in Nat /\ call[r].floor \in Nat
      BY <1>0, CallTypes
    <3>3. call[r].gen <= gen'[call[r].at] /\ call[r].gen # gen'[call[r].at]
      BY <3>1, <3>2, <2>4 DEF CallInv
    <3>4. call[r].floor <= settled'[call[r].of]
      BY <3>1, <3>2, <2>5 DEF CallInv
    <3>5. Entry(call[r])' = Entry(call[r]) /\ Reflects(got[r], call[r].floor)' = Reflects(got[r], call[r].floor)
          /\ Reflects(Entry(call[r]), call[r].floor)' = Reflects(Entry(call[r]), call[r].floor)
      BY <2>3 DEF Entry, Reflects
    <3> QED
      BY <3>1, <3>3, <3>4, <3>5, <2>3 DEF CallInv
  <2> QED
    BY <1>0, <2>3, <2>5, <2>6, <2>7, <2>8, <2>9 DEF Inv
<1>3. ASSUME NEW r \in Reader, NEW p \in Process, NEW s \in SurveyId, Call(r, p, s)
      PROVE  Inv'
  <2>1. /\ pc[r] = "idle"
        /\ pc' = [pc EXCEPT ![r] = "lookup"]
        /\ call' = [call EXCEPT ![r] = [at |-> p, of |-> s, gen |-> gen[p], floor |-> settled[s]]]
        /\ UNCHANGED <<committed, settled, gen, tallyGen, tallyCache, writing, got>>
    BY <1>3 DEF Call
  <2>2. pc'[r] = "lookup" /\ got'[r] = <<>>
        /\ call'[r] = [at |-> p, of |-> s, gen |-> gen[p], floor |-> settled[s]]
    BY <1>0, <2>1 DEF TypeOK, Inv
  <2>3. \A q \in Reader \ {r} : pc'[q] = pc[q] /\ call'[q] = call[q] /\ got'[q] = got[q]
    BY <1>0, <2>1 DEF TypeOK
  <2>4. \A q \in Process, t \in SurveyId : EntryInv(q, t)'
    BY <2>1 DEF EntryInv, Reflects, Inv
  <2>5. CallInv(r)'
    <3>1. \A n : Reflects(<<>>, n)
      BY DEF Reflects
    <3>2. gen[p] \in Nat /\ settled[s] \in Nat
      BY <1>0 DEF TypeOK
    <3>3. EntryInv(p, s)
      BY DEF Inv
    <3>4. call'[r].gen = gen[p] /\ call'[r].at = p /\ call'[r].of = s /\ call'[r].floor = settled[s]
      BY <2>2
    <3> QED
      BY <2>1, <2>2, <3>1, <3>2, <3>3, <3>4 DEF CallInv, EntryInv, Entry, Reflects
  <2>6. ASSUME NEW q \in Reader \ {r} PROVE CallInv(q)'
    BY <2>1, <2>3 DEF CallInv, Entry, Reflects, Inv
  <2>7. \A q \in Reader : pc'[q] = "idle" => got'[q] = <<>>
    BY <2>2, <2>3 DEF Inv
  <2> QED
    BY <1>0, <2>1, <2>4, <2>5, <2>6, <2>7 DEF Inv
<1>4. ASSUME NEW r \in Reader, Lookup(r) PROVE Inv'
  <2>1. pc[r] = "lookup" /\ UNCHANGED <<committed, settled, gen, tallyGen, tallyCache, writing, call>>
    BY <1>4 DEF Lookup
  <2>2. \A q \in Reader \ {r} : pc'[q] = pc[q] /\ call'[q] = call[q] /\ got'[q] = got[q]
    BY <1>0, <1>4 DEF Lookup, TypeOK
  <2>3. \A q \in Process, t \in SurveyId : EntryInv(q, t)'
    BY <2>1 DEF EntryInv, Reflects, Inv
  <2>4. CallInv(r)
    BY DEF Inv
  <2>5. CallInv(r)' /\ pc'[r] # "idle"
    <3>1. CASE tallyGen[call[r].at] = call[r].gen /\ Entry(call[r]) # None
      <4>1. pc'[r] = "done" /\ got'[r] = Entry(call[r])
        BY <1>0, <1>4, <3>1 DEF Lookup, TypeOK
      <4> QED
        BY <2>1, <2>4, <3>1, <4>1 DEF CallInv, Entry, Reflects
    <3>2. CASE ~ (tallyGen[call[r].at] = call[r].gen /\ Entry(call[r]) # None)
      <4>1. pc'[r] = "compute" /\ got'[r] = got[r]
        BY <1>0, <1>4, <3>2 DEF Lookup, TypeOK
      <4> QED
        BY <2>1, <2>4, <4>1 DEF CallInv, Entry, Reflects
    <3> QED
      BY <3>1, <3>2
  <2>6. ASSUME NEW q \in Reader \ {r} PROVE CallInv(q)'
    BY <2>1, <2>2 DEF CallInv, Entry, Reflects, Inv
  <2>7. \A q \in Reader : pc'[q] = "idle" => got'[q] = <<>>
    BY <2>2, <2>5 DEF Inv
  <2> QED
    BY <1>0, <2>1, <2>3, <2>5, <2>6, <2>7 DEF Inv
<1>5. ASSUME NEW r \in Reader, Select(r) PROVE Inv'
  <2>1. pc[r] = "compute" /\ UNCHANGED <<committed, settled, gen, tallyGen, tallyCache, writing, call>>
    BY <1>5 DEF Select
  <2>2. \A q \in Reader \ {r} : pc'[q] = pc[q] /\ call'[q] = call[q] /\ got'[q] = got[q]
    BY <1>0, <1>5, Z3 DEF Select, TypeOK
  <2>3. \A q \in Process, t \in SurveyId : EntryInv(q, t)'
    BY <2>1 DEF EntryInv, Reflects, Inv
  <2>4. CallInv(r)
    BY DEF Inv
  <2>5. /\ call[r].at \in Process /\ call[r].of \in SurveyId
        /\ call[r].gen \in Nat /\ call[r].floor \in Nat
        /\ settled[call[r].of] \in Nat /\ committed[call[r].of] \in Nat
        /\ got[r] \in Seq(Nat)
    BY <1>0, <2>1, CallTypes
  <2>6. settled[call[r].of] <= committed[call[r].of]
    BY <2>5 DEF Inv
  <2>7. got'[r] = Append(got[r], committed[call[r].of]) /\ pc'[r] \in {"store", "compute"}
    BY <1>0, <1>5, Z3 DEF Select, TypeOK
  <2>8. Reflects(got'[r], call[r].floor)
    <3>1. Reflects(got[r], call[r].floor) /\ call[r].floor <= committed[call[r].of]
      BY <2>1, <2>4, <2>5, <2>6 DEF CallInv
    <3> QED
      BY <2>5, <2>7, <3>1, ReflectsOneMore
  <2>9. call[r].gen = gen[call[r].at] => Reflects(got'[r], settled[call[r].of])
    <3> SUFFICES ASSUME call[r].gen = gen[call[r].at] PROVE Reflects(got'[r], settled[call[r].of])
      OBVIOUS
    <3>1. Reflects(got[r], settled[call[r].of])
      BY <2>1, <2>4 DEF CallInv
    <3> QED
      BY <2>5, <2>6, <2>7, <3>1, ReflectsOneMore
  <2>10. CallInv(r)'
    <3>1. call'[r] = call[r] /\ gen' = gen /\ settled' = settled
      BY <2>1
    <3> QED
      BY <2>1, <2>4, <2>7, <2>8, <2>9, <3>1 DEF CallInv, Reflects
  <2>11. ASSUME NEW q \in Reader \ {r} PROVE CallInv(q)'
    BY <2>1, <2>2 DEF CallInv, Entry, Reflects, Inv
  <2>12. \A q \in Reader : pc'[q] = "idle" => got'[q] = <<>>
    BY <2>2, <2>7 DEF Inv
  <2> QED
    BY <1>0, <2>1, <2>3, <2>10, <2>11, <2>12 DEF Inv
<1>6. ASSUME NEW r \in Reader, Keep(r) PROVE Inv'
  <2>1. pc[r] = "store" /\ UNCHANGED <<committed, settled, gen, writing, call, got>>
    BY <1>6 DEF Keep
  <2>2. pc'[r] = "done" /\ \A q \in Reader \ {r} : pc'[q] = pc[q]
    BY <1>0, <1>6 DEF Keep, TypeOK
  <2>3. CallInv(r)
    BY DEF Inv
  <2>4. /\ call[r].at \in Process /\ call[r].of \in SurveyId
        /\ call[r].gen \in Nat /\ call[r].gen <= gen[call[r].at]
        /\ got[r] \in Seq(Nat)
    BY <1>0, <2>1, <2>3, CallTypes DEF CallInv
  \* The process is the caller's, and its map is now keyed on the caller's gen.
  <2>5. \A q \in Process : q = call[r].at /\ tallyGen'[q] = call[r].gen
    BY <1>0, <1>6, <2>4 DEF Keep, TypeOK
  <2>6. ASSUME NEW q \in Process, NEW t \in SurveyId, tallyCache'[q][t] # None
        PROVE  \/ tallyCache'[q][t] = tallyCache[q][t] /\ tallyGen[q] = call[r].gen
               \/ tallyCache'[q][t] = got[r] /\ t = call[r].of /\ gen[q] = call[r].gen
    BY <1>0, <1>6, <2>4, <2>5, <2>6 DEF Keep, TypeOK, Empty
  <2>7. ASSUME NEW q \in Process, NEW t \in SurveyId PROVE EntryInv(q, t)'
    <3> SUFFICES ASSUME call[r].gen = gen[q], tallyCache'[q][t] # None
                 PROVE  Reflects(tallyCache'[q][t], settled[t])
      BY <2>1, <2>5 DEF EntryInv, Reflects
    <3>1. EntryInv(q, t)
      BY DEF Inv
    <3>2. q = call[r].at
      BY <2>5
    <3>3. Reflects(got[r], settled[call[r].of])
      BY <2>1, <2>3, <3>2 DEF CallInv
    <3>4. CASE tallyCache'[q][t] = tallyCache[q][t] /\ tallyGen[q] = call[r].gen
      BY <3>1, <3>4 DEF EntryInv
    <3>5. CASE tallyCache'[q][t] = got[r] /\ t = call[r].of
      BY <3>3, <3>5
    <3> QED
      BY <2>6, <3>4, <3>5
  <2>8. CallInv(r)'
    BY <2>1, <2>2, <2>3 DEF CallInv, Reflects
  <2>9. ASSUME NEW o \in Reader \ {r} PROVE CallInv(o)'
    <3> SUFFICES ASSUME pc[o] # "idle" PROVE CallInv(o)'
      BY <2>2 DEF CallInv
    <3>1. CallInv(o)
      BY DEF Inv
    <3>2. /\ call[o].at \in Process /\ call[o].of \in SurveyId
          /\ call[o].gen \in Nat /\ call[o].floor \in Nat
          /\ settled[call[o].of] \in Nat /\ got[o] \in Seq(Nat)
      BY <1>0, CallTypes
    <3>3. ASSUME pc[o] = "lookup", call[o].gen = tallyGen'[call[o].at],
                 tallyCache'[call[o].at][call[o].of] # None
          PROVE  Reflects(tallyCache'[call[o].at][call[o].of], call[o].floor)
      <4> DEFINE q == call[o].at
                 t == call[o].of
      <4>1. q = call[r].at /\ call[o].gen = call[r].gen /\ q \in Process /\ t \in SurveyId
        BY <2>5, <3>2, <3>3
      <4>2. CASE tallyCache'[q][t] = tallyCache[q][t] /\ tallyGen[q] = call[r].gen
        BY <3>1, <3>3, <4>1, <4>2 DEF CallInv, Entry
      <4>3. CASE tallyCache'[q][t] = got[r] /\ t = call[r].of /\ gen[q] = call[r].gen
        <5>1. Reflects(got[r], settled[t])
          BY <2>1, <2>3, <4>1, <4>3 DEF CallInv
        <5>2. call[o].floor <= settled[t]
          BY <3>1 DEF CallInv
        <5> QED
          BY <2>4, <3>2, <4>3, <5>1, <5>2, ReflectsEarlier
      <4> HIDE DEF q, t
      <4>4. tallyCache'[q][t] # None
        BY <3>3 DEF q, t
      <4> QED
        BY <2>6, <4>1, <4>2, <4>3, <4>4 DEF q, t
    <3> QED
      BY <2>1, <2>2, <3>1, <3>3 DEF CallInv, Entry, Reflects
  <2>10. \A q \in Process : tallyGen'[q] <= gen'[q]
    BY <2>1, <2>4, <2>5
  <2>11. \A q \in Reader : pc'[q] = "idle" => got'[q] = <<>>
    BY <2>1, <2>2 DEF Inv
  <2> QED
    BY <1>0, <2>1, <2>7, <2>8, <2>9, <2>10, <2>11 DEF Inv
<1>7. ASSUME NEW r \in Reader, Return(r) PROVE Inv'
  BY <1>0, <1>7 DEF Return, Inv, EntryInv, CallInv, Reflects, Entry, TypeOK
<1>8. CASE UNCHANGED vars
  BY <1>0, <1>8 DEF vars, Inv, EntryInv, CallInv, Reflects, Entry
<1> QED
  BY <1>1, <1>2, <1>3, <1>4, <1>5, <1>6, <1>7, <1>8
     DEF Next, WriterStep, ReaderStep, Proceed

\* response.go, of Tally, and store.go, of tx: the counters and the cache keep their
\* types, with any number of processes on the data directory.
THEOREM CacheTypes == Spec => []TypeOK
<1>1. Init => TypeOK
  BY DEF Init, TypeOK, Empty
<1> QED
  BY <1>1, TypeStep, PTL DEF Spec

\* response.go, of Tally: "a stale entry is never readable".  In one process, the
\* tally a call returns reflects every write that had returned when it was made.
THEOREM TallyIsFresh ==
  ASSUME \A p, q \in Process : p = q
  PROVE  Spec => []TallyReflectsReturnedWrites
<1>1. Init => Inv
  BY DEF Init, Inv, EntryInv, CallInv, Reflects, Entry, TypeOK, Empty
<1>2. Inv /\ [Next]_vars => Inv'
  BY InvStep
<1>3. Inv => TallyReflectsReturnedWrites
  BY DEF Inv, CallInv, TallyReflectsReturnedWrites
<1> QED
  BY <1>1, <1>2, <1>3, PTL DEF Spec
=============================================================================
