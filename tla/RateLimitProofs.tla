-------------------------- MODULE RateLimitProofs --------------------------
(* RateLimit, proved for any clients and any constants that let a bucket    *)
(* refill before it may be swept, on both of the paths that use a limiter.  *)
EXTENDS RateLimit, FiniteSetTheorems, TLAPS

\* A bucket has earned a token for every tick since it was last touched, unless
\* it is full.  This is what says that the age of a bucket vouches for its
\* tokens, and so that an old one can go.
Earned(b) == b.tokens = Burst \/ b.tokens >= b.idle

\* The inductive invariant.
Inv ==
  /\ buckets \in [Client -> Bucket \cup {None}]
  /\ Cardinality(Held(buckets)) <= Ceiling
  /\ \A c \in Held(buckets) : Earned(buckets[c])

USE LimiterAssumption, ClientAssumption

\* Emptying places of a map makes it no bigger, and giving one client a bucket
\* makes it bigger by one at most.
LEMMA HeldCount ==
  ASSUME NEW bs \in [Client -> Bucket \cup {None}], NEW cs \in [Client -> Bucket \cup {None}]
  PROVE  /\ Cardinality(Held(bs)) \in Nat
         /\ Held(cs) \subseteq Held(bs) => Cardinality(Held(cs)) <= Cardinality(Held(bs))
         /\ \A c \in Client : Held(cs) \subseteq Held(bs) \cup {c}
              => Cardinality(Held(cs)) <= Cardinality(Held(bs)) + 1
<1>1. IsFiniteSet(Held(bs)) /\ Cardinality(Held(bs)) \in Nat
  <2>1. Held(bs) \in SUBSET Client
    BY DEF Held
  <2> QED
    BY <2>1, FS_Subset, FS_CardinalityType
<1>2. ASSUME Held(cs) \subseteq Held(bs)
      PROVE  Cardinality(Held(cs)) <= Cardinality(Held(bs))
  BY <1>1, <1>2, FS_Subset
<1>3. ASSUME NEW c \in Client, Held(cs) \subseteq Held(bs) \cup {c}
      PROVE  Cardinality(Held(cs)) <= Cardinality(Held(bs)) + 1
  <2>1. /\ IsFiniteSet(Held(bs) \cup {c})
        /\ Cardinality(Held(bs) \cup {c}) \in Nat
        /\ Cardinality(Held(bs) \cup {c}) <= Cardinality(Held(bs)) + 1
    BY <1>1, FS_AddElement, FS_CardinalityType
  <2>2. Cardinality(Held(cs)) \in Nat /\ Cardinality(Held(cs)) <= Cardinality(Held(bs) \cup {c})
    BY <2>1, <1>3, FS_Subset, FS_CardinalityType
  <2> QED
    BY <1>1, <2>1, <2>2
<1> QED
  BY <1>1, <1>2, <1>3

\* What a sweep leaves is what there was, without some of it.
LEMMA SweepKeeps ==
  ASSUME Inv
  PROVE  /\ AfterSweep \in [Client -> Bucket \cup {None}]
         /\ \A c \in Client : AfterSweep[c] # None => AfterSweep[c] = buckets[c]
         /\ Cardinality(Held(AfterSweep)) \in Nat
         /\ Cardinality(Held(AfterSweep)) <= Ceiling
<1>1. /\ AfterSweep \in [Client -> Bucket \cup {None}]
      /\ \A c \in Client : AfterSweep[c] # None => AfterSweep[c] = buckets[c]
  BY DEF Inv, AfterSweep
<1>2. Held(AfterSweep) \subseteq Held(buckets)
  BY <1>1 DEF Held
<1>3. Cardinality(Held(AfterSweep)) <= Cardinality(Held(buckets))
  BY <1>1, <1>2, HeldCount DEF Inv
<1>4. Cardinality(Held(AfterSweep)) \in Nat /\ Cardinality(Held(buckets)) \in Nat
  BY <1>1, HeldCount DEF Inv
<1> QED
  BY <1>1, <1>3, <1>4 DEF Inv

\* A charged bucket is dated now, and so has earned enough.
LEMMA ChargedEarned ==
  ASSUME Inv, NEW c \in Client
  PROVE  /\ Touch(Pay(Charged(c))) \in Bucket
         /\ Earned(Touch(Pay(Charged(c))))
<1>1. Charged(c) \in Bucket
  BY SweepKeeps DEF Charged, Bucket
<1>2. Pay(Charged(c)) \in Bucket
  BY <1>1 DEF Pay, Bucket
<1> QED
  BY <1>2 DEF Touch, Earned, Bucket

\* allow preserves the invariant: it makes a bucket only when there is room.
LEMMA AllowKeeps ==
  ASSUME Inv, NEW c \in Client, Allow(c)
  PROVE  Inv'
<1> DEFINE after == [AfterSweep EXCEPT ![c] = Touch(Pay(Charged(c)))]
<1>1. CASE ~ Admits(c)
  <2>1. buckets' = AfterSweep
    BY <1>1 DEF Allow
  <2> QED
    BY <2>1, SweepKeeps DEF Inv, Held
<1>2. CASE Admits(c)
  <2>1. buckets' = after
    BY <1>2 DEF Allow
  <2>2. after \in [Client -> Bucket \cup {None}]
    BY SweepKeeps, ChargedEarned
  <2>3. \A d \in Held(after) : Earned(after[d])
    BY SweepKeeps, ChargedEarned DEF Inv, Held
  <2>4. Cardinality(Held(after)) <= Ceiling
    <3>1. CASE AfterSweep[c] # None
      <4>1. Held(after) \subseteq Held(AfterSweep)
        BY <3>1, SweepKeeps DEF Held
      <4>2. Cardinality(Held(after)) <= Cardinality(Held(AfterSweep))
        BY <4>1, <2>2, SweepKeeps, HeldCount
      <4> HIDE DEF after
      <4>3. Cardinality(Held(after)) \in Nat
        BY <2>2, HeldCount
      <4> QED
        BY <4>2, <4>3, SweepKeeps
    <3>2. CASE Cardinality(Held(AfterSweep)) < Ceiling
      <4>1. Held(after) \subseteq Held(AfterSweep) \cup {c}
        BY SweepKeeps DEF Held
      <4>2. Cardinality(Held(after)) <= Cardinality(Held(AfterSweep)) + 1
        BY <4>1, <2>2, SweepKeeps, HeldCount
      <4> HIDE DEF after
      <4>3. Cardinality(Held(after)) \in Nat
        BY <2>2, HeldCount
      <4> QED
        BY <3>2, <4>2, <4>3, SweepKeeps
    <3> QED
      BY <1>2, <3>1, <3>2 DEF Admits
  <2> QED
    BY <2>1, <2>2, <2>3, <2>4 DEF Inv
<1> QED
  BY <1>1, <1>2

\* Age and tokens grow together.
LEMMA TickKeeps == Inv /\ Tick => Inv'
<1> SUFFICES ASSUME Inv, Tick PROVE Inv'
  OBVIOUS
<1>1. buckets' \in [Client -> Bucket \cup {None}]
  BY DEF Inv, Tick, Bucket
<1>2. Held(buckets') = Held(buckets)
  BY DEF Inv, Tick, Held, Bucket
<1>3. ASSUME NEW c \in Held(buckets') PROVE Earned(buckets'[c])
  <2>1. c \in Client /\ buckets[c] \in Bucket /\ Earned(buckets[c])
    BY <1>2, <1>3 DEF Inv, Held
  <2> QED
    BY <2>1 DEF Tick, Earned, Bucket
<1> QED
  BY <1>1, <1>2, <1>3 DEF Inv

\* limitLogin dates a bucket and takes nothing from it.
LEMMA StartSignInKeeps ==
  ASSUME Inv, NEW c \in Client, StartSignIn(c)
  PROVE  Inv'
<1>1. CASE UNCHANGED buckets
  BY <1>1 DEF Inv, Held
<1>2. CASE buckets[c] # None /\ buckets' = [buckets EXCEPT ![c] = Touch(@)]
  <2>1. buckets[c] \in Bucket
    BY <1>2 DEF Inv
  <2>2. Touch(buckets[c]) \in Bucket /\ Earned(Touch(buckets[c]))
    BY <2>1 DEF Touch, Earned, Bucket
  <2>3. buckets' \in [Client -> Bucket \cup {None}]
    BY <1>2, <2>2 DEF Inv
  <2>4. Held(buckets') = Held(buckets)
    BY <1>2, <2>2 DEF Inv, Held
  <2>5. \A d \in Held(buckets') : Earned(buckets'[d])
    BY <1>2, <2>2, <2>4 DEF Inv, Held
  <2> QED
    BY <2>3, <2>4, <2>5 DEF Inv
<1> QED
  BY <1>1, <1>2 DEF StartSignIn

\* An empty map.
LEMMA InitInv == Init => Inv
<1> SUFFICES ASSUME Init PROVE Inv
  OBVIOUS
<1>1. buckets \in [Client -> Bucket \cup {None}] /\ Held(buckets) = {}
  BY DEF Init, Held
<1>2. Cardinality(Held(buckets)) = 0
  BY <1>1, FS_EmptySet
<1> QED
  BY <1>1, <1>2 DEF Inv

\* Whatever is old enough to be swept is full.
LEMMA InvForgivesNothing == Inv => SweepingForgivesNothing
<1> SUFFICES ASSUME Inv, NEW c \in Held(buckets), buckets[c].idle > Ttl
             PROVE  buckets[c].tokens = Burst
  BY DEF Inv, SweepingForgivesNothing
<1>1. buckets[c] \in Bucket /\ Earned(buckets[c])
  BY DEF Inv, Held
<1> QED
  BY <1>1 DEF Earned, Bucket

LEMMA VoterStep == Inv /\ [VoterNext]_vars => Inv'
<1> SUFFICES ASSUME Inv, [VoterNext]_vars PROVE Inv'
  OBVIOUS
<1>1. CASE Tick
  BY <1>1, TickKeeps
<1>2. ASSUME NEW c \in Client, MintIdentity(c) PROVE Inv'
  BY <1>2, AllowKeeps DEF MintIdentity
<1>3. CASE UNCHANGED vars
  BY <1>3 DEF vars, Inv, Held
<1> QED
  BY <1>1, <1>2, <1>3 DEF VoterNext

\* A sweep of the voter limiter grants no client anything and its map keeps its
\* ceiling, at any rate of identities.
THEOREM VoterSweepIsFree == VoterSpec => []SweepingForgivesNothing
BY VoterStep, InitInv, InvForgivesNothing, PTL DEF VoterSpec

\* The same of the login limiter, which dates buckets without charging them and
\* charges for sign-ins that began at any time, with any number in flight.
THEOREM LoginSweepIsFree == LoginSpec => []SweepingForgivesNothing
<1>1. Inv /\ [LoginNext]_vars => Inv'
  <2> SUFFICES ASSUME Inv, [LoginNext]_vars PROVE Inv'
    OBVIOUS
  <2>1. CASE Tick
    BY <2>1, TickKeeps
  <2>2. ASSUME NEW c \in Client, StartSignIn(c) PROVE Inv'
    BY <2>2, StartSignInKeeps
  <2>3. ASSUME NEW c \in Client, SignIn(c) PROVE Inv'
    BY <2>3 DEF SignIn, Inv, Held
  <2>4. ASSUME NEW c \in Client, FailSignIn(c) PROVE Inv'
    BY <2>4, AllowKeeps DEF FailSignIn
  <2>5. CASE UNCHANGED vars
    BY <2>5 DEF vars, Inv, Held
  <2> QED
    BY <2>1, <2>2, <2>3, <2>4, <2>5 DEF LoginNext
<1> QED
  BY <1>1, InitInv, InvForgivesNothing, PTL DEF LoginSpec

-----------------------------------------------------------------------------
(* The clock, the sign-ins in flight and what is asked for                  *)

CountsOK ==
  /\ swept \in 0..(SweepEvery + 1)
  /\ checked \subseteq Client
  /\ calls \in [Client -> 0..MaxCalls]
  /\ served \subseteq Client

LEMMA TickCounts == CountsOK /\ Tick => CountsOK'
BY DEF CountsOK, Tick

LEMMA AllowCounts ==
  ASSUME CountsOK, NEW c \in Client, Allow(c)
  PROVE  swept' \in 0..(SweepEvery + 1)
BY DEF CountsOK, Allow

LEMMA AsksCounts ==
  ASSUME CountsOK, NEW c \in Client, Asks(c)
  PROVE  calls' \in [Client -> 0..MaxCalls]
<1>1. CASE c = Newcomer
  BY <1>1 DEF CountsOK, Asks
<1>2. CASE c # Newcomer
  BY <1>2 DEF CountsOK, Asks
<1> QED
  BY <1>1, <1>2

LEMMA VoterCounts == CountsOK /\ [VoterNext]_vars => CountsOK'
<1> SUFFICES ASSUME CountsOK, [VoterNext]_vars PROVE CountsOK'
  OBVIOUS
<1>1. CASE Tick
  BY <1>1, TickCounts
<1>2. ASSUME NEW c \in Client, MintIdentity(c) PROVE CountsOK'
  <2>1. swept' \in 0..(SweepEvery + 1) /\ calls' \in [Client -> 0..MaxCalls]
    BY <1>2, AllowCounts, AsksCounts DEF MintIdentity
  <2> QED
    BY <1>2, <2>1 DEF CountsOK, MintIdentity
<1>3. CASE UNCHANGED vars
  BY <1>3 DEF vars, CountsOK
<1> QED
  BY <1>1, <1>2, <1>3 DEF VoterNext

\* The buckets, the clock and the clients of the voter limiter keep their types.
THEOREM VoterTypes == VoterSpec => []TypeOK
<1>1. Init => Inv /\ CountsOK
  BY InitInv DEF Init, CountsOK
<1>2. (Inv /\ CountsOK) /\ [VoterNext]_vars => (Inv /\ CountsOK)'
  BY VoterStep, VoterCounts
<1>3. Inv /\ CountsOK => TypeOK
  BY DEF Inv, CountsOK, TypeOK
<1> QED
  BY <1>1, <1>2, <1>3, PTL DEF VoterSpec
=============================================================================
