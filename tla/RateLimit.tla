----------------------------- MODULE RateLimit -----------------------------
(***************************************************************************)
(* The token buckets of internal/web/ratelimit.go, one per client, in a    *)
(* map that is swept and has a ceiling, as the two limiters use them: the  *)
(* voter limiter charges for every identity (voterToken), the login        *)
(* limiter checks before a sign-in and charges after it, and only if it    *)
(* failed (limitLogin, handleLogin).  A bucket refills on its own; a tick  *)
(* of the clock is the time one token takes.                               *)
(***************************************************************************)
EXTENDS Naturals, FiniteSets

CONSTANTS
  Client,      \* client keys
  Newcomer,    \* a client that never gives up
  None,        \* no bucket
  Burst,       \* tokens of a full bucket
  Ttl,         \* ticks after which an idle bucket may be swept
  SweepEvery,  \* ticks between sweeps
  Ceiling,     \* limiterMax
  MaxCalls     \* bound on what each of the other clients asks for

\* An idle bucket is full again before it may be swept: limiterTTL is fifteen
\* minutes, and a bucket fills up in one.
ASSUME LimiterAssumption ==
  /\ Newcomer \in Client
  /\ Burst \in Nat \ {0} /\ Ttl \in Nat /\ SweepEvery \in Nat /\ Ceiling \in Nat \ {0}
  /\ Burst <= Ttl /\ MaxCalls \in Nat

VARIABLES
  buckets,   \* limiter.buckets; idle is the time since bucket.seen
  swept,     \* the time since limiter.swept
  checked,   \* the clients whose sign-in has passed the check and is not over
  calls,     \* calls[c]: what c has asked for
  served     \* history: the clients that have got through

vars == <<buckets, swept, checked, calls, served>>

Bucket == [tokens : 0..Burst, idle : 0..(Ttl + 1)]

ASSUME ClientAssumption == IsFiniteSet(Client) /\ None \notin Bucket

TypeOK ==
  /\ buckets \in [Client -> Bucket \cup {None}]
  /\ swept \in 0..(SweepEvery + 1)
  /\ checked \subseteq Client
  /\ calls \in [Client -> 0..MaxCalls]
  /\ served \subseteq Client

Held(bs) == {c \in Client : bs[c] # None}

\* Mutant: a bucket is dated by its first event only.
TouchFirst(b) == b

\* seen = now
Touch(b) == [b EXCEPT !.idle = 0]

\* The map as allow finds it once it has swept, if it is time to.
SweepDue == swept > SweepEvery

AfterSweep ==
  [c \in Client |-> IF SweepDue /\ buckets[c] # None /\ buckets[c].idle > Ttl
                    THEN None ELSE buckets[c]]

\* allow goes on to charge c: it has a bucket, or there is room for one.
Admits(c) == AfterSweep[c] # None \/ Cardinality(Held(AfterSweep)) < Ceiling

\* The bucket allow charges.
Charged(c) == IF AfterSweep[c] # None THEN AfterSweep[c] ELSE [tokens |-> Burst, idle |-> 0]

\* Mutant: a bucket is charged whatever is in it.
PayAlways(b) == [b EXCEPT !.tokens = b.tokens - 1]

\* rate.Limiter.Allow takes a token if there is one.
Pay(b) == [b EXCEPT !.tokens = IF @ > 0 THEN @ - 1 ELSE @]

\* Mutant: every call counts as a sweep, whether or not it swept.
AllowStamping(c) ==
  /\ swept' = 0
  /\ buckets' = IF Admits(c) THEN [AfterSweep EXCEPT ![c] = Touch(Pay(Charged(c)))] ELSE AfterSweep

\* Everything allow does to the limiter.
Allow(c) ==
  /\ swept' = IF SweepDue THEN 0 ELSE swept
  /\ buckets' = IF Admits(c) THEN [AfterSweep EXCEPT ![c] = Touch(Pay(Charged(c)))] ELSE AfterSweep

\* A client other than the newcomer asks for so much and goes away.
Asks(c) ==
  IF c = Newcomer THEN UNCHANGED calls
  ELSE calls[c] < MaxCalls /\ calls' = [calls EXCEPT ![c] = @ + 1]

Init ==
  /\ buckets = [c \in Client |-> None]
  /\ swept = 0
  /\ checked = {}
  /\ calls = [c \in Client |-> 0]
  /\ served = {}

\* Time passes: every bucket gains a token and a tick of age.
Tick ==
  /\ buckets' = [c \in Client |->
       IF buckets[c] = None THEN None
       ELSE [tokens |-> IF buckets[c].tokens < Burst THEN buckets[c].tokens + 1 ELSE Burst,
             idle |-> IF buckets[c].idle <= Ttl THEN buckets[c].idle + 1 ELSE buckets[c].idle]]
  /\ swept' = IF swept <= SweepEvery THEN swept + 1 ELSE swept
  /\ UNCHANGED <<checked, calls, served>>

-----------------------------------------------------------------------------
(* The voter limiter                                                       *)

\* voterToken issues an identity, or a refusal.
MintIdentity(c) ==
  /\ Asks(c)
  /\ Allow(c)
  /\ served' = IF Admits(c) /\ Charged(c).tokens > 0 THEN served \cup {c} ELSE served
  /\ UNCHANGED checked

VoterNext == Tick \/ \E c \in Client : MintIdentity(c)

VoterSpec == Init /\ [][VoterNext]_vars

\* Time goes on, and the newcomer keeps trying.
FairVoterSpec == VoterSpec /\ WF_vars(Tick) /\ WF_vars(MintIdentity(Newcomer))

-----------------------------------------------------------------------------
(* The login limiter                                                       *)

\* limitLogin, with limiter.ok: it sweeps nothing and charges nothing.
StartSignIn(c) ==
  /\ c \notin checked
  /\ Asks(c)
  /\ \/ /\ buckets[c] = None
        /\ IF Cardinality(Held(buckets)) < Ceiling THEN checked' = checked \cup {c}
           ELSE UNCHANGED checked
        /\ UNCHANGED buckets
     \/ /\ buckets[c] # None
        /\ buckets' = [buckets EXCEPT ![c] = Touch(@)]
        /\ IF buckets[c].tokens >= 1 THEN checked' = checked \cup {c} ELSE UNCHANGED checked
  /\ UNCHANGED <<swept, served>>

\* handleLogin: a failure is billed.  The map may have filled up meanwhile.
FailSignIn(c) ==
  /\ c \in checked
  /\ checked' = checked \ {c}
  /\ Allow(c)
  /\ UNCHANGED <<calls, served>>

SignIn(c) ==
  /\ c \in checked
  /\ checked' = checked \ {c}
  /\ served' = served \cup {c}
  /\ UNCHANGED <<buckets, swept, calls>>

\* The newcomer knows its password.
LoginNext ==
  \/ Tick
  \/ \E c \in Client : StartSignIn(c) \/ SignIn(c)
  \/ \E c \in Client \ {Newcomer} : FailSignIn(c)

LoginSpec == Init /\ [][LoginNext]_vars

\* Time goes on, sign-ins come to an end and the newcomer keeps trying.
FairLoginSpec ==
  /\ LoginSpec
  /\ WF_vars(Tick)
  /\ \A c \in Client : WF_vars(SignIn(c) \/ (c # Newcomer /\ FailSignIn(c)))
  /\ WF_vars(StartSignIn(Newcomer))

-----------------------------------------------------------------------------
(* Properties                                                              *)

\* ratelimit.go, of type limiter: sweeping a bucket and admitting its client
\* afresh grants it nothing, because what may be swept is full again; and the
\* map never outgrows its ceiling, on whichever path a bucket is made.
SweepingForgivesNothing ==
  /\ Cardinality(Held(buckets)) <= Ceiling
  /\ \A c \in Held(buckets) : buckets[c].idle > Ttl => buckets[c].tokens = Burst

\* ratelimit.go, of allow: "a client turned away here retries after the next
\* sweep".  Once the clients that filled the map have gone, one that keeps trying
\* gets through.
NewcomerGetsThrough == <>(Newcomer \in served)
=============================================================================
