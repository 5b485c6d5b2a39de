----------------------------- MODULE Bootstrap -----------------------------
(***************************************************************************)
(* The first administrator: bootstrapAdmin in cmd/quicksurvey/main.go and  *)
(* the file the initial password is left in (internal/store/store.go),     *)
(* over the store of Accounts.  Counting the accounts, inserting the first *)
(* and writing the file are three steps, and so are setting a password and *)
(* removing the file; servers start beside each other, crash between any   *)
(* two of them and are restarted, and the command line runs at any time.   *)
(***************************************************************************)
EXTENDS Accounts

CONSTANTS
  Process,      \* the servers started on the data directory
  Admin,        \* the name the first administrator is given
  MaxCommands,  \* bound on the salts the command line may draw
  MaxCrashes    \* bound on the crashes

ASSUME BootAssumption ==
  /\ Admin \in Name /\ None \notin Nat
  /\ MaxCommands \in Nat /\ MaxCrashes \in Nat

VARIABLES
  phase,     \* phase[p]: how far the server has got
  minted,    \* minted[p]: the password p has inserted and not yet recorded
  file,      \* the password in the initial-password file, by its hash, or None
  clearing,  \* the calls of SetPassword that have committed and not cleared
  crashes,   \* how many there have been
  lost,      \* history: a server crashed between its insert and its file
  changed,   \* history: somebody has set a password
  removed    \* history: the first administrator has been deleted

boot == <<phase, minted, file, clearing, crashes, lost, changed, removed>>
bootVars == <<vars, boot>>

BootTypeOK ==
  /\ TypeOK
  /\ phase \in [Process -> {"down", "counted", "inserted", "up"}]
  /\ minted \in [Process -> 0..fresh]
  /\ file \in (1..fresh) \cup {None}
  /\ clearing \subseteq 1..fresh
  /\ crashes \in 0..MaxCrashes
  /\ lost \in BOOLEAN
  /\ changed \in BOOLEAN
  /\ removed \in BOOLEAN

BootInit ==
  /\ Init
  /\ phase = [p \in Process |-> "down"]
  /\ minted = [p \in Process |-> 0]
  /\ file = None
  /\ clearing = {}
  /\ crashes = 0
  /\ lost = FALSE
  /\ changed = FALSE
  /\ removed = FALSE

-----------------------------------------------------------------------------
(* A server starts                                                         *)

\* UserCount.
Count(p) ==
  /\ phase[p] = "down"
  /\ phase' = [phase EXCEPT ![p] = IF \E n \in Name : Exists(n) THEN "up" ELSE "counted"]
  /\ UNCHANGED <<vars, minted, file, clearing, crashes, lost, changed, removed>>

\* Mutant: a server that loses the race tries the insert again.
InsertAgain(p) ==
  /\ phase[p] = "counted"
  /\ ~ Exists(Admin)
  /\ AddUser(Admin, "admin", TRUE)
  /\ phase' = [phase EXCEPT ![p] = "inserted"]
  /\ minted' = [minted EXCEPT ![p] = fresh + 1]
  /\ UNCHANGED <<file, clearing, crashes, lost, changed, removed>>

\* Mutant: the server that loses the race takes its password for the one inserted.
InsertOrAssume(p) ==
  /\ phase[p] = "counted"
  /\ \/ AddUser(Admin, "admin", TRUE)
     \/ Exists(Admin) /\ Draw /\ UNCHANGED <<users, invites, resets>>
  /\ phase' = [phase EXCEPT ![p] = "inserted"]
  /\ minted' = [minted EXCEPT ![p] = fresh + 1]
  /\ UNCHANGED <<file, clearing, crashes, lost, changed, removed>>

\* The INSERT of AddUserMustChange.  Its error is serve's, and ends the server.
Insert(p) ==
  /\ phase[p] = "counted"
  /\ \/ /\ AddUser(Admin, "admin", TRUE)
        /\ phase' = [phase EXCEPT ![p] = "inserted"]
        /\ minted' = [minted EXCEPT ![p] = fresh + 1]
     \/ /\ Exists(Admin)
        /\ phase' = [phase EXCEPT ![p] = "down"]
        /\ UNCHANGED <<vars, minted>>
  /\ UNCHANGED <<file, clearing, crashes, lost, changed, removed>>

\* Mutant: the file is created and nothing is written to it.
WriteEmpty(p) ==
  /\ phase[p] = "inserted"
  /\ file' = 0
  /\ phase' = [phase EXCEPT ![p] = "up"]
  /\ UNCHANGED <<vars, minted, clearing, crashes, lost, changed, removed>>

\* Mutant: a failure to write the file is logged, and the server goes on.
WriteOrGoOn(p) ==
  /\ phase[p] = "inserted"
  /\ file' \in {file, minted[p]}
  /\ phase' = [phase EXCEPT ![p] = "up"]
  /\ UNCHANGED <<vars, minted, clearing, crashes, lost, changed, removed>>

\* writeInitialPassword replaces the file in one step.  Its error is serve's too,
\* which for the file is as good as a crash before it.
WriteInitialPassword(p) ==
  /\ phase[p] = "inserted"
  /\ file' = minted[p]
  /\ phase' = [phase EXCEPT ![p] = "up"]
  /\ UNCHANGED <<vars, minted, clearing, crashes, lost, changed, removed>>

Crash(p) ==
  /\ crashes < MaxCrashes
  /\ phase[p] # "down"
  /\ crashes' = crashes + 1
  /\ lost' = (lost \/ phase[p] = "inserted")
  /\ phase' = [phase EXCEPT ![p] = "down"]
  /\ UNCHANGED <<vars, minted, file, clearing, changed, removed>>

-----------------------------------------------------------------------------
(* Somebody sets a password, adds an account or removes one                *)

ChangeAnyPassword(n) ==
  /\ fresh < MaxCommands
  /\ SetPassword(n)
  /\ clearing' = clearing \cup {fresh + 1}
  /\ changed' = TRUE
  /\ UNCHANGED <<phase, minted, file, crashes, lost, removed>>

\* clearInitialPassword, which may fail and says so in the log.
ClearInitialPassword(call) ==
  /\ clearing' = clearing \ {call}
  /\ file' \in {None, file}
  /\ UNCHANGED <<vars, phase, minted, crashes, lost, changed, removed>>

Command(n) ==
  /\ \/ /\ fresh < MaxCommands
        /\ \E role \in Role : AddUser(n, role, FALSE)
        /\ UNCHANGED removed
     \/ DeleteUser(n) /\ removed' = (removed \/ n = Admin)
  /\ UNCHANGED <<phase, minted, file, clearing, crashes, lost, changed>>

-----------------------------------------------------------------------------
StartStep(p) == Count(p) \/ Insert(p) \/ WriteInitialPassword(p)

BootNext ==
  \/ \E p \in Process : StartStep(p) \/ Crash(p)
  \/ \E n \in Name : ChangeAnyPassword(n) \/ Command(n)
  \/ \E call \in clearing : ClearInitialPassword(call)

BootSpec == BootInit /\ [][BootNext]_bootVars

\* A server that has ended is started again, and one that starts goes on.
FairBootSpec == BootSpec /\ \A p \in Process : WF_bootVars(StartStep(p))

-----------------------------------------------------------------------------
(* Properties                                                              *)

\* main.go, of bootstrapAdmin: a deployment becomes usable "without a manual
\* step".  However the servers race to insert the first administrator, and
\* whichever of them crash, every one comes up.
EveryServerComesUp == <>[](\A p \in Process : phase[p] = "up")

\* store.go, of the error InitialPassword returns: no file means that the
\* "password has been changed" and the instance "has already been set up".
\* However servers race, crash and are restarted, and accounts come and go, that
\* is so unless a server crashed between its insert and its file, after which
\* nobody knows the password, or somebody changed the password of another
\* account, which removes the file too.
NoFileMeansSetUp ==
  (file = None /\ ~lost /\ ~changed /\ \A p \in Process : phase[p] = "up")
    => ~ \E n \in Name : Exists(n) /\ users[n].mustChange

\* store.go, of InitialPassword, "the bootstrap password if it has not yet been
\* used", and of clearInitialPassword, "once it is no longer the way in": the
\* password on file is the first administrator's, whichever servers raced to be
\* the one that wrote it and whichever of them crashed, until that account is
\* deleted, which leaves the file, or somebody sets a password.
FileIsTheWayIn ==
  (file # None /\ ~changed /\ ~removed) => Exists(Admin) /\ users[Admin].hash = file
=============================================================================
