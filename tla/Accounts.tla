------------------------------ MODULE Accounts ------------------------------
(***************************************************************************)
(* Accounts, invitation links and reset links: users.go, invite.go and     *)
(* reset.go of internal/store.  Every operation is one transaction or one  *)
(* statement, so it is one action; an operation that returns an error      *)
(* leaves no trace and is no step.  Who may call what is the web's         *)
(* business (Sessions) and the command line's: here any caller may call    *)
(* anything at any time.                                                   *)
(***************************************************************************)
EXTENDS Naturals

CONSTANTS
  Name,       \* usernames
  Role,       \* roles in use
  InviteId,
  ResetId,
  None,       \* no such account, invite or reset; not claimed
  MaxFresh    \* bound on the salts and instants ever drawn

ASSUME RoleAssumption == "admin" \in Role /\ Role \subseteq {"viewer", "editor", "admin"}
ASSUME FreshAssumption == MaxFresh \in Nat

VARIABLES
  users,      \* users[n]: the row of n, or None
  invites,    \* invites[i]: the row of i, or None
  resets,     \* resets[r]: the row of r, or None
  fresh       \* the last salt or instant drawn; no two are equal

vars == <<users, invites, resets, fresh>>

\* A hash is known by its salt.  since is history: the hash the account was
\* created with, which tells it from another account of the same name.
User == [role : Role, pending : BOOLEAN, mustChange : BOOLEAN,
         hash : Nat, sessionsFrom : Nat, since : Nat]

\* made is history: the accounts the link created, by their since.
Invite == [role : Role, claimedBy : Name \cup {None}, revoked : BOOLEAN,
           expired : BOOLEAN, made : SUBSET Nat]

\* account and hash are history: the account the link was minted for, by its
\* since, and that account's hash at the time.
Reset == [user : Name, used : BOOLEAN, expired : BOOLEAN, account : Nat, hash : Nat]

ASSUME NoneAssumption == None \notin Name \cup User \cup Invite \cup Reset

TypeOK ==
  /\ users \in [Name -> User \cup {None}]
  /\ invites \in [InviteId -> Invite \cup {None}]
  /\ resets \in [ResetId -> Reset \cup {None}]
  /\ fresh \in Nat

Exists(n) == users[n] # None

ApprovedAdmins == {n \in Name : Exists(n) /\ users[n].role = "admin" /\ ~ users[n].pending}

\* Mutant: an account awaiting approval counts as an administrator too.
LosesTheLastAdminUnlessPendingOne(n) ==
  /\ n \in ApprovedAdmins
  /\ \A m \in Name \ {n} : Exists(m) => users[m].role # "admin"

\* What SetRole and DeleteUser refuse to do to an approved administrator.
LosesTheLastAdmin(n) == ApprovedAdmins = {n}

\* Invite.Open and Reset.Open.
InviteOpen(i) == /\ invites[i] # None
                 /\ ~ invites[i].revoked /\ invites[i].claimedBy = None /\ ~ invites[i].expired

ResetOpen(r) == resets[r] # None /\ ~ resets[r].used /\ ~ resets[r].expired

Init ==
  /\ users = [n \in Name |-> None]
  /\ invites = [i \in InviteId |-> None]
  /\ resets = [r \in ResetId |-> None]
  /\ fresh = 0

-----------------------------------------------------------------------------
(* users.go                                                                *)

Draw == fresh < MaxFresh /\ fresh' = fresh + 1

NewUser(role, pending, mustChange) ==
  [role |-> role, pending |-> pending, mustChange |-> mustChange,
   hash |-> fresh + 1, sessionsFrom |-> 0, since |-> fresh + 1]

AddUser(n, role, mustChange) ==
  /\ ~ Exists(n)
  /\ Draw
  /\ users' = [users EXCEPT ![n] = NewUser(role, FALSE, mustChange)]
  /\ UNCHANGED <<invites, resets>>

\* UPDATE resets SET used WHERE user_name = n AND used IS NULL
Retired(n) ==
  [r \in ResetId |-> IF resets[r] # None /\ resets[r].user = n
                     THEN [resets[r] EXCEPT !.used = TRUE] ELSE resets[r]]

\* Mutant: links that are outstanding survive a change of password.
SetPasswordOnly(n) ==
  /\ Exists(n)
  /\ Draw
  /\ users' = [users EXCEPT ![n] = [@ EXCEPT !.hash = fresh + 1, !.mustChange = FALSE]]
  /\ UNCHANGED <<invites, resets>>

SetPassword(n) ==
  /\ Exists(n)
  /\ Draw
  /\ users' = [users EXCEPT ![n] = [@ EXCEPT !.hash = fresh + 1, !.mustChange = FALSE]]
  /\ resets' = Retired(n)
  /\ UNCHANGED invites

RevokeSessions(n) ==
  /\ Exists(n)
  /\ Draw
  /\ users' = [users EXCEPT ![n] = [@ EXCEPT !.sessionsFrom = fresh + 1]]
  /\ UNCHANGED <<invites, resets>>

\* Mutant: whatever the role field holds is stored.
SetRoleUnvalidated(n, role) ==
  /\ Exists(n)
  /\ role # "admin" => ~ LosesTheLastAdmin(n)
  /\ users' = [users EXCEPT ![n] = [@ EXCEPT !.role = IF role = "admin" THEN role ELSE "owner"]]
  /\ UNCHANGED <<invites, resets, fresh>>

SetRole(n, role) ==
  /\ Exists(n)
  /\ role # "admin" => ~ LosesTheLastAdmin(n)
  /\ users' = [users EXCEPT ![n] = [@ EXCEPT !.role = role]]
  /\ UNCHANGED <<invites, resets, fresh>>

\* The links minted for the account stay.
DeleteUser(n) ==
  /\ Exists(n)
  /\ ~ LosesTheLastAdmin(n)
  /\ users' = [users EXCEPT ![n] = None]
  /\ UNCHANGED <<invites, resets, fresh>>

ApproveUser(n, role) ==
  /\ Exists(n)
  /\ users[n].pending
  /\ users' = [users EXCEPT ![n] = [@ EXCEPT !.pending = FALSE, !.role = role]]
  /\ UNCHANGED <<invites, resets, fresh>>

-----------------------------------------------------------------------------
(* invite.go                                                               *)

CreateInvite(i, role) ==
  /\ invites[i] = None
  /\ invites' = [invites EXCEPT ![i] = [role |-> role, claimedBy |-> None, revoked |-> FALSE,
                                        expired |-> FALSE, made |-> {}]]
  /\ UNCHANGED <<users, resets, fresh>>

\* Mutant: a link that has been claimed can be revoked as well.
RevokeAnyInvite(i) ==
  /\ invites[i] # None
  /\ invites' = [invites EXCEPT ![i] = [@ EXCEPT !.revoked = TRUE]]
  /\ UNCHANGED <<users, resets, fresh>>

RevokeInvite(i) ==
  /\ invites[i] # None
  /\ invites[i].claimedBy = None
  /\ invites' = [invites EXCEPT ![i] = [@ EXCEPT !.revoked = TRUE]]
  /\ UNCHANGED <<users, resets, fresh>>

ClaimInvite(i, n) ==
  /\ InviteOpen(i)
  /\ ~ Exists(n)
  /\ Draw
  /\ users' = [users EXCEPT ![n] = NewUser(invites[i].role, TRUE, FALSE)]
  /\ invites' = [invites EXCEPT ![i] =
       [@ EXCEPT !.claimedBy = n, !.made = invites[i].made \cup {fresh + 1}]]
  /\ UNCHANGED resets

-----------------------------------------------------------------------------
(* reset.go                                                                *)

NewReset(n) == [user |-> n, used |-> FALSE, expired |-> FALSE,
                account |-> users[n].since, hash |-> users[n].hash]

CreateReset(r, n) ==
  /\ resets[r] = None
  /\ Exists(n)
  /\ resets' = [Retired(n) EXCEPT ![r] = NewReset(n)]
  /\ UNCHANGED <<users, invites, fresh>>

UseReset(r) ==
  /\ ResetOpen(r)
  /\ Exists(resets[r].user)
  /\ Draw
  /\ users' = [users EXCEPT ![resets[r].user] =
       [@ EXCEPT !.hash = fresh + 1, !.mustChange = FALSE, !.sessionsFrom = fresh + 1]]
  /\ resets' = [resets EXCEPT ![r] = [@ EXCEPT !.used = TRUE]]
  /\ UNCHANGED invites

-----------------------------------------------------------------------------
\* Time passes: an instant of expiry is reached.
InviteExpires(i) ==
  /\ invites[i] # None
  /\ invites' = [invites EXCEPT ![i] = [@ EXCEPT !.expired = TRUE]]
  /\ UNCHANGED <<users, resets, fresh>>

ResetExpires(r) ==
  /\ resets[r] # None
  /\ resets' = [resets EXCEPT ![r] = [@ EXCEPT !.expired = TRUE]]
  /\ UNCHANGED <<users, invites, fresh>>

UserStep(n) ==
  \/ \E role \in Role, mustChange \in BOOLEAN : AddUser(n, role, mustChange)
  \/ SetPassword(n)
  \/ RevokeSessions(n)
  \/ \E role \in Role : SetRole(n, role)
  \/ DeleteUser(n)
  \/ \E role \in Role : ApproveUser(n, role)

InviteStep(i) ==
  \/ \E role \in Role : CreateInvite(i, role)
  \/ RevokeInvite(i)
  \/ \E n \in Name : ClaimInvite(i, n)
  \/ InviteExpires(i)

ResetStep(r) ==
  \/ \E n \in Name : CreateReset(r, n)
  \/ UseReset(r)
  \/ ResetExpires(r)

Next ==
  \/ \E n \in Name : UserStep(n)
  \/ \E i \in InviteId : InviteStep(i)
  \/ \E r \in ResetId : ResetStep(r)

Spec == Init /\ [][Next]_vars

-----------------------------------------------------------------------------
(* Properties                                                              *)

\* users.go, of SetRole and DeleteUser: once somebody can administer the
\* instance, somebody always can, through any sequence of demotions, deletions,
\* approvals and re-creations.
StaysAdministered == [][ApprovedAdmins # {} => ApprovedAdmins' # {}]_vars

\* invite.go, of ClaimInvite, "genuinely single-use": a link creates one account
\* at most, a revoked link creates none, and the two outcomes exclude each other.
InvitesAreSpentOnce ==
  \A i \in InviteId : invites[i] # None =>
    /\ \A a, b \in invites[i].made : a = b
    /\ invites[i].revoked => invites[i].made = {}

\* reset.go, of CreateReset, "rather than leaving two ways in", and users.go, of
\* SetPassword, "a credential that outlives its reason for existing": there is
\* one link at most that is not spent for a name, and none for an account whose
\* password has been set since the link was minted, by whatever route.
UnspentLinksAreCurrent ==
  \A r \in ResetId : (resets[r] # None /\ ~ resets[r].used) =>
    LET n == resets[r].user IN
    /\ \A q \in ResetId \ {r} : (resets[q] # None /\ resets[q].user = n) => resets[q].used
    /\ (Exists(n) /\ users[n].since = resets[r].account) => users[n].hash = resets[r].hash
=============================================================================
