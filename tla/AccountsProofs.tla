--------------------------- MODULE AccountsProofs ---------------------------
(* Accounts, proved for any sets of names, invites and resets.              *)
EXTENDS Accounts, TLAPS

\* What is drawn is new: no row refers to a salt that has not been drawn.
Drawn ==
  /\ \A n \in Name : Exists(n) => users[n].since <= fresh
  /\ \A r \in ResetId : resets[r] # None => resets[r].account <= fresh

\* A link that has created an account is closed for good, and cannot be revoked.
InviteInv(i) ==
  invites[i] # None =>
    /\ invites[i].made # {} => invites[i].claimedBy # None /\ ~ invites[i].revoked
    /\ \A a, b \in invites[i].made : a = b

OnlyUnspent(r, q) ==
  (resets[r] # None /\ resets[q] # None /\ ~ resets[r].used /\ ~ resets[q].used /\ q # r)
    => resets[q].user # resets[r].user

Current(r) ==
  (/\ resets[r] # None /\ ~ resets[r].used
   /\ Exists(resets[r].user) /\ users[resets[r].user].since = resets[r].account)
    => users[resets[r].user].hash = resets[r].hash

ResetInv(r) == Current(r) /\ \A q \in ResetId : OnlyUnspent(r, q)

\* The inductive invariant.
Inv ==
  /\ TypeOK
  /\ Drawn
  /\ \A i \in InviteId : InviteInv(i)
  /\ \A r \in ResetId : ResetInv(r)

USE NoneAssumption, RoleAssumption DEF Draw

\* What retiring the links of a name does to each of them.
LEMMA RetiredLinks ==
  ASSUME TypeOK, NEW n \in Name
  PROVE  /\ Retired(n) \in [ResetId -> Reset \cup {None}]
         /\ \A r \in ResetId :
              /\ (Retired(n)[r] # None) = (resets[r] # None)
              /\ (resets[r] # None /\ resets[r].user = n) => Retired(n)[r].used
              /\ ~ (resets[r] # None /\ resets[r].user = n) => Retired(n)[r] = resets[r]
              /\ resets[r] # None => /\ Retired(n)[r].user = resets[r].user
                                     /\ Retired(n)[r].account = resets[r].account
                                     /\ Retired(n)[r].hash = resets[r].hash
<1>1. ASSUME NEW r \in ResetId, resets[r] # None, resets[r].user = n
      PROVE  /\ Retired(n)[r] \in Reset /\ Retired(n)[r] # None /\ Retired(n)[r].used
             /\ Retired(n)[r].user = resets[r].user
             /\ Retired(n)[r].account = resets[r].account
             /\ Retired(n)[r].hash = resets[r].hash
  <2>1. resets[r] \in Reset
    BY <1>1 DEF TypeOK
  <2>2. Retired(n)[r] = [resets[r] EXCEPT !.used = TRUE]
    BY <1>1 DEF Retired
  <2>3. Retired(n)[r] \in Reset
    BY <2>1, <2>2 DEF Reset
  <2> QED
    BY <2>1, <2>2, <2>3 DEF Reset
<1>2. ASSUME NEW r \in ResetId, ~ (resets[r] # None /\ resets[r].user = n)
      PROVE  Retired(n)[r] = resets[r]
  BY <1>2 DEF Retired
<1> QED
  BY <1>1, <1>2 DEF TypeOK, Retired

\* The row a step of one account leaves it with, and the rows of the others.
LEMMA UserStepRows ==
  ASSUME TypeOK, NEW n \in Name, UserStep(n)
  PROVE  /\ users' = [users EXCEPT ![n] = users'[n]]
         /\ users'[n] \in User \cup {None}
         /\ fresh' \in Nat
         /\ resets' \in {resets, Retired(n)}
         /\ invites' = invites
<1>1. ASSUME NEW role \in Role, NEW mustChange \in BOOLEAN, AddUser(n, role, mustChange)
      PROVE  /\ users' = [users EXCEPT ![n] = NewUser(role, FALSE, mustChange)]
             /\ NewUser(role, FALSE, mustChange) \in User
             /\ fresh' \in Nat /\ resets' = resets /\ invites' = invites
  BY <1>1 DEF AddUser, NewUser, TypeOK, User
<1>2. ASSUME Exists(n) PROVE users[n] \in User
  BY <1>2 DEF Exists, TypeOK
<1>3. CASE SetPassword(n)
  <2>1. users[n] \in User /\ fresh + 1 \in Nat
    BY <1>2, <1>3 DEF SetPassword, TypeOK
  <2>2. [users[n] EXCEPT !.hash = fresh + 1, !.mustChange = FALSE] \in User
    BY <2>1 DEF User
  <2> QED
    BY <1>3, <2>1, <2>2 DEF SetPassword, TypeOK
<1>4. CASE RevokeSessions(n)
  <2>1. users[n] \in User /\ fresh + 1 \in Nat
    BY <1>2, <1>4 DEF RevokeSessions, TypeOK
  <2>2. [users[n] EXCEPT !.sessionsFrom = fresh + 1] \in User
    BY <2>1 DEF User
  <2> QED
    BY <1>4, <2>1, <2>2 DEF RevokeSessions, TypeOK
<1>5. ASSUME NEW role \in Role, SetRole(n, role)
      PROVE  /\ users' = [users EXCEPT ![n] = users'[n]] /\ users'[n] \in User
             /\ fresh' = fresh /\ resets' = resets /\ invites' = invites
  <2>1. [users[n] EXCEPT !.role = role] \in User
    BY <1>2, <1>5 DEF SetRole, User
  <2> QED
    BY <1>5, <2>1 DEF SetRole, TypeOK
<1>6. CASE DeleteUser(n)
  BY <1>6 DEF DeleteUser, TypeOK
<1>7. ASSUME NEW role \in Role, ApproveUser(n, role)
      PROVE  /\ users' = [users EXCEPT ![n] = users'[n]] /\ users'[n] \in User
             /\ fresh' = fresh /\ resets' = resets /\ invites' = invites
  <2>1. [users[n] EXCEPT !.pending = FALSE, !.role = role] \in User
    BY <1>2, <1>7 DEF ApproveUser, User
  <2> QED
    BY <1>7, <2>1 DEF ApproveUser, TypeOK
<1>8. ASSUME NEW role \in Role, NEW mustChange \in BOOLEAN, AddUser(n, role, mustChange)
      PROVE  users' = [users EXCEPT ![n] = users'[n]] /\ users'[n] \in User
  BY <1>1, <1>8 DEF TypeOK
<1> QED
  BY <1>1, <1>3, <1>4, <1>5, <1>6, <1>7, <1>8 DEF UserStep, TypeOK

LEMMA InviteStepRows ==
  ASSUME TypeOK, NEW i \in InviteId, InviteStep(i)
  PROVE  /\ invites' = [invites EXCEPT ![i] = invites'[i]]
         /\ invites'[i] \in Invite
         /\ fresh' \in Nat
         /\ users' \in [Name -> User \cup {None}]
         /\ resets' = resets
<1>0. ASSUME invites[i] # None PROVE invites[i] \in Invite
  BY <1>0 DEF TypeOK
<1>1. ASSUME NEW role \in Role, CreateInvite(i, role)
      PROVE  invites' = [invites EXCEPT ![i] = invites'[i]] /\ invites'[i] \in Invite
  BY <1>1 DEF CreateInvite, TypeOK, Invite
<1>2. CASE RevokeInvite(i)
  <2>1. [invites[i] EXCEPT !.revoked = TRUE] \in Invite
    BY <1>0, <1>2 DEF RevokeInvite, Invite
  <2> QED
    BY <1>2, <2>1 DEF RevokeInvite, TypeOK
<1>3. ASSUME NEW n \in Name, ClaimInvite(i, n)
      PROVE  /\ invites' = [invites EXCEPT ![i] = invites'[i]] /\ invites'[i] \in Invite
             /\ fresh' \in Nat /\ users' \in [Name -> User \cup {None}] /\ resets' = resets
  <2>1. invites[i] \in Invite /\ fresh + 1 \in Nat
    BY <1>0, <1>3 DEF ClaimInvite, InviteOpen, TypeOK
  <2>2. NewUser(invites[i].role, TRUE, FALSE) \in User
    BY <2>1 DEF NewUser, Invite, User
  <2>3. [invites[i] EXCEPT !.claimedBy = n, !.made = invites[i].made \cup {fresh + 1}] \in Invite
    BY <2>1 DEF Invite
  <2>4. users' = [users EXCEPT ![n] = NewUser(invites[i].role, TRUE, FALSE)]
        /\ fresh' = fresh + 1 /\ resets' = resets
    BY <1>3 DEF ClaimInvite
  <2>5. users' \in [Name -> User \cup {None}]
    BY <2>2, <2>4 DEF TypeOK
  <2>6. /\ invites' = [invites EXCEPT ![i] = invites'[i]]
        /\ invites'[i] = [invites[i] EXCEPT !.claimedBy = n, !.made = invites[i].made \cup {fresh + 1}]
    BY <1>3 DEF ClaimInvite, TypeOK
  <2> QED
    BY <2>1, <2>3, <2>4, <2>5, <2>6
<1>4. CASE InviteExpires(i)
  <2>1. [invites[i] EXCEPT !.expired = TRUE] \in Invite
    BY <1>0, <1>4 DEF InviteExpires, Invite
  <2> QED
    BY <1>4, <2>1 DEF InviteExpires, TypeOK
<1> QED
  BY <1>1, <1>2, <1>3, <1>4 DEF InviteStep, CreateInvite, RevokeInvite, InviteExpires, TypeOK

LEMMA ResetStepRows ==
  ASSUME TypeOK, NEW r \in ResetId, ResetStep(r)
  PROVE  /\ resets' \in [ResetId -> Reset \cup {None}]
         /\ users' \in [Name -> User \cup {None}]
         /\ fresh' \in Nat
         /\ invites' = invites
<1>0. ASSUME resets[r] # None PROVE resets[r] \in Reset
  BY <1>0 DEF TypeOK
<1>1. ASSUME NEW n \in Name, CreateReset(r, n) PROVE resets' \in [ResetId -> Reset \cup {None}]
  <2>1. users[n] \in User
    BY <1>1 DEF CreateReset, Exists, TypeOK
  <2>2. NewReset(n) \in Reset
    BY <2>1 DEF NewReset, Reset, User
  <2> QED
    BY <1>1, <2>2, RetiredLinks DEF CreateReset
<1>2. CASE UseReset(r)
  <2> DEFINE n == resets[r].user
  <2>1. resets[r] \in Reset /\ n \in Name /\ fresh + 1 \in Nat
    BY <1>0, <1>2 DEF UseReset, ResetOpen, TypeOK, Reset
  <2>2. users[n] \in User
    BY <1>2, <2>1 DEF UseReset, Exists, TypeOK
  <2>3. [users[n] EXCEPT !.hash = fresh + 1, !.mustChange = FALSE, !.sessionsFrom = fresh + 1] \in User
    BY <2>1, <2>2 DEF User
  <2>4. [resets[r] EXCEPT !.used = TRUE] \in Reset
    BY <2>1 DEF Reset
  <2> QED
    BY <1>2, <2>1, <2>3, <2>4 DEF UseReset, TypeOK
<1>3. CASE ResetExpires(r)
  <2>1. [resets[r] EXCEPT !.expired = TRUE] \in Reset
    BY <1>0, <1>3 DEF ResetExpires, Reset
  <2> QED
    BY <1>3, <2>1 DEF ResetExpires, TypeOK
<1> QED
  BY <1>1, <1>2, <1>3 DEF ResetStep, CreateReset, ResetExpires, TypeOK

LEMMA TypeStep == TypeOK /\ [Next]_vars => TypeOK'
<1> SUFFICES ASSUME TypeOK, [Next]_vars PROVE TypeOK'
  OBVIOUS
<1>1. ASSUME NEW n \in Name, UserStep(n) PROVE TypeOK'
  BY <1>1, UserStepRows, RetiredLinks DEF TypeOK
<1>2. ASSUME NEW i \in InviteId, InviteStep(i) PROVE TypeOK'
  BY <1>2, InviteStepRows DEF TypeOK
<1>3. ASSUME NEW r \in ResetId, ResetStep(r) PROVE TypeOK'
  BY <1>3, ResetStepRows DEF TypeOK
<1>4. CASE UNCHANGED vars
  BY <1>4 DEF vars, TypeOK
<1> QED
  BY <1>1, <1>2, <1>3, <1>4 DEF Next

\* Approved administrators after a change to one account.  The two refusals are
\* what keeps the set from emptying; nothing else takes an account out of it.
LEMMA AdminsStay ==
  ASSUME TypeOK, [Next]_vars, ApprovedAdmins # {}
  PROVE  ApprovedAdmins' # {}
<1> PICK a \in Name : a \in ApprovedAdmins
  BY DEF ApprovedAdmins
<1>1. ASSUME NEW n \in Name, UserStep(n) PROVE ApprovedAdmins' # {}
  <2>0. fresh + 1 \in Nat /\ \A m \in Name : users[m] \in User \cup {None}
    BY DEF TypeOK
  <2>1. ASSUME NEW role \in Role, NEW mustChange \in BOOLEAN, AddUser(n, role, mustChange)
        PROVE  a \in ApprovedAdmins'
    BY <2>1 DEF AddUser, ApprovedAdmins, Exists, TypeOK
  <2>2. CASE SetPassword(n)
    <3>1. users'[n] = [users[n] EXCEPT !.hash = fresh + 1, !.mustChange = FALSE] /\ users[n] \in User
      BY <2>2 DEF SetPassword, Exists, TypeOK
    <3>2. users'[n] \in User /\ users'[n].role = users[n].role /\ users'[n].pending = users[n].pending
      BY <2>0, <3>1 DEF User
    <3>3. \A m \in Name \ {n} : users'[m] = users[m]
      BY <2>2 DEF SetPassword, TypeOK
    <3>4. a \in ApprovedAdmins'
      BY <3>2, <3>3 DEF ApprovedAdmins, Exists
    <3> QED
      BY <3>4
  <2>3. CASE RevokeSessions(n)
    BY <2>0, <2>3 DEF RevokeSessions, ApprovedAdmins, Exists, TypeOK, User
  <2>4. ASSUME NEW role \in Role, SetRole(n, role) PROVE ApprovedAdmins' # {}
    <3>1. \A m \in Name \ {n} : users'[m] = users[m]
      BY <2>4 DEF SetRole, TypeOK
    <3>2. CASE role = "admin"
      BY <2>0, <2>4, <3>2 DEF SetRole, ApprovedAdmins, Exists, TypeOK, User
    <3>3. CASE role # "admin"
      <4>1. PICK m \in ApprovedAdmins : m # n
        BY <2>4, <3>3 DEF SetRole, LosesTheLastAdmin
      <4> QED
        BY <3>1, <4>1 DEF ApprovedAdmins, Exists
    <3> QED
      BY <3>2, <3>3
  <2>5. CASE DeleteUser(n)
    <3>1. \A m \in Name \ {n} : users'[m] = users[m]
      BY <2>5 DEF DeleteUser, TypeOK
    <3>2. PICK m \in ApprovedAdmins : m # n
      BY <2>5 DEF DeleteUser, LosesTheLastAdmin
    <3> QED
      BY <3>1, <3>2 DEF ApprovedAdmins, Exists
  <2>6. ASSUME NEW role \in Role, ApproveUser(n, role) PROVE a \in ApprovedAdmins'
    BY <2>6 DEF ApproveUser, ApprovedAdmins, Exists, TypeOK
  <2> QED
    BY <1>1, <2>1, <2>2, <2>3, <2>4, <2>5, <2>6 DEF UserStep
<1>2. ASSUME NEW i \in InviteId, InviteStep(i) PROVE a \in ApprovedAdmins'
  BY <1>2 DEF InviteStep, CreateInvite, RevokeInvite, ClaimInvite, InviteExpires,
              ApprovedAdmins, Exists, TypeOK
<1>3. ASSUME NEW r \in ResetId, ResetStep(r) PROVE a \in ApprovedAdmins'
  <2>0. fresh + 1 \in Nat
    BY DEF TypeOK
  <2>1. CASE UseReset(r)
    <3>1. resets[r].user \in Name
      BY <2>1 DEF UseReset, ResetOpen, TypeOK, Reset
    <3> DEFINE n == resets[r].user
    <3>2. users'[n] = [users[n] EXCEPT !.hash = fresh + 1, !.mustChange = FALSE, !.sessionsFrom = fresh + 1]
          /\ users[n] \in User
      BY <2>1, <3>1 DEF UseReset, Exists, TypeOK
    <3>3. users'[n] \in User /\ users'[n].role = users[n].role /\ users'[n].pending = users[n].pending
      BY <2>0, <3>2 DEF User
    <3>4. \A m \in Name \ {n} : users'[m] = users[m]
      BY <2>1, <3>1 DEF UseReset, TypeOK
    <3> QED
      BY <3>3, <3>4 DEF ApprovedAdmins, Exists
  <2>2. CASE ~ UseReset(r)
    BY <1>3, <2>2 DEF ResetStep, CreateReset, ResetExpires, ApprovedAdmins, Exists
  <2> QED
    BY <2>1, <2>2
<1>4. CASE UNCHANGED vars
  BY <1>4 DEF vars, ApprovedAdmins, Exists
<1> QED
  BY <1>1, <1>2, <1>3, <1>4 DEF Next

\* The step of one account that gives it a new hash either makes it a new account
\* or retires the links to the old one.
LEMMA NewHashRetiresLinks ==
  ASSUME TypeOK, NEW n \in Name, UserStep(n)
  PROVE  /\ fresh <= fresh'
         /\ Exists(n)' =>
              \/ users'[n].since = fresh + 1 /\ fresh' = fresh + 1
              \/ /\ Exists(n) /\ users'[n].since = users[n].since
                 /\ users'[n].hash = users[n].hash \/ resets' = Retired(n)
<1>0. fresh + 1 \in Nat /\ fresh <= fresh + 1
  BY DEF TypeOK
<1>1. ASSUME NEW role \in Role, NEW mustChange \in BOOLEAN, AddUser(n, role, mustChange)
      PROVE  fresh' = fresh + 1 /\ users'[n].since = fresh + 1
  BY <1>1 DEF AddUser, NewUser, TypeOK
<1>2. ASSUME Exists(n) PROVE users[n] \in User
  BY <1>2 DEF Exists, TypeOK
<1>3. CASE SetPassword(n)
  <2>1. users'[n] = [users[n] EXCEPT !.hash = fresh + 1, !.mustChange = FALSE] /\ users[n] \in User
    BY <1>2, <1>3 DEF SetPassword, TypeOK
  <2>2. users'[n].since = users[n].since
    BY <2>1 DEF User
  <2> QED
    BY <1>0, <1>3, <2>2 DEF SetPassword
<1>4. CASE RevokeSessions(n)
  <2>1. users'[n] = [users[n] EXCEPT !.sessionsFrom = fresh + 1] /\ users[n] \in User
    BY <1>2, <1>4 DEF RevokeSessions, TypeOK
  <2>2. users'[n].since = users[n].since /\ users'[n].hash = users[n].hash
    BY <2>1 DEF User
  <2> QED
    BY <1>0, <1>4, <2>2 DEF RevokeSessions
<1>5. ASSUME NEW role \in Role, SetRole(n, role)
      PROVE  /\ Exists(n) /\ users'[n].since = users[n].since /\ users'[n].hash = users[n].hash
             /\ fresh' = fresh
  <2>1. users'[n] = [users[n] EXCEPT !.role = role] /\ users[n] \in User
    BY <1>2, <1>5 DEF SetRole, TypeOK
  <2> QED
    BY <1>5, <2>1 DEF SetRole, User
<1>6. CASE DeleteUser(n)
  BY <1>0, <1>6 DEF DeleteUser, Exists, TypeOK
<1>7. ASSUME NEW role \in Role, ApproveUser(n, role)
      PROVE  /\ Exists(n) /\ users'[n].since = users[n].since /\ users'[n].hash = users[n].hash
             /\ fresh' = fresh
  <2>1. users'[n] = [users[n] EXCEPT !.pending = FALSE, !.role = role] /\ users[n] \in User
    BY <1>2, <1>7 DEF ApproveUser, TypeOK
  <2> QED
    BY <1>7, <2>1 DEF ApproveUser, User
<1>8. fresh <= fresh
  BY DEF TypeOK
<1> QED
  BY <1>0, <1>1, <1>3, <1>4, <1>5, <1>6, <1>7, <1>8 DEF UserStep

\* A step of one account keeps what holds of the links.
LEMMA UserStepLinks ==
  ASSUME TypeOK, Drawn, NEW n \in Name, UserStep(n), \A r \in ResetId : ResetInv(r)
  PROVE  Drawn' /\ \A r \in ResetId : ResetInv(r)'
<1>1. \A m \in Name \ {n} : users'[m] = users[m]
  BY UserStepRows DEF TypeOK
<1>2. ASSUME NEW r \in ResetId
      PROVE  /\ (resets'[r] # None) = (resets[r] # None)
             /\ resets[r] # None => /\ resets'[r].user = resets[r].user
                                    /\ resets'[r].account = resets[r].account
                                    /\ resets'[r].hash = resets[r].hash
                                    /\ resets'[r].used = resets[r].used \/ resets'[r].used
             /\ (resets' = Retired(n) /\ resets[r] # None /\ resets[r].user = n) => resets'[r].used
  BY UserStepRows, RetiredLinks
<1>3. \A r \in ResetId : resets[r] # None => resets[r].account \in Nat
  BY DEF TypeOK, Reset
<1>4. fresh \in Nat /\ fresh' \in Nat /\ fresh <= fresh'
  BY UserStepRows, NewHashRetiresLinks DEF TypeOK
<1>5. \A m \in Name : Exists(m) => users[m].since \in Nat
  BY DEF TypeOK, Exists, User
<1>6. Drawn'
  <2>1. ASSUME NEW m \in Name, Exists(m)' PROVE users'[m].since <= fresh'
    BY <1>1, <1>4, <1>5, <2>1, NewHashRetiresLinks DEF Drawn, Exists
  <2>2. ASSUME NEW r \in ResetId, resets'[r] # None PROVE resets'[r].account <= fresh'
    BY <1>2, <1>3, <1>4, <2>2 DEF Drawn
  <2> QED
    BY <2>1, <2>2 DEF Drawn
<1>7. ASSUME NEW r \in ResetId PROVE Current(r)'
  <2> SUFFICES ASSUME resets[r] # None, ~ resets'[r].used, Exists(resets[r].user)',
                      users'[resets[r].user].since = resets[r].account
               PROVE  users'[resets[r].user].hash = resets[r].hash
    BY <1>2 DEF Current, Exists
  <2>1. ~ resets[r].used /\ Current(r) /\ resets[r].account <= fresh
    BY <1>2 DEF ResetInv, Drawn
  <2>2. resets[r].user \in Name
    BY DEF TypeOK, Reset
  <2>3. CASE resets[r].user # n
    BY <1>1, <1>2, <2>1, <2>2, <2>3 DEF Current, Exists
  <2>4. CASE resets[r].user = n
    <3>1. users'[n].since # fresh + 1
      BY <1>3, <1>4, <2>1, <2>4
    <3>2. resets' # Retired(n)
      BY <1>2, <2>4
    <3>3. Exists(n)'
      BY <1>2, <2>4 DEF Exists
    <3> QED
      BY <2>1, <2>4, <3>1, <3>2, <3>3, NewHashRetiresLinks DEF Current
  <2> QED
    BY <2>3, <2>4
<1>8. ASSUME NEW r \in ResetId, NEW q \in ResetId PROVE OnlyUnspent(r, q)'
  BY <1>2 DEF OnlyUnspent, ResetInv
<1> QED
  BY <1>6, <1>7, <1>8 DEF ResetInv

\* A step of one link keeps what holds of the links.
LEMMA ResetStepLinks ==
  ASSUME TypeOK, Drawn, NEW r \in ResetId, ResetStep(r), \A q \in ResetId : ResetInv(q)
  PROVE  Drawn' /\ \A q \in ResetId : ResetInv(q)'
<1>0. fresh + 1 \in Nat /\ fresh <= fresh + 1 /\ fresh <= fresh
  BY DEF TypeOK
<1>1. \A q \in ResetId : resets[q] # None => /\ resets[q] \in Reset /\ resets[q].user \in Name
                                            /\ resets[q].account \in Nat
  BY DEF TypeOK, Reset
<1>2. \A m \in Name : Exists(m) => users[m] \in User /\ users[m].since \in Nat
  BY DEF TypeOK, Exists, User
<1>3. ASSUME NEW n \in Name, CreateReset(r, n)
      PROVE  Drawn' /\ \A q \in ResetId : ResetInv(q)'
  <2>1. /\ resets[r] = None /\ Exists(n) /\ UNCHANGED <<users, fresh>>
        /\ resets' = [Retired(n) EXCEPT ![r] = NewReset(n)]
    BY <1>3 DEF CreateReset
  <2>2. resets'[r] = NewReset(n) /\ \A q \in ResetId \ {r} : resets'[q] = Retired(n)[q]
    BY <2>1, RetiredLinks
  <2>3. /\ resets'[r].user = n /\ ~ resets'[r].used /\ resets'[r].account = users[n].since
        /\ resets'[r].hash = users[n].hash
    BY <2>2 DEF NewReset
  <2>4. ASSUME NEW q \in ResetId \ {r}, resets'[q] # None
        PROVE  /\ resets[q] # None
               /\ resets'[q].user = resets[q].user
               /\ resets'[q].account = resets[q].account
               /\ resets'[q].hash = resets[q].hash
               /\ resets[q].user = n => resets'[q].used
               /\ resets[q].user # n => resets'[q] = resets[q]
    BY <2>2, <2>4, RetiredLinks
  <2>5. Drawn'
    BY <1>0, <1>1, <1>2, <2>1, <2>3, <2>4 DEF Drawn, Exists
  <2>6. Current(r)'
    BY <2>1, <2>3 DEF Current, Exists
  <2>7. ASSUME NEW q \in ResetId \ {r} PROVE Current(q)'
    BY <2>1, <2>4 DEF Current, ResetInv, Exists
  <2>8. ASSUME NEW p \in ResetId, NEW q \in ResetId PROVE OnlyUnspent(p, q)'
    BY <2>3, <2>4 DEF OnlyUnspent, ResetInv
  <2> QED
    BY <2>5, <2>6, <2>7, <2>8 DEF ResetInv
<1>4. CASE UseReset(r)
  <2> DEFINE n == resets[r].user
  <2>1. resets[r] # None /\ ~ resets[r].used /\ Exists(n) /\ n \in Name
    BY <1>1, <1>4 DEF UseReset, ResetOpen
  <2>2. /\ users' = [users EXCEPT ![n] = [users[n] EXCEPT !.hash = fresh + 1, !.mustChange = FALSE,
                                                         !.sessionsFrom = fresh + 1]]
        /\ resets' = [resets EXCEPT ![r] = [resets[r] EXCEPT !.used = TRUE]]
        /\ fresh' = fresh + 1
    BY <1>4 DEF UseReset
  <2>3. \A m \in Name \ {n} : users'[m] = users[m]
    BY <2>1, <2>2 DEF TypeOK
  <2>4. users'[n] # None /\ users'[n].since = users[n].since
    <3>1. users'[n] = [users[n] EXCEPT !.hash = fresh + 1, !.mustChange = FALSE, !.sessionsFrom = fresh + 1]
      BY <2>1, <2>2 DEF TypeOK
    <3>2. users[n] \in User
      BY <1>2, <2>1
    <3>3. users'[n] \in User
      BY <1>0, <3>1, <3>2 DEF User
    <3> QED
      BY <3>1, <3>2, <3>3 DEF User
  <2>5. /\ resets'[r].used /\ resets'[r].user = n /\ resets'[r].account = resets[r].account
        /\ \A q \in ResetId \ {r} : resets'[q] = resets[q]
    <3>1. resets'[r] = [resets[r] EXCEPT !.used = TRUE] /\ resets[r] \in Reset
      BY <1>1, <2>1, <2>2 DEF TypeOK
    <3>2. resets'[r].used /\ resets'[r].user = n /\ resets'[r].account = resets[r].account
      BY <3>1 DEF Reset
    <3> QED
      BY <2>2, <3>2 DEF TypeOK
  <2> HIDE DEF n
  <2>6. Drawn'
    <3>1. fresh \in Nat
      BY DEF TypeOK
    <3>2. ASSUME NEW m \in Name, Exists(m)' PROVE users'[m].since <= fresh'
      BY <1>2, <2>1, <2>2, <2>3, <2>4, <3>1, <3>2 DEF Drawn, Exists
    <3>3. ASSUME NEW q \in ResetId, resets'[q] # None PROVE resets'[q].account <= fresh'
      BY <1>1, <2>1, <2>2, <2>5, <3>1, <3>3 DEF Drawn
    <3> QED
      BY <3>2, <3>3 DEF Drawn
  <2>7. ASSUME NEW q \in ResetId PROVE Current(q)'
    <3>1. CASE q = r
      BY <2>5, <3>1 DEF Current
    <3>2. CASE q # r
      <4> SUFFICES ASSUME resets[q] # None, ~ resets[q].used PROVE Current(q)'
        BY <2>5, <3>2 DEF Current
      <4>1. OnlyUnspent(r, q) /\ Current(q)
        BY DEF ResetInv
      <4>2. resets[q].user # n /\ resets[q].user \in Name
        BY <1>1, <2>1, <3>2, <4>1 DEF OnlyUnspent, n
      <4> QED
        BY <2>3, <2>5, <3>2, <4>1, <4>2 DEF Current, Exists
    <3> QED
      BY <3>1, <3>2
  <2>8. ASSUME NEW p \in ResetId, NEW q \in ResetId PROVE OnlyUnspent(p, q)'
    BY <2>5 DEF OnlyUnspent, ResetInv
  <2> QED
    BY <2>6, <2>7, <2>8 DEF ResetInv
<1>5. CASE ResetExpires(r)
  <2>1. /\ resets[r] # None /\ UNCHANGED <<users, fresh>>
        /\ resets'[r] = [resets[r] EXCEPT !.expired = TRUE]
        /\ \A q \in ResetId \ {r} : resets'[q] = resets[q]
    BY <1>5 DEF ResetExpires, TypeOK
  <2>2. /\ resets'[r].user = resets[r].user /\ resets'[r].used = resets[r].used
        /\ resets'[r].account = resets[r].account /\ resets'[r].hash = resets[r].hash
    BY <1>1, <2>1 DEF Reset
  <2>3. Drawn'
    BY <2>1, <2>2 DEF Drawn, Exists
  <2>6. \A q \in ResetId : resets'[q] # None =>
          /\ resets[q] # None
          /\ resets'[q].user = resets[q].user /\ resets'[q].used = resets[q].used
          /\ resets'[q].account = resets[q].account /\ resets'[q].hash = resets[q].hash
    BY <2>1, <2>2
  <2>4. ASSUME NEW q \in ResetId PROVE Current(q)'
    BY <2>1, <2>6 DEF Current, ResetInv, Exists
  <2>5. ASSUME NEW p \in ResetId, NEW q \in ResetId PROVE OnlyUnspent(p, q)'
    BY <2>6 DEF OnlyUnspent, ResetInv
  <2> QED
    BY <2>3, <2>4, <2>5 DEF ResetInv
<1> QED
  BY <1>3, <1>4, <1>5 DEF ResetStep

\* A step of one invite keeps what holds of all of them, and of the links.
LEMMA InviteStepKeeps ==
  ASSUME Inv, NEW i \in InviteId, InviteStep(i)
  PROVE  Drawn' /\ (\A j \in InviteId : InviteInv(j)') /\ \A r \in ResetId : ResetInv(r)'
<1>0. TypeOK /\ fresh \in Nat /\ fresh + 1 \in Nat
  BY DEF Inv, TypeOK
<1>1. \A j \in InviteId \ {i} : invites'[j] = invites[j]
  BY <1>0, InviteStepRows DEF TypeOK
<1>2. \A j \in InviteId \ {i} : InviteInv(j)'
  BY <1>1 DEF InviteInv, Inv
<1>3. ASSUME invites[i] # None PROVE invites[i] \in Invite
  BY <1>0, <1>3 DEF TypeOK
<1>4. ASSUME UNCHANGED <<users, resets, fresh>> PROVE Drawn' /\ \A r \in ResetId : ResetInv(r)'
  BY <1>4 DEF Drawn, ResetInv, Current, OnlyUnspent, Exists, Inv
<1>5. ASSUME NEW role \in Role, CreateInvite(i, role) PROVE InviteInv(i)'
  <2>1. invites'[i] = [role |-> role, claimedBy |-> None, revoked |-> FALSE,
                       expired |-> FALSE, made |-> {}]
    BY <1>0, <1>5 DEF CreateInvite, TypeOK
  <2> QED
    BY <2>1 DEF InviteInv
<1>6. CASE RevokeInvite(i)
  <2>1. invites'[i] = [invites[i] EXCEPT !.revoked = TRUE] /\ invites[i] \in Invite
    BY <1>0, <1>3, <1>6 DEF RevokeInvite, TypeOK
  <2>2. invites'[i].made = invites[i].made /\ invites[i].made = {}
    BY <1>6, <2>1 DEF RevokeInvite, Inv, InviteInv, Invite
  <2>3. InviteInv(i)'
    BY <2>2 DEF InviteInv
  <2> QED
    BY <1>2, <1>4, <1>6, <2>3 DEF RevokeInvite
<1>7. CASE InviteExpires(i)
  <2>1. invites'[i] = [invites[i] EXCEPT !.expired = TRUE] /\ invites[i] \in Invite
    BY <1>0, <1>3, <1>7 DEF InviteExpires, TypeOK
  <2>2. /\ invites'[i].made = invites[i].made /\ invites'[i].revoked = invites[i].revoked
        /\ invites'[i].claimedBy = invites[i].claimedBy
    BY <2>1 DEF Invite
  <2>3. InviteInv(i)'
    BY <1>7, <2>2 DEF InviteInv, InviteExpires, Inv
  <2> QED
    BY <1>2, <1>4, <1>7, <2>3 DEF InviteExpires
<1>8. ASSUME NEW n \in Name, ClaimInvite(i, n)
      PROVE  Drawn' /\ InviteInv(i)' /\ \A r \in ResetId : ResetInv(r)'
  <2>1. /\ ~ Exists(n) /\ InviteOpen(i) /\ resets' = resets /\ fresh' = fresh + 1
        /\ users' = [users EXCEPT ![n] = NewUser(invites[i].role, TRUE, FALSE)]
    BY <1>8 DEF ClaimInvite
  <2>2. invites'[i] = [invites[i] EXCEPT !.claimedBy = n, !.made = invites[i].made \cup {fresh + 1}]
    BY <1>0, <1>8 DEF ClaimInvite, TypeOK
  <2>3. invites[i] \in Invite /\ invites[i].made = {} /\ ~ invites[i].revoked
    BY <1>3, <2>1 DEF InviteOpen, Inv, InviteInv
  <2>4. /\ invites'[i].made = {fresh + 1} /\ invites'[i].claimedBy = n
        /\ invites'[i].revoked = invites[i].revoked
    BY <2>2, <2>3 DEF Invite
  <2>5. InviteInv(i)'
    BY <2>3, <2>4 DEF InviteInv
  <2>6. /\ users'[n].since = fresh + 1
        /\ \A m \in Name \ {n} : users'[m] = users[m]
    BY <1>0, <2>1 DEF NewUser, TypeOK
  <2>7. \A r \in ResetId : resets[r] # None => resets[r].account \in Nat /\ resets[r].account <= fresh
    BY <1>0 DEF Inv, Drawn, TypeOK, Reset
  <2>8. Drawn'
    <3>1. \A m \in Name : Exists(m) => users[m].since \in Nat /\ users[m].since <= fresh
      BY <1>0 DEF Inv, Drawn, TypeOK, User, Exists
    <3>2. ASSUME NEW m \in Name, Exists(m)' PROVE users'[m].since <= fresh'
      <4>1. CASE m = n
        <5>1. users'[m].since = fresh' /\ fresh' \in Nat
          BY <1>0, <2>1, <2>6, <4>1
        <5> QED
          BY <5>1
      <4>2. CASE m # n
        BY <1>0, <2>1, <2>6, <3>1, <3>2, <4>2 DEF Exists
      <4> QED
        BY <4>1, <4>2
    <3>3. \A r \in ResetId : resets'[r] # None => resets'[r].account <= fresh'
      BY <1>0, <2>1, <2>7
    <3> QED
      BY <3>2, <3>3 DEF Drawn
  <2>9. ASSUME NEW r \in ResetId PROVE ResetInv(r)'
    <3>1. ResetInv(r)
      BY DEF Inv
    <3>2. (\A q \in ResetId : OnlyUnspent(r, q))'
      BY <2>1, <3>1 DEF ResetInv, OnlyUnspent
    <3>3. resets[r] # None => resets[r].user \in Name
      BY <1>0 DEF TypeOK, Reset
    <3>4. CASE resets[r] # None /\ resets[r].user = n
      <4>1. users'[n].since # resets[r].account
        BY <1>0, <2>6, <2>7, <3>4
      <4> QED
        BY <2>1, <3>2, <3>4, <4>1 DEF ResetInv, Current
    <3>5. CASE resets[r] # None /\ resets[r].user # n
      BY <2>1, <2>6, <3>1, <3>2, <3>3, <3>5 DEF ResetInv, Current, Exists
    <3>6. CASE resets[r] = None
      BY <2>1, <3>2, <3>6 DEF ResetInv, Current
    <3> QED
      BY <3>4, <3>5, <3>6
  <2> QED
    BY <2>5, <2>8, <2>9
<1> QED
  BY <1>2, <1>4, <1>5, <1>6, <1>7, <1>8 DEF InviteStep, CreateInvite

LEMMA InvStep == Inv /\ [Next]_vars => Inv'
<1> SUFFICES ASSUME Inv, [Next]_vars PROVE Inv'
  OBVIOUS
<1>0. TypeOK /\ TypeOK' /\ Drawn
  BY TypeStep DEF Inv
<1>1. ASSUME NEW n \in Name, UserStep(n) PROVE Inv'
  BY <1>0, <1>1, UserStepRows, UserStepLinks DEF Inv, InviteInv
<1>2. ASSUME NEW i \in InviteId, InviteStep(i) PROVE Inv'
  BY <1>0, <1>2, InviteStepKeeps DEF Inv
<1>3. ASSUME NEW r \in ResetId, ResetStep(r) PROVE Inv'
  BY <1>0, <1>3, ResetStepRows, ResetStepLinks DEF Inv, InviteInv
<1>4. CASE UNCHANGED vars
  BY <1>0, <1>4 DEF vars, Inv, Drawn, InviteInv, ResetInv, Current, OnlyUnspent, Exists
<1> QED
  BY <1>1, <1>2, <1>3, <1>4 DEF Next

\* The rows of users.go, invite.go and reset.go keep their types, and the
\* strengthening the other theorems rest on is inductive.
THEOREM Invariance == Spec => []Inv
<1>1. Init => Inv
  BY DEF Init, Inv, TypeOK, Drawn, InviteInv, ResetInv, Current, OnlyUnspent, Exists
<1> QED
  BY <1>1, InvStep, PTL DEF Spec

\* The rows of users.go, invite.go and reset.go have their types: a role is one of
\* the roles there are, and a link that has been claimed names an account.
THEOREM RowsHaveTheirTypes == Spec => []TypeOK
<1>1. Inv => TypeOK
  BY DEF Inv
<1> QED
  BY <1>1, Invariance, PTL

\* invite.go, of ClaimInvite: an invitation creates one account at most, and none
\* once it has been revoked.
THEOREM InvitesSpentOnce == Spec => []InvitesAreSpentOnce
<1>1. Inv => InvitesAreSpentOnce
  BY DEF Inv, InviteInv, InvitesAreSpentOnce
<1> QED
  BY <1>1, Invariance, PTL

\* users.go, of SetPassword, and reset.go, of CreateReset: no reset link outlives
\* the password it was minted against, and no name has two of them.
THEOREM LinksDieWithThePassword == Spec => []UnspentLinksAreCurrent
<1>1. Inv => UnspentLinksAreCurrent
  BY DEF Inv, ResetInv, Current, OnlyUnspent, UnspentLinksAreCurrent
<1> QED
  BY <1>1, Invariance, PTL

\* users.go, of SetRole and DeleteUser: the last approved administrator cannot be
\* demoted or deleted by any sequence of calls.
THEOREM AlwaysAdministered == Spec => StaysAdministered
<1>1. Inv /\ [Next]_vars => [ApprovedAdmins # {} => ApprovedAdmins' # {}]_vars
  BY AdminsStay DEF Inv
<1> QED
  BY <1>1, Invariance, PTL DEF Spec, StaysAdministered
=============================================================================
