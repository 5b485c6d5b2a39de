--------------------------- MODULE SessionsProofs ---------------------------
(***************************************************************************)
(* The two modules over Accounts: Sessions, proved for any sets of         *)
(* browsers, names, invites and resets, and Bootstrap, for any set of      *)
(* servers.                                                                *)
(***************************************************************************)
EXTENDS Sessions, Bootstrap, AccountsProofs

-----------------------------------------------------------------------------
(* Sessions: the inductive invariant                                       *)

\* A request names what its verb is about.
RequestFits(q) ==
  /\ q.verb \in {"approve", "reject", "role", "delete", "link", "password", "landing"} => q.target \in Name
  /\ q.verb = "claim" => q.target \in InviteId
  /\ q.verb = "reset" => q.target \in ResetId

\* No account has a salt or an instant that has not been drawn.
KeysAreDrawn ==
  \A n \in Name : Exists(n) => users[n].hash <= fresh /\ users[n].sessionsFrom <= fresh

\* A cookie holds salts and instants among the first f only, so no later one can
\* match it; and if it has ended, the rows of u do not match it.
CookieFits(c, u, f) ==
  /\ c.key.hash <= f /\ c.key.sessionsFrom <= f
  /\ c.ended /\ u[c.name] # None =>
       \/ c.key.hash # u[c.name].hash
       \/ c.key.sessionsFrom # u[c.name].sessionsFrom

\* The inductive invariant.
WebInv ==
  /\ WebTypeOK
  /\ KeysAreDrawn
  /\ \A b \in Browser : request[b] # None => RequestFits(request[b])
  /\ \A b \in Browser : cookie[b] # None => CookieFits(cookie[b], users, fresh)

-----------------------------------------------------------------------------
(* The browser works on the accounts through the store's operations only    *)

\* What a step of a browser, or of the command line, does to the accounts.
LEMMA WebStepOfAccounts ==
  ASSUME WebInv, [WebNext]_sessionVars
  PROVE  [Next]_vars
<1>0. \A b \in Browser : request[b] # None => RequestFits(request[b])
  BY DEF WebInv
<1>1. ASSUME NEW n \in Name, CommandLine(n) PROVE [Next]_vars
  BY <1>1 DEF CommandLine, Next, UserStep
<1>2. ASSUME NEW b \in Browser, HandleLogout(b) PROVE [Next]_vars
  <2>1. CASE UNCHANGED vars
    BY <2>1
  <2>2. CASE SessionUser(b) # None /\ RevokeSessions(SessionUser(b))
    <3>1. cookie[b] # None /\ cookie[b] \in Cookie /\ SessionUser(b) = cookie[b].name
      BY <1>2, <2>2 DEF HandleLogout, SessionUser, WebInv, WebTypeOK
    <3>2. SessionUser(b) \in Name
      BY <3>1 DEF Cookie
    <3>3. QED
      BY <2>2, <3>2 DEF Next, UserStep
  <2>3. QED
    BY <1>2, <2>1, <2>2 DEF HandleLogout
<1>3. ASSUME NEW b \in Browser, AdministerInvites(b) PROVE [Next]_vars
  BY <1>3 DEF AdministerInvites, Next, InviteStep
<1>4. ASSUME NEW b \in Browser, request[b] # None, DoAdminister(b) PROVE [Next]_vars
  <2> DEFINE n == request[b].target
  <2>1. request[b].verb \in {"approve", "reject", "role", "delete", "link"}
    BY <1>4 DEF DoAdminister
  <2>2. n \in Name
    BY <1>0, <1>4, <2>1 DEF RequestFits
  <2>3. \/ \E role \in Role : ApproveUser(n, role) \/ SetRole(n, role)
        \/ DeleteUser(n)
        \/ \E r \in ResetId : CreateReset(r, n)
    BY <1>4 DEF DoAdminister
  <2> HIDE DEF n
  <2>4. QED
    BY <2>2, <2>3 DEF Next, UserStep, ResetStep
<1>5. ASSUME NEW b \in Browser, request[b] # None, DoChangePassword(b) PROVE [Next]_vars
  <2>1. request[b].target \in Name /\ SetPassword(request[b].target)
    BY <1>0, <1>5 DEF DoChangePassword, RequestFits
  <2>2. QED
    BY <2>1 DEF Next, UserStep
<1>6. ASSUME NEW b \in Browser, request[b] # None, DoClaim(b) PROVE [Next]_vars
  <2>1. request[b].target \in InviteId /\ \E n \in Name : ClaimInvite(request[b].target, n)
    BY <1>0, <1>6 DEF DoClaim, RequestFits
  <2>2. QED
    BY <2>1 DEF Next, InviteStep
<1>7. ASSUME NEW b \in Browser, request[b] # None, DoReset(b) PROVE [Next]_vars
  <2>1. request[b].target \in ResetId /\ UseReset(request[b].target)
    BY <1>0, <1>7 DEF DoReset, RequestFits
  <2>2. QED
    BY <2>1 DEF Next, ResetStep
<1>8. ASSUME NEW b \in Browser, request[b] # None, DoLand(b) PROVE [Next]_vars
  BY <1>8 DEF DoLand
<1>9. ASSUME NEW b \in Browser, Work(b) PROVE [Next]_vars
  BY <1>4, <1>5, <1>6, <1>7, <1>8, <1>9 DEF Work
<1>10. ASSUME NEW b \in Browser,
              \/ \E n \in Name : HandleLogin(b, n)
              \/ OpenAccountsPage(b)
              \/ \E verb \in Verb, n \in Name : PressOnAccountsPage(b, verb, n)
              \/ ChangePassword(b)
              \/ \E i \in InviteId : FollowInvite(b, i)
              \/ \E r \in ResetId : FollowReset(b, r)
              \/ Fail(b)
       PROVE  UNCHANGED vars
  BY <1>10 DEF HandleLogin, OpenAccountsPage, PressOnAccountsPage, ChangePassword, FollowInvite,
               FollowReset, Begin, Fail
<1>11. ASSUME LinkExpires PROVE [Next]_vars
  BY <1>11 DEF LinkExpires, Next, InviteStep, ResetStep
<1>12. CASE UNCHANGED sessionVars
  BY <1>12 DEF sessionVars
<1>13. ASSUME NEW b \in Browser, BrowserStep(b) PROVE [Next]_vars
  BY <1>2, <1>3, <1>9, <1>10, <1>13 DEF BrowserStep
<1> QED
  BY <1>1, <1>11, <1>12, <1>13 DEF WebNext

-----------------------------------------------------------------------------
(* Keys that change are new                                                 *)

USE NoneAssumption DEF Draw

\* The account is signed in with a salt or an instant drawn in this step.
KeyIsNew(n) ==
  /\ users'[n].hash <= fresh + 1 /\ users'[n].sessionsFrom <= fresh + 1
  /\ users'[n].hash = fresh + 1 \/ users'[n].sessionsFrom = fresh + 1
  /\ fresh' = fresh + 1

\* What ends the sessions of an account, by whatever route.
Ends(n) ==
  \/ SetPassword(n) \/ RevokeSessions(n) \/ DeleteUser(n)
  \/ \E r \in ResetId : UseReset(r) /\ resets[r].user = n

\* Ending the sessions of an account leaves it a new key, or no row.
LEMMA EndingDrawsAKey ==
  ASSUME TypeOK, KeysAreDrawn, NEW n \in Name, Ends(n)
  PROVE  /\ Exists(n)' => KeyIsNew(n)
         /\ fresh' \in Nat /\ fresh <= fresh'
         /\ \A m \in Name \ {n} : users'[m] = users[m]
<1>0. fresh \in Nat /\ fresh + 1 \in Nat /\ fresh <= fresh + 1
  BY DEF TypeOK
<1>1. Exists(n) /\ users[n] \in User /\ users[n].hash \in Nat /\ users[n].sessionsFrom \in Nat
  BY DEF Ends, SetPassword, RevokeSessions, DeleteUser, UseReset, Exists, TypeOK, User
<1>2. users[n].hash <= fresh /\ users[n].sessionsFrom <= fresh
  BY <1>1 DEF KeysAreDrawn
<1>3. users[n].hash <= fresh + 1 /\ users[n].sessionsFrom <= fresh + 1 /\ fresh + 1 <= fresh + 1
  BY <1>0, <1>1, <1>2
<1>4. CASE SetPassword(n)
  <2>1. users'[n] = [users[n] EXCEPT !.hash = fresh + 1, !.mustChange = FALSE] /\ fresh' = fresh + 1
    BY <1>4 DEF SetPassword, TypeOK
  <2>2. users'[n].hash = fresh + 1 /\ users'[n].sessionsFrom = users[n].sessionsFrom
    BY <1>1, <2>1 DEF User
  <2>3. \A m \in Name \ {n} : users'[m] = users[m]
    BY <1>4 DEF SetPassword, TypeOK
  <2> QED
    BY <1>0, <1>3, <2>1, <2>2, <2>3 DEF KeyIsNew
<1>5. CASE RevokeSessions(n)
  <2>1. users'[n] = [users[n] EXCEPT !.sessionsFrom = fresh + 1] /\ fresh' = fresh + 1
    BY <1>5 DEF RevokeSessions, TypeOK
  <2>2. users'[n].hash = users[n].hash /\ users'[n].sessionsFrom = fresh + 1
    BY <1>1, <2>1 DEF User
  <2>3. \A m \in Name \ {n} : users'[m] = users[m]
    BY <1>5 DEF RevokeSessions, TypeOK
  <2> QED
    BY <1>0, <1>3, <2>1, <2>2, <2>3 DEF KeyIsNew
<1>6. CASE DeleteUser(n)
  BY <1>0, <1>6 DEF DeleteUser, Exists, TypeOK
<1>7. ASSUME NEW r \in ResetId, UseReset(r), resets[r].user = n
      PROVE  /\ KeyIsNew(n) /\ fresh' = fresh + 1
             /\ \A m \in Name \ {n} : users'[m] = users[m]
  <2>1. /\ users'[n] = [users[n] EXCEPT !.hash = fresh + 1, !.mustChange = FALSE,
                                        !.sessionsFrom = fresh + 1]
        /\ fresh' = fresh + 1
        /\ \A m \in Name \ {n} : users'[m] = users[m]
    BY <1>7 DEF UseReset, TypeOK
  <2>2. users'[n].hash = fresh + 1 /\ users'[n].sessionsFrom = fresh + 1
    BY <1>1, <2>1 DEF User
  <2> QED
    BY <1>3, <2>1, <2>2 DEF KeyIsNew
<1> QED
  BY <1>0, <1>4, <1>5, <1>6, <1>7 DEF Ends

\* The account has the key it had, or a new one.
KeyKept(n) == Exists(n)' => (Exists(n) /\ SessionKey(n)' = SessionKey(n)) \/ KeyIsNew(n)

\* The row of an account that is created.
LEMMA NewUserHasANewKey ==
  ASSUME TypeOK, NEW n \in Name, NEW role, NEW pending, NEW mustChange,
         users' = [users EXCEPT ![n] = NewUser(role, pending, mustChange)], fresh' = fresh + 1
  PROVE  KeyIsNew(n)
<1>1. fresh + 1 \in Nat /\ 0 <= fresh + 1 /\ fresh + 1 <= fresh + 1
  BY DEF TypeOK
<1>2. users'[n].hash = fresh + 1 /\ users'[n].sessionsFrom = 0
  BY DEF NewUser, TypeOK
<1> QED
  BY <1>1, <1>2 DEF KeyIsNew

\* What a step of the store does to the key of an account.
LEMMA KeysChangeToNewOnes ==
  ASSUME TypeOK, KeysAreDrawn, [Next]_vars
  PROVE  /\ fresh' \in Nat /\ fresh <= fresh'
         /\ \A n \in Name : KeyKept(n)
<1>0. fresh \in Nat /\ fresh <= fresh /\ fresh + 1 \in Nat /\ fresh <= fresh + 1
  BY DEF TypeOK
<1> DEFINE P == fresh' \in Nat /\ fresh <= fresh' /\ \A n \in Name : KeyKept(n)
<1>1. ASSUME UNCHANGED <<users, fresh>> PROVE P
  BY <1>0, <1>1 DEF KeyKept, Exists, SessionKey
<1>2. ASSUME NEW n \in Name, Ends(n) PROVE P
  BY <1>2, EndingDrawsAKey DEF KeyKept, Exists, SessionKey
<1>3. ASSUME NEW n \in Name, NEW role \in Role, NEW mustChange \in BOOLEAN, AddUser(n, role, mustChange)
      PROVE  P
  <2>1. KeyIsNew(n) /\ fresh' = fresh + 1
    BY <1>3, NewUserHasANewKey DEF AddUser
  <2>2. \A m \in Name \ {n} : users'[m] = users[m]
    BY <1>3 DEF AddUser, TypeOK
  <2> QED
    BY <1>0, <2>1, <2>2 DEF KeyKept, Exists, SessionKey
<1>4. ASSUME NEW n \in Name, NEW role \in Role, SetRole(n, role) \/ ApproveUser(n, role)
      PROVE  P
  <2>1. users[n] \in User /\ Exists(n) /\ fresh' = fresh
    BY <1>4 DEF SetRole, ApproveUser, Exists, TypeOK
  <2>2. \/ users'[n] = [users[n] EXCEPT !.role = role]
        \/ users'[n] = [users[n] EXCEPT !.pending = FALSE, !.role = role]
    BY <1>4 DEF SetRole, ApproveUser, TypeOK
  <2>3. users'[n].hash = users[n].hash /\ users'[n].sessionsFrom = users[n].sessionsFrom
    BY <2>1, <2>2 DEF User
  <2>4. \A m \in Name \ {n} : users'[m] = users[m]
    BY <1>4 DEF SetRole, ApproveUser, TypeOK
  <2> QED
    BY <1>0, <2>1, <2>3, <2>4 DEF KeyKept, Exists, SessionKey
<1>5. ASSUME NEW i \in InviteId, NEW n \in Name, ClaimInvite(i, n) PROVE P
  <2>1. KeyIsNew(n) /\ fresh' = fresh + 1
    BY <1>5, NewUserHasANewKey DEF ClaimInvite
  <2>2. \A m \in Name \ {n} : users'[m] = users[m]
    BY <1>5 DEF ClaimInvite, TypeOK
  <2> QED
    BY <1>0, <2>1, <2>2 DEF KeyKept, Exists, SessionKey
<1>6. ASSUME NEW r \in ResetId, UseReset(r) PROVE P
  <2>1. resets[r].user \in Name
    BY <1>6 DEF UseReset, ResetOpen, TypeOK, Reset
  <2>2. Ends(resets[r].user)
    BY <1>6 DEF Ends
  <2> QED
    BY <1>2, <2>1, <2>2
<1>7. ASSUME NEW n \in Name, UserStep(n) PROVE P
  BY <1>2, <1>3, <1>4, <1>7 DEF UserStep, Ends
<1>8. ASSUME NEW i \in InviteId, InviteStep(i) PROVE P
  BY <1>1, <1>5, <1>8 DEF InviteStep, CreateInvite, RevokeInvite, InviteExpires
<1>9. ASSUME NEW r \in ResetId, ResetStep(r) PROVE P
  BY <1>1, <1>6, <1>9 DEF ResetStep, CreateReset, ResetExpires
<1>10. CASE UNCHANGED vars
  <2>1. UNCHANGED <<users, fresh>>
    BY <1>10 DEF vars
  <2> QED
    BY <1>1, <2>1
<1>11. CASE Next
  BY <1>7, <1>8, <1>9, <1>11 DEF Next
<1> QED
  BY <1>10, <1>11

LEMMA DrawnStep ==
  ASSUME TypeOK, KeysAreDrawn, [Next]_vars
  PROVE  KeysAreDrawn'
<1> SUFFICES ASSUME NEW n \in Name, Exists(n)'
             PROVE  users'[n].hash <= fresh' /\ users'[n].sessionsFrom <= fresh'
  BY DEF KeysAreDrawn
<1>1. fresh \in Nat /\ fresh' \in Nat /\ fresh <= fresh' /\ KeyKept(n)
  BY KeysChangeToNewOnes DEF TypeOK
<1>2. CASE KeyIsNew(n)
  BY <1>2 DEF KeyIsNew
<1>3. CASE Exists(n) /\ SessionKey(n)' = SessionKey(n)
  <2>1. users'[n].hash = users[n].hash /\ users'[n].sessionsFrom = users[n].sessionsFrom
    BY <1>3 DEF SessionKey
  <2>2. users[n].hash \in Nat /\ users[n].sessionsFrom \in Nat
    BY <1>3 DEF Exists, TypeOK, User
  <2>3. users[n].hash <= fresh /\ users[n].sessionsFrom <= fresh
    BY <1>3 DEF KeysAreDrawn
  <2> QED
    BY <1>1, <2>1, <2>2, <2>3
<1> QED
  BY <1>1, <1>2, <1>3 DEF KeyKept

-----------------------------------------------------------------------------
(* Cookies                                                                  *)

CookiesOK ==
  /\ cookie \in [Browser -> Cookie \cup {None}]
  /\ \A b \in Browser : cookie[b] # None => CookieFits(cookie[b], users, fresh)

\* A cookie keeps what holds of it through a step that leaves its account the
\* key it had, or a new one.
LEMMA CookieStep ==
  ASSUME TypeOK, fresh' \in Nat, fresh <= fresh',
         NEW c \in Cookie, CookieFits(c, users, fresh), KeyKept(c.name)
  PROVE  CookieFits(c, users', fresh')
<1>1. /\ fresh \in Nat /\ c.key.hash \in Nat /\ c.key.sessionsFrom \in Nat
      /\ c.key = [hash |-> c.key.hash, sessionsFrom |-> c.key.sessionsFrom]
      /\ c.key.hash <= fresh /\ c.key.sessionsFrom <= fresh
  BY DEF TypeOK, Cookie, CookieFits
<1>2. c.key.hash <= fresh' /\ c.key.sessionsFrom <= fresh'
  BY <1>1
<1>3. ASSUME c.ended, Exists(c.name)'
      PROVE  \/ c.key.hash # users'[c.name].hash
             \/ c.key.sessionsFrom # users'[c.name].sessionsFrom
  <2>1. CASE Exists(c.name) /\ SessionKey(c.name)' = SessionKey(c.name)
    BY <1>3, <2>1 DEF CookieFits, SessionKey, Exists
  <2>2. CASE KeyIsNew(c.name)
    <3>1. c.key.hash # fresh + 1 /\ c.key.sessionsFrom # fresh + 1
      BY <1>1
    <3> QED
      BY <2>2, <3>1 DEF KeyIsNew
  <2> QED
    BY <1>3, <2>1, <2>2 DEF KeyKept
<1> QED
  BY <1>2, <1>3 DEF CookieFits, Exists

\* Once the sessions of an account have ended, none of its cookies matches.
LEMMA EndedCookies ==
  ASSUME TypeOK, KeysAreDrawn, CookiesOK, [Next]_vars, NEW n \in Name, Ends(n)
  PROVE  /\ Ended(n) \in [Browser -> Cookie \cup {None}]
         /\ \A b \in Browser : Ended(n)[b] # None => CookieFits(Ended(n)[b], users', fresh')
<1>0. /\ fresh \in Nat /\ fresh' \in Nat /\ fresh <= fresh'
      /\ \A m \in Name : KeyKept(m)
  BY KeysChangeToNewOnes DEF TypeOK
<1>1. ASSUME NEW b \in Browser, cookie[b] # None, cookie[b].name = n
      PROVE  Ended(n)[b] \in Cookie /\ CookieFits(Ended(n)[b], users', fresh')
  <2> DEFINE d == [cookie[b] EXCEPT !.ended = TRUE]
  <2>1. cookie[b] \in Cookie /\ CookieFits(cookie[b], users, fresh)
    BY <1>1 DEF CookiesOK
  <2>2. d \in Cookie /\ d.key = cookie[b].key /\ d.name = n
    BY <1>1, <2>1 DEF Cookie
  <2>3. Ended(n)[b] = d
    BY <1>1 DEF Ended
  <2> HIDE DEF d
  <2>4. /\ d.key.hash \in Nat /\ d.key.sessionsFrom \in Nat
        /\ d.key.hash <= fresh /\ d.key.sessionsFrom <= fresh
    BY <2>1, <2>2 DEF Cookie, CookieFits
  <2>5. d.key.hash <= fresh' /\ d.key.sessionsFrom <= fresh'
    BY <1>0, <2>4
  <2>6. Exists(n)' => KeyIsNew(n)
    BY EndingDrawsAKey
  <2>7. d.key.hash # fresh + 1 /\ d.key.sessionsFrom # fresh + 1
    BY <1>0, <2>4
  <2>8. Exists(n)' => users'[n].hash # d.key.hash \/ users'[n].sessionsFrom # d.key.sessionsFrom
    BY <2>6, <2>7 DEF KeyIsNew
  <2>9. CookieFits(d, users', fresh')
    BY <2>2, <2>5, <2>8 DEF CookieFits, Exists
  <2> QED
    BY <2>2, <2>3, <2>9
<1>2. ASSUME NEW b \in Browser, ~ (cookie[b] # None /\ cookie[b].name = n)
      PROVE  /\ Ended(n)[b] = cookie[b] /\ cookie[b] \in Cookie \cup {None}
             /\ cookie[b] # None => CookieFits(cookie[b], users', fresh')
  <2>1. Ended(n)[b] = cookie[b] /\ cookie[b] \in Cookie \cup {None}
    BY <1>2 DEF Ended, CookiesOK
  <2>2. ASSUME cookie[b] # None PROVE CookieFits(cookie[b], users', fresh')
    <3>1. cookie[b] \in Cookie /\ cookie[b].name \in Name /\ CookieFits(cookie[b], users, fresh)
      BY <2>1, <2>2 DEF CookiesOK, Cookie
    <3> QED
      BY <1>0, <3>1, CookieStep
  <2> QED
    BY <2>1, <2>2
<1>3. Ended(n) = [b \in Browser |-> Ended(n)[b]]
  BY DEF Ended
<1> QED
  BY <1>1, <1>2, <1>3

\* The cookies that are kept.
LEMMA KeptCookies ==
  ASSUME TypeOK, KeysAreDrawn, CookiesOK, [Next]_vars
  PROVE  \A b \in Browser : cookie[b] # None => CookieFits(cookie[b], users', fresh')
<1> SUFFICES ASSUME NEW b \in Browser, cookie[b] # None PROVE CookieFits(cookie[b], users', fresh')
  OBVIOUS
<1>1. cookie[b] \in Cookie /\ cookie[b].name \in Name /\ CookieFits(cookie[b], users, fresh)
  BY DEF CookiesOK, Cookie
<1>2. fresh' \in Nat /\ fresh <= fresh' /\ KeyKept(cookie[b].name)
  BY <1>1, KeysChangeToNewOnes
<1> QED
  BY <1>1, <1>2, CookieStep

\* A session that is given out now matches the account.
LEMMA NewCookie ==
  ASSUME TypeOK, KeysAreDrawn, NEW n \in Name, Exists(n), UNCHANGED vars
  PROVE  NewSession(n) \in Cookie /\ CookieFits(NewSession(n), users', fresh')
<1>1. users[n] \in User /\ users[n].hash \in Nat /\ users[n].sessionsFrom \in Nat
  BY DEF Exists, TypeOK, User
<1>2. users[n].hash <= fresh' /\ users[n].sessionsFrom <= fresh'
  BY DEF vars, KeysAreDrawn
<1>3. NewSession(n) = [name |-> n, key |-> [hash |-> users[n].hash,
                                            sessionsFrom |-> users[n].sessionsFrom], ended |-> FALSE]
  BY DEF NewSession, SessionKey
<1> DEFINE c == NewSession(n)
<1>4. c \in Cookie
  BY <1>1, <1>3 DEF Cookie
<1>5. c.key.hash = users[n].hash /\ c.key.sessionsFrom = users[n].sessionsFrom /\ ~ c.ended
  BY <1>3
<1> HIDE DEF c
<1>6. CookieFits(c, users', fresh')
  BY <1>2, <1>5 DEF CookieFits
<1> QED
  BY <1>4, <1>6 DEF c

-----------------------------------------------------------------------------
(* Every step keeps the invariant                                           *)

\* The cookies after a step of a browser, or of the command line.
LEMMA CookiesKept ==
  ASSUME WebInv, [WebNext]_sessionVars
  PROVE  CookiesOK'
<1>0. TypeOK /\ KeysAreDrawn /\ CookiesOK /\ [Next]_vars
  BY WebStepOfAccounts DEF WebInv, WebTypeOK, CookiesOK
<1>1. \A b \in Browser : cookie[b] # None => CookieFits(cookie[b], users', fresh')
  BY <1>0, KeptCookies
<1>2. ASSUME UNCHANGED cookie PROVE CookiesOK'
  BY <1>0, <1>1, <1>2 DEF CookiesOK
<1>3. ASSUME NEW n \in Name, Ends(n), cookie' = Ended(n) PROVE CookiesOK'
  BY <1>0, <1>3, EndedCookies DEF CookiesOK
<1>4. ASSUME NEW n \in Name, NEW b \in Browser, Ends(n), cookie' = [Ended(n) EXCEPT ![b] = None]
      PROVE  CookiesOK'
  <2>1. /\ Ended(n) \in [Browser -> Cookie \cup {None}]
        /\ \A d \in Browser : Ended(n)[d] # None => CookieFits(Ended(n)[d], users', fresh')
    BY <1>0, <1>4, EndedCookies
  <2>2. /\ cookie' \in [Browser -> Cookie \cup {None}] /\ cookie'[b] = None
        /\ \A d \in Browser \ {b} : cookie'[d] = Ended(n)[d]
    BY <1>4, <2>1
  <2> QED
    BY <2>1, <2>2 DEF CookiesOK
<1>5. ASSUME NEW b \in Browser, NEW c \in Cookie, CookieFits(c, users', fresh'),
             cookie' = [cookie EXCEPT ![b] = c]
      PROVE  CookiesOK'
  <2>1. /\ cookie' \in [Browser -> Cookie \cup {None}] /\ cookie'[b] = c
        /\ \A d \in Browser \ {b} : cookie'[d] = cookie[d]
    BY <1>0, <1>5 DEF CookiesOK
  <2> QED
    BY <1>1, <1>5, <2>1 DEF CookiesOK
<1>6. ASSUME NEW b \in Browser, cookie' = [cookie EXCEPT ![b] = None] PROVE CookiesOK'
  <2>1. /\ cookie' \in [Browser -> Cookie \cup {None}] /\ cookie'[b] = None
        /\ \A d \in Browser \ {b} : cookie'[d] = cookie[d]
    BY <1>0, <1>6 DEF CookiesOK
  <2> QED
    BY <1>1, <2>1 DEF CookiesOK
<1>7. \A b \in Browser : request[b] # None => RequestFits(request[b])
  BY DEF WebInv
<1>8. ASSUME NEW n \in Name, CommandLine(n) PROVE CookiesOK'
  BY <1>2, <1>3, <1>8 DEF CommandLine, Ends
<1>9. ASSUME NEW b \in Browser, NEW n \in Name, HandleLogin(b, n) PROVE CookiesOK'
  BY <1>0, <1>5, <1>9, NewCookie DEF HandleLogin
<1>10. ASSUME NEW b \in Browser, HandleLogout(b) PROVE CookiesOK'
  <2>1. CASE cookie' = [cookie EXCEPT ![b] = None]
    BY <1>6, <2>1
  <2>2. CASE /\ SessionUser(b) # None /\ RevokeSessions(SessionUser(b))
             /\ cookie' = [Ended(SessionUser(b)) EXCEPT ![b] = None]
    <3>1. cookie[b] # None /\ cookie[b] \in Cookie /\ SessionUser(b) = cookie[b].name
      BY <1>0, <1>10, <2>2 DEF HandleLogout, SessionUser, CookiesOK
    <3>2. SessionUser(b) \in Name /\ Ends(SessionUser(b))
      BY <2>2, <3>1 DEF Cookie, Ends
    <3> QED
      BY <1>4, <2>2, <3>2
  <2> QED
    BY <1>10, <2>1, <2>2 DEF HandleLogout
<1>11. ASSUME NEW b \in Browser, request[b] # None, DoAdminister(b) PROVE CookiesOK'
  <2>1. CASE UNCHANGED cookie
    BY <1>2, <2>1
  <2>2. CASE /\ request[b].verb \in {"reject", "delete"} /\ DeleteUser(request[b].target)
             /\ cookie' = Ended(request[b].target)
    <3>1. request[b].target \in Name /\ Ends(request[b].target)
      BY <1>7, <1>11, <2>2 DEF RequestFits, Ends
    <3> QED
      BY <1>3, <2>2, <3>1
  <2> QED
    BY <1>11, <2>1, <2>2 DEF DoAdminister
<1>12. ASSUME NEW b \in Browser, request[b] # None, DoChangePassword(b) PROVE CookiesOK'
  <2>1. request[b].target \in Name /\ Ends(request[b].target)
    BY <1>7, <1>12 DEF DoChangePassword, RequestFits, Ends
  <2> QED
    BY <1>3, <1>12, <2>1 DEF DoChangePassword
<1>13. ASSUME NEW b \in Browser, request[b] # None, DoLand(b) PROVE CookiesOK'
  <2>1. request[b].target \in Name /\ Exists(request[b].target)
    BY <1>7, <1>13 DEF DoLand, RequestFits
  <2> QED
    BY <1>0, <1>5, <1>13, <2>1, NewCookie DEF DoLand
<1>14. ASSUME NEW b \in Browser, request[b] # None, DoClaim(b) PROVE CookiesOK'
  <2>1. PICK n \in Name :
          /\ ClaimInvite(request[b].target, n)
          /\ cookie' = [cookie EXCEPT ![b] =
               [name |-> n, key |-> [hash |-> fresh + 1, sessionsFrom |-> 0], ended |-> FALSE]]
    BY <1>14 DEF DoClaim
  <2> DEFINE c == [name |-> n, key |-> [hash |-> fresh + 1, sessionsFrom |-> 0], ended |-> FALSE]
  <2>2. fresh + 1 \in Nat /\ fresh' = fresh + 1 /\ fresh + 1 <= fresh' /\ 0 <= fresh'
    BY <1>0, <2>1 DEF ClaimInvite, TypeOK
  <2>3. c \in Cookie
    BY <2>2 DEF Cookie
  <2>4. c.key.hash = fresh + 1 /\ c.key.sessionsFrom = 0 /\ ~ c.ended /\ cookie' = [cookie EXCEPT ![b] = c]
    BY <2>1
  <2> HIDE DEF c
  <2>5. CookieFits(c, users', fresh')
    BY <2>2, <2>4 DEF CookieFits
  <2> QED
    BY <1>5, <2>3, <2>4, <2>5
<1>15. ASSUME NEW b \in Browser, request[b] # None, DoReset(b) PROVE CookiesOK'
  <2> DEFINE n == resets[request[b].target].user
  <2>1. request[b].target \in ResetId /\ UseReset(request[b].target)
        /\ cookie' = [Ended(n) EXCEPT ![b] = None]
    BY <1>7, <1>15 DEF DoReset, RequestFits
  <2>2. n \in Name /\ Ends(n)
    BY <1>0, <2>1 DEF Ends, UseReset, ResetOpen, TypeOK, Reset
  <2> HIDE DEF n
  <2> QED
    BY <1>4, <2>1, <2>2
<1>16. ASSUME NEW b \in Browser, BrowserStep(b) PROVE CookiesOK'
  <2>1. CASE Work(b)
    BY <1>11, <1>12, <1>13, <1>14, <1>15, <2>1 DEF Work
  <2>2. CASE \/ OpenAccountsPage(b)
             \/ \E verb \in Verb, n \in Name : PressOnAccountsPage(b, verb, n)
             \/ ChangePassword(b)
             \/ \E i \in InviteId : FollowInvite(b, i)
             \/ \E r \in ResetId : FollowReset(b, r)
             \/ AdministerInvites(b)
             \/ Fail(b)
    BY <1>2, <2>2 DEF OpenAccountsPage, PressOnAccountsPage, ChangePassword, FollowInvite,
                      FollowReset, Begin, AdministerInvites, Fail, web
  <2> QED
    BY <1>9, <1>10, <1>16, <2>1, <2>2 DEF BrowserStep
<1>17. CASE LinkExpires \/ UNCHANGED sessionVars
  BY <1>2, <1>17 DEF LinkExpires, sessionVars, web
<1> QED
  BY <1>8, <1>16, <1>17 DEF WebNext

\* The pages, the requests and the decisions.
WebRowsOK ==
  /\ page \in [Browser -> Page \cup {None}]
  /\ request \in [Browser -> Request \cup {None}]
  /\ \A b \in Browser : request[b] # None => RequestFits(request[b])
  /\ decided \subseteq [account : Nat, verb : {"approve", "reject"}]

LEMMA RowsKept ==
  ASSUME WebInv, [WebNext]_sessionVars
  PROVE  WebRowsOK'
<1>0. WebRowsOK /\ TypeOK
  BY DEF WebInv, WebTypeOK, WebRowsOK
<1>1. ASSUME UNCHANGED <<page, request, decided>> PROVE WebRowsOK'
  BY <1>0, <1>1 DEF WebRowsOK
<1>2. ASSUME NEW b \in Browser, NEW p \in Page \cup {None}, page' = [page EXCEPT ![b] = p],
             UNCHANGED <<request, decided>>
      PROVE  WebRowsOK'
  BY <1>0, <1>2 DEF WebRowsOK
<1>3. ASSUME NEW b \in Browser, NEW verb \in Verb, NEW target \in Name \cup InviteId \cup ResetId,
             RequestFits([verb |-> verb, target |-> target]), Begin(b, verb, target)
      PROVE  WebRowsOK'
  <2> DEFINE q == [verb |-> verb, target |-> target]
  <2>1. q \in Request
    BY DEF Request
  <2>2. RequestFits(q) /\ request' = [request EXCEPT ![b] = q] /\ page' = [page EXCEPT ![b] = None]
        /\ decided' = decided
    BY <1>3 DEF Begin
  <2> HIDE DEF q
  <2>3. request' \in [Browser -> Request \cup {None}]
        /\ \A d \in Browser : request'[d] # None => RequestFits(request'[d])
    <3>1. request'[b] = q /\ \A d \in Browser \ {b} : request'[d] = request[d]
      BY <1>0, <2>2 DEF WebRowsOK
    <3>2. request' \in [Browser -> Request \cup {None}]
      BY <1>0, <2>1, <2>2 DEF WebRowsOK
    <3> QED
      BY <1>0, <2>2, <3>1, <3>2 DEF WebRowsOK
  <2> QED
    BY <1>0, <2>2, <2>3 DEF WebRowsOK
<1>4. ASSUME NEW b \in Browser, Finish(b)
      PROVE  /\ request' \in [Browser -> Request \cup {None}]
             /\ \A d \in Browser : request'[d] # None => RequestFits(request'[d])
  <2>1. /\ request' \in [Browser -> Request \cup {None}] /\ request'[b] = None
        /\ \A d \in Browser \ {b} : request'[d] = request[d]
    BY <1>0, <1>4 DEF Finish, WebRowsOK
  <2> QED
    BY <1>0, <2>1 DEF WebRowsOK
<1>5. ASSUME NEW b \in Browser, HandleLogout(b) \/ \E n \in Name : HandleLogin(b, n)
      PROVE  WebRowsOK'
  BY <1>2, <1>5 DEF HandleLogout, HandleLogin
<1>6. ASSUME NEW b \in Browser, OpenAccountsPage(b) PROVE WebRowsOK'
  <2> DEFINE p == [waiting |-> {n \in Name : Exists(n) /\ users[n].pending},
                   members |-> {n \in Name : Exists(n) /\ ~ users[n].pending}]
  <2>1. p \in Page
    BY DEF Page
  <2>2. page' = [page EXCEPT ![b] = p] /\ UNCHANGED <<request, decided>>
    BY <1>6 DEF OpenAccountsPage
  <2> HIDE DEF p
  <2> QED
    BY <1>2, <2>1, <2>2
<1>7. ASSUME NEW b \in Browser, NEW verb \in Verb, NEW n \in Name, PressOnAccountsPage(b, verb, n)
      PROVE  WebRowsOK'
  <2>1. verb \in {"approve", "reject", "role", "delete", "link"} /\ Begin(b, verb, n)
    BY <1>7 DEF PressOnAccountsPage
  <2>2. RequestFits([verb |-> verb, target |-> n])
    BY <2>1 DEF RequestFits
  <2> QED
    BY <1>3, <2>1, <2>2
<1>8. ASSUME NEW b \in Browser, ChangePassword(b) PROVE WebRowsOK'
  <2>1. cookie[b] # None /\ cookie[b] \in Cookie /\ SessionUser(b) = cookie[b].name
    BY <1>8 DEF ChangePassword, SessionUser, WebInv, WebTypeOK
  <2>2. SessionUser(b) \in Name /\ Begin(b, "password", SessionUser(b))
    BY <1>8, <2>1 DEF ChangePassword, Cookie
  <2>3. RequestFits([verb |-> "password", target |-> SessionUser(b)])
    BY <2>2 DEF RequestFits
  <2>4. "password" \in Verb
    BY DEF Verb
  <2> QED
    BY <1>3, <2>2, <2>3, <2>4
<1>9. ASSUME NEW b \in Browser, NEW i \in InviteId, FollowInvite(b, i) PROVE WebRowsOK'
  <2>1. RequestFits([verb |-> "claim", target |-> i]) /\ "claim" \in Verb
    BY DEF RequestFits, Verb
  <2> QED
    BY <1>3, <1>9, <2>1 DEF FollowInvite
<1>10. ASSUME NEW b \in Browser, NEW r \in ResetId, FollowReset(b, r) PROVE WebRowsOK'
  <2>1. RequestFits([verb |-> "reset", target |-> r]) /\ "reset" \in Verb
    BY DEF RequestFits, Verb
  <2> QED
    BY <1>3, <1>10, <2>1 DEF FollowReset
<1>11. ASSUME NEW b \in Browser, Finish(b), UNCHANGED <<page, decided>> PROVE WebRowsOK'
  BY <1>0, <1>4, <1>11 DEF WebRowsOK
<1>12. ASSUME NEW b \in Browser, request[b] # None, DoAdminister(b) PROVE WebRowsOK'
  <2>1. Finish(b) /\ UNCHANGED page
    BY <1>12 DEF DoAdminister
  <2>2. CASE UNCHANGED decided
    BY <1>11, <2>1, <2>2
  <2>3. ASSUME NEW verb \in {"approve", "reject"}, request[b].verb = verb,
               Exists(request[b].target), Decide(request[b].target, verb)
        PROVE  WebRowsOK'
    <3>1. request[b].target \in Name
      BY <1>0, <1>12, <2>3 DEF WebRowsOK, RequestFits
    <3>2. users[request[b].target].since \in Nat
      BY <1>0, <2>3, <3>1 DEF TypeOK, Exists, User
    <3> QED
      BY <1>0, <1>4, <2>1, <2>3, <3>2 DEF WebRowsOK, Decide
  <2> QED
    BY <1>12, <2>2, <2>3 DEF DoAdminister, ApproveUser, DeleteUser
<1>13. ASSUME NEW b \in Browser, request[b] # None, DoChangePassword(b) PROVE WebRowsOK'
  <2>1. request[b] \in Request /\ request[b].target \in Name
    BY <1>0, <1>13 DEF DoChangePassword, WebRowsOK, RequestFits
  <2> DEFINE q == [request[b] EXCEPT !.verb = "landing"]
  <2>2. q \in Request /\ q.verb = "landing" /\ q.target \in Name
    BY <2>1 DEF Request, Verb
  <2>3. request' = [request EXCEPT ![b] = q] /\ UNCHANGED <<page, decided>>
    BY <1>13 DEF DoChangePassword
  <2> HIDE DEF q
  <2>4. RequestFits(q)
    BY <2>2 DEF RequestFits
  <2>5. request' \in [Browser -> Request \cup {None}] /\ request'[b] = q
        /\ \A d \in Browser \ {b} : request'[d] = request[d]
    BY <1>0, <2>2, <2>3 DEF WebRowsOK
  <2> QED
    BY <1>0, <2>3, <2>4, <2>5 DEF WebRowsOK
<1>14. ASSUME NEW b \in Browser, Work(b) PROVE WebRowsOK'
  BY <1>11, <1>12, <1>13, <1>14 DEF Work, DoLand, DoClaim, DoReset
<1>15. ASSUME NEW b \in Browser, Fail(b) PROVE WebRowsOK'
  BY <1>11, <1>15 DEF Fail
<1>16. ASSUME NEW b \in Browser, AdministerInvites(b) PROVE WebRowsOK'
  BY <1>1, <1>16 DEF AdministerInvites, web
<1>17. ASSUME NEW b \in Browser, BrowserStep(b) PROVE WebRowsOK'
  BY <1>5, <1>6, <1>7, <1>8, <1>9, <1>10, <1>14, <1>15, <1>16, <1>17 DEF BrowserStep
<1>18. ASSUME NEW n \in Name, CommandLine(n) PROVE WebRowsOK'
  BY <1>1, <1>18 DEF CommandLine
<1>19. CASE LinkExpires \/ UNCHANGED sessionVars
  BY <1>1, <1>19 DEF LinkExpires, sessionVars, web
<1> QED
  BY <1>17, <1>18, <1>19 DEF WebNext

LEMMA WebInvStep == WebInv /\ [WebNext]_sessionVars => WebInv'
<1> SUFFICES ASSUME WebInv, [WebNext]_sessionVars PROVE WebInv'
  OBVIOUS
<1>1. TypeOK /\ KeysAreDrawn /\ [Next]_vars
  BY WebStepOfAccounts DEF WebInv, WebTypeOK
<1>2. TypeOK' /\ KeysAreDrawn'
  BY <1>1, TypeStep, DrawnStep
<1>3. CookiesOK' /\ WebRowsOK'
  BY CookiesKept, RowsKept
<1> QED
  BY <1>2, <1>3 DEF WebInv, WebTypeOK, CookiesOK, WebRowsOK

-----------------------------------------------------------------------------
\* The cookies, the pages and the requests of auth.go, invite.go and admin.go keep
\* their types, every request names what its verb is about, and no cookie holds a
\* key that has not been drawn.
THEOREM WebInvariance == WebSpec => []WebInv
<1>1. WebInit => WebInv
  BY DEF WebInit, Init, WebInv, WebTypeOK, TypeOK, KeysAreDrawn, Exists
<1> QED
  BY <1>1, WebInvStep, PTL DEF WebSpec

\* The rows the handlers of auth.go, invite.go and admin.go read and write have
\* their types, whatever is done in between the two halves of a request.
THEOREM WebTypes == WebSpec => []WebTypeOK
<1>1. WebInv => WebTypeOK
  BY DEF WebInv
<1> QED
  BY <1>1, WebInvariance, PTL

\* auth.go and users.go, of SessionKey: a session that was ended is never good
\* again, whatever becomes of the account and of its name.
THEOREM EndedSessionsNeverReturn == WebSpec => []EndedSessionsStayEnded
<1>1. WebInv => EndedSessionsStayEnded
  <2> SUFFICES ASSUME WebInv, NEW b \in Browser, cookie[b] # None, cookie[b].ended
               PROVE  SessionUser(b) = None
    BY DEF EndedSessionsStayEnded
  <2>1. CookieFits(cookie[b], users, fresh)
    BY DEF WebInv
  <2>2. ASSUME Exists(cookie[b].name) PROVE cookie[b].key # SessionKey(cookie[b].name)
    BY <2>1, <2>2 DEF CookieFits, SessionKey, Exists
  <2> QED
    BY <2>2 DEF SessionUser
<1> QED
  BY <1>1, WebInvariance, PTL

\* admin.go, auth.go and invite.go reach the accounts through the operations of the
\* store alone: the web with its command line is a run of Accounts, and so keeps an
\* administrator, spends an invitation once, and lets no reset link outlive the
\* password it was minted against.
THEOREM WebImplementsAccounts == WebSpec => Spec
<1>1. WebInit => Init
  BY DEF WebInit
<1>2. WebInv /\ [WebNext]_sessionVars => [Next]_vars
  BY WebStepOfAccounts
<1> QED
  BY <1>1, <1>2, WebInvariance, PTL DEF WebSpec, Spec

\* What Accounts promises holds under the web: an invitation creates one account, no
\* reset link outlives the password it was minted against, and an instance that has an
\* administrator keeps one, whatever requests are caught between their two halves.
THEOREM AccountsUnderTheWeb ==
  WebSpec => []InvitesAreSpentOnce /\ []UnspentLinksAreCurrent /\ StaysAdministered
BY WebImplementsAccounts, InvitesSpentOnce, LinksDieWithThePassword, AlwaysAdministered, PTL

-----------------------------------------------------------------------------
(* Bootstrap                                                               *)

\* An account that still has to change its password has a file, or a server that is
\* about to write it.
OnFile(n) ==
  Exists(n) /\ users[n].mustChange =>
    file # None \/ \E p \in Process : phase[p] = "inserted"

\* k is the password of the first administrator among the rows u.
Opens(u, k) == u[Admin] # None /\ u[Admin].hash = k

\* The inductive invariant of Bootstrap.  A password that has been inserted and not
\* yet recorded opens the account already, so that recording it late does no harm.
BootInv ==
  /\ BootTypeOK
  /\ \A p \in Process : phase[p] = "inserted" => minted[p] # 0
  /\ ~changed => clearing = {}
  /\ ~changed /\ ~lost => \A n \in Name : OnFile(n)
  /\ ~changed /\ ~removed =>
       /\ \A p \in Process : phase[p] = "inserted" => Opens(users, minted[p])
       /\ file # None => Opens(users, file)

\* A server that starts, and whoever works beside it, uses the store's operations.
LEMMA BootStepOfAccounts ==
  ASSUME [BootNext]_bootVars
  PROVE  [Next]_vars
<1>1. AddUser(Admin, "admin", TRUE) => Next
  <2>1. AddUser(Admin, "admin", TRUE) => UserStep(Admin)
    BY RoleAssumption DEF UserStep
  <2>2. QED
    BY <2>1, BootAssumption DEF Next
<1>2. ASSUME NEW p \in Process, StartStep(p) \/ Crash(p) PROVE [Next]_vars
  BY <1>1, <1>2 DEF StartStep, Count, Insert, WriteInitialPassword, Crash
<1>3. ASSUME NEW n \in Name, ChangeAnyPassword(n) \/ Command(n) PROVE [Next]_vars
  <2>1. \A role \in Role : AddUser(n, role, FALSE) => UserStep(n)
    BY DEF UserStep
  <2>2. UserStep(n) => Next
    BY DEF Next
  <2>3. QED
    BY <1>3, <2>1, <2>2 DEF ChangeAnyPassword, Command, UserStep
<1>4. ASSUME NEW call \in clearing, ClearInitialPassword(call) PROVE [Next]_vars
  BY <1>4 DEF ClearInitialPassword
<1>5. QED
  BY <1>2, <1>3, <1>4 DEF BootNext, bootVars

\* An insert that succeeds finds no such account, so nothing is on file and nobody
\* else has anything to write.
LEMMA BootStepInv == BootInv /\ [BootNext]_bootVars => BootInv'
<1> SUFFICES ASSUME BootInv, [BootNext]_bootVars PROVE BootInv'
  OBVIOUS
<1>0. /\ TypeOK /\ TypeOK' /\ fresh \in Nat
      /\ phase \in [Process -> {"down", "counted", "inserted", "up"}]
      /\ minted \in [Process -> 0..fresh]
      /\ file \in (1..fresh) \cup {None}
      /\ clearing \subseteq 1..fresh
      /\ crashes \in 0..MaxCrashes /\ lost \in BOOLEAN
      /\ changed \in BOOLEAN /\ removed \in BOOLEAN
  BY BootStepOfAccounts, TypeStep DEF BootInv, BootTypeOK, TypeOK
<1>1. ASSUME UNCHANGED <<users, fresh, minted, file, clearing, changed, removed>>,
             crashes' \in 0..MaxCrashes, lost' \in BOOLEAN, lost => lost',
             phase' \in [Process -> {"down", "counted", "inserted", "up"}],
             \A p \in Process : phase'[p] = "inserted" => phase[p] = "inserted",
             ~lost' => \A p \in Process : phase[p] = "inserted" => phase'[p] = "inserted"
      PROVE  BootInv'
  <2>1. BootTypeOK'
    BY <1>0, <1>1 DEF BootTypeOK
  <2>2. ~changed /\ ~lost' => \A n \in Name : OnFile(n)'
    BY <1>1 DEF BootInv, OnFile, Exists
  <2>3. QED
    BY <1>1, <2>1, <2>2 DEF BootInv
<1>2. ASSUME NEW p \in Process, Count(p) PROVE BootInv'
  BY <1>0, <1>1, <1>2 DEF Count, vars
<1>3. ASSUME NEW p \in Process, Insert(p) PROVE BootInv'
  <2>1. UNCHANGED <<file, clearing, crashes, lost, changed, removed>>
    BY <1>3 DEF Insert
  <2>2. CASE /\ AddUser(Admin, "admin", TRUE)
             /\ phase' = [phase EXCEPT ![p] = "inserted"]
             /\ minted' = [minted EXCEPT ![p] = fresh + 1]
    <3>1. /\ fresh' = fresh + 1 /\ ~ Exists(Admin)
          /\ users' = [users EXCEPT ![Admin] = NewUser("admin", FALSE, TRUE)]
      BY <2>2 DEF AddUser, Draw
    <3>2. BootTypeOK'
      BY <1>0, <2>1, <2>2, <3>1 DEF BootTypeOK
    <3>3. \A q \in Process : phase'[q] = "inserted" => minted'[q] # 0
      BY <1>0, <2>2 DEF BootInv
    <3>4. \A n \in Name : OnFile(n)'
      BY <1>0, <2>2 DEF OnFile
    <3>5. Opens(users', fresh + 1)
      <4>1. NewUser("admin", FALSE, TRUE) \in User
        BY <1>0, RoleAssumption DEF NewUser, User
      <4>2. users'[Admin] = NewUser("admin", FALSE, TRUE)
        BY <1>0, <3>1, BootAssumption DEF TypeOK
      <4>3. NewUser("admin", FALSE, TRUE).hash = fresh + 1
        BY DEF NewUser
      <4>4. QED
        BY <4>1, <4>2, <4>3, NoneAssumption DEF Opens
    <3>6. ~changed /\ ~removed =>
            file = None /\ \A q \in Process : phase[q] # "inserted"
      BY <3>1 DEF BootInv, Opens, Exists
    <3>7. ~changed /\ ~removed =>
            /\ file' = None
            /\ \A q \in Process : phase'[q] = "inserted" => Opens(users', minted'[q])
      BY <1>0, <2>1, <2>2, <3>5, <3>6
    <3>8. QED
      BY <2>1, <3>2, <3>3, <3>4, <3>7 DEF BootInv
  <2>3. CASE phase' = [phase EXCEPT ![p] = "down"] /\ UNCHANGED <<vars, minted>>
    <3>1. phase[p] # "inserted"
      BY <1>3 DEF Insert
    <3>2. QED
      BY <1>0, <1>1, <2>1, <2>3, <3>1 DEF vars
  <2>4. QED
    BY <1>3, <2>2, <2>3 DEF Insert
<1>4. ASSUME NEW p \in Process, WriteInitialPassword(p) PROVE BootInv'
  <2>1. /\ phase[p] = "inserted"
        /\ file' = minted[p] /\ phase' = [phase EXCEPT ![p] = "up"]
        /\ UNCHANGED <<users, fresh, minted, clearing, crashes, lost, changed, removed>>
    BY <1>4 DEF WriteInitialPassword, vars
  <2>2. minted[p] \in 1..fresh /\ file' # None
    BY <1>0, <2>1, BootAssumption DEF BootInv
  <2>3. BootTypeOK'
    BY <1>0, <2>1, <2>2 DEF BootTypeOK
  <2>4. ~changed /\ ~removed => Opens(users', file')
    BY <2>1 DEF BootInv
  <2>5. \A q \in Process : phase'[q] = "inserted" => phase[q] = "inserted"
    BY <1>0, <2>1
  <2>6. QED
    BY <2>1, <2>2, <2>3, <2>4, <2>5 DEF BootInv, OnFile
<1>5. ASSUME NEW p \in Process, Crash(p) PROVE BootInv'
  <2>1. /\ crashes' = crashes + 1 /\ crashes' \in 0..MaxCrashes
        /\ lost' = (lost \/ phase[p] = "inserted")
        /\ phase' = [phase EXCEPT ![p] = "down"]
        /\ UNCHANGED <<users, fresh, minted, file, clearing, changed, removed>>
    BY <1>0, <1>5, BootAssumption DEF Crash, vars
  <2>2. QED
    BY <1>0, <1>1, <2>1
<1>6. ASSUME NEW n \in Name, ChangeAnyPassword(n) PROVE BootInv'
  <2>1. /\ fresh' = fresh + 1 /\ changed' = TRUE /\ clearing' = clearing \cup {fresh + 1}
        /\ UNCHANGED <<phase, minted, file, crashes, lost, removed>>
    BY <1>6 DEF ChangeAnyPassword, SetPassword, Draw
  <2>2. BootTypeOK'
    BY <1>0, <2>1 DEF BootTypeOK
  <2>3. QED
    BY <2>1, <2>2 DEF BootInv
<1>7. ASSUME NEW n \in Name, Command(n) PROVE BootInv'
  <2>1. /\ fresh' \in {fresh, fresh + 1} /\ removed' \in BOOLEAN /\ (removed => removed')
        /\ UNCHANGED <<phase, minted, file, clearing, crashes, lost, changed>>
    BY <1>0, <1>7 DEF Command, AddUser, DeleteUser, Draw
  <2>2. BootTypeOK'
    BY <1>0, <2>1 DEF BootTypeOK
  <2>3. \A m \in Name : users'[m] \in {users[m], None} \/ ~ users'[m].mustChange
    BY <1>0, <1>7 DEF Command, AddUser, NewUser, DeleteUser, TypeOK
  <2>4. ASSUME NEW m \in Name, OnFile(m) PROVE OnFile(m)'
    BY <2>1, <2>3, <2>4 DEF OnFile, Exists
  <2>5. ~removed' /\ users[Admin] # None => users'[Admin] = users[Admin]
    BY <1>0, <1>7, BootAssumption DEF Command, AddUser, DeleteUser, Exists, TypeOK
  <2>6. ~removed' => \A k : Opens(users, k) => Opens(users', k)
    BY <2>5 DEF Opens
  <2>7. ~changed' /\ ~removed' =>
          /\ \A p \in Process : phase'[p] = "inserted" => Opens(users', minted'[p])
          /\ file' # None => Opens(users', file')
    BY <2>1, <2>6 DEF BootInv
  <2>8. QED
    BY <2>1, <2>2, <2>4, <2>7 DEF BootInv
<1>8. ASSUME NEW call \in clearing, ClearInitialPassword(call) PROVE BootInv'
  <2>1. /\ clearing' = clearing \ {call} /\ file' \in {None, file}
        /\ UNCHANGED <<fresh, phase, minted, crashes, lost, changed, removed>>
    BY <1>8 DEF ClearInitialPassword, vars
  <2>2. BootTypeOK'
    BY <1>0, <2>1 DEF BootTypeOK
  <2>3. changed
    BY <1>0, <1>8 DEF BootInv
  <2>4. QED
    BY <2>1, <2>2, <2>3 DEF BootInv
<1>9. CASE UNCHANGED bootVars
  BY <1>0, <1>1, <1>9 DEF bootVars, boot, vars
<1>10. QED
  BY <1>2, <1>3, <1>4, <1>5, <1>6, <1>7, <1>8, <1>9 DEF BootNext, StartStep

\* However many servers start beside each other and crash, the invariant is kept.
THEOREM BootInvariance == BootSpec => []BootInv
<1>1. BootInit => BootInv
  <2> SUFFICES ASSUME BootInit PROVE BootInv
    OBVIOUS
  <2>1. TypeOK /\ fresh = 0
    <3>1. Init
      BY DEF BootInit
    <3>2. QED
      BY <3>1 DEF Init, TypeOK
  <2>2. BootTypeOK
    <3>1. 0 \in 0..fresh /\ 0 \in 0..MaxCrashes
      BY <2>1, BootAssumption
    <3>2. QED
      BY <2>1, <3>1 DEF BootInit, BootTypeOK
  <2>3. \A n \in Name : ~ Exists(n)
    BY DEF BootInit, Init, Exists
  <2>4. QED
    BY <2>2, <2>3 DEF BootInit, BootInv, OnFile, Opens
<1>2. QED
  BY <1>1, BootStepInv, PTL DEF BootSpec

\* What is on file is a password that has been drawn, or there is no file.
THEOREM BootTypes == BootSpec => []BootTypeOK
<1>1. BootInv => BootTypeOK
  BY DEF BootInv
<1>2. QED
  BY <1>1, BootInvariance, PTL

\* store.go, of the error InitialPassword returns, "this instance has already been
\* set up": for any number of servers racing to insert the first administrator, when
\* all are up no account is left with a password that is not on file, unless one
\* crashed between the insert and the file or a password has been set.
THEOREM NoFileIsSetUp == BootSpec => []NoFileMeansSetUp
<1>1. BootInv => NoFileMeansSetUp
  BY DEF BootInv, OnFile, NoFileMeansSetUp
<1>2. QED
  BY <1>1, BootInvariance, PTL

\* store.go, of InitialPassword and clearInitialPassword: any number of servers race,
\* crash anywhere and are restarted, and what is on file is the password of the first
\* administrator until that account is deleted or somebody sets a password.
THEOREM FileOpensTheDoor == BootSpec => []FileIsTheWayIn
<1>1. BootInv => FileIsTheWayIn
  BY DEF BootInv, Opens, FileIsTheWayIn, Exists
<1>2. QED
  BY <1>1, BootInvariance, PTL

\* bootstrapAdmin, the command line and whatever clears the file reach the accounts
\* through the operations of the store alone.
THEOREM BootImplementsAccounts == BootSpec => Spec
<1>1. BootInit => Init
  BY DEF BootInit
<1>2. [BootNext]_bootVars => [Next]_vars
  BY BootStepOfAccounts
<1>3. QED
  BY <1>1, <1>2, PTL DEF BootSpec, Spec

\* Once a server has inserted an administrator the instance stays administered.
THEOREM BootStaysAdministered == BootSpec => StaysAdministered
BY BootImplementsAccounts, AlwaysAdministered, PTL
=============================================================================
