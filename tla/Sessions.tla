------------------------------ MODULE Sessions ------------------------------
(***************************************************************************)
(* Who reaches the accounts from a browser: the session cookie, the gate   *)
(* in front of a handler and the handlers of auth.go, invite.go and        *)
(* admin.go in internal/web, over the store of Accounts.  There is no      *)
(* session table: a cookie is good as long as its MAC still matches the    *)
(* row of its account.  A handler that changes the accounts is two steps,  *)
(* the checks it makes and the store call that follows, because the store  *)
(* is free to other requests in between.                                   *)
(***************************************************************************)
EXTENDS Accounts

CONSTANT Browser

VARIABLES
  cookie,    \* cookie[b]: the session cookie b holds, or None
  page,      \* page[b]: the accounts page b has open, or None
  request,   \* request[b]: a request of b past its checks, or None
  decided    \* history: the decisions that succeeded on requests for an account

web == <<cookie, page, request, decided>>
sessionVars == <<vars, web>>

\* Mutant: the MAC covers the instant of signing out, and not the hash.
SessionKeyOfInstant(n) == [hash |-> 0, sessionsFrom |-> users[n].sessionsFrom]

\* What the MAC covers besides the account's name.
SessionKey(n) == [hash |-> users[n].hash, sessionsFrom |-> users[n].sessionsFrom]

\* ended is history: the account has since been signed out or deleted, or its
\* password has been changed.
Cookie == [name : Name, key : [hash : Nat, sessionsFrom : Nat], ended : BOOLEAN]
Page == [waiting : SUBSET Name, members : SUBSET Name]
Verb == {"approve", "reject", "role", "delete", "link", "password", "landing", "claim", "reset"}
Request == [verb : Verb, target : Name \cup InviteId \cup ResetId]

WebTypeOK ==
  /\ TypeOK
  /\ cookie \in [Browser -> Cookie \cup {None}]
  /\ page \in [Browser -> Page \cup {None}]
  /\ request \in [Browser -> Request \cup {None}]
  /\ decided \subseteq [account : Nat, verb : {"approve", "reject"}]

NewSession(n) == [name |-> n, key |-> SessionKey(n), ended |-> FALSE]

\* The account whose session b holds, or None.
SessionUser(b) ==
  IF /\ cookie[b] # None
     /\ Exists(cookie[b].name)
     /\ cookie[b].key = SessionKey(cookie[b].name)
  THEN cookie[b].name ELSE None

\* requireRole for an administrator's page.
MayAdminister(b) ==
  LET u == SessionUser(b) IN u # None /\ u \in ApprovedAdmins /\ ~ users[u].mustChange

\* The cookies of an account whose sessions end here.
Ended(n) == [b \in Browser |-> IF cookie[b] # None /\ cookie[b].name = n
                               THEN [cookie[b] EXCEPT !.ended = TRUE] ELSE cookie[b]]

WebInit ==
  /\ Init
  /\ cookie = [b \in Browser |-> None]
  /\ page = [b \in Browser |-> None]
  /\ request = [b \in Browser |-> None]
  /\ decided = {}

-----------------------------------------------------------------------------
(* The command line                                                        *)

CommandLine(n) ==
  /\ \/ /\ \E role \in Role : AddUser(n, role, FALSE) \/ SetRole(n, role)
        /\ UNCHANGED cookie
     \/ (SetPassword(n) \/ DeleteUser(n)) /\ cookie' = Ended(n)
  /\ UNCHANGED <<page, request, decided>>

-----------------------------------------------------------------------------
(* Signing in and out                                                      *)

\* A page is good for one cookie: its CSRF token is derived from it.
HandleLogin(b, n) ==
  /\ request[b] = None
  /\ Exists(n)
  /\ cookie' = [cookie EXCEPT ![b] = NewSession(n)]
  /\ page' = [page EXCEPT ![b] = None]
  /\ UNCHANGED <<vars, request, decided>>

\* The sessions of the account end on every device, unless RevokeSessions fails.
HandleLogout(b) ==
  /\ request[b] = None
  /\ cookie[b] # None
  /\ \/ /\ SessionUser(b) # None
        /\ RevokeSessions(SessionUser(b))
        /\ cookie' = [Ended(SessionUser(b)) EXCEPT ![b] = None]
     \/ cookie' = [cookie EXCEPT ![b] = None] /\ UNCHANGED vars
  /\ page' = [page EXCEPT ![b] = None]
  /\ UNCHANGED <<request, decided>>

-----------------------------------------------------------------------------
(* A request passes its checks                                             *)

\* The browser leaves the page it was on.
Begin(b, verb, target) ==
  /\ request[b] = None
  /\ request' = [request EXCEPT ![b] = [verb |-> verb, target |-> target]]
  /\ page' = [page EXCEPT ![b] = None]
  /\ UNCHANGED <<vars, cookie, decided>>

\* handleUsers: accounts awaiting approval are listed apart from the others.
OpenAccountsPage(b) ==
  /\ request[b] = None
  /\ MayAdminister(b)
  /\ page' = [page EXCEPT ![b] =
       [waiting |-> {n \in Name : Exists(n) /\ users[n].pending},
        members |-> {n \in Name : Exists(n) /\ ~ users[n].pending}]]
  /\ UNCHANGED <<vars, cookie, request, decided>>

\* A button of the accounts page, and handleUsersPost up to its store call.
PressOnAccountsPage(b, verb, n) ==
  /\ page[b] # None
  /\ MayAdminister(b)
  /\ \/ verb = "approve" /\ n \in page[b].waiting
     \/ verb = "reject" /\ n \in page[b].waiting /\ n # SessionUser(b)
     \/ verb \in {"role", "delete"} /\ n \in page[b].members /\ n # SessionUser(b)
     \/ verb = "link" /\ n \in page[b].members
  /\ Begin(b, verb, n)

\* handlePasswordChange up to Authenticate.
ChangePassword(b) ==
  /\ SessionUser(b) # None
  /\ ~ users[SessionUser(b)].pending
  /\ Begin(b, "password", SessionUser(b))

\* handleInviteClaim and handleReset up to their transactions.
FollowInvite(b, i) == InviteOpen(i) /\ Begin(b, "claim", i)
FollowReset(b, r) == ResetOpen(r) /\ Begin(b, "reset", r)

-----------------------------------------------------------------------------
(* A request does its work                                                 *)

Finish(b) == request' = [request EXCEPT ![b] = None]
Decide(n, verb) == decided' = decided \cup {[account |-> users[n].since, verb |-> verb]}

\* The store call is refused, or the database is busy: nothing has changed.
Fail(b) ==
  /\ request[b] # None
  /\ Finish(b)
  /\ UNCHANGED <<vars, cookie, page, decided>>

\* handleUsersPost from its store call on.  Rejecting is deleting: what was a
\* request for an account when the page was drawn may be an account by now.
DoAdminister(b) ==
  LET verb == request[b].verb
      n == request[b].target
  IN  /\ \/ /\ verb = "approve" /\ \E role \in Role : ApproveUser(n, role)
            /\ Decide(n, "approve")
            /\ UNCHANGED cookie
         \/ /\ verb = "reject" /\ DeleteUser(n)
            /\ cookie' = Ended(n)
            /\ Decide(n, "reject")
         \/ /\ verb = "delete" /\ DeleteUser(n)
            /\ cookie' = Ended(n)
            /\ UNCHANGED decided
         \/ /\ \/ verb = "role" /\ \E role \in Role : SetRole(n, role)
               \/ verb = "link" /\ \E r \in ResetId : CreateReset(r, n)
            /\ UNCHANGED <<cookie, decided>>
      /\ Finish(b)
      /\ UNCHANGED page

\* The password is set; the account is then looked up again.
DoChangePassword(b) ==
  /\ request[b].verb = "password"
  /\ SetPassword(request[b].target)
  /\ cookie' = Ended(request[b].target)
  /\ request' = [request EXCEPT ![b].verb = "landing"]
  /\ UNCHANGED <<page, decided>>

\* The new session, from whatever row is there now.  There may be none, and the
\* handler then fails.
DoLand(b) ==
  /\ request[b].verb = "landing"
  /\ Exists(request[b].target)
  /\ cookie' = [cookie EXCEPT ![b] = NewSession(request[b].target)]
  /\ Finish(b)
  /\ UNCHANGED <<vars, page, decided>>

\* The visitor is signed in to the account, which awaits approval.
DoClaim(b) ==
  /\ request[b].verb = "claim"
  /\ \E n \in Name :
       /\ ClaimInvite(request[b].target, n)
       /\ cookie' = [cookie EXCEPT ![b] =
            [name |-> n, key |-> [hash |-> fresh + 1, sessionsFrom |-> 0], ended |-> FALSE]]
  /\ Finish(b)
  /\ UNCHANGED <<page, decided>>

DoReset(b) ==
  LET r == request[b].target IN
  /\ request[b].verb = "reset"
  /\ UseReset(r)
  /\ cookie' = [Ended(resets[r].user) EXCEPT ![b] = None]
  /\ Finish(b)
  /\ UNCHANGED <<page, decided>>

\* handleInvitesPost.
AdministerInvites(b) ==
  /\ request[b] = None
  /\ MayAdminister(b)
  /\ \E i \in InviteId : RevokeInvite(i) \/ \E role \in Role : CreateInvite(i, role)
  /\ UNCHANGED web

-----------------------------------------------------------------------------
Work(b) ==
  /\ request[b] # None
  /\ DoAdminister(b) \/ DoChangePassword(b) \/ DoLand(b) \/ DoClaim(b) \/ DoReset(b)

BrowserStep(b) ==
  \/ \E n \in Name : HandleLogin(b, n)
  \/ HandleLogout(b)
  \/ OpenAccountsPage(b)
  \/ \E verb \in Verb, n \in Name : PressOnAccountsPage(b, verb, n)
  \/ ChangePassword(b)
  \/ \E i \in InviteId : FollowInvite(b, i)
  \/ \E r \in ResetId : FollowReset(b, r)
  \/ AdministerInvites(b)
  \/ Work(b)
  \/ Fail(b)

LinkExpires ==
  /\ (\E i \in InviteId : InviteExpires(i)) \/ (\E r \in ResetId : ResetExpires(r))
  /\ UNCHANGED web

WebNext ==
  \/ \E n \in Name : CommandLine(n)
  \/ \E b \in Browser : BrowserStep(b)
  \/ LinkExpires

WebSpec == WebInit /\ [][WebNext]_sessionVars

-----------------------------------------------------------------------------
(* Properties                                                              *)

\* auth.go and users.go, of SessionKey: a session that was ended, by signing out
\* on any device, by a change of password on any route, or with its account, is
\* never good again, whatever becomes of the account and of its name.
EndedSessionsStayEnded ==
  \A b \in Browser : (cookie[b] # None /\ cookie[b].ended) => SessionUser(b) = None

\* DESIGN.md, "approving while another rejects": "exactly one wins and the rest
\* are refused".  A request for an account is not both approved and rejected.
OneDecisionWins ==
  \A d, e \in decided : d.account = e.account => d.verb = e.verb
=============================================================================
