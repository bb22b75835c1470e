------------------------------ MODULE Sessions ------------------------------
(***************************************************************************)
(* The sessions of one account, of a tenant or of the platform, and the    *)
(* page that holds one of them in its cookies: login, silent refresh with  *)
(* rotation of the refresh token, logout, the change of the initial        *)
(* password, and what administrators do to the account.                    *)
(*                                                                         *)
(* A page makes several calls at once. Each that is answered 401 asks for  *)
(* a refresh of its own, and tries again once; nothing joins the refreshes *)
(* of one page. The server compares the token of a refresh in one          *)
(* statement and stores the new one in another.                            *)
(***************************************************************************)
EXTENDS Naturals

CONSTANTS
  Realms,       \* "tenant" and "platform": whose accounts are checked
  Sessions,     \* session rows
  Calls,        \* calls the page may have under way at the same time
  MaxTokens,    \* bound: refresh tokens issued
  MaxChanges,   \* bound: changes of the account
  MayFail,      \* whether calls and refreshes fail, and answers are lost
  None          \* null

ASSUME ConstantsAssumption ==
  /\ Realms \subseteq {"tenant", "platform"} /\ Realms # {}
  /\ Sessions # {} /\ None \notin Sessions
  /\ MaxTokens \in Nat \ {0} /\ MaxChanges \in Nat /\ MayFail \in BOOLEAN

VARIABLES
  realm,     \* whose account this is
  account,   \* the row of users or platform_admins, and whether its tenant is served
  session,   \* the rows of sessions or platform_sessions
  issued,    \* refresh tokens issued so far
  jar,       \* the cookies: the session of a live access token, the refresh token
  page,      \* in; out: a call was answered 401 for good; left: by choice
  call,      \* the calls of the page
  login,     \* a login between its check of the password and its session
  changing,  \* a change of the initial password between its check and its transaction
  admin,     \* an operator's manager between the change and the revocation
  changes,   \* changes of the account so far
  upset      \* since the page logged in: refreshes overlapped, an answer to one was
             \* lost, or a call was there before

vars == <<realm, account, session, issued, jar, page, call, login, changing, admin,
          changes, upset>>

\* A refresh token names its session, and no two that are issued are the same.
NoToken == [of |-> None, serial |-> 0]
Token == [of : Sessions \cup {None}, serial : 0..MaxTokens]
TokenOf(s, serial) == [of |-> s, serial |-> serial]

\* The version of the password is what its hash stands for. A tenant that is no
\* longer served is being deleted in staging, or is gone.
Account == [active : BOOLEAN, served : BOOLEAN, password : Nat, identity : Nat, initial : BOOLEAN]

SessionRow == [state : {"none", "open", "expired", "revoked"}, serial : 0..MaxTokens,
               identity : Nat, password : Nat, overtaken : BOOLEAN]
NoRow == [state |-> "none", serial |-> 0, identity |-> 0, password |-> 0, overtaken |-> FALSE]

\* Denied: answered 401 again after a refresh, or refused one. Failed: there is no
\* such answer, but the page knows only that its call, or its refresh, did not succeed.
CallStates == {"idle", "sent", "refused", "refreshing", "rotating", "granted", "denied", "failed"}
Idle == [pc |-> "idle", retried |-> FALSE, access |-> None, token |-> NoToken]
NoLogin == [pc |-> "idle", by |-> "other", password |-> 0, identity |-> 0]

\* A tenant's user has the initial password and may keep it: nothing else here
\* depends on the flag, so a user without it does nothing that this one cannot do.
Init ==
  /\ realm \in Realms
  /\ account = [active |-> TRUE, served |-> TRUE, password |-> 1, identity |-> 1,
                initial |-> realm = "tenant"]
  /\ \E s \in Sessions :
       /\ session = [t \in Sessions |->
            IF t # s THEN NoRow
            ELSE [NoRow EXCEPT !.state = "open", !.serial = 1, !.identity = 1, !.password = 1]]
       /\ jar = [access |-> s, token |-> TokenOf(s, 1)]
  /\ issued = 1
  /\ page = "in"
  /\ call = [c \in Calls |-> Idle]
  /\ login = NoLogin
  /\ changing = FALSE
  /\ admin = "idle"
  /\ changes = 0
  /\ upset = FALSE

-----------------------------------------------------------------------------
(***************************************************************************)
(* The checks of the server.                                               *)
(***************************************************************************)
Admitted == account.served /\ account.active

\* The platform looks at the session of every call. A tenant's is not looked at:
\* its access token is good until it expires, whatever was revoked meanwhile.
SameIdentity(s) == session[s].identity = account.identity
Usable(s) ==
  /\ Admitted
  /\ realm = "platform" => session[s].state = "open" /\ SameIdentity(s)

Accepts(s) == s # None /\ Usable(s)

\* A token is signed, not out of date, and names a session.
Verifies(t) == t.of # None

Matches(t) ==
  /\ Verifies(t)
  /\ session[t.of].state = "open" /\ session[t.of].serial = t.serial
  /\ realm = "platform" => Usable(t.of)

Revoked(x) == IF x.state \in {"open", "expired"} THEN [x EXCEPT !.state = "revoked"] ELSE x
AllButCurrent == [s \in Sessions |-> IF s = jar.token.of THEN session[s] ELSE Revoked(session[s])]
AllRevoked == [s \in Sessions |-> Revoked(session[s])]

-----------------------------------------------------------------------------
(***************************************************************************)
(* The calls of a page.                                                    *)
(***************************************************************************)
Step(c, rec) ==
  /\ call' = [call EXCEPT ![c] = rec]
  /\ UNCHANGED <<realm, account, login, changing, admin, changes>>

Send(c) ==
  /\ page = "in" /\ call[c] = Idle
  /\ Step(c, [Idle EXCEPT !.pc = "sent", !.access = jar.access])
  /\ UNCHANGED <<session, issued, jar, page, upset>>

\* A 401 makes the page ask for a refresh, once; but not for the calls the
\* console makes to /api/platform/auth.
Refusal(q) ==
  IF q.retried THEN {"denied"}
  ELSE IF realm = "platform" THEN {"refused", "failed"} ELSE {"refused"}

\* The call is answered or refused. A tenant's account that is disabled loses
\* its sessions, unless the tenant is no longer served.
Authenticate(c) ==
  LET q == call[c] IN
  /\ q.pc = "sent"
  /\ \E pc \in IF Accepts(q.access) THEN {"idle"} ELSE Refusal(q) :
       Step(c, [Idle EXCEPT !.pc = pc])
  /\ session' = IF realm = "tenant" /\ q.access # None /\ account.served /\ ~account.active
                THEN AllRevoked ELSE session
  /\ UNCHANGED <<issued, jar, page, upset>>

\* Another refresh of the page that has not been answered yet.
Refreshing(d) == call[d].pc \in {"refreshing", "rotating", "granted"}

AskRefresh(c) ==
  /\ call[c].pc = "refused"
  /\ Step(c, [call[c] EXCEPT !.pc = "refreshing", !.token = jar.token])
  /\ upset' = (upset \/ \E d \in Calls : Refreshing(d))
  /\ UNCHANGED <<session, issued, jar, page>>

CompareToken(c) ==
  LET t == call[c].token IN
  /\ call[c].pc = "refreshing"
  /\ Matches(t) /\ Admitted
  /\ issued < MaxTokens
  /\ issued' = issued + 1
  /\ Step(c, [call[c] EXCEPT !.pc = "rotating", !.token = TokenOf(t.of, issued + 1)])
  /\ UNCHANGED <<session, jar, page, upset>>

\* A refresh that is refused revokes: for a disabled tenant account all there
\* is, for the platform the session that was named. A tenant that is no longer
\* served is refused and nothing is written.
DenyRefresh(c) ==
  LET t == call[c].token IN
  /\ call[c].pc = "refreshing"
  /\ ~(Matches(t) /\ Admitted)
  /\ Step(c, [Idle EXCEPT !.pc = "denied"])
  /\ session' = IF realm = "tenant"
                THEN IF Matches(t) /\ account.served THEN AllRevoked ELSE session
                ELSE IF Verifies(t) THEN [session EXCEPT ![t.of] = Revoked(@)] ELSE session
  /\ UNCHANGED <<issued, jar, page, upset>>

\* A refresh that opened the session again, and one that stored nothing.
RotatedOpen(x, serial) == [x EXCEPT !.serial = serial, !.state = "open"]
NotRotated(x, serial) == x

\* The new token is stored by the session's id alone.
Rotated(x, serial) == [x EXCEPT !.serial = serial]

WriteHash(c) ==
  LET t == call[c].token IN
  /\ call[c].pc = "rotating" /\ account.served
  /\ session' = [session EXCEPT ![t.of] = Rotated(@, t.serial)]
  /\ Step(c, [call[c] EXCEPT !.pc = "granted"])
  /\ UNCHANGED <<issued, jar, page, upset>>

\* The cookies are those of the answer that came last; the call is sent again.
Receive(c) ==
  LET t == call[c].token IN
  /\ call[c].pc = "granted"
  /\ jar' = [access |-> t.of, token |-> t]
  /\ Step(c, [Idle EXCEPT !.pc = "sent", !.retried = TRUE, !.access = t.of])
  /\ UNCHANGED <<session, issued, page, upset>>

\* A statement of the server fails, or the connection: any answer to a refresh
\* that is no success leaves the page with the first 401. A token that was
\* stored by then is one the page never gets.
Fail(c) ==
  /\ MayFail /\ call[c].pc \in {"sent", "refreshing", "rotating", "granted"}
  /\ Step(c, [Idle EXCEPT !.pc = "failed"])
  /\ upset' = (upset \/ call[c].pc = "granted")
  /\ UNCHANGED <<session, issued, jar, page>>

\* The page takes a call that is refused for good, and a failed one that had been
\* answered 401 before, for the end of its session; it shows any other error, and
\* ignores the answer to a load that another has taken the place of.
SignOut(c) ==
  /\ call[c].pc \in {"denied", "failed"}
  /\ Step(c, Idle)
  /\ page' \in {page, IF page = "in" THEN "out" ELSE page}
  /\ UNCHANGED <<session, issued, jar, upset>>

-----------------------------------------------------------------------------
(***************************************************************************)
(* Login, by the page or from another device, logout, and expiry.          *)
(***************************************************************************)
VerifyPassword ==
  /\ login = NoLogin /\ Admitted
  /\ \E by \in {"page", "other"} :
       /\ by = "page" => page # "in"
       /\ login' = [pc |-> "verified", by |-> by, password |-> account.password,
                    identity |-> account.identity]
  /\ UNCHANGED <<realm, account, session, issued, jar, page, call, changing, admin, changes,
                 upset>>

\* A session with the identity version of the time it is created.
NewSessionOfNow(serial) ==
  [state |-> "open", serial |-> serial, identity |-> account.identity,
   password |-> login.password, overtaken |-> login.password # account.password]

\* The session bears the identity version that was read with the password.
NewSession(serial) ==
  [state |-> "open", serial |-> serial, identity |-> login.identity,
   password |-> login.password, overtaken |-> login.password # account.password]

CreateSession ==
  \E s \in Sessions :
    /\ login.pc = "verified" /\ session[s] = NoRow /\ issued < MaxTokens /\ account.served
    /\ issued' = issued + 1
    /\ session' = [session EXCEPT ![s] = NewSession(issued + 1)]
    /\ login' = NoLogin
    /\ IF login.by = "page"
       THEN /\ page' = "in"
            /\ jar' = [access |-> s, token |-> TokenOf(s, issued + 1)]
            /\ upset' = \E c \in Calls : call[c] # Idle
       ELSE UNCHANGED <<page, jar, upset>>
    /\ UNCHANGED <<realm, account, call, changing, admin, changes>>

\* Only the session whose last token the cookie holds is revoked.
RevokedByLogout(t) ==
  IF Verifies(t) /\ session[t.of].serial = t.serial /\ account.served
  THEN [session EXCEPT ![t.of] = Revoked(@)] ELSE session

Logout ==
  /\ page = "in"
  /\ session' = RevokedByLogout(jar.token)
  /\ jar' = [access |-> None, token |-> NoToken]
  /\ page' = "left"
  /\ UNCHANGED <<realm, account, issued, call, login, changing, admin, changes, upset>>

\* An access token outlives the call that is repeated with it.
AccessExpires ==
  /\ jar.access # None
  /\ \A c \in Calls : call[c].pc # "granted" /\ ~call[c].retried
  /\ jar' = [jar EXCEPT !.access = None]
  /\ UNCHANGED <<realm, account, session, issued, page, call, login, changing, admin, changes, upset>>

SessionExpires ==
  \E s \in Sessions :
    /\ session[s].state = "open"
    /\ session' = [session EXCEPT ![s].state = "expired"]
    /\ UNCHANGED <<realm, account, issued, jar, page, call, login, changing, admin, changes,
                   upset>>

-----------------------------------------------------------------------------
(***************************************************************************)
(* What happens to the account.                                            *)
(***************************************************************************)
Change(acc) ==
  /\ changes < MaxChanges /\ account.served
  /\ changes' = changes + 1
  /\ account' = acc
  /\ UNCHANGED <<realm, issued, call, login, upset>>

\* changeInitialPassword looks at the flag, hashes, and then writes the account
\* and the sessions in one transaction. Its answer clears the cookies.
BeginInitialChange ==
  /\ realm = "tenant" /\ page = "in" /\ Accepts(jar.access)
  /\ account.initial /\ ~changing
  /\ changing' = TRUE
  /\ UNCHANGED <<realm, account, session, issued, jar, page, call, login, admin, changes,
                 upset>>

CommitInitialChange ==
  /\ changing
  /\ changing' = FALSE
  /\ Change([account EXCEPT !.password = @ + 1, !.initial = FALSE])
  /\ session' = AllRevoked
  /\ jar' = [access |-> None, token |-> NoToken]
  /\ page' = "left"
  /\ UNCHANGED admin

\* A tenant's manager changes an operator, and revokes in a second statement.
ManageOperator ==
  /\ realm = "tenant" /\ admin # "revoke"
  /\ \/ /\ admin' = "revoke"
        /\ \/ Change([account EXCEPT !.password = @ + 1])   \* reset
           \/ Change([account EXCEPT !.active = FALSE])     \* disabled
           \/ Change(account)                               \* renamed
     \/ /\ ~account.active
        /\ UNCHANGED admin
        /\ Change([account EXCEPT !.active = TRUE])
  /\ UNCHANGED <<session, jar, page, changing>>

RevokeUserSessions ==
  /\ admin = "revoke" /\ account.served
  /\ admin' = "idle"
  /\ session' = AllRevoked
  /\ UNCHANGED <<realm, account, issued, jar, page, call, login, changing, changes, upset>>

\* The process ends, or the second statement fails.
RevocationFails ==
  /\ admin = "revoke"
  /\ admin' = "failed"
  /\ UNCHANGED <<realm, account, session, issued, jar, page, call, login, changing, changes,
                 upset>>

\* A deletion of the tenant begins in staging: from now on its calls, logins and
\* refreshes are refused, and a trigger refuses to write its users and sessions.
BlockTenant ==
  /\ realm = "tenant"
  /\ Change([account EXCEPT !.served = FALSE])
  /\ UNCHANGED <<session, jar, page, changing, admin>>

\* platform-admin.mjs: rotate, disable and recover are one transaction each.
ManagePlatformAdmin ==
  /\ realm = "platform"
  /\ \/ account.active /\ Change([account EXCEPT !.password = @ + 1, !.identity = @ + 1])
     \/ Change([account EXCEPT !.active = FALSE, !.identity = @ + 1])
     \/ Change([account EXCEPT !.active = TRUE, !.password = @ + 1, !.identity = @ + 1])
  /\ session' = AllRevoked
  /\ UNCHANGED <<jar, page, changing, admin>>

Next ==
  \/ \E c \in Calls :
       \/ Send(c) \/ Authenticate(c) \/ AskRefresh(c) \/ CompareToken(c) \/ DenyRefresh(c)
       \/ WriteHash(c) \/ Receive(c) \/ Fail(c) \/ SignOut(c)
  \/ VerifyPassword \/ CreateSession \/ Logout \/ AccessExpires \/ SessionExpires
  \/ BeginInitialChange \/ CommitInitialChange
  \/ ManageOperator \/ RevokeUserSessions \/ RevocationFails \/ BlockTenant \/ ManagePlatformAdmin

Spec == Init /\ [][Next]_vars

-----------------------------------------------------------------------------
(***************************************************************************)
(* Properties.                                                             *)
(***************************************************************************)
\* The rows, the cookies and the calls keep their types, and a call that waits
\* for a refresh names a token.
TypeOK ==
  /\ realm \in Realms /\ account \in Account
  /\ session \in [Sessions -> SessionRow]
  /\ issued \in 1..MaxTokens
  /\ jar \in [access : Sessions \cup {None}, token : Token]
  /\ page \in {"in", "out", "left"}
  /\ call \in [Calls -> [pc : CallStates, retried : BOOLEAN,
                         access : Sessions \cup {None}, token : Token]]
  /\ \A c \in Calls : call[c].pc \in {"rotating", "granted"} =>
       call[c].token.of # None /\ call[c].token.serial <= issued
  /\ admin \in {"idle", "revoke", "failed"}

\* A refresh that had passed its check when the session was revoked does not
\* bring the session back with the token it stores.
RevokedIsFinal ==
  [][\A s \in Sessions : session[s].state = "revoked" => session'[s].state = "revoked"]_vars

\* A session that can be refreshed, and on the platform used, was opened with the
\* password the account has now, logins in flight included. A tenant's account has
\* two exceptions: the revocation that follows the change is still to come or has
\* failed, and a login whose password was changed before its session was created.
\* Nothing is said of a tenant's access tokens, which no revocation ends.
OpenMeansCurrent ==
  \A s \in Sessions :
    /\ session[s].state = "open" /\ session[s].password # account.password
    /\ realm = "platform" => Usable(s)
    => /\ realm = "tenant"
       /\ session[s].overtaken \/ admin \in {"revoke", "failed"}

\* "Confirm that the old sessions are of no use" after a change of the operator
\* (docs/testing.md): a call is not accepted once its session was revoked.
RevokedIsRefused ==
  \A s \in Sessions : session[s].state = "revoked" => ~Accepts(s)

\* The session of the page's cookies has ended: by its row, by the version of a
\* platform identity, or with the tenant.
Ended == LET s == jar.token.of IN
  \/ s = None \/ session[s].state # "open" \/ ~account.served
  \/ realm = "platform" /\ ~SameIdentity(s)

\* The page acts on a call that failed without being refused.
ActsOnFailure == \E c \in Calls : call[c].pc = "failed" /\ call'[c] = Idle

\* A page that the server's refusals sign out against its will has a session that
\* ended, or one of the things has happened since its login that a refresh does not
\* survive. A failure, which the page does not tell from a refusal, is the other cause.
SignedOutForACause ==
  [][page = "in" /\ page' = "out" => Ended \/ upset \/ ActsOnFailure]_vars

\* "The workbench refreshes silently when the access token expires": a page is
\* never signed out while its session goes on (docs/user-guide.md).
SignedOutOnlyWhenEnded == [][page = "in" /\ page' = "out" => Ended]_vars
=============================================================================
