--------------------------- MODULE SessionsProofs ---------------------------
(***************************************************************************)
(* Proofs about Sessions, for any number of sessions, calls and tokens: a  *)
(* revocation is final, what can still be used was opened with the current *)
(* password, and a page is signed out for a cause.                         *)
(***************************************************************************)
EXTENDS Sessions, TLAPS

\* What TypeOK leaves out.
Types ==
  /\ TypeOK
  /\ login \in [pc : {"idle", "verified"}, by : {"page", "other"}, password : Nat, identity : Nat]
  /\ changing \in BOOLEAN /\ (changing => realm = "tenant")
  /\ upset \in BOOLEAN

\* The version of an identity only grows, and stands for a password.
Identities ==
  /\ \A s \in Sessions : session[s].identity <= account.identity
  /\ login.identity <= account.identity

\* A platform account whose session, or whose login, has the current version is
\* active and has not changed its password since.
PlatformCurrent ==
  realm = "platform" =>
    /\ \A s \in Sessions :
         session[s].state = "open" /\ session[s].identity = account.identity =>
           session[s].password = account.password /\ account.active
    /\ login.pc = "verified" /\ login.identity = account.identity =>
         login.password = account.password /\ account.active

TenantCurrent ==
  realm = "tenant" =>
    \A s \in Sessions : session[s].state = "open" /\ session[s].password # account.password =>
      session[s].overtaken \/ admin \in {"revoke", "failed"}

\* A session that never again passes a check.
Dead(s) ==
  \/ session[s].state # "open"
  \/ realm = "platform" /\ session[s].identity < account.identity
  \/ ~account.served

\* What a page that is in knows, while nothing has upset it: all its calls are
\* about the session of its cookies,
CallOK(q) ==
  /\ q.access \in {None, jar.token.of} /\ (q.retried => q.access # None)
  /\ q.pc \in {"refreshing", "rotating", "granted"} => q.token.of = jar.token.of
  /\ q.pc = "refreshing" => q.token = jar.token
  /\ q.pc = "granted" => session[jar.token.of].serial = q.token.serial
  /\ q.pc = "denied" => Dead(jar.token.of)

\* and its token is the session's, but for the answer that is on its way.
Undisturbed ==
  /\ jar.token.of \in Sessions /\ session[jar.token.of].state # "none"
  /\ jar.access \in {None, jar.token.of}
  /\ \A c \in Calls : CallOK(call[c])
  /\ \A c, d \in Calls : Refreshing(c) /\ Refreshing(d) => c = d
  /\ (\A c \in Calls : call[c].pc # "granted") => session[jar.token.of].serial = jar.token.serial

PageOK == page = "in" /\ ~upset => Undisturbed

IInv == Types /\ Identities /\ PlatformCurrent /\ TenantCurrent /\ PageOK

-----------------------------------------------------------------------------
CallRow == [pc : CallStates, retried : BOOLEAN, access : Sessions \cup {None}, token : Token]

LEMMA Facts ==
  ASSUME Types
  PROVE  /\ session \in [Sessions -> SessionRow] /\ call \in [Calls -> CallRow]
         /\ \A s \in Sessions : session[s] \in SessionRow
         /\ \A c \in Calls : call[c] \in CallRow
         /\ account \in Account /\ account.password \in Nat /\ account.identity \in Nat
         /\ account.active \in BOOLEAN /\ account.served \in BOOLEAN
         /\ realm \in {"tenant", "platform"} /\ issued \in 1..MaxTokens /\ MaxTokens \in Nat
         /\ jar \in [access : Sessions \cup {None}, token : Token]
         /\ None \notin Sessions
BY ConstantsAssumption DEF Types, TypeOK, CallRow, Account

LEMMA RowFacts ==
  ASSUME NEW x \in SessionRow
  PROVE  /\ x.state \in {"none", "open", "expired", "revoked"} /\ x.serial \in 0..MaxTokens
         /\ x.identity \in Nat /\ x.password \in Nat /\ x.overtaken \in BOOLEAN
BY DEF SessionRow

LEMMA Zeros ==
  /\ NoToken \in Token /\ NoToken.of = None
  /\ Idle \in CallRow /\ Idle.pc = "idle" /\ ~Idle.retried /\ Idle.access = None
  /\ NoRow \in SessionRow /\ NoRow.state = "none" /\ NoRow.identity = 0
  /\ NoLogin.pc = "idle" /\ NoLogin.identity = 0
  /\ NoLogin \in [pc : {"idle", "verified"}, by : {"page", "other"}, password : Nat, identity : Nat]
<1>1. MaxTokens \in Nat
  BY ConstantsAssumption
<1>2. NoToken \in Token /\ NoToken.of = None
  BY <1>1 DEF NoToken, Token
<1> QED BY <1>1, <1>2 DEF Idle, CallRow, CallStates, NoRow, SessionRow, NoLogin

\* "y" is what may become of the row "x" of a session.
Heir(x, y) ==
  /\ y.identity = x.identity /\ y.password = x.password /\ y.overtaken = x.overtaken
  /\ y.state = "open" => x.state = "open"
  /\ x.state = "revoked" => y.state = "revoked"
  /\ y.state = "none" <=> x.state = "none"

\* No step but a login does more to the sessions, and none but a refresh
\* changes a token.
Heirs == session' \in [Sessions -> SessionRow] /\ \A s \in Sessions : Heir(session[s], session'[s])
SameTokens == \A s \in Sessions : session'[s].serial = session[s].serial

LEMMA RevokedRow ==
  ASSUME NEW x \in SessionRow
  PROVE  /\ Revoked(x) \in SessionRow /\ Heir(x, Revoked(x)) /\ Revoked(x).serial = x.serial
         /\ Revoked(x).state # "open"
<1>1. CASE x.state \in {"open", "expired"}
  BY <1>1 DEF Revoked, SessionRow, Heir
<1>2. CASE x.state \notin {"open", "expired"}
  BY <1>2 DEF Revoked, Heir
<1> QED BY <1>1, <1>2

LEMMA RevokedOne ==
  ASSUME Types, NEW s \in Sessions, session' = [session EXCEPT ![s] = Revoked(session[s])]
  PROVE  Heirs /\ SameTokens /\ session'[s].state # "open"
<1>1. \A u \in Sessions : session'[u] = IF u = s THEN Revoked(session[s]) ELSE session[u]
  BY Facts
<1>2. session' \in [Sessions -> SessionRow]
  BY Facts, RevokedRow
<1>3. \A u \in Sessions : Heir(session[u], session[u])
  BY DEF Heir
<1> QED BY <1>1, <1>2, <1>3, Facts, RevokedRow DEF Heirs, SameTokens

LEMMA RevokedAll ==
  ASSUME Types, session' = AllRevoked
  PROVE  Heirs /\ SameTokens /\ \A s \in Sessions : session'[s].state # "open"
<1>1. \A u \in Sessions : session'[u] = Revoked(session[u])
  BY DEF AllRevoked
<1>2. session' \in [Sessions -> SessionRow]
  BY Facts, RevokedRow DEF AllRevoked
<1> QED BY <1>1, <1>2, Facts, RevokedRow DEF Heirs, SameTokens

LEMMA SameRows == ASSUME Types, session' = session PROVE Heirs /\ SameTokens
BY Facts DEF Heirs, SameTokens, Heir

LEMMA OpenedRow ==
  ASSUME MaxTokens >= 1
  PROVE  LET x == [NoRow EXCEPT !.state = "open", !.serial = 1, !.identity = 1, !.password = 1]
         IN  x \in SessionRow /\ x.state = "open" /\ x.serial = 1 /\ x.identity = 1 /\ x.password = 1
<1> DEFINE a == [NoRow EXCEPT !.state = "open"]
           b == [a EXCEPT !.serial = 1]
           c == [b EXCEPT !.identity = 1]
           d == [c EXCEPT !.password = 1]
<1>0. 1 \in 0..MaxTokens /\ 1 \in Nat
  BY ConstantsAssumption
<1>1. a \in SessionRow /\ a.state = "open"
  BY Zeros DEF SessionRow
<1> HIDE DEF a
<1>2. b \in SessionRow /\ b.state = "open" /\ b.serial = 1
  BY <1>0, <1>1 DEF SessionRow
<1> HIDE DEF b
<1>3. c \in SessionRow /\ c.state = "open" /\ c.serial = 1 /\ c.identity = 1
  BY <1>0, <1>2 DEF SessionRow
<1> HIDE DEF c
<1>4. d \in SessionRow /\ d.state = "open" /\ d.serial = 1 /\ d.identity = 1 /\ d.password = 1
  BY <1>0, <1>3 DEF SessionRow
<1> QED BY <1>4 DEF a, b, c

LEMMA InitHolds == Init => IInv
<1> SUFFICES ASSUME Init PROVE IInv
  OBVIOUS
<1>1. MaxTokens \in Nat /\ MaxTokens >= 1 /\ None \notin Sessions
  BY ConstantsAssumption
<1>2. PICK s \in Sessions :
        /\ session = [t \in Sessions |->
             IF t # s THEN NoRow
             ELSE [NoRow EXCEPT !.state = "open", !.serial = 1, !.identity = 1, !.password = 1]]
        /\ jar = [access |-> s, token |-> TokenOf(s, 1)]
  BY DEF Init
<1>3. account = [active |-> TRUE, served |-> TRUE, password |-> 1, identity |-> 1,
                 initial |-> realm = "tenant"]
  BY DEF Init
<1> DEFINE x == [NoRow EXCEPT !.state = "open", !.serial = 1, !.identity = 1, !.password = 1]
<1>4. x \in SessionRow /\ x.state = "open" /\ x.serial = 1 /\ x.identity = 1 /\ x.password = 1
  BY <1>1, OpenedRow
<1>5. \A t \in Sessions : session[t] = IF t = s THEN x ELSE NoRow
  BY <1>2
<1> HIDE DEF x
<1>6. session \in [Sessions -> SessionRow]
  BY <1>2, <1>5, <1>4, Zeros
<1>7. TokenOf(s, 1) \in Token /\ TokenOf(s, 1).of = s /\ TokenOf(s, 1).serial = 1
  BY <1>1 DEF TokenOf, Token
<1>8. Types
  <2>1. call \in [Calls -> CallRow] /\ \A c \in Calls : call[c] = Idle
    BY Zeros DEF Init
  <2>2. account \in Account
    BY <1>3 DEF Account
  <2>3. \A c \in Calls : call[c].pc \notin {"rotating", "granted"}
    BY <2>1, Zeros
  <2>4. jar \in [access : Sessions \cup {None}, token : Token]
    BY <1>2, <1>7
  <2>5. TypeOK
    BY <1>1, <1>6, <2>1, <2>2, <2>3, <2>4 DEF Init, TypeOK, CallRow
  <2>6. login = NoLogin /\ changing = FALSE /\ upset = FALSE
    BY DEF Init
  <2> QED BY <2>5, <2>6, Zeros DEF Types
<1>9. Identities /\ PlatformCurrent /\ TenantCurrent
  BY <1>3, <1>4, <1>5, Zeros DEF Init, Identities, PlatformCurrent, TenantCurrent
<1>10. PageOK
  <2>1. \A c \in Calls : CallOK(Idle) /\ ~Refreshing(c)
    BY Zeros DEF Init, CallOK, Refreshing
  <2> QED BY <1>2, <1>4, <1>5, <1>7, <2>1 DEF Init, PageOK, Undisturbed
<1> QED BY <1>8, <1>9, <1>10 DEF IInv

-----------------------------------------------------------------------------
(***************************************************************************)
(* The account and the sessions.                                           *)
(***************************************************************************)
AccountsOK == Identities /\ PlatformCurrent /\ TenantCurrent

\* Sessions that only go on, or end, of an account that stays as it is.
LEMMA AccountStays ==
  ASSUME Types, AccountsOK, Heirs, UNCHANGED <<realm, account, login>>,
         admin' = admin \/ admin' \in {"revoke", "failed"}
  PROVE  AccountsOK'
<1>1. Identities'
  BY DEF AccountsOK, Identities, Heirs, Heir
<1>2. PlatformCurrent'
  BY DEF AccountsOK, PlatformCurrent, Heirs, Heir
<1>3. TenantCurrent'
  BY DEF AccountsOK, TenantCurrent, Heirs, Heir
<1> QED BY <1>1, <1>2, <1>3 DEF AccountsOK

\* The account changes, and no session is left open.
LEMMA AccountRevoked ==
  ASSUME Types, AccountsOK, Heirs, \A s \in Sessions : session'[s].state # "open",
         UNCHANGED <<realm, login>>, account'.identity \in Nat,
         \/ account'.identity > account.identity
         \/ account'.identity = account.identity /\ (account' = account \/ realm = "tenant")
  PROVE  AccountsOK'
<1>0. /\ account.identity \in Nat /\ login.identity \in Nat
      /\ \A s \in Sessions : session[s].identity \in Nat
  BY Facts, RowFacts DEF Types
<1>1. Identities'
  BY <1>0 DEF AccountsOK, Identities, Heirs, Heir
<1>2. PlatformCurrent'
  <2>1. login.pc = "verified" /\ login.identity = account'.identity => account' = account \/ realm = "tenant"
    BY <1>0 DEF AccountsOK, Identities
  <2> QED BY <2>1 DEF AccountsOK, PlatformCurrent
<1>3. TenantCurrent'
  BY DEF TenantCurrent
<1> QED BY <1>1, <1>2, <1>3 DEF AccountsOK

\* A manager changes a tenant's account, and has yet to revoke.
LEMMA AccountManaged ==
  ASSUME Types, AccountsOK, realm = "tenant", UNCHANGED <<realm, login, session>>,
         account'.identity = account.identity,
         admin' = "revoke" \/ (admin' = admin /\ account'.password = account.password)
  PROVE  AccountsOK'
BY DEF AccountsOK, Identities, PlatformCurrent, TenantCurrent

-----------------------------------------------------------------------------
(***************************************************************************)
(* The page.                                                               *)
(***************************************************************************)
\* A session that never passes a check again stays one.
LEMMA DeadStays ==
  ASSUME Types, Heirs, NEW s \in Sessions, Dead(s), realm' = realm,
         account'.identity \in Nat, account'.identity >= account.identity,
         account'.served => account.served
  PROVE  Dead(s)'
<1>1. session[s].identity \in Nat /\ account.identity \in Nat
  BY Facts, RowFacts
<1> QED BY <1>1 DEF Dead, Heirs, Heir

\* A call "q" that is in order stays so while the page does not move.
LEMMA CallStays ==
  ASSUME Types, Heirs, SameTokens, NEW q \in CallRow, CallOK(q), jar'.token = jar.token,
         jar.token.of \in Sessions, realm' = realm,
         account'.identity \in Nat, account'.identity >= account.identity,
         account'.served => account.served
  PROVE  CallOK(q)'
<1>1. q.pc = "denied" => Dead(jar.token.of)'
  BY DeadStays DEF CallOK
<1>2. Dead(jar.token.of)' = Dead(jar.token.of)'
  OBVIOUS
<1> QED BY <1>1 DEF CallOK, SameTokens, Dead

LEMMA PageStays ==
  ASSUME Types, PageOK, Heirs, SameTokens, UNCHANGED <<realm, call, page, upset>>,
         jar'.token = jar.token, jar'.access \in {None, jar.access},
         account'.identity \in Nat, account'.identity >= account.identity,
         account'.served => account.served
  PROVE  PageOK'
<1> SUFFICES ASSUME page = "in", ~upset PROVE Undisturbed'
  BY DEF PageOK
<1>1. Undisturbed
  BY DEF PageOK
<1>2. \A c \in Calls : CallOK(call[c])'
  <2> SUFFICES ASSUME NEW c \in Calls PROVE CallOK(call[c])'
    OBVIOUS
  <2>1. PICK q \in CallRow : q = call[c]
    BY Facts
  <2>2. CallOK(q)'
    BY <1>1, <2>1, CallStays DEF Undisturbed
  <2> QED BY <2>1, <2>2 DEF CallOK, Dead
<1>3. \A c \in Calls : Refreshing(c)' <=> Refreshing(c)
  BY DEF Refreshing
<1>4. session'[jar.token.of].state # "none" /\ session'[jar.token.of].serial = session[jar.token.of].serial
  BY <1>1 DEF Undisturbed, Heirs, Heir, SameTokens
<1> QED BY <1>1, <1>2, <1>3, <1>4 DEF Undisturbed

\* A call goes on to "q", without the page.
LEMMA CallGoesOn ==
  ASSUME Types, PageOK, Heirs, SameTokens, UNCHANGED <<realm, account, jar, page>>, upset' \in BOOLEAN,
         upset => upset',
         NEW c \in Calls, NEW q \in CallRow, call' = [call EXCEPT ![c] = q], q.pc # "granted",
         page = "in" /\ ~upset' /\ Undisturbed =>
           /\ CallOK(q)' /\ call[c].pc # "granted"
           /\ q.pc \in {"refreshing", "rotating"} => \A d \in Calls : Refreshing(d) => d = c
  PROVE  PageOK'
<1> SUFFICES ASSUME page = "in", ~upset' PROVE Undisturbed'
  BY DEF PageOK
<1>1. Undisturbed /\ ~upset
  BY DEF PageOK, Types
<1>2. \A d \in Calls : call'[d] = IF d = c THEN q ELSE call[d]
  BY Facts
<1>3. \A d \in Calls : CallOK(call[d])'
  <2> SUFFICES ASSUME NEW d \in Calls PROVE CallOK(call[d])'
    OBVIOUS
  <2>1. CASE d = c
    BY <1>1, <1>2, <2>1 DEF CallOK, Dead
  <2>2. CASE d # c
    <3>1. PICK o \in CallRow : o = call[d]
      BY Facts
    <3>2. account.identity \in Nat /\ account'.identity >= account.identity
      BY Facts
    <3>3. CallOK(o)'
      BY <1>1, <3>1, <3>2, CallStays DEF Undisturbed
    <3> QED BY <1>2, <2>2, <3>1, <3>3 DEF CallOK, Dead
  <2> QED BY <2>1, <2>2
<1>4. \A d \in Calls : Refreshing(d)' <=> IF d = c THEN q.pc \in {"refreshing", "rotating"} ELSE Refreshing(d)
  BY <1>2 DEF Refreshing
<1>5. \A d, e \in Calls : Refreshing(d)' /\ Refreshing(e)' => d = e
  BY <1>1, <1>4 DEF Undisturbed
<1>6. (\A d \in Calls : call'[d].pc # "granted") => \A d \in Calls : call[d].pc # "granted"
  BY <1>1, <1>2
<1>7. session'[jar.token.of].state # "none" /\ session'[jar.token.of].serial = session[jar.token.of].serial
  BY <1>1 DEF Undisturbed, Heirs, Heir, SameTokens
<1> QED BY <1>1, <1>3, <1>5, <1>6, <1>7 DEF Undisturbed

-----------------------------------------------------------------------------
(***************************************************************************)
(* The steps of a call.                                                    *)
(***************************************************************************)
LEMMA CallTypes ==
  ASSUME Types, Heirs, UNCHANGED <<realm, account, login, changing, admin>>, upset' \in BOOLEAN,
         NEW c \in Calls, NEW q \in CallRow, call' = [call EXCEPT ![c] = q],
         q.pc \in {"rotating", "granted"} => q.token.of # None /\ q.token.serial <= issued',
         issued' \in 1..MaxTokens, issued <= issued',
         jar' \in [access : Sessions \cup {None}, token : Token], page' \in {"in", "out", "left"}
  PROVE  Types'
<1>1. call' \in [Calls -> CallRow] /\ \A d \in Calls : call'[d] = IF d = c THEN q ELSE call[d]
  BY Facts
<1>2. ASSUME NEW d \in Calls, call'[d].pc \in {"rotating", "granted"}
      PROVE  call'[d].token.of # None /\ call'[d].token.serial <= issued'
  <2>1. CASE d = c
    BY <1>1, <1>2, <2>1
  <2>2. CASE d # c
    <3>1. PICK o \in CallRow : o = call[d]
      BY Facts
    <3>2. o.token.of # None /\ o.token.serial <= issued /\ call'[d] = o
      BY <1>1, <1>2, <2>2, <3>1 DEF Types, TypeOK
    <3>3. o.token.serial \in Nat /\ issued \in Nat /\ issued' \in Nat
      BY Facts DEF CallRow, Token
    <3> QED BY <3>2, <3>3
  <2> QED BY <2>1, <2>2
<1>3. TypeOK'
  BY <1>1, <1>2 DEF Types, TypeOK, Heirs, CallRow
<1> QED BY <1>3 DEF Types

LEMMA CallStepHolds ==
  ASSUME IInv, Heirs, SameTokens, UNCHANGED <<realm, account, jar, page, login, changing, admin>>,
         upset' \in BOOLEAN, upset => upset',
         NEW c \in Calls, NEW q \in CallRow, call' = [call EXCEPT ![c] = q], q.pc # "granted",
         q.pc = "rotating" => q.token.of # None /\ q.token.serial <= issued',
         issued' \in 1..MaxTokens, issued <= issued',
         page = "in" /\ ~upset' /\ Undisturbed =>
           /\ CallOK(q)' /\ call[c].pc # "granted"
           /\ q.pc \in {"refreshing", "rotating"} => \A d \in Calls : Refreshing(d) => d = c
  PROVE  IInv'
<1>1. Types /\ PageOK /\ AccountsOK
  BY DEF IInv, AccountsOK
<1>2. Types'
  <2>1. jar' \in [access : Sessions \cup {None}, token : Token] /\ page' \in {"in", "out", "left"}
    BY <1>1, Facts DEF Types, TypeOK
  <2> QED BY <1>1, <2>1, CallTypes
<1>3. PageOK'
  BY <1>1, CallGoesOn
<1>4. AccountsOK'
  BY <1>1, AccountStays
<1> QED BY <1>2, <1>3, <1>4 DEF IInv, AccountsOK

\* A call that is sent again, and one that is not at a refresh.
LEMMA SentAgain ==
  ASSUME NEW access \in Sessions \cup {None}
  PROVE  \E q \in CallRow : /\ q = [Idle EXCEPT !.pc = "sent", !.retried = TRUE, !.access = access]
                            /\ q.pc = "sent" /\ q.access = access
<1> DEFINE a == [Idle EXCEPT !.pc = "sent"]
           b == [a EXCEPT !.retried = TRUE]
           q == [b EXCEPT !.access = access]
<1>1. a \in CallRow /\ a.pc = "sent"
  BY Zeros DEF CallRow, CallStates
<1> HIDE DEF a
<1>2. b \in CallRow /\ b.pc = "sent"
  BY <1>1 DEF CallRow
<1> HIDE DEF b
<1>3. q \in CallRow /\ q.pc = "sent" /\ q.access = access
  BY <1>2 DEF CallRow
<1>4. q = [Idle EXCEPT !.pc = "sent", !.retried = TRUE, !.access = access]
  BY DEF a, b
<1> HIDE DEF q
<1> QED BY <1>3, <1>4

LEMMA CallAt ==
  ASSUME NEW pc \in CallStates
  PROVE  LET q == [Idle EXCEPT !.pc = pc]
         IN  q \in CallRow /\ q.pc = pc /\ q.access = None /\ ~q.retried
BY Zeros DEF CallRow

LEMMA SendStep == ASSUME IInv, NEW c \in Calls, Send(c) PROVE IInv'
<1> DEFINE x == [Idle EXCEPT !.pc = "sent", !.access = jar.access]
<1>0. Types
  BY DEF IInv
<1>1. x \in CallRow /\ x.pc = "sent" /\ x.access = jar.access /\ ~x.retried
  <2>1. jar.access \in Sessions \cup {None}
    BY <1>0, Facts
  <2> QED BY <2>1, Zeros DEF CallRow, CallStates
<1>2. call' = [call EXCEPT ![c] = x] /\ call[c].pc = "idle"
  BY Zeros DEF Send, Step
<1>3. UNCHANGED <<realm, account, jar, page, login, changing, admin, issued, session, upset>>
  BY DEF Send, Step
<1> HIDE DEF x
<1>4. PICK q \in CallRow : q = x
  BY <1>1
<1>5. Undisturbed => CallOK(q)'
  BY <1>1, <1>3, <1>4 DEF Undisturbed, CallOK
<1>6. Heirs /\ SameTokens
  BY <1>0, <1>3, SameRows
<1>7. issued' \in 1..MaxTokens /\ issued <= issued' /\ upset' \in BOOLEAN
  BY <1>0, <1>3, Facts DEF Types
<1> QED BY <1>1, <1>2, <1>3, <1>5, <1>6, <1>7, <1>4, CallStepHolds

LEMMA AuthenticateStep == ASSUME IInv, NEW c \in Calls, Authenticate(c) PROVE IInv'
<1>0. Types /\ Identities /\ PlatformCurrent
  BY DEF IInv
<1>1. PICK o \in CallRow : o = call[c]
  BY <1>0, Facts
<1>2. PICK q \in CallRow :
        /\ call' = [call EXCEPT ![c] = q] /\ q.pc \in {"idle", "refused", "denied", "failed"}
        /\ q.access = None /\ ~q.retried
        /\ q.pc = "denied" => o.retried /\ ~Accepts(o.access)
  <2>1. PICK pc \in IF Accepts(o.access) THEN {"idle"} ELSE Refusal(o) :
          call' = [call EXCEPT ![c] = [Idle EXCEPT !.pc = pc]]
    BY <1>1 DEF Authenticate, Step
  <2>2. /\ pc \in {"idle", "refused", "denied", "failed"}
        /\ pc = "denied" => o.retried /\ ~Accepts(o.access)
    BY <2>1 DEF Refusal
  <2> QED BY <2>1, <2>2, CallAt DEF CallStates
<1>3. UNCHANGED <<realm, account, jar, page, login, changing, admin, issued, upset>> /\ call[c].pc = "sent"
  BY DEF Authenticate, Step
<1>4. Heirs /\ SameTokens
  BY <1>0, SameRows, RevokedAll DEF Authenticate
<1>5. ASSUME Undisturbed, q.pc = "denied" PROVE Dead(jar.token.of)'
  <2>1. /\ o.access = jar.token.of /\ jar.token.of \in Sessions /\ None \notin Sessions
        /\ ~Usable(jar.token.of)
    BY <1>0, <1>1, <1>2, <1>5, Facts DEF Undisturbed, CallOK, Accepts
  <2>2. CASE realm = "tenant"
    <3>1. ~account.served \/ session' = AllRevoked
      BY <1>1, <2>1, <2>2 DEF Authenticate, Usable, Admitted
    <3> QED BY <1>0, <1>3, <2>1, <3>1, RevokedAll DEF Dead
  <2>3. CASE realm = "platform"
    <3>1. session[jar.token.of].identity <= account.identity
      BY <1>0, <2>1 DEF Identities
    <3>2. session[jar.token.of].identity \in Nat /\ account.identity \in Nat
      BY <1>0, <2>1, Facts, RowFacts
    <3>3. \/ session[jar.token.of].state # "open" \/ session[jar.token.of].identity # account.identity
          \/ ~account.served
      BY <1>0, <2>1, <2>3 DEF PlatformCurrent, Usable, SameIdentity, Admitted
    <3>4. Dead(jar.token.of)
      BY <2>3, <3>1, <3>2, <3>3 DEF Dead
    <3> QED BY <1>0, <1>3, <1>4, <2>1, <3>2, <3>4, DeadStays DEF Dead
  <2> QED BY <1>0, <2>2, <2>3, Facts
<1>6. Undisturbed => CallOK(q)'
  BY <1>2, <1>5 DEF CallOK
<1>7. issued' \in 1..MaxTokens /\ issued <= issued' /\ upset' \in BOOLEAN
  BY <1>0, <1>3, Facts DEF Types
<1> QED BY <1>2, <1>3, <1>4, <1>6, <1>7, CallStepHolds

LEMMA AskRefreshStep == ASSUME IInv, NEW c \in Calls, AskRefresh(c) PROVE IInv'
<1>0. Types
  BY DEF IInv
<1>1. PICK o \in CallRow : o = call[c]
  BY <1>0, Facts
<1> DEFINE x == [o EXCEPT !.pc = "refreshing", !.token = jar.token]
<1>2. x \in CallRow /\ x.pc = "refreshing" /\ x.token = jar.token /\ x.access = o.access /\ x.retried = o.retried
  <2>1. jar.token \in Token
    BY <1>0, Facts
  <2> QED BY <2>1 DEF CallRow, CallStates
<1>3. call' = [call EXCEPT ![c] = x] /\ call[c].pc = "refused"
  BY <1>1 DEF AskRefresh, Step
<1>4. /\ UNCHANGED <<realm, account, jar, page, login, changing, admin, issued, session>>
      /\ upset' = (upset \/ \E d \in Calls : Refreshing(d))
  BY DEF AskRefresh, Step
<1> HIDE DEF x
<1>5. PICK q \in CallRow : q = x
  BY <1>2
<1>6. Undisturbed => CallOK(q)'
  BY <1>1, <1>2, <1>4, <1>5 DEF Undisturbed, CallOK
<1>7. Heirs /\ SameTokens
  BY <1>0, <1>4, SameRows
<1>8. issued' \in 1..MaxTokens /\ issued <= issued' /\ upset' \in BOOLEAN /\ (upset => upset')
  BY <1>0, <1>4, Facts DEF Types
<1>9. ~upset' => \A d \in Calls : ~Refreshing(d)
  BY <1>4
<1> QED BY <1>2, <1>3, <1>4, <1>6, <1>7, <1>8, <1>9, <1>5, CallStepHolds

LEMMA CompareTokenStep == ASSUME IInv, NEW c \in Calls, CompareToken(c) PROVE IInv'
<1>0. Types
  BY DEF IInv
<1>1. PICK o \in CallRow : o = call[c]
  BY <1>0, Facts
<1> DEFINE t == TokenOf(o.token.of, issued + 1)
           x == [o EXCEPT !.pc = "rotating", !.token = t]
<1>2. /\ o.pc = "refreshing" /\ o.token.of # None /\ issued < MaxTokens /\ issued' = issued + 1
      /\ call' = [call EXCEPT ![c] = x]
  BY <1>1 DEF CompareToken, Step, Matches, Verifies
<1>3. issued \in Nat /\ MaxTokens \in Nat /\ issued' \in 1..MaxTokens /\ issued <= issued'
  BY <1>0, <1>2, Facts
<1>4. t \in Token /\ t.of = o.token.of /\ t.serial = issued'
  <2>1. o.token.of \in Sessions \cup {None}
    BY DEF CallRow, Token
  <2> QED BY <1>2, <1>3, <2>1 DEF TokenOf, Token
<1> HIDE DEF t
<1>5. x \in CallRow /\ x.pc = "rotating" /\ x.token = t /\ x.access = o.access /\ x.retried = o.retried
  BY <1>4 DEF CallRow, CallStates
<1> HIDE DEF x
<1>6. PICK q \in CallRow : q = x
  BY <1>5
<1>7. UNCHANGED <<realm, account, jar, page, login, changing, admin, session, upset>>
  BY DEF CompareToken, Step
<1>8. Undisturbed => CallOK(q)'
  BY <1>1, <1>2, <1>4, <1>5, <1>7, <1>6 DEF Undisturbed, CallOK
<1>9. Undisturbed => \A d \in Calls : Refreshing(d) => d = c
  BY <1>1, <1>2 DEF Undisturbed, Refreshing
<1>10. Heirs /\ SameTokens /\ upset' \in BOOLEAN /\ (upset => upset')
  BY <1>0, <1>7, SameRows DEF Types
<1>11. q.token.of # None /\ q.token.serial <= issued'
  BY <1>2, <1>3, <1>4, <1>5, <1>6
<1> QED BY <1>1, <1>2, <1>3, <1>5, <1>7, <1>8, <1>9, <1>10, <1>11, <1>6, CallStepHolds

LEMMA DenyRefreshStep == ASSUME IInv, NEW c \in Calls, DenyRefresh(c) PROVE IInv'
<1>0. Types
  BY DEF IInv
<1>1. PICK o \in CallRow : o = call[c]
  BY <1>0, Facts
<1> DEFINE q == [Idle EXCEPT !.pc = "denied"]
           t == o.token
<1>2. o.pc = "refreshing" /\ ~(Matches(t) /\ Admitted) /\ call' = [call EXCEPT ![c] = q]
  BY <1>1 DEF DenyRefresh, Step
<1>3. session' = IF realm = "tenant"
                 THEN IF Matches(t) /\ account.served THEN AllRevoked ELSE session
                 ELSE IF Verifies(t) THEN [session EXCEPT ![t.of] = Revoked(session[t.of])] ELSE session
  BY <1>1 DEF DenyRefresh
<1>4. UNCHANGED <<realm, account, jar, page, login, changing, admin, issued, upset>>
  BY DEF DenyRefresh, Step
<1>5. q \in CallRow /\ q.pc = "denied" /\ q.access = None /\ ~q.retried
  BY CallAt DEF CallStates
<1> HIDE DEF q
<1>6. Verifies(t) => t.of \in Sessions
  BY DEF CallRow, Token, Verifies
<1>7. Heirs /\ SameTokens
  BY <1>0, <1>3, <1>6, SameRows, RevokedAll, RevokedOne
<1>8. ASSUME Undisturbed PROVE Dead(jar.token.of)'
  <2>1. t = jar.token /\ t.of \in Sessions /\ Verifies(t)
    BY <1>0, <1>1, <1>2, <1>8, Facts DEF Undisturbed, CallOK, Verifies
  <2>2. \A d \in Calls : call[d].pc # "granted"
    BY <1>1, <1>2, <1>8 DEF Undisturbed, Refreshing
  <2>3. session[t.of].serial = t.serial
    BY <1>8, <2>1, <2>2 DEF Undisturbed
  <2>4. session'[t.of].state # "open" \/ ~account.served
    <3>1. CASE realm = "tenant" /\ account.served
      <4>1. CASE Matches(t)
        BY <1>0, <1>3, <2>1, <3>1, <4>1, RevokedAll
      <4>2. CASE ~Matches(t)
        BY <1>3, <2>1, <2>3, <3>1, <4>2 DEF Matches
      <4> QED BY <4>1, <4>2
    <3>2. CASE realm # "tenant" /\ account.served
      BY <1>0, <1>3, <2>1, <3>2, RevokedOne
    <3> QED BY <3>1, <3>2
  <2> QED BY <1>4, <2>1, <2>4 DEF Dead
<1>9. Undisturbed => CallOK(q)'
  BY <1>5, <1>8 DEF CallOK
<1>10. issued' \in 1..MaxTokens /\ issued <= issued' /\ upset' \in BOOLEAN
  BY <1>0, <1>4, Facts DEF Types
<1> QED BY <1>1, <1>2, <1>4, <1>5, <1>7, <1>9, <1>10, CallStepHolds

LEMMA WriteHashStep == ASSUME IInv, NEW c \in Calls, WriteHash(c) PROVE IInv'
<1>0. Types /\ PageOK /\ AccountsOK
  BY DEF IInv, AccountsOK
<1>1. PICK o \in CallRow : o = call[c]
  BY <1>0, Facts
<1>2. PICK q \in CallRow : q = [o EXCEPT !.pc = "granted"]
  BY DEF CallRow, CallStates
<1>3. q.pc = "granted" /\ q.token = o.token /\ q.access = o.access /\ q.retried = o.retried
  BY <1>2 DEF CallRow
<1> DEFINE u == o.token.of
           x == Rotated(session[u], o.token.serial)
<1>4. /\ o.pc = "rotating" /\ call' = [call EXCEPT ![c] = q]
      /\ session' = [session EXCEPT ![u] = x]
      /\ UNCHANGED <<realm, account, login, changing, admin, issued, jar, page, upset>>
  BY <1>1, <1>2 DEF WriteHash, Step
<1>5. /\ u # None /\ u \in Sessions /\ o.token.serial <= issued /\ o.token.serial \in 0..MaxTokens
      /\ session[u] \in SessionRow
  <2>1. o.token.of # None /\ o.token.serial <= issued
    BY <1>0, <1>1, <1>4 DEF Types, TypeOK
  <2>2. o.token.of \in Sessions \cup {None} /\ o.token.serial \in 0..MaxTokens
    BY DEF CallRow, Token
  <2> QED BY <1>0, <2>1, <2>2, Facts
<1>6. x \in SessionRow /\ x.serial = o.token.serial /\ Heir(session[u], x)
  BY <1>5 DEF Rotated, SessionRow, Heir
<1> HIDE DEF x
<1>7. \A s \in Sessions : session'[s] = IF s = u THEN x ELSE session[s]
  BY <1>0, <1>4, <1>5, Facts
<1>8. Heirs
  <2>1. session' \in [Sessions -> SessionRow]
    BY <1>0, <1>4, <1>5, <1>6, Facts
  <2>2. \A s \in Sessions : Heir(session[s], session[s])
    BY DEF Heir
  <2> QED BY <1>6, <1>7, <2>1, <2>2 DEF Heirs
<1>9. Types'
  <2>1. jar' \in [access : Sessions \cup {None}, token : Token] /\ page' \in {"in", "out", "left"}
        /\ upset' \in BOOLEAN /\ issued' \in 1..MaxTokens /\ issued <= issued'
    BY <1>0, <1>4, Facts DEF Types, TypeOK
  <2> QED BY <1>0, <1>3, <1>4, <1>5, <1>8, <2>1, CallTypes
<1>10. AccountsOK'
  BY <1>0, <1>4, <1>8, AccountStays
<1>11. PageOK'
  <2> SUFFICES ASSUME page = "in", ~upset PROVE Undisturbed'
    BY <1>4 DEF PageOK
  <2>1. Undisturbed
    BY <1>0 DEF PageOK
  <2>2. \A d \in Calls : call'[d] = IF d = c THEN q ELSE call[d]
    BY <1>0, <1>4, Facts
  <2>3. u = jar.token.of /\ CallOK(o)
    BY <1>1, <1>4, <2>1 DEF Undisturbed, CallOK
  <2>4. \A d \in Calls : d # c => call[d].pc \notin {"refreshing", "rotating", "granted"}
    BY <1>1, <1>4, <2>1 DEF Undisturbed, Refreshing
  <2>5. \A d \in Calls : CallOK(call[d])'
    <3> SUFFICES ASSUME NEW d \in Calls PROVE CallOK(call[d])'
      OBVIOUS
    <3>1. PICK v \in CallRow : v = call'[d]
      BY <1>0, <2>2, Facts
    <3>2. CASE d = c
      <4>1. v = q
        BY <2>2, <3>1, <3>2
      <4>2. CallOK(v)'
        BY <1>3, <1>4, <1>5, <1>6, <1>7, <2>3, <4>1 DEF CallOK
      <4> QED BY <3>1, <4>2 DEF CallOK, Dead
    <3>3. CASE d # c
      <4>1. v = call[d] /\ v.pc \notin {"refreshing", "rotating", "granted"} /\ CallOK(v)
        BY <2>1, <2>2, <2>4, <3>1, <3>3 DEF Undisturbed
      <4>2. account'.identity \in Nat /\ account'.identity >= account.identity
        BY <1>0, <1>4, Facts
      <4>3. v.pc = "denied" => Dead(jar.token.of)'
        BY <1>0, <1>4, <1>5, <1>8, <2>3, <4>1, <4>2, DeadStays DEF CallOK, Dead
      <4>4. CallOK(v)'
        BY <1>4, <4>1, <4>3 DEF CallOK, Dead
      <4> QED BY <3>1, <4>4 DEF CallOK, Dead
    <3> QED BY <3>2, <3>3
  <2>6. \A d, e \in Calls : Refreshing(d)' /\ Refreshing(e)' => d = e
    BY <2>2, <2>4 DEF Refreshing
  <2>7. session'[jar.token.of].state # "none"
    BY <1>5, <1>8, <2>1, <2>3 DEF Undisturbed, Heirs, Heir
  <2>8. call'[c].pc = "granted"
    BY <1>3, <2>2
  <2> QED BY <1>4, <2>1, <2>5, <2>6, <2>7, <2>8 DEF Undisturbed
<1> QED BY <1>9, <1>10, <1>11 DEF IInv, AccountsOK

LEMMA ReceiveStep == ASSUME IInv, NEW c \in Calls, Receive(c) PROVE IInv'
<1>0. Types /\ PageOK /\ AccountsOK
  BY DEF IInv, AccountsOK
<1>1. PICK o \in CallRow : o = call[c]
  BY <1>0, Facts
<1>2. /\ o.pc = "granted" /\ o.token.of # None
      /\ jar' = [access |-> o.token.of, token |-> o.token]
      /\ call' = [call EXCEPT ![c] = [Idle EXCEPT !.pc = "sent", !.retried = TRUE, !.access = o.token.of]]
      /\ UNCHANGED <<realm, account, login, changing, admin, issued, session, page, upset>>
  BY <1>0, <1>1 DEF Receive, Step, Types, TypeOK
<1>3. o.token \in Token /\ o.token.of \in Sessions \cup {None}
  BY DEF CallRow, Token
<1>4. PICK q \in CallRow : /\ q = [Idle EXCEPT !.pc = "sent", !.retried = TRUE, !.access = o.token.of]
                           /\ q.pc = "sent" /\ q.access = o.token.of
  BY <1>3, SentAgain
<1>5. call' = [call EXCEPT ![c] = q]
  BY <1>2, <1>4
<1>6. jar'.access = o.token.of /\ jar'.token = o.token
      /\ jar' \in [access : Sessions \cup {None}, token : Token]
  BY <1>2, <1>3
<1>7. Heirs
  BY <1>0, <1>2, SameRows
<1>8. Types'
  <2>1. page' \in {"in", "out", "left"} /\ upset' \in BOOLEAN /\ issued' \in 1..MaxTokens /\ issued <= issued'
    BY <1>0, <1>2, Facts DEF Types, TypeOK
  <2> QED BY <1>0, <1>2, <1>4, <1>5, <1>6, <1>7, <2>1, CallTypes
<1>9. AccountsOK'
  BY <1>0, <1>2, <1>7, AccountStays
<1>10. PageOK'
  <2> SUFFICES ASSUME page = "in", ~upset PROVE Undisturbed'
    BY <1>2 DEF PageOK
  <2>1. Undisturbed
    BY <1>0 DEF PageOK
  <2>2. \A d \in Calls : call'[d] = IF d = c THEN q ELSE call[d]
    BY <1>0, <1>5, Facts
  <2>3. /\ o.token.of = jar.token.of /\ jar'.token.of = jar.token.of
        /\ session[jar.token.of].serial = o.token.serial
    BY <1>1, <1>2, <1>6, <2>1 DEF Undisturbed, CallOK
  <2>4. \A d \in Calls : d # c => call[d].pc \notin {"refreshing", "rotating", "granted"}
    BY <1>1, <1>2, <2>1 DEF Undisturbed, Refreshing
  <2>5. \A d \in Calls : CallOK(call[d])'
    <3> SUFFICES ASSUME NEW d \in Calls PROVE CallOK(call[d])'
      OBVIOUS
    <3>1. PICK v \in CallRow : v = call'[d]
      BY <1>0, <2>2, Facts
    <3>2. CASE d = c
      <4>1. v = q
        BY <2>2, <3>1, <3>2
      <4>2. CallOK(v)'
        BY <1>2, <1>4, <1>6, <4>1 DEF CallOK
      <4> QED BY <3>1, <4>2 DEF CallOK, Dead
    <3>3. CASE d # c
      <4>1. v = call[d] /\ v.pc \notin {"refreshing", "rotating", "granted"} /\ CallOK(v)
        BY <2>1, <2>2, <2>4, <3>1, <3>3 DEF Undisturbed
      <4>2. CallOK(v)'
        BY <1>2, <2>3, <4>1 DEF CallOK, Dead
      <4> QED BY <3>1, <4>2 DEF CallOK, Dead
    <3> QED BY <3>2, <3>3
  <2>6. \A d, e \in Calls : Refreshing(d)' /\ Refreshing(e)' => d = e
    BY <1>4, <2>2, <2>4 DEF Refreshing
  <2> QED BY <1>2, <1>6, <2>1, <2>3, <2>5, <2>6 DEF Undisturbed
<1> QED BY <1>8, <1>9, <1>10 DEF IInv, AccountsOK

\* A call that ends without the page: "q" is what becomes of it.
LEMMA EndsQuietly ==
  ASSUME IInv, NEW c \in Calls, NEW q \in CallRow, q.pc \in {"idle", "failed"}, ~q.retried,
         q.access = None, call' = [call EXCEPT ![c] = q],
         UNCHANGED <<realm, account, login, changing, admin, issued, session, jar, page>>,
         upset' \in BOOLEAN, upset => upset', call[c].pc = "granted" => upset'
  PROVE  IInv'
<1>0. Types
  BY DEF IInv
<1>1. CallOK(q)'
  BY DEF CallOK
<1>2. Heirs /\ SameTokens
  BY <1>0, SameRows
<1>3. issued' \in 1..MaxTokens /\ issued <= issued'
  BY <1>0, Facts
<1> QED BY <1>1, <1>2, <1>3, CallStepHolds

LEMMA FailStep == ASSUME IInv, NEW c \in Calls, Fail(c) PROVE IInv'
<1>1. /\ call' = [call EXCEPT ![c] = [Idle EXCEPT !.pc = "failed"]]
      /\ UNCHANGED <<realm, account, login, changing, admin, issued, session, jar, page>>
      /\ upset' = (upset \/ call[c].pc = "granted")
  BY DEF Fail, Step
<1>2. upset' \in BOOLEAN /\ (upset => upset') /\ (call[c].pc = "granted" => upset')
  BY <1>1 DEF IInv, Types
<1>3. PICK q \in CallRow : /\ q = [Idle EXCEPT !.pc = "failed"]
                          /\ q.pc = "failed" /\ q.access = None /\ ~q.retried
  BY CallAt DEF CallStates
<1> QED BY <1>1, <1>2, <1>3, EndsQuietly

LEMMA SignOutStep == ASSUME IInv, NEW c \in Calls, SignOut(c) PROVE IInv'
<1>0. Types /\ AccountsOK
  BY DEF IInv, AccountsOK
<1>1. /\ call' = [call EXCEPT ![c] = Idle] /\ call[c].pc # "granted"
      /\ UNCHANGED <<realm, account, login, changing, admin, issued, session, jar, upset>>
      /\ page' = page \/ page' = "out"
  BY DEF SignOut, Step
<1>2. CASE page' = page
  <2>1. upset' \in BOOLEAN /\ (upset => upset')
    BY <1>0, <1>1 DEF Types
  <2> QED BY <1>1, <1>2, <2>1, Zeros, EndsQuietly
<1>3. CASE page' = "out"
  <2>1. Heirs
    BY <1>0, <1>1, SameRows
  <2>2. Types'
    <3>1. /\ jar' \in [access : Sessions \cup {None}, token : Token]
          /\ issued' \in 1..MaxTokens /\ issued <= issued' /\ upset' \in BOOLEAN
      BY <1>0, <1>1, Facts DEF Types
    <3> QED BY <1>0, <1>1, <1>3, <2>1, <3>1, Zeros, CallTypes
  <2>3. AccountsOK'
    BY <1>0, <1>1, <2>1, AccountStays
  <2>4. PageOK'
    BY <1>3 DEF PageOK
  <2> QED BY <2>2, <2>3, <2>4 DEF IInv, AccountsOK
<1> QED BY <1>1, <1>2, <1>3

-----------------------------------------------------------------------------
(***************************************************************************)
(* Login, logout, expiry, and the account.                                 *)
(***************************************************************************)
\* Steps that touch neither the calls nor the tokens. Sessions may end.
LEMMA QuietStep ==
  ASSUME IInv, Heirs, SameTokens, UNCHANGED <<realm, issued, call, upset>>,
         jar' \in [access : Sessions \cup {None}, token : Token], page' \in {"in", "out", "left"},
         \/ page' # "in"
         \/ page' = page /\ jar'.token = jar.token /\ jar'.access \in {None, jar.access},
         admin' \in {"idle", "revoke", "failed"}, changing' \in BOOLEAN,
         changing' => realm = "tenant",
         login' \in [pc : {"idle", "verified"}, by : {"page", "other"}, password : Nat, identity : Nat],
         account' \in Account, account'.identity >= account.identity,
         account'.served => account.served, AccountsOK'
  PROVE  IInv'
<1>1. Types /\ PageOK
  BY DEF IInv
<1>2. Types'
  BY <1>1, Facts DEF Types, TypeOK, Heirs
<1>3. PageOK'
  <2>1. account'.identity \in Nat
    BY DEF Account
  <2>2. CASE page' # "in"
    BY <2>2 DEF PageOK
  <2> QED BY <1>1, <2>1, <2>2, PageStays
<1> QED BY <1>2, <1>3 DEF IInv, AccountsOK

LEMMA VerifyPasswordStep == ASSUME IInv, VerifyPassword PROVE IInv'
<1>0. Types /\ AccountsOK /\ Heirs /\ SameTokens
  <2>1. session' = session
    BY DEF VerifyPassword
  <2> QED BY <2>1, SameRows DEF IInv, AccountsOK
<1>1. PICK by \in {"page", "other"} :
        login' = [pc |-> "verified", by |-> by, password |-> account.password, identity |-> account.identity]
  BY DEF VerifyPassword
<1>2. /\ login' \in [pc : {"idle", "verified"}, by : {"page", "other"}, password : Nat, identity : Nat]
      /\ login'.password = account.password /\ login'.identity = account.identity /\ account.active
  BY <1>0, <1>1, Facts DEF VerifyPassword, Admitted
<1>3. UNCHANGED <<realm, account, session, issued, jar, page, call, changing, admin, upset>>
  BY DEF VerifyPassword
<1>4. AccountsOK'
  <2>1. account.identity \in Nat
    BY <1>0, Facts
  <2> QED BY <1>0, <1>2, <1>3, <2>1 DEF AccountsOK, Identities, PlatformCurrent, TenantCurrent
<1>5. /\ jar' \in [access : Sessions \cup {None}, token : Token] /\ page' \in {"in", "out", "left"}
      /\ admin' \in {"idle", "revoke", "failed"} /\ changing' \in BOOLEAN /\ (changing' => realm = "tenant")
      /\ account' \in Account /\ account'.identity >= account.identity
  BY <1>0, <1>3, Facts DEF Types, TypeOK
<1> QED BY <1>0, <1>2, <1>3, <1>4, <1>5, QuietStep

\* Logout, the end of an access token or of a session, a revocation, and its
\* failure: the account stays.
LEMMA EndStep ==
  ASSUME IInv, Logout \/ AccessExpires \/ SessionExpires \/ RevokeUserSessions \/ RevocationFails
  PROVE  IInv'
<1>0. Types /\ AccountsOK
  BY DEF IInv, AccountsOK
<1>1. UNCHANGED <<realm, account, issued, call, login, changing, upset>>
  BY DEF Logout, AccessExpires, SessionExpires, RevokeUserSessions, RevocationFails
<1>2. Heirs /\ SameTokens
  <2>1. CASE Logout
    <3>1. jar.token.of # None => jar.token.of \in Sessions
      BY <1>0, Facts DEF Token
    <3> QED BY <1>0, <2>1, <3>1, SameRows, RevokedOne DEF Logout, RevokedByLogout, Verifies
  <2>2. CASE SessionExpires
    <3>1. PICK s \in Sessions : session[s].state = "open" /\ session' = [session EXCEPT ![s].state = "expired"]
      BY <2>2 DEF SessionExpires
    <3> DEFINE x == [session[s] EXCEPT !.state = "expired"]
    <3>2. x \in SessionRow /\ Heir(session[s], x) /\ x.serial = session[s].serial
      BY <1>0, <3>1, Facts DEF SessionRow, Heir
    <3>3. session' = [session EXCEPT ![s] = x]
      BY <3>1
    <3> HIDE DEF x
    <3>4. \A t \in Sessions : session'[t] = IF t = s THEN x ELSE session[t]
      BY <1>0, <3>3, Facts
    <3>5. \A t \in Sessions : Heir(session[t], session[t])
      BY DEF Heir
    <3>6. session' \in [Sessions -> SessionRow]
      BY <1>0, <3>2, <3>3, Facts
    <3> QED BY <3>2, <3>4, <3>5, <3>6 DEF Heirs, SameTokens
  <2>3. CASE RevokeUserSessions
    BY <1>0, <2>3, RevokedAll DEF RevokeUserSessions
  <2>4. CASE AccessExpires \/ RevocationFails
    BY <1>0, <2>4, SameRows DEF AccessExpires, RevocationFails
  <2> QED BY <2>1, <2>2, <2>3, <2>4
<1>3. AccountsOK'
  <2>1. CASE RevokeUserSessions
    <3>1. \A s \in Sessions : session'[s].state # "open"
      BY <1>0, <2>1, RevokedAll DEF RevokeUserSessions
    <3>2. account'.identity \in Nat
      BY <1>0, <1>1, Facts
    <3> QED BY <1>0, <1>1, <1>2, <3>1, <3>2, AccountRevoked
  <2>2. CASE ~RevokeUserSessions
    <3>1. admin' = admin \/ admin' \in {"revoke", "failed"}
      BY <2>2 DEF Logout, AccessExpires, SessionExpires, RevocationFails
    <3> QED BY <1>0, <1>1, <1>2, <3>1, AccountStays
  <2> QED BY <2>1, <2>2
<1>4. /\ jar' \in [access : Sessions \cup {None}, token : Token] /\ page' \in {"in", "out", "left"}
      /\ (page' # "in" \/ (page' = page /\ jar'.token = jar.token /\ jar'.access \in {None, jar.access}))
  <2>1. jar \in [access : Sessions \cup {None}, token : Token] /\ page \in {"in", "out", "left"}
    BY <1>0, Facts DEF Types, TypeOK
  <2>2. CASE Logout
    BY <2>2, Zeros DEF Logout
  <2>3. CASE AccessExpires
    <3>1. jar' = [jar EXCEPT !.access = None] /\ page' = page
      BY <2>3 DEF AccessExpires
    <3> QED BY <2>1, <3>1
  <2>4. CASE SessionExpires \/ RevokeUserSessions \/ RevocationFails
    BY <2>1, <2>4 DEF SessionExpires, RevokeUserSessions, RevocationFails
  <2> QED BY <2>2, <2>3, <2>4
<1>5. admin' \in {"idle", "revoke", "failed"}
  BY <1>0 DEF Types, TypeOK, Logout, AccessExpires, SessionExpires, RevokeUserSessions, RevocationFails
<1>6. /\ changing' \in BOOLEAN /\ (changing' => realm = "tenant")
      /\ login' \in [pc : {"idle", "verified"}, by : {"page", "other"}, password : Nat, identity : Nat]
      /\ account' \in Account /\ account'.identity >= account.identity
  BY <1>0, <1>1, Facts DEF Types
<1> QED BY <1>1, <1>2, <1>3, <1>4, <1>5, <1>6, QuietStep

LEMMA BeginInitialChangeStep == ASSUME IInv, BeginInitialChange PROVE IInv'
<1>0. Types /\ AccountsOK /\ Heirs /\ SameTokens
  <2>1. session' = session
    BY DEF BeginInitialChange
  <2> QED BY <2>1, SameRows DEF IInv, AccountsOK
<1>1. /\ UNCHANGED <<realm, account, session, issued, jar, page, call, login, admin, upset>>
      /\ changing' = TRUE /\ realm = "tenant"
  BY DEF BeginInitialChange
<1>2. AccountsOK'
  BY <1>0, <1>1, AccountStays
<1>3. /\ jar' \in [access : Sessions \cup {None}, token : Token] /\ page' \in {"in", "out", "left"}
      /\ admin' \in {"idle", "revoke", "failed"}
      /\ login' \in [pc : {"idle", "verified"}, by : {"page", "other"}, password : Nat, identity : Nat]
      /\ account' \in Account /\ account'.identity >= account.identity
  BY <1>0, <1>1, Facts DEF Types, TypeOK
<1> QED BY <1>0, <1>1, <1>2, <1>3, QuietStep

\* What an account may be after it was changed.
LEMMA ChangedAccount ==
  ASSUME NEW a \in Account
  PROVE  /\ [a EXCEPT !.password = a.password + 1, !.initial = FALSE] \in Account
         /\ [a EXCEPT !.password = a.password + 1, !.initial = FALSE].identity = a.identity
         /\ [a EXCEPT !.password = a.password + 1] \in Account
         /\ [a EXCEPT !.password = a.password + 1].identity = a.identity
         /\ \A b \in BOOLEAN : /\ [a EXCEPT !.active = b] \in Account
                               /\ [a EXCEPT !.active = b].identity = a.identity
                               /\ [a EXCEPT !.active = b].password = a.password
                               /\ [a EXCEPT !.active = b].served = a.served
         /\ [a EXCEPT !.password = a.password + 1, !.initial = FALSE].served = a.served
         /\ [a EXCEPT !.password = a.password + 1].served = a.served
         /\ [a EXCEPT !.served = FALSE] \in Account
         /\ [a EXCEPT !.served = FALSE].identity = a.identity
         /\ [a EXCEPT !.served = FALSE].password = a.password
<1>1. a.password + 1 \in Nat
  BY DEF Account
<1> DEFINE c == [a EXCEPT !.password = a.password + 1, !.initial = FALSE]
           d == [a EXCEPT !.password = a.password + 1]
<1>2. c \in Account /\ c.identity = a.identity /\ c.served = a.served
  BY <1>1 DEF Account
<1>3. d \in Account /\ d.identity = a.identity /\ d.served = a.served
  BY <1>1 DEF Account
<1>4. ASSUME NEW b \in BOOLEAN
      PROVE  [a EXCEPT !.active = b] \in Account /\ [a EXCEPT !.active = b].identity = a.identity
             /\ [a EXCEPT !.active = b].password = a.password /\ [a EXCEPT !.active = b].served = a.served
  BY DEF Account
<1>5. /\ [a EXCEPT !.served = FALSE] \in Account
      /\ [a EXCEPT !.served = FALSE].identity = a.identity
      /\ [a EXCEPT !.served = FALSE].password = a.password
  BY DEF Account
<1> QED BY <1>2, <1>3, <1>4, <1>5

LEMMA CommitInitialChangeStep == ASSUME IInv, CommitInitialChange PROVE IInv'
<1>0. Types /\ AccountsOK
  BY DEF IInv, AccountsOK
<1>1. /\ changing /\ changing' = FALSE /\ session' = AllRevoked /\ page' = "left"
      /\ jar' = [access |-> None, token |-> NoToken]
      /\ UNCHANGED <<realm, issued, call, login, upset, admin>>
      /\ account' = [account EXCEPT !.password = account.password + 1, !.initial = FALSE]
  BY DEF CommitInitialChange, Change
<1>2. /\ account' \in Account /\ account'.identity = account.identity /\ account.identity \in Nat
      /\ account'.served = account.served
  BY <1>0, <1>1, Facts, ChangedAccount
<1>3. Heirs /\ SameTokens /\ \A s \in Sessions : session'[s].state # "open"
  BY <1>0, <1>1, RevokedAll
<1>4. realm = "tenant"
  BY <1>0, <1>1 DEF Types
<1>5. AccountsOK'
  BY <1>0, <1>1, <1>2, <1>3, <1>4, AccountRevoked
<1>6. /\ jar' \in [access : Sessions \cup {None}, token : Token] /\ page' \in {"in", "out", "left"}
      /\ admin' \in {"idle", "revoke", "failed"}
      /\ login' \in [pc : {"idle", "verified"}, by : {"page", "other"}, password : Nat, identity : Nat]
      /\ page' # "in" /\ account'.identity >= account.identity
  BY <1>0, <1>1, <1>2, Zeros DEF Types, TypeOK
<1> QED BY <1>1, <1>2, <1>3, <1>4, <1>5, <1>6, QuietStep

LEMMA ManageOperatorStep == ASSUME IInv, ManageOperator PROVE IInv'
<1>0. Types /\ AccountsOK /\ Heirs /\ SameTokens
  <2>1. session' = session
    BY DEF ManageOperator
  <2> QED BY <2>1, SameRows DEF IInv, AccountsOK
<1>1. realm = "tenant" /\ UNCHANGED <<realm, issued, call, login, upset, session, jar, page, changing>>
  BY DEF ManageOperator, Change
<1>2. /\ account' \in Account /\ account'.identity = account.identity /\ account'.served = account.served
      /\ (admin' = "revoke" \/ (admin' = admin /\ account'.password = account.password))
  <2>1. account \in Account
    BY <1>0, Facts
  <2>2. CASE admin' = "revoke" /\ Change([account EXCEPT !.password = account.password + 1])
    BY <2>1, <2>2, ChangedAccount DEF Change
  <2>3. CASE admin' = "revoke" /\ (Change([account EXCEPT !.active = FALSE]) \/ Change(account))
    BY <2>1, <2>3, ChangedAccount DEF Change
  <2>4. CASE admin' = admin /\ Change([account EXCEPT !.active = TRUE])
    BY <2>1, <2>4, ChangedAccount DEF Change
  <2> QED BY <2>2, <2>3, <2>4 DEF ManageOperator
<1>3. AccountsOK'
  BY <1>0, <1>1, <1>2, AccountManaged
<1>4. /\ jar' \in [access : Sessions \cup {None}, token : Token] /\ page' \in {"in", "out", "left"}
      /\ admin' \in {"idle", "revoke", "failed"} /\ changing' \in BOOLEAN /\ (changing' => realm = "tenant")
      /\ login' \in [pc : {"idle", "verified"}, by : {"page", "other"}, password : Nat, identity : Nat]
      /\ account'.identity >= account.identity
  BY <1>0, <1>1, <1>2, Facts DEF Types, TypeOK
<1> QED BY <1>0, <1>1, <1>2, <1>3, <1>4, QuietStep

LEMMA BlockTenantStep == ASSUME IInv, BlockTenant PROVE IInv'
<1>0. Types /\ AccountsOK /\ Heirs /\ SameTokens
  <2>1. session' = session
    BY DEF BlockTenant
  <2> QED BY <2>1, SameRows DEF IInv, AccountsOK
<1>1. /\ UNCHANGED <<realm, issued, call, login, upset, session, jar, page, changing, admin>>
      /\ realm = "tenant" /\ account.served
      /\ account' = [account EXCEPT !.served = FALSE]
  BY DEF BlockTenant, Change
<1>2. /\ account' \in Account /\ account'.identity = account.identity
      /\ account'.password = account.password
  BY <1>0, <1>1, Facts, ChangedAccount
<1>3. AccountsOK'
  BY <1>0, <1>1, <1>2, AccountManaged
<1>4. /\ jar' \in [access : Sessions \cup {None}, token : Token] /\ page' \in {"in", "out", "left"}
      /\ admin' \in {"idle", "revoke", "failed"} /\ changing' \in BOOLEAN /\ (changing' => realm = "tenant")
      /\ login' \in [pc : {"idle", "verified"}, by : {"page", "other"}, password : Nat, identity : Nat]
      /\ account'.identity >= account.identity
  BY <1>0, <1>1, <1>2, Facts DEF Types, TypeOK
<1> QED BY <1>0, <1>1, <1>2, <1>3, <1>4, QuietStep

LEMMA ManagePlatformAdminStep == ASSUME IInv, ManagePlatformAdmin PROVE IInv'
<1>0. Types /\ AccountsOK
  BY DEF IInv, AccountsOK
<1>1. UNCHANGED <<realm, issued, call, login, upset, jar, page, changing, admin>> /\ session' = AllRevoked
  BY DEF ManagePlatformAdmin, Change
<1>2. /\ account' \in Account /\ account'.identity = account.identity + 1 /\ account.identity \in Nat
      /\ account'.served = account.served
  <2>1. PICK a \in Account : a = account
    BY <1>0, Facts
  <2>2. a.identity + 1 \in Nat /\ a.password + 1 \in Nat /\ a.identity \in Nat
    BY DEF Account
  <2>3. CASE account' = [a EXCEPT !.password = a.password + 1, !.identity = a.identity + 1]
    BY <2>1, <2>2, <2>3 DEF Account
  <2>4. CASE account' = [a EXCEPT !.active = FALSE, !.identity = a.identity + 1]
    BY <2>1, <2>2, <2>4 DEF Account
  <2>5. CASE account' = [a EXCEPT !.active = TRUE, !.password = a.password + 1, !.identity = a.identity + 1]
    BY <2>1, <2>2, <2>5 DEF Account
  <2> QED BY <2>1, <2>3, <2>4, <2>5 DEF ManagePlatformAdmin, Change
<1>3. Heirs /\ SameTokens /\ \A s \in Sessions : session'[s].state # "open"
  BY <1>0, <1>1, RevokedAll
<1>4. account'.identity \in Nat /\ account'.identity > account.identity /\ account'.identity >= account.identity
  BY <1>2
<1>5. AccountsOK'
  BY <1>0, <1>1, <1>3, <1>4, AccountRevoked
<1>6. /\ jar' \in [access : Sessions \cup {None}, token : Token] /\ page' \in {"in", "out", "left"}
      /\ admin' \in {"idle", "revoke", "failed"} /\ changing' \in BOOLEAN /\ (changing' => realm = "tenant")
      /\ login' \in [pc : {"idle", "verified"}, by : {"page", "other"}, password : Nat, identity : Nat]
  BY <1>0, <1>1, Facts DEF Types, TypeOK
<1> QED BY <1>1, <1>2, <1>3, <1>4, <1>5, <1>6, QuietStep

\* The session of a login takes a row that there was not, and bears the version
\* that was read with the password.
LEMMA CreateSessionStep == ASSUME IInv, CreateSession PROVE IInv'
<1>0. Types /\ AccountsOK /\ PageOK
  BY DEF IInv, AccountsOK
<1>1. PICK s \in Sessions :
        /\ login.pc = "verified" /\ session[s] = NoRow /\ issued < MaxTokens
        /\ issued' = issued + 1 /\ login' = NoLogin
        /\ session' = [session EXCEPT ![s] = NewSession(issued + 1)]
        /\ IF login.by = "page"
           THEN /\ page' = "in"
                /\ jar' = [access |-> s, token |-> TokenOf(s, issued + 1)]
                /\ upset' = \E c \in Calls : call[c] # Idle
           ELSE UNCHANGED <<page, jar, upset>>
        /\ UNCHANGED <<realm, account, call, changing, admin>>
  BY DEF CreateSession
<1>2. PICK l \in [pc : {"idle", "verified"}, by : {"page", "other"}, password : Nat, identity : Nat] : l = login
  BY <1>0 DEF Types
<1> DEFINE x == NewSession(issued + 1)
           t == TokenOf(s, issued + 1)
<1>3. issued + 1 \in 0..MaxTokens /\ issued + 1 \in 1..MaxTokens /\ issued <= issued + 1 /\ issued \in Nat
  BY <1>0, <1>1, Facts
<1>4. /\ x \in SessionRow /\ x.state = "open" /\ x.serial = issued + 1 /\ x.identity = l.identity
      /\ x.password = l.password /\ (x.overtaken <=> l.password # account.password)
  <2>1. x = [state |-> "open", serial |-> issued + 1, identity |-> l.identity,
             password |-> l.password, overtaken |-> l.password # account.password]
    BY <1>2 DEF NewSession
  <2>2. (l.password # account.password) \in BOOLEAN
    OBVIOUS
  <2> HIDE DEF x
  <2> QED BY <1>3, <2>1, <2>2 DEF SessionRow
<1>5. t \in Token /\ t.of = s /\ t.serial = issued + 1
  BY <1>3 DEF TokenOf, Token
<1> HIDE DEF x, t
<1>6. session' \in [Sessions -> SessionRow] /\ \A u \in Sessions : session'[u] = IF u = s THEN x ELSE session[u]
  <2>1. session' = [session EXCEPT ![s] = x]
    BY <1>1 DEF x
  <2> QED BY <1>0, <1>4, <2>1, Facts
<1>7. Types'
  <2>1. jar' \in [access : Sessions \cup {None}, token : Token] /\ page' \in {"in", "out", "left"} /\ upset' \in BOOLEAN
    <3>1. CASE login.by = "page"
      <4>1. jar' = [access |-> s, token |-> t]
        BY <1>1, <3>1 DEF t
      <4> QED BY <1>1, <1>5, <3>1, <4>1
    <3>2. CASE login.by # "page"
      BY <1>0, <1>1, <3>2, Facts DEF Types, TypeOK
    <3> QED BY <3>1, <3>2
  <2>2. \A c \in Calls : call[c].pc \in {"rotating", "granted"} => call[c].token.serial <= issued'
    <3> SUFFICES ASSUME NEW c \in Calls, call[c].pc \in {"rotating", "granted"}
                 PROVE  call[c].token.serial <= issued'
      OBVIOUS
    <3>1. call[c].token.serial <= issued /\ call[c] \in CallRow
      BY <1>0, Facts DEF Types, TypeOK
    <3>2. call[c].token.serial \in Nat
      BY <1>0, <3>1, Facts DEF CallRow, Token
    <3> QED BY <1>1, <1>3, <3>1, <3>2
  <2>3. TypeOK'
    BY <1>0, <1>1, <1>3, <1>6, <2>1, <2>2 DEF Types, TypeOK
  <2> QED BY <1>0, <1>1, <2>1, <2>3, Zeros DEF Types
<1>8. AccountsOK'
  <2>1. Identities'
    <3>1. login'.identity = 0 /\ account'.identity = account.identity /\ account.identity \in Nat
      BY <1>0, <1>1, Facts, Zeros
    <3> QED BY <1>0, <1>2, <1>4, <1>6, <3>1 DEF AccountsOK, Identities
  <2>2. PlatformCurrent'
    BY <1>0, <1>1, <1>2, <1>4, <1>6, Zeros DEF AccountsOK, PlatformCurrent
  <2>3. TenantCurrent'
    BY <1>0, <1>1, <1>4, <1>6 DEF AccountsOK, TenantCurrent
  <2> QED BY <2>1, <2>2, <2>3 DEF AccountsOK
<1>9. PageOK'
  <2> SUFFICES ASSUME page' = "in", ~upset' PROVE Undisturbed'
    BY DEF PageOK
  <2>1. CASE login.by = "page"
    <3>1. jar'.access = s /\ jar'.token = t
      BY <1>1, <2>1 DEF t
    <3>2. \A c \in Calls : call'[c] = Idle
      BY <1>1, <2>1
    <3>3. \A c \in Calls : CallOK(call[c])' /\ ~Refreshing(c)'
      BY <3>2, Zeros DEF CallOK, Refreshing
    <3> QED BY <1>4, <1>5, <1>6, <3>1, <3>3 DEF Undisturbed
  <2>2. CASE login.by # "page"
    <3>1. page = "in" /\ ~upset /\ jar' = jar /\ call' = call
      BY <1>1, <2>2
    <3>2. Undisturbed
      BY <1>0, <3>1 DEF PageOK
    <3>3. jar.token.of \in Sessions /\ session'[jar.token.of] = session[jar.token.of]
      BY <1>1, <1>6, <3>2, Zeros DEF Undisturbed
    <3>4. \A c \in Calls : CallOK(call[c])'
      <4> SUFFICES ASSUME NEW c \in Calls PROVE CallOK(call[c])'
        OBVIOUS
      <4>1. PICK q \in CallRow : q = call[c] /\ CallOK(q)
        BY <1>0, <3>2, Facts DEF Undisturbed
      <4>2. CallOK(q)'
        BY <1>1, <3>1, <3>3, <4>1 DEF CallOK, Dead
      <4> QED BY <3>1, <4>1, <4>2 DEF CallOK, Dead
    <3>5. \A c \in Calls : Refreshing(c)' <=> Refreshing(c)
      BY <3>1 DEF Refreshing
    <3> QED BY <3>1, <3>2, <3>3, <3>4, <3>5 DEF Undisturbed
  <2> QED BY <2>1, <2>2
<1> QED BY <1>7, <1>8, <1>9 DEF IInv, AccountsOK

-----------------------------------------------------------------------------
LEMMA StepHolds == ASSUME IInv, [Next]_vars PROVE IInv'
<1>1. CASE UNCHANGED vars
  <2>1. IInv' <=> IInv
    BY <1>1 DEF vars, IInv, Types, TypeOK, Identities, PlatformCurrent, TenantCurrent, PageOK,
         Undisturbed, CallOK, Dead, Refreshing
  <2> QED BY <2>1
<1>2. ASSUME NEW c \in Calls,
             Send(c) \/ Authenticate(c) \/ AskRefresh(c) \/ CompareToken(c) \/ DenyRefresh(c)
               \/ WriteHash(c) \/ Receive(c) \/ Fail(c) \/ SignOut(c)
      PROVE  IInv'
  BY <1>2, SendStep, AuthenticateStep, AskRefreshStep, CompareTokenStep, DenyRefreshStep,
     WriteHashStep, ReceiveStep, FailStep, SignOutStep
<1>3. CASE VerifyPassword \/ CreateSession
  BY <1>3, VerifyPasswordStep, CreateSessionStep
<1>4. CASE Logout \/ AccessExpires \/ SessionExpires \/ RevokeUserSessions \/ RevocationFails
  BY <1>4, EndStep
<1>5. CASE \/ BeginInitialChange \/ CommitInitialChange \/ ManageOperator \/ BlockTenant
           \/ ManagePlatformAdmin
  BY <1>5, BeginInitialChangeStep, CommitInitialChangeStep, ManageOperatorStep, BlockTenantStep,
     ManagePlatformAdminStep
<1> QED BY <1>1, <1>2, <1>3, <1>4, <1>5 DEF Next

LEMMA Inductive == Spec => []IInv
<1>1. IInv /\ [Next]_vars => IInv'
  BY StepHolds
<1> QED BY <1>1, InitHolds, PTL DEF Spec

\* The rows, the cookies and the calls keep their types.
THEOREM SessionsTypes == Spec => []TypeOK
<1>1. IInv => TypeOK
  BY DEF IInv, Types
<1> QED BY <1>1, Inductive, PTL

\* A session that can be refreshed, and on the platform used, was opened with the
\* password the account has now; a tenant's may be waiting for a revocation that
\* is to come or has failed, or was overtaken while its login was under way.
\* Nothing is said of the access tokens that a tenant's user still holds.
THEOREM OpenIsCurrent == Spec => []OpenMeansCurrent
<1>1. IInv => OpenMeansCurrent
  <2> SUFFICES ASSUME IInv, NEW s \in Sessions, session[s].state = "open",
                      session[s].password # account.password, realm = "platform" => Usable(s)
               PROVE  realm = "tenant" /\ (session[s].overtaken \/ admin \in {"revoke", "failed"})
    BY DEF OpenMeansCurrent
  <2>1. realm = "tenant"
    BY Facts DEF IInv, PlatformCurrent, Usable, SameIdentity
  <2> QED BY <2>1 DEF IInv, TenantCurrent
<1> QED BY <1>1, Inductive, PTL

\* No step brings a revoked session back: not the refresh that compared its
\* token before the revocation, and writes the next one after it.
THEOREM RevokedStays == Spec => RevokedIsFinal
<1> DEFINE Stay == \A s \in Sessions : session[s].state = "revoked" => session'[s].state = "revoked"
<1>1. ASSUME IInv, [Next]_vars PROVE Stay
  <2>0. Types
    BY <1>1 DEF IInv
  <2>1. CASE session' = session
    BY <2>1
  <2>2. CASE session' = AllRevoked
    BY <2>0, <2>2, RevokedAll DEF Heirs, Heir
  <2>3. ASSUME NEW c \in Calls, DenyRefresh(c) \/ WriteHash(c) PROVE Stay
    <3>1. CASE DenyRefresh(c)
      <4>1. call[c].token.of # None => call[c].token.of \in Sessions
        BY <2>0, Facts DEF CallRow, Token
      <4> QED BY <2>0, <2>1, <2>2, <3>1, <4>1, RevokedOne DEF DenyRefresh, Verifies, Heirs, Heir
    <3>2. CASE WriteHash(c)
      <4> DEFINE u == call[c].token.of
                 x == Rotated(session[u], call[c].token.serial)
      <4>1. session' = [session EXCEPT ![u] = x]
        BY <3>2 DEF WriteHash
      <4>2. u \in Sessions => x.state = session[u].state
        BY <2>0, Facts DEF Rotated, SessionRow
      <4> HIDE DEF x, u
      <4>3. \A s \in Sessions : session'[s] = IF s = u THEN x ELSE session[s]
        BY <2>0, <4>1, Facts
      <4> QED BY <4>2, <4>3
    <3> QED BY <2>3, <3>1, <3>2
  <2>4. CASE CreateSession
    <3>1. PICK s \in Sessions : session[s] = NoRow /\ session' = [session EXCEPT ![s] = NewSession(issued + 1)]
      BY <2>4 DEF CreateSession
    <3>2. \A u \in Sessions : u # s => session'[u] = session[u]
      BY <2>0, <3>1, Facts
    <3> QED BY <3>1, <3>2, Zeros
  <2>5. CASE Logout
    <3>1. jar.token.of # None => jar.token.of \in Sessions
      BY <2>0, Facts DEF Token
    <3> QED BY <2>0, <2>1, <2>5, <3>1, RevokedOne DEF Logout, RevokedByLogout, Verifies, Heirs, Heir
  <2>6. CASE SessionExpires
    <3>1. PICK s \in Sessions : session[s].state = "open" /\ session' = [session EXCEPT ![s].state = "expired"]
      BY <2>6 DEF SessionExpires
    <3>2. \A u \in Sessions : u # s => session'[u] = session[u]
      BY <2>0, <3>1, Facts
    <3> QED BY <3>1, <3>2
  <2>7. session' = session \/ session' = AllRevoked \/ (\E c \in Calls : DenyRefresh(c) \/ WriteHash(c))
        \/ CreateSession \/ Logout \/ SessionExpires
    BY <1>1 DEF Next, vars, Send, Authenticate, AskRefresh, CompareToken, Receive, Fail, SignOut,
         VerifyPassword, AccessExpires, BeginInitialChange, CommitInitialChange, ManageOperator,
         RevokeUserSessions, RevocationFails, BlockTenant, ManagePlatformAdmin
  <2> QED BY <2>1, <2>2, <2>3, <2>4, <2>5, <2>6, <2>7
<1>2. IInv /\ [Next]_vars => [Stay]_vars
  BY <1>1
<1> QED BY <1>2, Inductive, PTL DEF Spec, RevokedIsFinal

\* A page that gives up, and not because a call of its own failed, has a session
\* that ended, while no two of its refreshes overlap, no answer to one is lost and
\* no call outlives a login.
THEOREM SignedOutRightly == Spec => SignedOutForACause
<1> DEFINE Right == page = "in" /\ page' = "out" => Ended \/ upset \/ ActsOnFailure
<1>1. ASSUME IInv, [Next]_vars, page = "in", page' = "out", ~upset PROVE Ended \/ ActsOnFailure
  <2>1. PICK c \in Calls : SignOut(c)
    BY <1>1 DEF Next, vars, Send, Authenticate, AskRefresh, CompareToken, DenyRefresh, WriteHash, Receive,
         Fail, VerifyPassword, CreateSession, Logout, AccessExpires, SessionExpires,
         BeginInitialChange, CommitInitialChange, ManageOperator, RevokeUserSessions, RevocationFails,
         BlockTenant, ManagePlatformAdmin, Change, Step
  <2>2. CASE call[c].pc = "failed"
    <3>1. call'[c] = Idle
      BY <1>1, <2>1, Facts DEF IInv, SignOut, Step
    <3> QED BY <2>2, <3>1 DEF ActsOnFailure
  <2>3. CASE call[c].pc = "denied"
    <3>1. Dead(jar.token.of) /\ jar.token.of \in Sessions
      BY <1>1, <2>3 DEF IInv, PageOK, Undisturbed, CallOK
    <3>2. session[jar.token.of].identity \in Nat /\ account.identity \in Nat
      BY <1>1, <3>1, Facts, RowFacts DEF IInv
    <3> QED BY <3>1, <3>2 DEF Dead, Ended, SameIdentity
  <2> QED BY <2>1, <2>2, <2>3 DEF SignOut
<1>2. IInv /\ [Next]_vars => [Right]_vars
  BY <1>1
<1> QED BY <1>2, Inductive, PTL DEF Spec, SignedOutForACause
=============================================================================
