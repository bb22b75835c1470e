---------------------------- MODULE Provisioning ----------------------------
(***************************************************************************)
(* The creation of a tenant and its first manager under an idempotency     *)
(* key. The temporary password is not stored but derived from the key and  *)
(* the request, so that a repeated request, after an answer that was lost, *)
(* is answered the same password. Requests of one key are serialised by an *)
(* advisory lock; the code of a tenant is random and unique.               *)
(***************************************************************************)
EXTENDS Naturals

CONSTANTS
  Requests, ProvisionKeys, Bodies, PlatformAdmins,
  TenantCodes,    \* the codes the generator may draw
  CodeAttempts,   \* draws of a code (5)
  MaxTenants,     \* bound: tenants created
  NoOne           \* null

ASSUME ProvisioningAssumption ==
  CodeAttempts \in Nat \ {0} /\ MaxTenants \in Nat /\ NoOne \notin Nat

VARIABLES
  request,   \* the requests, by their state
  tenant,    \* the rows of tenants, each with its first manager
  record     \* platform_tenant_idempotency: who asked for what, and its tenant

provisioningVars == <<request, tenant, record>>

Tenants == 1..MaxTenants

\* What is derived from the secret, the key and the body.
Password == ProvisionKeys \X Bodies
TemporaryPassword(r) == <<r.key, r.body>>

Asked == [key : ProvisionKeys, body : Bodies, admin : PlatformAdmins,
          pc : {"waiting", "locked", "committed", "answered", "failed"},
          draw : 1..CodeAttempts, code : TenantCodes, tenant : Tenants \cup {NoOne}]
NotAsked == [pc |-> "idle"]

\* The password is the one the hash was made of, null once it is changed.
TenantRow == [state : {"live", "purged", "deleted"}, code : TenantCodes,
              key : ProvisionKeys, password : Password \cup {NoOne}]
NoTenant == [state |-> "none"]

RecordRow == [body : Bodies, admin : PlatformAdmins, tenant : Tenants]

ASSUME NoRecordAssumption == NoOne \notin RecordRow

InitProvisioning ==
  /\ request = [r \in Requests |-> NotAsked]
  /\ tenant = [t \in Tenants |-> NoTenant]
  /\ record = [k \in ProvisionKeys |-> NoOne]

\* The request is checked and its password hashed before the first transaction.
Ask(r) ==
  /\ request[r] = NotAsked
  /\ \E k \in ProvisionKeys, b \in Bodies, a \in PlatformAdmins, c \in TenantCodes :
       request' = [request EXCEPT ![r] = [key |-> k, body |-> b, admin |-> a, pc |-> "waiting",
                                          draw |-> 1, code |-> c, tenant |-> NoOne]]
  /\ UNCHANGED <<tenant, record>>

Holds(r, k) == request[r].pc = "locked" /\ request[r].key = k

\* The lock is taken, and held to the end of the transaction.
LockKey(r) ==
  /\ request[r].pc = "waiting"
  /\ \A q \in Requests : ~Holds(q, request[r].key)
  /\ request' = [request EXCEPT ![r].pc = "locked"]
  /\ UNCHANGED <<tenant, record>>

Existing(r) == record[request[r].key]

SameAdmin(r) == Existing(r).admin = request[r].admin
SameRequest(r) == Existing(r).admin = request[r].admin /\ Existing(r).body = request[r].body

RefuseKey(r) ==
  /\ request[r].pc = "locked" /\ Existing(r) # NoOne
  /\ ~SameRequest(r)
  /\ request' = [request EXCEPT ![r].pc = "failed"]
  /\ UNCHANGED <<tenant, record>>

Replay(r) ==
  /\ request[r].pc = "locked" /\ Existing(r) # NoOne
  /\ SameRequest(r)
  /\ request' = [request EXCEPT ![r].pc = "committed", ![r].tenant = Existing(r).tenant]
  /\ UNCHANGED <<tenant, record>>

\* The code of a purged tenant stays reserved; that of a deleted one is free.
Taken(code) == \E t \in Tenants : tenant[t].state \in {"live", "purged"} /\ tenant[t].code = code

RecordLost(r, t) == record
RecordOf(r, t) ==
  [record EXCEPT ![request[r].key] = [body |-> request[r].body, admin |-> request[r].admin, tenant |-> t]]

\* The tenant, its subscription, its manager and the record, in one transaction.
CreateTenant(r) ==
  /\ request[r].pc = "locked" /\ Existing(r) = NoOne
  /\ ~Taken(request[r].code)
  /\ \E t \in Tenants :
       /\ tenant[t] = NoTenant /\ \A u \in 1..(t - 1) : tenant[u] # NoTenant
       /\ tenant' = [tenant EXCEPT ![t] = [state |-> "live", code |-> request[r].code,
                       key |-> request[r].key, password |-> TemporaryPassword(request[r])]]
       /\ record' = RecordOf(r, t)
       /\ request' = [request EXCEPT ![r].pc = "committed", ![r].tenant = t]

\* The transaction fails: the lock is gone, and another code is drawn.
DrawAgain(r) ==
  /\ request[r].pc = "locked" /\ Existing(r) = NoOne
  /\ Taken(request[r].code)
  /\ IF request[r].draw < CodeAttempts
     THEN \E c \in TenantCodes :
            request' = [request EXCEPT ![r].pc = "waiting", ![r].draw = @ + 1, ![r].code = c]
     ELSE request' = [request EXCEPT ![r].pc = "failed"]
  /\ UNCHANGED <<tenant, record>>

\* After the commit the audit is written and the answer sent; either may fail.
AnswerRequest(r) ==
  /\ request[r].pc = "committed"
  /\ \E pc \in {"answered", "failed"} : request' = [request EXCEPT ![r].pc = pc]
  /\ UNCHANGED <<tenant, record>>

ChangePassword(t) ==
  /\ tenant[t].state = "live" /\ tenant[t].password # NoOne
  /\ tenant' = [tenant EXCEPT ![t].password = NoOne]
  /\ UNCHANGED <<request, record>>

\* A purge keeps the row, the deletion in staging does not; both drop the record.
EndTenant(t) ==
  /\ tenant[t].state = "live"
  /\ \E state \in {"purged", "deleted"} :
       tenant' = [tenant EXCEPT ![t].state = state, ![t].password = NoOne]
  /\ record' = [k \in ProvisionKeys |->
                 IF record[k] # NoOne /\ record[k].tenant = t THEN NoOne ELSE record[k]]
  /\ UNCHANGED request

NextProvisioning ==
  \/ \E r \in Requests :
       Ask(r) \/ LockKey(r) \/ RefuseKey(r) \/ Replay(r) \/ CreateTenant(r) \/ DrawAgain(r)
         \/ AnswerRequest(r)
  \/ \E t \in Tenants : ChangePassword(t) \/ EndTenant(t)

ProvisioningSpec == InitProvisioning /\ [][NextProvisioning]_provisioningVars

-----------------------------------------------------------------------------
(***************************************************************************)
(* Properties.                                                             *)
(***************************************************************************)
\* The variables keep their types.
ProvisioningTypeOK ==
  /\ request \in [Requests -> Asked \cup {NotAsked}]
  /\ tenant \in [Tenants -> TenantRow \cup {NoTenant}]
  /\ record \in [ProvisionKeys -> RecordRow \cup {NoOne}]

\* However requests are repeated, overlap or are drawn a code again, the tenants
\* of one key are one, as long as the first is there.
OneTenantPerKey ==
  \A t, u \in Tenants :
    tenant[t].state = "live" /\ tenant[u].state = "live" /\ tenant[t].key = tenant[u].key => t = u

\* The temporary password of an answer, computed again for a repeated request and
\* stored nowhere, opens the tenant of the answer until its manager changes it.
AnswerOpensTenant ==
  \A r \in Requests :
    request[r].pc = "answered" /\ tenant[request[r].tenant].state = "live"
      => tenant[request[r].tenant].password \in {TemporaryPassword(request[r]), NoOne}
=============================================================================
