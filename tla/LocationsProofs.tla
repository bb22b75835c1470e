--------------------------- MODULE LocationsProofs ---------------------------
(***************************************************************************)
(* Proofs about Locations, for any places, people and requests, any limit  *)
(* and any period of grace: the quota is kept, a purge comes in its time,  *)
(* leaves nothing, and is not undone by a request that had read the row    *)
(* before. A request is at most a tick old, which is short of the period   *)
(* of grace: what it has read is not purged before it writes.              *)
(***************************************************************************)
EXTENDS Locations, FiniteSetTheorems, TLAPS

Ops == PersonOps \cup PlaceOps \cup {"none", "assign", "create", "limit"}
TouchOps == {"rename", "edit", "activate", "deactivate", "delete"}

Req == [op : Ops, on : Things \cup (SUBSET Places) \cup Nat \cup {None},
        pc : {"idle", "read", "lock", "write"},
        seen : Statuses \cup {None} \cup Nat \cup (SUBSET Places), now : Nat, late : BOOLEAN]

\* A row "x" is there, and not purged for "n" ticks on its own account,
RowSafe(x, n) ==
  /\ x.status \notin {"none", "purged"}
  /\ x.status = "pending_delete" => x.due \in Nat /\ x.due >= clock + n
\* nor, being a person's, on that of its location.
Safe(t, n) == RowSafe(row[t], n) /\ (t \in People => RowSafe(row[Home[t]], n))

\* The ticks a request may have left, and those it may have lasted.
Left(q) == IF q.late THEN 1 ELSE 2
Passed(q) == IF q.late THEN 1 ELSE 0

Addresses(q) ==
  /\ q.op \in TouchOps \cup {"restore", "add"} => q.on \in Things
  /\ q.op = "add" => q.on \in People
  /\ q.op = "create" => q.on \in Places
  /\ q.op = "limit" => q.on \in 1..MaxLimit
  /\ q.op = "assign" => q.on \in SUBSET Places
  /\ q.pc = "read" => q.op \in TouchOps \cup {"restore"}
  /\ q.pc = "lock" => q.op = "limit"

\* What a request "q" has read is still safe when it writes: its row,
SafeRow(q) == q.op \in TouchOps /\ q.pc = "write" => Safe(q.on, Left(q))
\* the location of its person, and the locations it assigns.
SafeHome(q) ==
  q.op \in TouchOps \cup {"restore", "add"} /\ q.on \in People => Safe(Home[q.on], Left(q))
SafePlaces(q) == q.op = "assign" => \A l \in q.on : Safe(l, Left(q))

\* The time it has noted is at most a tick old.
Notes(q) ==
  q.op \in {"delete", "restore"} /\ q.pc = "write" =>
    /\ q.seen \in {"active", "inactive"}
    /\ q.now <= clock /\ clock <= q.now + Passed(q)

Fresh(q) == Addresses(q) /\ SafeRow(q) /\ SafeHome(q) /\ SafePlaces(q) /\ Notes(q)

\* What it has found under the lock of the tenant still holds.
Reserved(q) ==
  q.pc = "write" => /\ q.op = "create" => Usage < tenant.limit
                    /\ q.op = "limit" => Usage <= q.on

Holds(q) == q.pc = "write" /\ q.op \in {"create", "limit"}

PurgeOK ==
  /\ purge \in [pc : {"idle", "locations", "people"}, now : Nat, todo : SUBSET Things]
  /\ purge.now <= clock
  /\ purge.pc = "locations" => purge.todo \in SUBSET Places
  /\ purge.pc = "people" => purge.todo \in SUBSET People

\* Where nothing is, nothing is named.
Nameless == \A t \in Things : row[t].status \in {"none", "purged"} => ~row[t].named

\* Of a request, as it stands in the record "q": what it has read and found.
Informed == \A r \in Requests, q \in Req : q = request[r] => Fresh(q) /\ Reserved(q)

IInv ==
  /\ TypeOK
  /\ request \in [Requests -> Req]
  /\ tenant \in [limit : Nat, version : Nat, lock : Requests \cup {None}]
  /\ Informed
  /\ PurgeOK
  /\ Nameless
  /\ QuotaKept
  /\ PurgedLocationIsEmpty

-----------------------------------------------------------------------------
LEMMA Constants ==
  /\ \A p \in People : Home[p] \in Places
  /\ IsFiniteSet(Places) /\ Places \cap People = {} /\ Retention \in Nat /\ Retention >= 3
  /\ MaxLimit \in Nat /\ MaxTime \in Nat /\ None \notin Nat /\ None \notin Requests
BY ConstantsAssumption

LEMMA IdleRow ==
  /\ Idle \in Req /\ Idle.pc = "idle" /\ Idle.op = "none" /\ ~Idle.late
  /\ Fresh(Idle) /\ Reserved(Idle) /\ ~Holds(Idle)
<1>1. Idle \in Req /\ Idle.pc = "idle" /\ Idle.op = "none" /\ ~Idle.late
  BY DEF Idle, Req, Ops
<1> QED BY <1>1 DEF Fresh, Addresses, SafeRow, SafeHome, SafePlaces, Notes, Reserved, Holds, TouchOps

LEMMA UsageIsNat == Usage \in Nat /\ IsFiniteSet(Claimed(row))
<1>1. IsFiniteSet(Claimed(row))
  BY Constants, FS_Subset DEF Claimed
<1> QED BY <1>1, FS_CardinalityType DEF Usage

LEMMA InitHolds == Init => IInv
<1> SUFFICES ASSUME Init PROVE IInv
  OBVIOUS
<1>1. PastRow \subseteq Row /\ \A x \in PastRow : x.status \in {"none", "active", "pending_delete"}
                            /\ (x.status = "none" => ~x.named)
  BY DEF PastRow, NewRow, LiveRow, Row, Statuses
<1>2. row \in [Things -> Row] /\ \A t \in Things : row[t] \in PastRow
  BY <1>1 DEF Init
<1>3. Claimed(row) \subseteq Places
  BY DEF Claimed
<1>4. PICK n \in 1..MaxLimit : n >= Cardinality(Claimed(row)) /\ tenant = [limit |-> n, version |-> 1, lock |-> None]
  BY DEF Init
<1>5. \A r \in Requests : request[r] = Idle
  BY DEF Init
<1>6. request \in [Requests -> Req]
  BY IdleRow DEF Init
<1>7. TypeOK
  <2>1. clock \in 0..MaxTime
    BY Constants DEF Init
  <2>2. tenant.limit \in 1..MaxLimit /\ tenant.version \in Nat /\ tenant.lock = None
    BY <1>4
  <2>3. assigned \in SUBSET Places /\ queued \in SUBSET Places /\ purge.todo \in SUBSET Things
    BY <1>3 DEF Init
  <2>4. \A r \in Requests : tenant.lock # r /\ request[r].pc # "write"
    BY <1>5, <2>2, IdleRow, Constants
  <2> QED BY <1>2, <2>1, <2>2, <2>3, <2>4 DEF TypeOK
<1>8. Informed
  BY <1>5, IdleRow DEF Informed
<1>13. tenant \in [limit : Nat, version : Nat, lock : Requests \cup {None}]
  BY <1>4
<1>9. PurgeOK
  BY DEF Init, PurgeOK
<1>10. Nameless
  BY <1>1, <1>2 DEF Nameless
<1>11. QuotaKept
  BY <1>4, UsageIsNat DEF QuotaKept, Usage
<1>12. PurgedLocationIsEmpty
  BY <1>1, <1>2 DEF PurgedLocationIsEmpty, Things
<1> QED BY <1>6, <1>7, <1>8, <1>9, <1>10, <1>11, <1>12, <1>13 DEF IInv

LEMMA Known ==
  ASSUME IInv, NEW r \in Requests
  PROVE  /\ request[r] \in Req /\ Fresh(request[r]) /\ Reserved(request[r])
         /\ clock \in Nat /\ row \in [Things -> Row] /\ request \in [Requests -> Req]
         /\ (tenant.lock = r <=> Holds(request[r]))
<1>1. request[r] \in Req /\ Informed
  BY DEF IInv
<1>2. Fresh(request[r]) /\ Reserved(request[r])
  BY <1>1 DEF Informed
<1> QED BY <1>1, <1>2, Constants DEF IInv, TypeOK, Holds

LEMMA RowFields ==
  ASSUME NEW x \in Row
  PROVE  /\ x.status \in Statuses /\ x.due \in Nat \cup {None}
         /\ x.from \in {"active", "inactive", None} /\ x.named \in BOOLEAN
BY DEF Row

\* What a request has read stays fresh while rows stay safe and no tick passes.
SafeKept == \A t \in Things, n \in {1, 2} : Safe(t, n) => Safe(t, n)'

LEMMA FreshKept ==
  ASSUME NEW q \in Req, Fresh(q), clock' = clock, SafeKept
  PROVE  Fresh(q)'
<1>1. Left(q) \in {1, 2}
  BY DEF Left
<1>2. SafeRow(q)'
  BY <1>1 DEF Fresh, Addresses, SafeRow, SafeKept, Left, TouchOps
<1>3. SafeHome(q)'
  BY <1>1, Constants DEF Fresh, SafeHome, SafeKept, Left, Things
<1>4. SafePlaces(q)'
  BY <1>1 DEF Fresh, Addresses, SafePlaces, SafeKept, Left, Things
<1>5. Notes(q)'
  BY DEF Fresh, Notes, Passed
<1> QED BY <1>2, <1>3, <1>4, <1>5 DEF Fresh, Addresses

LEMMA UsageFalls ==
  ASSUME Claimed(row') \subseteq Claimed(row)
  PROVE  Usage' <= Usage /\ Usage' \in Nat /\ Usage \in Nat
<1>1. Cardinality(Claimed(row')) <= Cardinality(Claimed(row)) /\ Cardinality(Claimed(row')) \in Nat
  BY UsageIsNat, FS_Subset, FS_CardinalityType
<1> QED BY <1>1, UsageIsNat DEF Usage

-----------------------------------------------------------------------------
\* A step of a request that writes no row: what it comes to know has to be right,
\* and the lock to be its own.
LEMMA RequestStep ==
  ASSUME IInv, NEW r \in Requests, NEW q \in Req, Fresh(q), Reserved(q),
         request' = [request EXCEPT ![r] = q],
         UNCHANGED <<clock, row, assigned, queued, purge>>,
         tenant' \in [limit : Nat, version : Nat, lock : Requests \cup {None}],
         tenant'.limit = tenant.limit, tenant'.version = tenant.version,
         \A s \in Requests : tenant'.lock = s <=> Holds(request'[s])
  PROVE  IInv'
<1>1. request' \in [Requests -> Req] /\ \A s \in Requests : request'[s] = IF s = r THEN q ELSE request[s]
  BY DEF IInv
<1>2. TypeOK'
  BY DEF IInv, TypeOK, Holds
<1>3. Informed'
  <2> SUFFICES ASSUME NEW s \in Requests, NEW v \in Req, v = request'[s]
               PROVE  Fresh(v)' /\ Reserved(v)'
    BY DEF Informed
  <2>1. Fresh(v) /\ Reserved(v)
    BY <1>1, Known
  <2>2. SafeKept
    BY DEF SafeKept, Safe, RowSafe
  <2>3. Fresh(v)'
    BY <2>1, <2>2, FreshKept
  <2>4. Reserved(v)'
    BY <2>1 DEF Reserved, Usage
  <2> QED BY <2>3, <2>4
<1>4. PurgeOK' /\ Nameless' /\ QuotaKept' /\ PurgedLocationIsEmpty'
  BY DEF IInv, PurgeOK, Nameless, QuotaKept, Usage, PurgedLocationIsEmpty
<1> QED BY <1>1, <1>2, <1>3, <1>4 DEF IInv

\* One that ends, and has written rows.
LEMMA WriteStep ==
  ASSUME IInv, NEW r \in Requests, request' = [request EXCEPT ![r] = Idle],
         UNCHANGED <<clock, purge>>, row' \in [Things -> Row],
         assigned' \in SUBSET Places, queued' \in SUBSET Places,
         tenant' \in [limit : Nat, version : Nat, lock : Requests \cup {None}],
         tenant'.limit \in 1..MaxLimit,
         \A s \in Requests : tenant'.lock = s <=> s # r /\ tenant.lock = s,
         \A s \in Requests, q \in Req : s # r /\ q = request[s] /\ Reserved(q) => Reserved(q)',
         SafeKept, Nameless', QuotaKept', PurgedLocationIsEmpty'
  PROVE  IInv'
<1>1. request' \in [Requests -> Req] /\ \A s \in Requests : request'[s] = IF s = r THEN Idle ELSE request[s]
  BY IdleRow DEF IInv
<1>2. TypeOK'
  <2>1. \A s \in Requests : tenant'.lock = s <=> Holds(request'[s])
    BY <1>1, IdleRow, Known
  <2> QED BY <2>1 DEF IInv, TypeOK, Holds
<1>3. Informed'
  <2> SUFFICES ASSUME NEW s \in Requests, NEW v \in Req, v = request'[s]
               PROVE  Fresh(v)' /\ Reserved(v)'
    BY DEF Informed
  <2>1. Fresh(v)
    BY <1>1, IdleRow, Known
  <2>2. Fresh(v)'
    BY <2>1, FreshKept
  <2>3. Reserved(v)'
    <3>1. CASE s = r
      BY <1>1, <3>1, IdleRow DEF Reserved
    <3>2. CASE s # r
      BY <1>1, <3>2, Known
    <3> QED BY <3>1, <3>2
  <2> QED BY <2>2, <2>3
<1>4. PurgeOK'
  BY DEF IInv, PurgeOK
<1> QED BY <1>1, <1>2, <1>3, <1>4 DEF IInv

\* One that leaves the lock of the tenant alone.
LEMMA PlainStep ==
  ASSUME IInv, NEW r \in Requests, NEW q \in Req, Fresh(q), ~Holds(q), ~Holds(request[r]),
         request' = [request EXCEPT ![r] = q],
         UNCHANGED <<clock, row, assigned, queued, purge, tenant>>
  PROVE  IInv'
<1>1. Reserved(q)
  BY DEF Reserved, Holds
<1>2. \A s \in Requests : request'[s] = IF s = r THEN q ELSE request[s]
  BY Known
<1>3. \A s \in Requests : tenant'.lock = s <=> Holds(request'[s])
  BY <1>2, Known
<1>4. tenant' \in [limit : Nat, version : Nat, lock : Requests \cup {None}]
  BY DEF IInv
<1> QED BY <1>1, <1>3, <1>4, RequestStep

\* A row that is seen is safe for any time.
LEMMA SeenIsSafe ==
  ASSUME IInv, NEW t \in Things, Visible(t), NEW n
  PROVE  RowSafe(row[t], n) /\ row[t].status \in {"active", "inactive"}
BY RowFields DEF IInv, TypeOK, Visible, Gone, RowSafe, Statuses

LEMMA ReadPlaceStep == ASSUME IInv, NEW r \in Requests, ReadPlace(r) PROVE IInv'
<1>1. PICK l \in Places, op \in PlaceOps :
        Found(op, l) /\ Begin(r, op, l, "write", Remembered(op, l), Noted(op)) /\ UNCHANGED tenant
  BY DEF ReadPlace
<1> DEFINE seen == Remembered(op, l)
           now == Noted(op)
           q == [op |-> op, on |-> l, pc |-> "write", seen |-> seen, now |-> now, late |-> FALSE]
<1>2. l \in Things /\ l \notin People /\ row[l] \in Row /\ clock \in Nat
  BY Known, Constants DEF Things
<1>3. now \in Nat /\ (op \in {"delete", "restore"} => now = clock)
  BY <1>2 DEF Noted
<1>4. op \in TouchOps => Visible(l)
  BY <1>1 DEF Found, TouchOps
<1>5. op \in {"delete", "restore"} => seen \in {"active", "inactive"}
  BY <1>2, <1>4, SeenIsSafe DEF Remembered, TouchOps
<1>6. seen \in Statuses \cup {None}
  BY <1>2, RowFields DEF Remembered, Statuses
<1>7. request' = [request EXCEPT ![r] = q] /\ request[r] = Idle
  BY <1>1 DEF Begin
<1> HIDE DEF seen, now
<1>8. /\ q \in Req /\ q.op = op /\ q.on = l /\ q.pc = "write" /\ q.seen = seen /\ q.now = now /\ ~q.late
  BY <1>2, <1>3, <1>6 DEF Req, Ops
<1> HIDE DEF q
<1>9. SafeRow(q)
  BY <1>2, <1>4, <1>8, SeenIsSafe DEF SafeRow, Safe
<1>10. Notes(q)
  BY <1>2, <1>3, <1>5, <1>8 DEF Notes, Passed
<1>11. Addresses(q) /\ SafeHome(q) /\ SafePlaces(q)
  BY <1>2, <1>8 DEF Addresses, SafeHome, SafePlaces, PlaceOps
<1>12. ~Holds(q) /\ ~Holds(request[r])
  BY <1>7, <1>8, IdleRow DEF Holds, PlaceOps
<1> QED BY <1>1, <1>7, <1>8, <1>9, <1>10, <1>11, <1>12, PlainStep DEF Begin, Fresh

LEMMA LookForPersonStep == ASSUME IInv, NEW r \in Requests, LookForPerson(r) PROVE IInv'
<1>1. PICK p \in People, op \in PersonOps :
        /\ Visible(Home[p])
        /\ Begin(r, op, p, IF op = "add" THEN "write" ELSE "read", None, 0)
        /\ UNCHANGED tenant
  BY DEF LookForPerson
<1> DEFINE pc == IF op = "add" THEN "write" ELSE "read"
           q == [op |-> op, on |-> p, pc |-> pc, seen |-> None, now |-> 0, late |-> FALSE]
<1>2. p \in Things /\ Home[p] \in Things /\ Home[p] \notin People
  BY Constants DEF Things
<1>3. pc \in {"read", "write"} /\ (pc = "write" <=> op = "add")
  OBVIOUS
<1>4. request' = [request EXCEPT ![r] = q] /\ request[r] = Idle
  BY <1>1 DEF Begin
<1> HIDE DEF pc
<1>5. q \in Req /\ q.op = op /\ q.on = p /\ q.pc = pc /\ ~q.late
  BY <1>2, <1>3 DEF Req, Ops
<1> HIDE DEF q
<1>6. Addresses(q)
  BY <1>2, <1>3, <1>5 DEF Addresses, PersonOps, TouchOps
<1>7. SafeHome(q)
  BY <1>1, <1>2, <1>5, SeenIsSafe DEF SafeHome, Safe
<1>8. SafeRow(q) /\ SafePlaces(q) /\ Notes(q)
  BY <1>3, <1>5 DEF SafeRow, SafePlaces, Notes, PersonOps, TouchOps
<1>9. ~Holds(q) /\ ~Holds(request[r])
  BY <1>4, <1>5, IdleRow DEF Holds, PersonOps
<1> QED BY <1>1, <1>4, <1>5, <1>6, <1>7, <1>8, <1>9, PlainStep DEF Begin, Fresh

LEMMA ReadPersonStep == ASSUME IInv, NEW r \in Requests, ReadPerson(r) PROVE IInv'
<1>0. PICK o \in Req : o = request[r]
  BY Known
<1>1. /\ o.pc = "read" /\ Found(o.op, o.on) /\ Fresh(o)
      /\ o.op \in TouchOps \cup {"restore"} /\ o.on \in Things
  BY <1>0, Known DEF ReadPerson, Fresh, Addresses
<1> DEFINE seen == Remembered(o.op, o.on)
           now == Noted(o.op)
           q == [o EXCEPT !.pc = "write", !.seen = seen, !.now = now]
<1>2. row[o.on] \in Row /\ clock \in Nat
  BY <1>1, Known
<1>3. now \in Nat /\ (o.op \in {"delete", "restore"} => now = clock)
  BY <1>2 DEF Noted
<1>4. o.op \in TouchOps => Visible(o.on)
  BY <1>1 DEF Found, TouchOps
<1>5. o.op \in {"delete", "restore"} => seen \in {"active", "inactive"}
  BY <1>1, <1>2, <1>4, SeenIsSafe DEF Remembered, TouchOps
<1>6. seen \in Statuses \cup {None}
  BY <1>2, RowFields DEF Remembered, Statuses
<1>7. request' = [request EXCEPT ![r] = q]
  BY <1>0 DEF ReadPerson, Proceed
<1> HIDE DEF seen, now
<1>8. /\ q \in Req /\ q.op = o.op /\ q.on = o.on /\ q.pc = "write" /\ q.seen = seen /\ q.now = now
      /\ q.late = o.late
  BY <1>3, <1>6 DEF Req
<1> HIDE DEF q
<1>9. SafeHome(q)
  BY <1>1, <1>8 DEF Fresh, SafeHome, Left
<1>10. SafeRow(q)
  <2> SUFFICES ASSUME q.op \in TouchOps PROVE Safe(q.on, Left(q))
    BY DEF SafeRow
  <2>1. RowSafe(row[q.on], Left(q))
    BY <1>1, <1>4, <1>8, SeenIsSafe
  <2>2. q.on \in People => RowSafe(row[Home[q.on]], Left(q))
    BY <1>9 DEF SafeHome, Safe
  <2> QED BY <2>1, <2>2 DEF Safe
<1>11. Notes(q)
  BY <1>2, <1>3, <1>5, <1>8 DEF Notes, Passed
<1>12. Addresses(q) /\ SafePlaces(q)
  BY <1>1, <1>8 DEF Addresses, SafePlaces, TouchOps
<1>13. ~Holds(q) /\ ~Holds(request[r])
  BY <1>0, <1>1, <1>8 DEF Holds, TouchOps
<1> QED BY <1>7, <1>8, <1>9, <1>10, <1>11, <1>12, <1>13, PlainStep DEF ReadPerson, Proceed, Fresh

LEMMA ReadAssignmentsStep == ASSUME IInv, NEW r \in Requests, ReadAssignments(r) PROVE IInv'
<1>1. PICK S \in SUBSET Places :
        /\ \A l \in S : row[l].status = "active"
        /\ Begin(r, "assign", S, "write", assigned \ S, 0) /\ UNCHANGED tenant
  BY DEF ReadAssignments
<1> DEFINE q == [op |-> "assign", on |-> S, pc |-> "write", seen |-> assigned \ S, now |-> 0, late |-> FALSE]
<1>2. request' = [request EXCEPT ![r] = q] /\ request[r] = Idle
  BY <1>1 DEF Begin
<1>3. assigned \ S \in SUBSET Places
  BY DEF IInv, TypeOK
<1>4. q \in Req /\ q.op = "assign" /\ q.on = S /\ q.pc = "write" /\ ~q.late
  BY <1>3 DEF Req, Ops
<1> HIDE DEF q
<1>5. SafePlaces(q)
  BY <1>1, <1>4, Constants DEF SafePlaces, Safe, RowSafe
<1>6. Addresses(q) /\ SafeHome(q) /\ SafeRow(q) /\ Notes(q)
  BY <1>4 DEF Addresses, SafeHome, SafeRow, Notes, TouchOps
<1>7. ~Holds(q) /\ ~Holds(request[r])
  BY <1>2, <1>4, IdleRow DEF Holds
<1> QED BY <1>1, <1>2, <1>4, <1>5, <1>6, <1>7, PlainStep DEF Begin, Fresh

LEMMA AskLimitStep == ASSUME IInv, NEW r \in Requests, AskLimit(r) PROVE IInv'
<1>1. PICK n \in 1..MaxLimit : Begin(r, "limit", n, "lock", tenant.version, 0) /\ UNCHANGED tenant
  BY DEF AskLimit
<1> DEFINE q == [op |-> "limit", on |-> n, pc |-> "lock", seen |-> tenant.version, now |-> 0, late |-> FALSE]
<1>2. request' = [request EXCEPT ![r] = q] /\ request[r] = Idle
  BY <1>1 DEF Begin
<1>3. n \in Nat /\ tenant.version \in Nat
  BY Constants DEF IInv, TypeOK
<1>4. q \in Req /\ q.op = "limit" /\ q.on = n /\ q.pc = "lock"
  BY <1>3 DEF Req, Ops
<1> HIDE DEF q
<1>5. Fresh(q)
  BY <1>4 DEF Fresh, Addresses, SafeHome, SafePlaces, SafeRow, Notes, TouchOps
<1>6. ~Holds(q) /\ ~Holds(request[r])
  BY <1>2, <1>4, IdleRow DEF Holds
<1> QED BY <1>1, <1>2, <1>4, <1>5, <1>6, PlainStep DEF Begin

\* The lock is taken by a request that is about to write under it.
LEMMA LockStep ==
  ASSUME IInv, NEW r \in Requests, LockFree, NEW q \in Req, Fresh(q), Reserved(q), Holds(q),
         request' = [request EXCEPT ![r] = q], tenant' = [tenant EXCEPT !.lock = r],
         UNCHANGED <<clock, row, assigned, queued, purge>>
  PROVE  IInv'
<1>1. \A s \in Requests : request'[s] = IF s = r THEN q ELSE request[s]
  BY Known
<1>2. /\ tenant' \in [limit : Nat, version : Nat, lock : Requests \cup {None}] /\ tenant'.lock = r
      /\ tenant'.limit = tenant.limit /\ tenant'.version = tenant.version
  BY DEF IInv
<1>3. \A s \in Requests : tenant'.lock = s <=> Holds(request'[s])
  BY <1>1, <1>2, Known, Constants DEF LockFree
<1> QED BY <1>2, <1>3, RequestStep

LEMMA LockForLimitStep == ASSUME IInv, NEW r \in Requests, LockForLimit(r) PROVE IInv'
<1>0. PICK o \in Req : o = request[r]
  BY Known
<1>1. o.pc = "lock" /\ o.op = "limit" /\ o.on \in 1..MaxLimit /\ Usage <= o.on /\ LockFree
  BY <1>0, Known DEF LockForLimit, Fresh, Addresses
<1> DEFINE q == [o EXCEPT !.pc = "write"]
<1>2. request' = [request EXCEPT ![r] = q] /\ tenant' = [tenant EXCEPT !.lock = r]
  BY <1>0 DEF LockForLimit, Proceed
<1>3. q \in Req /\ q.op = "limit" /\ q.on = o.on /\ q.pc = "write"
  BY <1>1 DEF Req
<1> HIDE DEF q
<1>4. Fresh(q) /\ Reserved(q) /\ Holds(q)
  BY <1>1, <1>3 DEF Fresh, Addresses, SafeHome, SafePlaces, SafeRow, Notes, TouchOps, Reserved, Holds
<1> QED BY <1>1, <1>2, <1>3, <1>4, LockStep DEF LockForLimit, Proceed

LEMMA LockForCreationStep == ASSUME IInv, NEW r \in Requests, LockForCreation(r) PROVE IInv'
<1>1. PICK l \in Places :
        /\ LockFree /\ Usage < tenant.limit
        /\ Begin(r, "create", l, "write", None, 0)
        /\ tenant' = [tenant EXCEPT !.lock = r]
  BY DEF LockForCreation
<1> DEFINE q == [op |-> "create", on |-> l, pc |-> "write", seen |-> None, now |-> 0, late |-> FALSE]
<1>2. request' = [request EXCEPT ![r] = q]
  BY <1>1 DEF Begin
<1>3. q \in Req /\ q.op = "create" /\ q.on = l /\ q.pc = "write"
  BY DEF Req, Ops, Things
<1> HIDE DEF q
<1>4. Fresh(q) /\ Reserved(q) /\ Holds(q)
  BY <1>1, <1>3 DEF Fresh, Addresses, SafeHome, SafePlaces, SafeRow, Notes, TouchOps, Reserved, Holds
<1> QED BY <1>1, <1>2, <1>3, <1>4, LockStep DEF Begin

LEMMA FailStep == ASSUME IInv, NEW r \in Requests, Fail(r) PROVE IInv'
<1>1. \A s \in Requests : request'[s] = IF s = r THEN Idle ELSE request[s]
  BY Known DEF Fail, Answer
<1>2. /\ tenant' \in [limit : Nat, version : Nat, lock : Requests \cup {None}]
      /\ tenant'.limit = tenant.limit /\ tenant'.version = tenant.version
      /\ tenant'.lock = IF tenant.lock = r THEN None ELSE tenant.lock
  BY DEF IInv, Fail
<1>3. \A s \in Requests : tenant'.lock = s <=> Holds(request'[s])
  BY <1>1, <1>2, Known, IdleRow, Constants
<1> QED BY <1>2, <1>3, IdleRow, RequestStep DEF Fail, Answer

-----------------------------------------------------------------------------
(***************************************************************************)
(* The writes. "Kept" is what the two action properties ask of a step.     *)
(***************************************************************************)
Kept ==
  \A t \in Things :
    /\ row[t].status = "purged" => row'[t] = row[t]
    /\ t \in Places /\ row'[t].status = "purged" /\ row[t].status # "purged" => Due(t, clock)

\* A request writes the row "x" of "t", a row that is there or a person's new one,
\* and does not shorten the time it is safe for.
LEMMA RowStep ==
  ASSUME IInv, NEW r \in Requests, ~Holds(request[r]), NEW t \in Things, NEW x \in Row,
         row[t].status # "purged", x.status \notin {"none", "purged"},
         t \in Places => row[t].status # "none",
         t \in People => row[Home[t]].status # "purged",
         \A n \in {1, 2} : RowSafe(row[t], n) => RowSafe(x, n),
         row' = [row EXCEPT ![t] = x], queued' \in SUBSET Places,
         Answer(r), UNCHANGED <<tenant, assigned>>
  PROVE  IInv' /\ Kept
<1>1. /\ row' \in [Things -> Row] /\ \A u \in Things : row'[u] = IF u = t THEN x ELSE row[u]
  BY Known
<1>2. Kept
  BY <1>1 DEF Kept
<1>3. SafeKept
  <2>1. \A u \in Things, n \in {1, 2} : RowSafe(row[u], n) => RowSafe(row'[u], n)
    BY <1>1
  <2>2. clock' = clock /\ \A p \in People : Home[p] \in Things
    BY Constants DEF Answer, Things
  <2> QED BY <2>1, <2>2 DEF SafeKept, Safe, RowSafe, Things
<1>4. Nameless'
  BY <1>1 DEF IInv, Nameless
<1>5. Claimed(row') \subseteq Claimed(row)
  BY <1>1 DEF Claimed, Things
<1>6. QuotaKept'
  <2>1. tenant.limit \in Nat /\ tenant'.limit = tenant.limit /\ Usage <= tenant.limit
    BY DEF IInv, QuotaKept
  <2>2. Usage' <= Usage /\ Usage' \in Nat /\ Usage \in Nat
    BY <1>5, UsageFalls
  <2>3. Usage' <= tenant'.limit
    BY <2>1, <2>2
  <2> QED BY <2>3 DEF QuotaKept
<1>7. PurgedLocationIsEmpty'
  <2> SUFFICES ASSUME NEW l \in Places, row'[l].status = "purged"
               PROVE  /\ \A p \in People : Home[p] = l => row'[p].status \in {"none", "purged"} /\ ~row'[p].named
                      /\ l \notin assigned'
    BY DEF PurgedLocationIsEmpty
  <2>1. row[l].status = "purged"
    BY <1>1 DEF Things
  <2>2. \A p \in People : Home[p] = l => p # t
    BY <2>1
  <2> QED BY <1>1, <2>1, <2>2 DEF IInv, PurgedLocationIsEmpty, Things
<1>8. ASSUME NEW s \in Requests, NEW q \in Req, q = request[s], Reserved(q) PROVE Reserved(q)'
  <2>1. q.op = "limit" => q.on \in Nat
    BY <1>8, Known, Constants DEF Fresh, Addresses
  <2>2. tenant.limit \in Nat /\ tenant'.limit = tenant.limit
    BY DEF IInv
  <2>3. Usage' <= Usage /\ Usage' \in Nat /\ Usage \in Nat
    BY <1>5, UsageFalls
  <2>4. (q.pc = "write" /\ q.op = "create" => Usage < tenant.limit)
        /\ (q.pc = "write" /\ q.op = "limit" => Usage <= q.on)
    BY <1>8 DEF Reserved
  <2>5. (q.pc = "write" /\ q.op = "create" => Usage' < tenant'.limit)
        /\ (q.pc = "write" /\ q.op = "limit" => Usage' <= q.on)
    BY <2>1, <2>2, <2>3, <2>4
  <2> QED BY <2>5 DEF Reserved
<1>9. /\ tenant' \in [limit : Nat, version : Nat, lock : Requests \cup {None}]
      /\ tenant'.limit \in 1..MaxLimit
      /\ \A s \in Requests : tenant'.lock = s <=> s # r /\ tenant.lock = s
      /\ assigned' \in SUBSET Places
  BY Known DEF IInv, TypeOK
<1>10. request' = [request EXCEPT ![r] = Idle] /\ UNCHANGED <<clock, purge>>
  BY DEF Answer
<1> QED BY <1>1, <1>2, <1>3, <1>4, <1>6, <1>7, <1>8, <1>9, <1>10, WriteStep

\* What the row a request has read, and its location, have to be when it writes.
LEMMA Writing ==
  ASSUME IInv, NEW r \in Requests, NEW op \in TouchOps \cup {"restore", "add"}, Write(r, op)
  PROVE  /\ request[r].on \in Things /\ row[request[r].on] \in Row /\ ~Holds(request[r]) /\ Answer(r)
         /\ op \in TouchOps => row[request[r].on].status \notin {"none", "purged"}
         /\ request[r].on \in People => row[Home[request[r].on]].status # "purged"
         /\ queued \in SUBSET Places
<1>0. PICK q \in Req : q = request[r]
  BY Known
<1>1. q.op = op /\ q.pc = "write" /\ Fresh(q) /\ Answer(r)
  BY <1>0, Known DEF Write
<1>2. q.on \in Things /\ row[q.on] \in Row
  BY <1>1, Known DEF Fresh, Addresses
<1>3. ~Holds(q)
  BY <1>1 DEF Holds, TouchOps
<1>4. op \in TouchOps => row[q.on].status \notin {"none", "purged"}
  BY <1>1 DEF Fresh, SafeRow, Safe, RowSafe
<1>5. q.on \in People => row[Home[q.on]].status # "purged"
  BY <1>1, Constants DEF Fresh, SafeHome, Safe, RowSafe
<1>6. queued \in SUBSET Places
  BY DEF IInv, TypeOK
<1> QED BY <1>0, <1>1, <1>2, <1>3, <1>4, <1>5, <1>6

LEMMA AddPersonStep == ASSUME IInv, NEW r \in Requests, AddPerson(r) PROVE IInv' /\ Kept
<1> DEFINE p == request[r].on
<1>1. Write(r, "add") /\ row[p].status = "none" /\ row' = [row EXCEPT ![p] = LiveRow]
  BY DEF AddPerson
<1>2. p \in People /\ p \notin Places
  BY <1>1, Known, Constants DEF Write, Fresh, Addresses
<1>3. LiveRow \in Row /\ LiveRow.status = "active"
  BY DEF LiveRow, Row, Statuses
<1>4. \A n \in {1, 2} : ~RowSafe(row[p], n)
  BY <1>1 DEF RowSafe
<1>5. /\ p \in Things /\ ~Holds(request[r]) /\ Answer(r) /\ row[Home[p]].status # "purged"
      /\ queued \in SUBSET Places
  BY <1>1, <1>2, Writing
<1>6. UNCHANGED <<tenant, assigned, queued>>
  BY DEF AddPerson
<1> HIDE DEF p
<1>7. queued' \in SUBSET Places
  BY <1>5, <1>6
<1> QED BY <1>1, <1>2, <1>3, <1>4, <1>5, <1>6, <1>7, RowStep

LEMMA RenameStep == ASSUME IInv, NEW r \in Requests, Rename(r) PROVE IInv' /\ Kept
<1> DEFINE t == request[r].on
           x == [row[t] EXCEPT !.named = TRUE]
<1>1. PICK op \in {"rename", "edit"} : Write(r, op)
  BY DEF Rename
<1>2. row' = [row EXCEPT ![t] = x] /\ UNCHANGED <<tenant, assigned, queued>>
  BY DEF Rename
<1>3. /\ t \in Things /\ row[t] \in Row /\ ~Holds(request[r]) /\ Answer(r)
      /\ row[t].status \notin {"none", "purged"} /\ queued \in SUBSET Places
      /\ t \in People => row[Home[t]].status # "purged"
  BY <1>1, Writing DEF TouchOps
<1>4. x \in Row /\ x.status = row[t].status /\ x.due = row[t].due
  BY <1>3 DEF Row
<1>5. \A n \in {1, 2} : RowSafe(row[t], n) => RowSafe(x, n)
  BY <1>4 DEF RowSafe
<1> HIDE DEF t, x
<1> QED BY <1>2, <1>3, <1>4, <1>5, RowStep

LEMMA SetStatusStep == ASSUME IInv, NEW r \in Requests, SetStatus(r) PROVE IInv' /\ Kept
<1> DEFINE t == request[r].on
<1>1. PICK op \in {"activate", "deactivate"}, status \in {"active", "inactive"} :
        /\ Write(r, op) /\ row' = [row EXCEPT ![t] = [row[t] EXCEPT !.status = status]]
        /\ queued' \subseteq queued /\ UNCHANGED <<tenant, assigned>>
  BY DEF SetStatus
<1> DEFINE x == [row[t] EXCEPT !.status = status]
<1>3. /\ t \in Things /\ row[t] \in Row /\ ~Holds(request[r]) /\ Answer(r)
      /\ row[t].status \notin {"none", "purged"} /\ queued \in SUBSET Places
      /\ t \in People => row[Home[t]].status # "purged"
  BY <1>1, Writing DEF TouchOps
<1>2. row' = [row EXCEPT ![t] = x] /\ queued' \in SUBSET Places /\ UNCHANGED <<tenant, assigned>>
  BY <1>1, <1>3
<1>4. x \in Row /\ x.status \notin {"none", "purged"} /\ x.status # "pending_delete"
  BY <1>3 DEF Row, Statuses
<1>5. \A n \in {1, 2} : RowSafe(x, n)
  BY <1>4 DEF RowSafe
<1> HIDE DEF t, x
<1> QED BY <1>2, <1>3, <1>4, <1>5, RowStep

\* The date of a deletion is later than any request under way may write.
LEMMA ScheduleStep == ASSUME IInv, NEW r \in Requests, ScheduleDeletion(r) PROVE IInv' /\ Kept
<1>0. PICK q \in Req : q = request[r]
  BY Known
<1> DEFINE t == q.on
           x == PendingRow(row[t], q)
<1>1. Write(r, "delete")
  BY DEF ScheduleDeletion
<1>2. row' = [row EXCEPT ![t] = x] /\ queued' \subseteq queued /\ UNCHANGED <<tenant, assigned>>
  BY <1>0 DEF ScheduleDeletion
<1>3. /\ t \in Things /\ row[t] \in Row /\ ~Holds(request[r]) /\ Answer(r)
      /\ row[t].status \notin {"none", "purged"} /\ queued \in SUBSET Places
      /\ t \in People => row[Home[t]].status # "purged"
  BY <1>0, <1>1, Writing DEF TouchOps
<1>4. q.seen \in {"active", "inactive"} /\ clock <= q.now + Passed(q) /\ q.now \in Nat /\ clock \in Nat
  BY <1>0, <1>1, Known DEF Write, Fresh, Notes, Req
<1>5. x \in Row /\ x.status = "pending_delete" /\ x.due = q.now + Retention
  <2>1. PICK y \in Row : y = row[t]
    BY <1>3
  <2>2. q.now + Retention \in Nat
    BY <1>4, Constants
  <2>3. x = [y EXCEPT !.status = "pending_delete", !.due = q.now + Retention, !.from = q.seen]
    BY <2>1 DEF PendingRow
  <2> HIDE DEF x
  <2> QED BY <1>4, <2>2, <2>3 DEF Row, Statuses
<1>6. \A n \in {1, 2} : RowSafe(x, n)
  BY <1>4, <1>5, Constants DEF RowSafe, Passed
<1> HIDE DEF t, x
<1> QED BY <1>2, <1>3, <1>5, <1>6, RowStep

LEMMA RestoreStep == ASSUME IInv, NEW r \in Requests, Restore(r) PROVE IInv' /\ Kept
<1>0. PICK q \in Req : q = request[r]
  BY Known
<1> DEFINE t == q.on
           x == RestoredRow(row[t], q)
<1>1. Write(r, "restore") /\ row[t].status = "pending_delete"
  BY <1>0 DEF Restore, StillRestorable
<1>2. row' = [row EXCEPT ![t] = x] /\ UNCHANGED <<tenant, assigned, queued>>
  BY <1>0 DEF Restore
<1>3. /\ t \in Things /\ row[t] \in Row /\ ~Holds(request[r]) /\ Answer(r)
      /\ queued \in SUBSET Places /\ (t \in People => row[Home[t]].status # "purged")
  BY <1>0, <1>1, Writing
<1>4. q.seen \in {"active", "inactive"}
  BY <1>0, <1>1, Known DEF Write, Fresh, Notes
<1>5. x \in Row /\ x.status = q.seen
  BY <1>3, <1>4 DEF RestoredRow, Row, Statuses
<1>6. \A n \in {1, 2} : RowSafe(x, n)
  BY <1>4, <1>5 DEF RowSafe
<1> HIDE DEF t, x
<1> QED BY <1>1, <1>2, <1>3, <1>4, <1>5, <1>6, RowStep

LEMMA SetAssignmentsStep == ASSUME IInv, NEW r \in Requests, SetAssignments(r) PROVE IInv' /\ Kept
<1>0. PICK q \in Req : q = request[r]
  BY Known
<1>1. /\ q.pc = "write" /\ q.op \in {"assign", "revoke"} /\ Fresh(q)
      /\ request' = [request EXCEPT ![r] = Idle] /\ UNCHANGED <<clock, purge, row, tenant, queued>>
  BY <1>0, Known DEF SetAssignments, Write, Answer
<1>2. \A l \in assigned' : l \in assigned \/ (q.op = "assign" /\ l \in q.on)
  BY <1>0 DEF SetAssignments, Write
<1>3. \A l \in assigned' : l \in Places
  BY <1>1, <1>2 DEF Fresh, Addresses, IInv, TypeOK
<1>4. \A l \in Places : row[l].status = "purged" => l \notin assigned'
  BY <1>1, <1>2 DEF Fresh, SafePlaces, Safe, RowSafe, IInv, PurgedLocationIsEmpty
<1>5. PurgedLocationIsEmpty'
  BY <1>1, <1>4 DEF IInv, PurgedLocationIsEmpty
<1>6. SafeKept /\ Kept
  BY <1>1 DEF SafeKept, Safe, RowSafe, Kept
<1>7. Nameless' /\ QuotaKept'
  BY <1>1 DEF IInv, Nameless, QuotaKept, Usage
<1>8. \A s \in Requests, o \in Req : Reserved(o) => Reserved(o)'
  BY <1>1 DEF Reserved, Usage
<1>9. /\ tenant' \in [limit : Nat, version : Nat, lock : Requests \cup {None}]
      /\ tenant'.limit \in 1..MaxLimit /\ row' \in [Things -> Row] /\ queued' \in SUBSET Places
  BY <1>1 DEF IInv, TypeOK
<1>10. \A s \in Requests : tenant'.lock = s <=> s # r /\ tenant.lock = s
  BY <1>0, <1>1, Known DEF Holds
<1> QED BY <1>1, <1>3, <1>5, <1>6, <1>7, <1>8, <1>9, <1>10, WriteStep

-----------------------------------------------------------------------------
\* Who writes under the lock of the tenant is alone.
LEMMA Alone ==
  ASSUME IInv, NEW r \in Requests, Holds(request[r])
  PROVE  /\ tenant.lock = r
         /\ \A s \in Requests, q \in Req : s # r /\ q = request[s] => ~Holds(q)
<1>1. tenant.lock = r
  BY Known
<1> QED BY <1>1, Known

LEMMA CreateStep == ASSUME IInv, NEW r \in Requests, CreateLocation(r) PROVE IInv' /\ Kept
<1>0. PICK q \in Req : q = request[r]
  BY Known
<1> DEFINE l == q.on
<1>1. /\ q.pc = "write" /\ q.op = "create" /\ Fresh(q) /\ Reserved(q)
      /\ request' = [request EXCEPT ![r] = Idle] /\ UNCHANGED <<clock, purge, assigned, queued>>
      /\ row[l].status = "none" /\ row' = [row EXCEPT ![l] = LiveRow]
      /\ tenant' = [tenant EXCEPT !.lock = None]
  BY <1>0, Known DEF CreateLocation, Write, Answer
<1>2. l \in Places /\ l \in Things /\ Usage < tenant.limit
  BY <1>1 DEF Fresh, Addresses, Reserved, Things
<1>3. LiveRow \in Row /\ LiveRow.status = "active"
  BY DEF LiveRow, Row, Statuses
<1> HIDE DEF l
<1>4. row' \in [Things -> Row] /\ \A u \in Things : row'[u] = IF u = l THEN LiveRow ELSE row[u]
  BY <1>1, <1>2, <1>3, Known
<1>5. Kept
  BY <1>1, <1>3, <1>4 DEF Kept
<1>6. SafeKept
  <2>1. \A u \in Things, n \in {1, 2} : RowSafe(row[u], n) => RowSafe(row'[u], n)
    BY <1>1, <1>4 DEF RowSafe
  <2>2. clock' = clock /\ \A p \in People : Home[p] \in Things
    BY <1>1, Constants DEF Things
  <2> QED BY <2>1, <2>2 DEF SafeKept, Safe, RowSafe, Things
<1>7. Nameless'
  BY <1>3, <1>4 DEF IInv, Nameless
<1>8. tenant'.limit = tenant.limit /\ tenant'.version = tenant.version /\ tenant'.lock = None
      /\ tenant' \in [limit : Nat, version : Nat, lock : Requests \cup {None}]
  BY <1>1 DEF IInv
<1>9. QuotaKept'
  <2>1. Claimed(row') = Claimed(row) \cup {l}
    BY <1>2, <1>3, <1>4 DEF Claimed, Things
  <2>2. l \notin Claimed(row)
    BY <1>1 DEF Claimed
  <2>3. Cardinality(Claimed(row')) = Cardinality(Claimed(row)) + 1
    BY <2>1, <2>2, UsageIsNat, FS_AddElement
  <2>4. tenant.limit \in Nat /\ Usage \in Nat
    BY UsageIsNat DEF IInv
  <2> QED BY <1>2, <1>8, <2>3, <2>4 DEF QuotaKept, Usage
<1>10. PurgedLocationIsEmpty'
  <2> SUFFICES ASSUME NEW k \in Places, row'[k].status = "purged"
               PROVE  /\ \A p \in People : Home[p] = k => row'[p].status \in {"none", "purged"} /\ ~row'[p].named
                      /\ k \notin assigned'
    BY DEF PurgedLocationIsEmpty
  <2>1. row[k].status = "purged"
    BY <1>3, <1>4 DEF Things
  <2>2. \A p \in People : p # l /\ row'[p] = row[p]
    BY <1>2, <1>4, Constants DEF Things
  <2> QED BY <1>1, <2>1, <2>2 DEF IInv, PurgedLocationIsEmpty
<1>11. \A s \in Requests, o \in Req : s # r /\ o = request[s] => ~Holds(o)
  BY <1>0, <1>1, Alone DEF Holds
<1>12. \A s \in Requests, o \in Req : s # r /\ o = request[s] => Reserved(o)'
  BY <1>11 DEF Reserved, Holds
<1>13. \A s \in Requests : tenant'.lock = s <=> s # r /\ tenant.lock = s
  BY <1>0, <1>1, <1>8, Alone, Constants DEF Holds
<1>14. assigned' \in SUBSET Places /\ queued' \in SUBSET Places /\ tenant'.limit \in 1..MaxLimit
  BY <1>1, <1>8 DEF IInv, TypeOK
<1> QED BY <1>1, <1>4, <1>5, <1>6, <1>7, <1>8, <1>9, <1>10, <1>12, <1>13, <1>14, WriteStep

LEMMA SetLimitStep == ASSUME IInv, NEW r \in Requests, SetLimit(r) PROVE IInv' /\ Kept
<1>0. PICK q \in Req : q = request[r]
  BY Known
<1>1. /\ q.pc = "write" /\ q.op = "limit" /\ Fresh(q) /\ Reserved(q)
      /\ request' = [request EXCEPT ![r] = Idle] /\ UNCHANGED <<clock, purge, row, assigned, queued>>
      /\ tenant' = [limit |-> q.on, version |-> tenant.version + 1, lock |-> None]
  BY <1>0, Known DEF SetLimit, Write, Answer
<1>2. q.on \in 1..MaxLimit /\ Usage <= q.on
  BY <1>1 DEF Fresh, Addresses, Reserved
<1>3. /\ tenant' \in [limit : Nat, version : Nat, lock : Requests \cup {None}]
      /\ tenant'.limit = q.on /\ tenant'.lock = None
  <2>1. tenant.version + 1 \in Nat /\ q.on \in Nat
    BY <1>2, Constants DEF IInv, TypeOK
  <2> QED BY <1>1, <2>1
<1>4. SafeKept /\ Kept
  BY <1>1 DEF SafeKept, Safe, RowSafe, Kept
<1>5. Nameless' /\ PurgedLocationIsEmpty'
  BY <1>1 DEF IInv, Nameless, PurgedLocationIsEmpty
<1>6. QuotaKept'
  BY <1>1, <1>2, <1>3 DEF QuotaKept, Usage
<1>7. \A s \in Requests, o \in Req : s # r /\ o = request[s] => ~Holds(o)
  BY <1>0, <1>1, Alone DEF Holds
<1>8. \A s \in Requests, o \in Req : s # r /\ o = request[s] => Reserved(o)'
  BY <1>7 DEF Reserved, Holds
<1>9. \A s \in Requests : tenant'.lock = s <=> s # r /\ tenant.lock = s
  BY <1>0, <1>1, <1>3, Alone, Constants DEF Holds
<1>10. row' \in [Things -> Row] /\ assigned' \in SUBSET Places /\ queued' \in SUBSET Places
  BY <1>1 DEF IInv, TypeOK
<1> QED BY <1>1, <1>2, <1>3, <1>4, <1>5, <1>6, <1>8, <1>9, <1>10, WriteStep

-----------------------------------------------------------------------------
(***************************************************************************)
(* The purge. It takes rows that no request can hold to be safe.           *)
(***************************************************************************)
LEMMA PurgeRows ==
  ASSUME IInv, NEW D \in SUBSET Things, row' \in [Things -> Row],
         \A t \in Things : row'[t] = IF t \in D THEN PurgedRow(row[t]) ELSE row[t],
         \A t \in D : row[t].status \notin {"none", "purged"},
         \A t \in D, n \in {1, 2} : ~Safe(t, n),
         \A l \in D \cap Places : Due(l, clock) /\ l \notin assigned',
         \A l \in D \cap Places, p \in People :
           Home[p] = l => p \in D \/ row[p].status \in {"none", "purged"},
         UNCHANGED <<clock, request, tenant, queued>>,
         assigned' \subseteq assigned, PurgeOK'
  PROVE  IInv' /\ Kept
<1>1. \A t \in D : PurgedRow(row[t]).status = "purged" /\ ~PurgedRow(row[t]).named
  <2> SUFFICES ASSUME NEW t \in D PROVE PurgedRow(row[t]).status = "purged" /\ ~PurgedRow(row[t]).named
    OBVIOUS
  <2>1. PICK x \in Row : x = row[t]
    BY DEF IInv, TypeOK
  <2> QED BY <2>1 DEF PurgedRow, Row
<1>2. \A t \in Things : IF t \in D THEN row'[t].status = "purged" /\ ~row'[t].named ELSE row'[t] = row[t]
  BY <1>1
<1>3. Kept
  BY <1>2 DEF Kept
<1>4. SafeKept
  <2> SUFFICES ASSUME NEW t \in Things, NEW n \in {1, 2}, Safe(t, n) PROVE Safe(t, n)'
    BY DEF SafeKept
  <2>1. t \notin D /\ row'[t] = row[t]
    BY <1>2
  <2>2. ASSUME t \in People PROVE Home[t] \in Things /\ row'[Home[t]] = row[Home[t]]
    <3>1. Home[t] \in Things /\ Home[t] \notin People
      BY <2>2, Constants DEF Things
    <3>2. Safe(Home[t], n)
      BY <2>2, <3>1 DEF Safe
    <3> QED BY <1>2, <3>1, <3>2
  <2> QED BY <2>1, <2>2 DEF Safe, RowSafe
<1>5. Nameless'
  BY <1>2 DEF IInv, Nameless
<1>6. Claimed(row') \subseteq Claimed(row)
  BY <1>2 DEF Claimed, Things
<1>7. Usage' <= Usage /\ Usage' \in Nat /\ Usage \in Nat
  BY <1>6, UsageFalls
<1>8. tenant.limit \in Nat /\ tenant' = tenant
  BY DEF IInv
<1>9. QuotaKept'
  <2>1. Usage <= tenant.limit
    BY DEF IInv, QuotaKept
  <2>2. Usage' <= tenant'.limit
    BY <1>7, <1>8, <2>1
  <2> QED BY <2>2 DEF QuotaKept
<1>10. PurgedLocationIsEmpty'
  <2> SUFFICES ASSUME NEW l \in Places, row'[l].status = "purged"
               PROVE  /\ \A p \in People : Home[p] = l => row'[p].status \in {"none", "purged"} /\ ~row'[p].named
                      /\ l \notin assigned'
    BY DEF PurgedLocationIsEmpty
  <2>1. l \in Things /\ \A p \in People : p \in Things
    BY DEF Things
  <2>2. CASE l \in D
    <3>1. \A p \in People : Home[p] = l /\ p \notin D => row[p].status \in {"none", "purged"} /\ ~row[p].named
      BY <2>1, <2>2 DEF IInv, Nameless
    <3> QED BY <1>2, <2>1, <2>2, <3>1
  <2>3. CASE l \notin D
    <3>1. row[l].status = "purged"
      BY <1>2, <2>1, <2>3
    <3>2. /\ \A p \in People : Home[p] = l => row[p].status \in {"none", "purged"} /\ ~row[p].named
          /\ l \notin assigned
      BY <3>1 DEF IInv, PurgedLocationIsEmpty
    <3> QED BY <1>2, <2>1, <3>2
  <2> QED BY <2>2, <2>3
<1>11. Informed'
  <2> SUFFICES ASSUME NEW s \in Requests, NEW v \in Req, v = request'[s]
               PROVE  Fresh(v)' /\ Reserved(v)'
    BY DEF Informed
  <2>1. Fresh(v) /\ Reserved(v)
    BY Known
  <2>2. Fresh(v)'
    BY <1>4, <2>1, FreshKept
  <2>3. v.op = "limit" => v.on \in Nat
    BY <2>1, Constants DEF Fresh, Addresses
  <2>4. (v.pc = "write" /\ v.op = "create" => Usage < tenant.limit)
        /\ (v.pc = "write" /\ v.op = "limit" => Usage <= v.on)
    BY <2>1 DEF Reserved
  <2>5. (v.pc = "write" /\ v.op = "create" => Usage' < tenant'.limit)
        /\ (v.pc = "write" /\ v.op = "limit" => Usage' <= v.on)
    BY <1>7, <1>8, <2>3, <2>4
  <2>6. Reserved(v)'
    BY <2>5 DEF Reserved
  <2> QED BY <2>2, <2>6
<1>12. TypeOK'
  BY DEF IInv, TypeOK, PurgeOK
<1>13. request' \in [Requests -> Req] /\ tenant' \in [limit : Nat, version : Nat, lock : Requests \cup {None}]
  BY DEF IInv
<1> QED BY <1>3, <1>5, <1>9, <1>10, <1>11, <1>12, <1>13 DEF IInv

\* The steps of a run that change no row.
LEMMA RunStep ==
  ASSUME IInv, UNCHANGED <<clock, row, request, tenant, assigned, queued>>, PurgeOK'
  PROVE  IInv' /\ Kept
<1> DEFINE D == {}
<1>1. row' \in [Things -> Row] /\ \A t \in Things : row'[t] = IF t \in D THEN PurgedRow(row[t]) ELSE row[t]
  BY DEF IInv, TypeOK
<1>2. D \in SUBSET Things
  OBVIOUS
<1>3. /\ \A t \in D : row[t].status \notin {"none", "purged"}
      /\ \A t \in D, n \in {1, 2} : ~Safe(t, n)
      /\ \A l \in D \cap Places : Due(l, clock) /\ l \notin assigned'
      /\ \A l \in D \cap Places, p \in People :
           Home[p] = l => p \in D \/ row[p].status \in {"none", "purged"}
  OBVIOUS
<1> HIDE DEF D
<1> QED BY <1>1, <1>2, <1>3, PurgeRows

\* What is due to the run is not safe for a tick.
LEMMA DueIsNotSafe ==
  ASSUME IInv, NEW t \in Things, Due(t, purge.now)
  PROVE  /\ \A n \in {1, 2} : ~RowSafe(row[t], n)
         /\ Due(t, clock) /\ row[t].status = "pending_delete"
<1>1. purge.now \in Nat /\ purge.now <= clock /\ clock \in Nat
  BY Constants DEF IInv, PurgeOK, TypeOK
<1>2. row[t].due \in Nat \/ row[t].due = None
  BY RowFields DEF IInv, TypeOK
<1>3. row[t].status = "pending_delete" /\ row[t].due \in Nat /\ row[t].due <= purge.now
  BY <1>2 DEF Due
<1>4. row[t].due # None
  BY DEF Due
<1> QED BY <1>1, <1>3, <1>4 DEF RowSafe, Due

LEMMA PurgeLocationStep == ASSUME IInv, NEW l \in Places, PurgeLocation(l) PROVE IInv' /\ Kept
<1>1. PurgeOK' /\ UNCHANGED <<clock, request, tenant, queued>>
  BY DEF PurgeLocation, PurgeStep, IInv, PurgeOK
<1>2. CASE ~ClaimsPlace(l)
  <2>1. UNCHANGED <<row, assigned>>
    BY <1>2 DEF PurgeLocation
  <2> QED BY <1>1, <2>1, RunStep
<1>3. CASE ClaimsPlace(l)
  <2> DEFINE D == {t \in Things : t = l \/ Dwells(t, l)}
  <2>1. /\ row' = [t \in Things |-> IF t = l \/ Dwells(t, l) THEN PurgedRow(row[t]) ELSE row[t]]
        /\ assigned' = assigned \ {l}
    BY <1>3 DEF PurgeLocation
  <2>2. l \in Things /\ l \notin People /\ Due(l, purge.now)
    BY <1>3, Constants DEF Things, ClaimsPlace
  <2>3. (\A n \in {1, 2} : ~RowSafe(row[l], n)) /\ Due(l, clock) /\ row[l].status = "pending_delete"
    BY <2>2, DueIsNotSafe
  <2>4. \A t \in Things : PurgedRow(row[t]) \in Row
    <3> SUFFICES ASSUME NEW x \in Row PROVE PurgedRow(x) \in Row
      BY DEF IInv, TypeOK
    <3> QED BY DEF PurgedRow, Row, Statuses
  <2>5. row' \in [Things -> Row] /\ \A t \in Things : row'[t] = IF t \in D THEN PurgedRow(row[t]) ELSE row[t]
    BY <2>1, <2>4 DEF IInv, TypeOK
  <2>6. \A t \in D : t = l \/ (t \in People /\ Home[t] = l /\ row[t].status \notin {"none", "purged"})
    BY DEF Dwells
  <2>7. \A t \in D, n \in {1, 2} : ~Safe(t, n)
    BY <2>3, <2>6 DEF Safe
  <2>8. \A k \in D \cap Places : k = l
    BY <2>6, Constants
  <2>9. \A p \in People : Home[p] = l => p \in D \/ row[p].status \in {"none", "purged"}
    BY DEF Dwells, Things
  <2>10. D \in SUBSET Things
    OBVIOUS
  <2>11. \A t \in D : row[t].status \notin {"none", "purged"}
    BY <2>3, <2>6
  <2> HIDE DEF D
  <2>12. \A k \in D \cap Places : Due(k, clock) /\ k \notin assigned'
    BY <2>1, <2>3, <2>8
  <2>13. \A k \in D \cap Places, p \in People : Home[p] = k => p \in D \/ row[p].status \in {"none", "purged"}
    BY <2>8, <2>9
  <2>14. assigned' \subseteq assigned
    BY <2>1
  <2> QED BY <1>1, <2>5, <2>7, <2>10, <2>11, <2>12, <2>13, <2>14, PurgeRows
<1> QED BY <1>2, <1>3

LEMMA PurgePersonStep == ASSUME IInv, NEW p \in People, PurgePerson(p) PROVE IInv' /\ Kept
<1>1. PurgeOK' /\ UNCHANGED <<clock, request, tenant, queued, assigned>>
  BY DEF PurgePerson, PurgeStep, IInv, PurgeOK
<1>2. p \in Things /\ p \notin Places /\ assigned' \subseteq assigned
  BY <1>1, Constants DEF Things
<1>3. CASE ~Due(p, purge.now)
  <2>1. row' = row
    BY <1>3 DEF PurgePerson
  <2> QED BY <1>1, <2>1, RunStep
<1>4. CASE Due(p, purge.now)
  <2>1. row' = [row EXCEPT ![p] = PurgedRow(row[p])]
    BY <1>4 DEF PurgePerson
  <2>2. PurgedRow(row[p]) \in Row
    <3> SUFFICES ASSUME NEW x \in Row PROVE PurgedRow(x) \in Row
      BY <1>2 DEF IInv, TypeOK
    <3> QED BY DEF PurgedRow, Row, Statuses
  <2>3. row' \in [Things -> Row] /\ \A t \in Things : row'[t] = IF t \in {p} THEN PurgedRow(row[t]) ELSE row[t]
    BY <2>1, <2>2 DEF IInv, TypeOK
  <2>4. (\A n \in {1, 2} : ~RowSafe(row[p], n)) /\ row[p].status = "pending_delete"
    BY <1>2, <1>4, DueIsNotSafe
  <2>5. \A t \in {p}, n \in {1, 2} : ~Safe(t, n)
    BY <2>4 DEF Safe
  <2>6. {p} \in SUBSET Things /\ {p} \cap Places = {}
    BY <1>2
  <2> QED BY <1>1, <1>2, <2>3, <2>4, <2>5, <2>6, PurgeRows
<1> QED BY <1>3, <1>4

LEMMA PurgeHolds == ASSUME IInv, Purge \/ PurgeFails PROVE IInv' /\ Kept
<1>1. CASE BeginPurge
  <2>1. PICK B \in SUBSET {l \in Places : Due(l, clock)} : PurgeStep([pc |-> "locations", now |-> clock, todo |-> B])
    BY <1>1 DEF BeginPurge, Oldest
  <2>2. B \subseteq Places /\ B \subseteq Things /\ clock \in Nat
    BY Constants DEF Things, IInv, TypeOK
  <2>3. PurgeOK'
    BY <2>1, <2>2 DEF PurgeStep, PurgeOK
  <2> QED BY <1>1, <2>1, <2>3, RunStep DEF BeginPurge, PurgeStep
<1>2. CASE TurnToPeople
  <2>1. PICK B \in SUBSET {p \in People : Due(p, purge.now) /\ row[Home[p]].status # "purged"} :
          PurgeStep([purge EXCEPT !.pc = "people", !.todo = B])
    BY <1>2 DEF TurnToPeople, Oldest
  <2>2. B \subseteq People /\ B \subseteq Things
    BY DEF Things
  <2>3. PurgeOK'
    BY <2>1, <2>2 DEF PurgeStep, PurgeOK, IInv
  <2> QED BY <1>2, <2>1, <2>3, RunStep DEF TurnToPeople, PurgeStep
<1>3. CASE EndPurge \/ PurgeFails
  <2>1. PurgeStep([pc |-> "idle", now |-> 0, todo |-> {}])
    BY <1>3 DEF EndPurge, PurgeFails
  <2>2. clock \in Nat
    BY Constants DEF IInv, TypeOK
  <2>3. PurgeOK'
    BY <2>1, <2>2 DEF PurgeStep, PurgeOK
  <2> QED BY <1>3, <2>1, <2>3, RunStep DEF EndPurge, PurgeFails, PurgeStep
<1>4. ASSUME NEW l \in Places, PurgeLocation(l) PROVE IInv' /\ Kept
  BY <1>4, PurgeLocationStep
<1>5. ASSUME NEW p \in People, PurgePerson(p) PROVE IInv' /\ Kept
  BY <1>5, PurgePersonStep
<1> QED BY <1>1, <1>2, <1>3, <1>4, <1>5 DEF Purge

-----------------------------------------------------------------------------
\* A tick passes: no request has seen one yet.
LEMMA LateIsFresh ==
  ASSUME IInv, NEW q \in Req, Fresh(q), ~q.late, clock' = clock + 1, row' = row,
         NEW v \in Req, v.op = q.op, v.on = q.on, v.pc = q.pc, v.seen = q.seen, v.now = q.now, v.late
  PROVE  Fresh(v)'
<1>1. clock \in Nat /\ q.now \in Nat /\ \A t \in Things : row[t] \in Row
  BY Constants DEF IInv, TypeOK, Req
<1>2. ASSUME NEW x \in Row, RowSafe(x, 2) PROVE RowSafe(x, 1)'
  BY <1>1, <1>2 DEF RowSafe
<1>3. Left(q) = 2 /\ Left(v) = 1 /\ Passed(q) = 0 /\ Passed(v) = 1
  BY DEF Left, Passed
<1>4. ASSUME NEW t \in Things, Safe(t, 2) PROVE Safe(t, 1)'
  <2>1. RowSafe(row[t], 2) /\ (t \in People => RowSafe(row[Home[t]], 2))
    BY <1>4 DEF Safe
  <2>2. t \in People => Home[t] \in Things
    BY Constants DEF Things
  <2> QED BY <1>1, <1>2, <2>1, <2>2 DEF Safe, RowSafe
<1>5. Addresses(v)'
  BY DEF Fresh, Addresses
<1>6. SafeRow(v)'
  BY <1>3, <1>4 DEF Fresh, Addresses, SafeRow, Left
<1>7. SafeHome(v)'
  BY <1>3, <1>4, Constants DEF Fresh, SafeHome, Left, Things
<1>8. SafePlaces(v)'
  BY <1>3, <1>4 DEF Fresh, Addresses, SafePlaces, Left, Things
<1>9. Notes(v)'
  BY <1>1, <1>3 DEF Fresh, Notes, Passed
<1> QED BY <1>5, <1>6, <1>7, <1>8, <1>9 DEF Fresh

LEMMA TickStep == ASSUME IInv, Tick PROVE IInv' /\ Kept
<1>1. clock \in Nat /\ clock' = clock + 1 /\ clock' \in 0..MaxTime
  BY Constants DEF IInv, TypeOK, Tick
<1>2. UNCHANGED <<row, tenant, assigned, queued, purge>>
  BY DEF Tick
<1>3. ASSUME NEW s \in Requests, NEW q \in Req, q = request[s]
      PROVE  \E v \in Req : v = request'[s] /\ Fresh(v)' /\ Reserved(v)' /\ (Holds(v) <=> Holds(q))
  <2>1. Fresh(q) /\ Reserved(q) /\ ~q.late
    BY <1>3, Known DEF Tick
  <2>2. CASE q = Idle
    <3>1. q = request'[s]
      BY <1>3, <2>2 DEF Tick
    <3>2. q.op = "none" /\ q.pc = "idle"
      BY <2>2, IdleRow
    <3>3. Addresses(q)' /\ SafeRow(q)' /\ SafeHome(q)'
      BY <3>2 DEF Addresses, SafeRow, SafeHome, TouchOps
    <3>4. SafePlaces(q)' /\ Notes(q)' /\ Reserved(q)'
      BY <3>2 DEF SafePlaces, Notes, Reserved
    <3>5. Fresh(q)'
      BY <3>3, <3>4 DEF Fresh
    <3> QED BY <3>1, <3>4, <3>5
  <2>3. CASE q # Idle
    <3>1. request'[s] = [q EXCEPT !.late = TRUE]
      BY <1>3, <2>3 DEF Tick
    <3>2. PICK v \in Req : v = [q EXCEPT !.late = TRUE]
      BY DEF Req
    <3>3. v.op = q.op /\ v.on = q.on /\ v.pc = q.pc /\ v.seen = q.seen /\ v.now = q.now /\ v.late
      BY <3>2 DEF Req
    <3>4. Fresh(v)'
      BY <1>1, <1>2, <2>1, <3>3, LateIsFresh
    <3>5. Reserved(v)'
      BY <1>2, <2>1, <3>3 DEF Reserved, Usage
    <3>6. Holds(v) <=> Holds(q)
      BY <3>3 DEF Holds
    <3> QED BY <3>1, <3>2, <3>4, <3>5, <3>6
  <2> QED BY <2>2, <2>3
<1>4. request' \in [Requests -> Req]
  <2>1. \A s \in Requests : request'[s] \in Req
    BY <1>3, Known
  <2> QED BY <2>1 DEF Tick
<1>9. Informed'
  <2> SUFFICES ASSUME NEW s \in Requests, NEW v \in Req, v = request'[s]
               PROVE  Fresh(v)' /\ Reserved(v)'
    BY DEF Informed
  <2>1. PICK q \in Req : q = request[s]
    BY Known
  <2> QED BY <1>3, <2>1
<1>5. TypeOK'
  <2>1. ASSUME NEW s \in Requests PROVE tenant'.lock = s <=> Holds(request'[s])
    <3>1. PICK q \in Req : q = request[s]
      BY Known
    <3>2. Holds(request'[s]) <=> Holds(q)
      BY <1>3, <3>1
    <3> QED BY <1>2, <3>1, <3>2, Known
  <2> QED BY <1>1, <1>2, <2>1 DEF IInv, TypeOK, Holds
<1>6. PurgeOK'
  <2>1. purge.now \in Nat /\ purge.now <= clock
    BY DEF IInv, PurgeOK
  <2>2. purge'.now <= clock'
    BY <1>1, <1>2, <2>1
  <2> QED BY <1>2, <2>2 DEF IInv, PurgeOK
<1>7. Nameless' /\ QuotaKept' /\ PurgedLocationIsEmpty' /\ Kept
  BY <1>2 DEF IInv, Nameless, QuotaKept, Usage, PurgedLocationIsEmpty, Kept
<1>8. tenant' \in [limit : Nat, version : Nat, lock : Requests \cup {None}]
  BY <1>2 DEF IInv
<1> QED BY <1>4, <1>5, <1>6, <1>7, <1>8, <1>9 DEF IInv

LEMMA StartStep == ASSUME IInv, NEW r \in Requests, Start(r) PROVE IInv' /\ Kept
<1>1. row' = row
  BY DEF Start, ReadPlace, LookForPerson, ReadAssignments, AskLimit, LockForCreation, Begin
<1>2. Kept
  BY <1>1 DEF Kept
<1> QED BY <1>2, ReadPlaceStep, LookForPersonStep, ReadAssignmentsStep, AskLimitStep,
           LockForCreationStep DEF Start

LEMMA HandleStep == ASSUME IInv, NEW r \in Requests, Handle(r) PROVE IInv' /\ Kept
<1>1. ASSUME row' = row PROVE Kept
  BY <1>1 DEF Kept
<1>2. CASE ReadPerson(r)
  BY <1>1, <1>2, ReadPersonStep DEF ReadPerson, Proceed
<1>3. CASE LockForLimit(r)
  BY <1>1, <1>3, LockForLimitStep DEF LockForLimit, Proceed
<1>4. CASE Fail(r)
  BY <1>1, <1>4, FailStep DEF Fail
<1> QED BY <1>2, <1>3, <1>4, AddPersonStep, RenameStep, SetStatusStep, ScheduleStep, RestoreStep,
           SetAssignmentsStep, CreateStep, SetLimitStep DEF Handle

LEMMA StepHolds == ASSUME IInv, [Next]_vars PROVE IInv' /\ Kept
<1>1. CASE UNCHANGED vars
  <2>1. PurgeOK'
    BY <1>1 DEF vars, IInv, PurgeOK
  <2> QED BY <1>1, <2>1, RunStep DEF vars
<1>2. CASE Next
  BY <1>2, StartStep, HandleStep, PurgeHolds, TickStep DEF Next
<1> QED BY <1>1, <1>2

LEMMA Inductive == Spec => []IInv
<1>1. IInv /\ [Next]_vars => IInv'
  BY StepHolds
<1> QED BY <1>1, InitHolds, PTL DEF Spec

\* Rows, requests and the purge keep their types.
THEOREM LocationsTypes == Spec => []TypeOK
<1>1. IInv => TypeOK
  BY DEF IInv
<1> QED BY <1>1, Inductive, PTL

\* A tenant never has more locations than its limit, however requests to create
\* some and to lower the limit interleave, and whatever is purged meanwhile.
THEOREM QuotaHolds == Spec => []QuotaKept
<1>1. IInv => QuotaKept
  BY DEF IInv
<1> QED BY <1>1, Inductive, PTL

\* The purge of a location leaves no person of it and no assignment, and no
\* request under way adds one afterwards.
THEOREM PurgedIsEmpty == Spec => []PurgedLocationIsEmpty
<1>1. IInv => PurgedLocationIsEmpty
  BY DEF IInv
<1> QED BY <1>1, Inductive, PTL

\* What is purged stays purged, and nothing is written into its row: a request
\* that has read the row writes it before the period of grace can end.
THEOREM PurgedStays == Spec => PurgedIsFinal
<1>1. IInv /\ [Next]_vars => [\A t \in Things : row[t].status = "purged" => row'[t] = row[t]]_vars
  BY StepHolds DEF Kept
<1> QED BY <1>1, Inductive, PTL DEF Spec, PurgedIsFinal

\* No location is purged before its period of grace is over, although the run
\* has chosen it earlier: it is still pending, and due, when it is purged.
THEOREM InItsTime == Spec => GraceIsKept
<1>1. IInv /\ [Next]_vars =>
        [\A l \in Places : row'[l].status = "purged" /\ row[l].status # "purged" => Due(l, clock)]_vars
  BY StepHolds DEF Kept, Things
<1> QED BY <1>1, Inductive, PTL DEF Spec, GraceIsKept
=============================================================================
