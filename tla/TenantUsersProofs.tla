------------------------- MODULE TenantUsersProofs -------------------------
(***************************************************************************)
(* Theorems about TenantUsers, for every set of users and of requests.     *)
(***************************************************************************)
EXTENDS TenantUsers, TLAPS

-----------------------------------------------------------------------------
(* Type correctness                                                        *)

\* Every variable keeps its type; a request that is about to write its audit
\* entry is the only one that holds one.
THEOREM UsersTypeCorrect == Spec => []TypeOK
<1>1. Init => TypeOK
  BY FounderAssumption DEF Init, TypeOK, Roles, Bodies, Entries, Keep
<1>2. TypeOK /\ [Next]_vars => TypeOK'
  <2> SUFFICES ASSUME TypeOK, [Next]_vars PROVE TypeOK'
    OBVIOUS
  <2> USE FounderAssumption DEF TypeOK, Goto, userVars
  <2>1. ASSUME NEW r \in Requests, NEW a \in Users, NEW t \in Users,
               NEW o \in {"create", "update", "remove"}, NEW b \in Bodies,
               Authorize(r, a, o, t, b)
        PROVE  TypeOK'
    BY <2>1 DEF Authorize, Bodies
  <2>2. ASSUME NEW r \in Requests, FindTarget(r) PROVE TypeOK'
    BY <2>2 DEF FindTarget
  <2>3. ASSUME NEW r \in Requests, FindEmail(r) PROVE TypeOK'
    BY <2>3 DEF FindEmail
  <2>4. ASSUME NEW r \in Requests, CountAdmins(r) PROVE TypeOK'
    BY <2>4 DEF CountAdmins
  <2>5. ASSUME NEW r \in Requests, Refused(r) PROVE TypeOK'
    BY <2>5 DEF Refused, Finish, Keep, Roles, Bodies, Entries
  <2>6. ASSUME NEW r \in Requests, CreateUser(r) PROVE TypeOK'
    <3>1. body[r].role \in Roles
      BY <2>6 DEF CreateUser
    <3>2. QED
      BY <2>6, <3>1 DEF CreateUser, Writes, Entries
  <2>7. ASSUME NEW r \in Requests, UpdateUser(r) PROVE TypeOK'
    <3>1. body[r] \in Bodies /\ Exists(target[r])
      BY <2>7 DEF UpdateUser
    <3>2. /\ Given(body[r].status, status[target[r]]) \in {"ACTIVE", "SUSPENDED"}
          /\ Given(body[r].role, role[target[r]]) \in Roles
      BY <3>1 DEF Given, Bodies, Exists
    <3>3. QED
      BY <2>7, <3>2 DEF UpdateUser, Writes, Entries
  <2>8. ASSUME NEW r \in Requests, RemoveUser(r) PROVE TypeOK'
    BY <2>8 DEF RemoveUser, Writes, Entries
  <2>9. ASSUME NEW r \in Requests, Audit(r) PROVE TypeOK'
    BY <2>9 DEF Audit, Finish, Keep, Roles, Bodies, Entries
  <2>10. CASE UNCHANGED vars
    BY <2>10 DEF vars
  <2>11. QED
    BY <2>1, <2>2, <2>3, <2>4, <2>5, <2>6, <2>7, <2>8, <2>9, <2>10 DEF Next
<1>3. QED
  BY <1>1, <1>2, PTL DEF Spec

-----------------------------------------------------------------------------
(* What a handler knows of the checks that it has passed                   *)

\* users.service.ts:120-131 and 169-174: past the checks, an update of the
\* sender itself leaves the role that was read and does not suspend, and a
\* removal is of somebody else.
PassedAt(r) ==
  pc[r] \in {"count", "write", "audit"} =>
    /\ op[r] = "update" /\ target[r] = actor[r] =>
         body[r].role \in {"keep", seen[r]} /\ body[r].status # "SUSPENDED"
    /\ op[r] = "remove" => target[r] # actor[r]

Passed == \A r \in Requests : PassedAt(r)

\* What the sender asks for stays as it is while the request is served, so
\* what the checks found of it remains true.
LEMMA ChecksRemembered == Spec => []Passed
<1>1. Init => Passed
  BY DEF Init, Passed, PassedAt
<1>2. TypeOK /\ Passed /\ [Next]_vars => Passed'
  <2> SUFFICES ASSUME TypeOK, Passed, [Next]_vars PROVE Passed'
    OBVIOUS
  <2> USE DEF Passed, PassedAt, TypeOK, Goto, userVars
  <2>1. ASSUME NEW r \in Requests, NEW a \in Users, NEW t \in Users,
               NEW o \in {"create", "update", "remove"}, NEW b \in Bodies,
               Authorize(r, a, o, t, b)
        PROVE  Passed'
    BY <2>1 DEF Authorize
  <2>2. ASSUME NEW r \in Requests, FindTarget(r) PROVE Passed'
    <3>1. PassedAt(r)'
      BY <2>2 DEF FindTarget, ChangesOwnRole, SuspendsSelf, RemovesSelf
    <3>2. ASSUME NEW q \in Requests, q # r PROVE PassedAt(q)'
      BY <2>2, <3>2 DEF FindTarget
    <3>3. QED
      BY <3>1, <3>2
  <2>3. ASSUME NEW r \in Requests, FindEmail(r) PROVE Passed'
    BY <2>3 DEF FindEmail
  <2>4. ASSUME NEW r \in Requests, CountAdmins(r) PROVE Passed'
    BY <2>4 DEF CountAdmins
  <2>5. ASSUME NEW r \in Requests, Refused(r) PROVE Passed'
    BY <2>5 DEF Refused, Finish
  <2>6. ASSUME NEW r \in Requests, CreateUser(r) \/ UpdateUser(r) \/ RemoveUser(r)
        PROVE  Passed'
    BY <2>6 DEF CreateUser, UpdateUser, RemoveUser, Writes
  <2>7. ASSUME NEW r \in Requests, Audit(r) PROVE Passed'
    BY <2>7 DEF Audit, Finish
  <2>8. CASE UNCHANGED vars
    BY <2>8 DEF vars
  <2>9. QED
    BY <2>1, <2>2, <2>3, <2>4, <2>5, <2>6, <2>7, <2>8 DEF Next
<1>3. QED
  BY <1>1, <1>2, UsersTypeCorrect, PTL DEF Spec

\* A write of a request that is not stale keeps its sender an active
\* administrator.
LEMMA FreshSenderStays ==
  ASSUME TypeOK, Passed, NEW r \in Requests, UpdateUser(r) \/ RemoveUser(r),
         ~Stale(r)
  PROVE  ActiveAdmin(actor[r])'
<1> USE DEF TypeOK, ActiveAdmin, Stale, Writes
<1>1. CASE target[r] # actor[r]
  BY <1>1 DEF UpdateUser, RemoveUser
<1>2. CASE target[r] = actor[r]
  <2>1. /\ UpdateUser(r)
        /\ body[r].role \in {"keep", seen[r]}
        /\ body[r].status # "SUSPENDED"
    BY <1>2 DEF Passed, PassedAt, UpdateUser, RemoveUser
  <2>2. body[r].status \in {"ACTIVE", "keep"}
    BY <2>1 DEF Bodies
  <2>3. /\ Given(body[r].status, status[target[r]]) = "ACTIVE"
        /\ Given(body[r].role, role[target[r]]) = "ADMIN"
    BY <1>2, <2>1, <2>2 DEF Given
  <2>4. QED
    BY <1>2, <2>1, <2>3 DEF UpdateUser
<1>3. QED
  BY <1>1, <1>2

-----------------------------------------------------------------------------
(* The theorems                                                            *)

\* However many requests are in flight, only one that is stale when it writes
\* can leave the tenant without an active administrator: the sender of any
\* other one is still an active administrator afterwards.
THEOREM FreshRequestsNeverLockOut == Spec => OnlyStaleRequestsLockOut
<1>1. TypeOK /\ Passed /\ [Next]_vars =>
        [\A r \in Requests :
           ActiveAdmins # {} /\ (UpdateUser(r) \/ RemoveUser(r)) /\ ~Stale(r)
             => ActiveAdmins' # {}]_vars
  <2> SUFFICES ASSUME TypeOK, Passed, NEW r \in Requests,
                      UpdateUser(r) \/ RemoveUser(r), ~Stale(r)
               PROVE  ActiveAdmins' # {}
    OBVIOUS
  <2>1. ActiveAdmin(actor[r])' /\ actor[r]' \in Users
    BY FreshSenderStays DEF UpdateUser, RemoveUser, Writes, TypeOK
  <2>2. QED
    BY <2>1 DEF ActiveAdmins
<1>2. QED
  BY <1>1, UsersTypeCorrect, ChecksRemembered, PTL
     DEF Spec, OnlyStaleRequestsLockOut

\* Nobody changes its own role by a request that is not stale.
THEOREM OwnRoleStays == Spec => OwnRoleKept
<1>1. TypeOK /\ Passed /\ [Next]_vars =>
        [\A r \in Requests :
           UpdateUser(r) /\ target[r] = actor[r] /\ ~Stale(r)
             => role'[actor[r]] = role[actor[r]]]_vars
  BY DEF TypeOK, Passed, PassedAt, UpdateUser, Stale, Given
<1>2. QED
  BY <1>1, UsersTypeCorrect, ChecksRemembered, PTL DEF Spec, OwnRoleKept

\* users.service.ts:132-150: the update writes the role of the body, and the
\* entry is chosen by comparing this role with the one that was read; so the
\* entry is right about every update whose target nobody changed in between.
THEOREM AuditEntryIsRight == Spec => AuditNamesTheChange
<1>1. TypeOK /\ [Next]_vars =>
        [\A r \in Requests :
           UpdateUser(r) /\ seen[r] = role[target[r]]
             => (entry'[r] = "ROLE_CHANGED"
                   <=> role'[target[r]] # role[target[r]])]_vars
  <2> SUFFICES ASSUME TypeOK, NEW r \in Requests, UpdateUser(r),
                      seen[r] = role[target[r]]
               PROVE  entry'[r] = "ROLE_CHANGED"
                        <=> role'[target[r]] # role[target[r]]
    OBVIOUS
  <2>1. entry'[r] = "ROLE_CHANGED" <=> RoleChanged(r)
    BY DEF UpdateUser, Writes, TypeOK
  <2>2. role'[target[r]] = Given(body[r].role, role[target[r]])
    BY DEF UpdateUser, TypeOK
  <2>3. QED
    BY <2>1, <2>2 DEF RoleChanged, Given, TypeOK, Roles
<1>2. QED
  BY <1>1, UsersTypeCorrect, PTL DEF Spec, AuditNamesTheChange

-----------------------------------------------------------------------------
(* One request at a time                                                   *)

\* While r is served its sender is an active administrator, and what it has
\* read of its target is what is in the database.
Alone(r) ==
  /\ ActiveAdmins # {}
  /\ pc[r] # "idle" => ActiveAdmin(actor[r])
  /\ pc[r] \in {"count", "write"} /\ op[r] # "create"
       => seen[r] = role[target[r]]

\* A tenant whose administrators send one request at a time is never without
\* an active one.
THEOREM SerialRequestsKeepAnAdmin ==
  ASSUME NEW r, Requests = {r}
  PROVE  Spec => []AdminRemains
<1>1. Init => Alone(r)
  BY FounderAssumption
  DEF Init, Alone, ActiveAdmins, ActiveAdmin
<1>2. TypeOK /\ Passed /\ Alone(r) /\ [Next]_vars => Alone(r)'
  <2> SUFFICES ASSUME TypeOK, Passed, Alone(r), [Next]_vars PROVE Alone(r)'
    OBVIOUS
  <2> USE DEF TypeOK, Goto
  <2>a. ASSUME UNCHANGED userVars
        PROVE  /\ ActiveAdmins' # {}
               /\ \A u \in Users : ActiveAdmin(u) => ActiveAdmin(u)'
    BY <2>a DEF Alone, ActiveAdmins, ActiveAdmin, userVars
  <2>1. ASSUME NEW a \in Users, NEW t \in Users,
               NEW o \in {"create", "update", "remove"}, NEW b \in Bodies,
               Authorize(r, a, o, t, b)
        PROVE  Alone(r)'
    BY <2>1, <2>a DEF Authorize, Admitted, Alone, ActiveAdmin, userVars
  <2>2. CASE FindTarget(r)
    BY <2>2, <2>a DEF FindTarget, Alone, ActiveAdmin, userVars
  <2>3. CASE FindEmail(r) \/ CountAdmins(r)
    BY <2>3, <2>a DEF FindEmail, CountAdmins, Alone, ActiveAdmin, userVars
  <2>4. CASE Refused(r) \/ Audit(r)
    BY <2>4, <2>a DEF Refused, Audit, Finish, Alone, userVars
  <2>5. CASE CreateUser(r)
    <3>1. \A u \in Users : ActiveAdmin(u) => ActiveAdmin(u)'
      BY <2>5 DEF CreateUser, ActiveAdmin
    <3>2. QED
      BY <2>5, <3>1 DEF CreateUser, Writes, Alone, ActiveAdmins, ActiveAdmin
  <2>6. CASE UpdateUser(r) \/ RemoveUser(r)
    <3>1. ~Stale(r)
      BY <2>6 DEF UpdateUser, RemoveUser, Alone, Stale
    <3>2. ActiveAdmin(actor[r])'
      BY <2>6, <3>1, FreshSenderStays
    <3>3. actor[r]' = actor[r] /\ pc'[r] = "audit"
      BY <2>6 DEF UpdateUser, RemoveUser, Writes
    <3>4. QED
      BY <3>2, <3>3 DEF Alone, ActiveAdmins
  <2>7. CASE UNCHANGED vars
    BY <2>7, <2>a DEF vars, Alone, ActiveAdmin, userVars
  <2>8. QED
    BY <2>1, <2>2, <2>3, <2>4, <2>5, <2>6, <2>7 DEF Next
<1>3. Alone(r) => AdminRemains
  BY DEF Alone, AdminRemains
<1>4. QED
  BY <1>1, <1>2, <1>3, UsersTypeCorrect, ChecksRemembered, PTL DEF Spec
=============================================================================
