---------------------------- MODULE TenantUsers ----------------------------
(***************************************************************************)
(* The users of one tenant and the requests of its administrators that     *)
(* create, change and remove them.  A request is admitted by the guards on *)
(* one reading of its sender, decides on a reading of its target, and      *)
(* writes later: each database call is an action, and other requests run   *)
(* in between.                                                             *)
(***************************************************************************)
EXTENDS Integers, FiniteSets

CONSTANTS
  Users,      \* ids of users, never used twice
  Founder,    \* the administrator that the registration of the tenant creates
  Requests    \* requests that can be in flight at the same time

ASSUME FounderAssumption == Founder \in Users

ASSUME UsersAssumption == IsFiniteSet(Users)

VARIABLES
  status, role,   \* the users
  pc,             \* the next step of each request
  op,             \* what it asks for: "create", "update" or "remove"
  actor, target,  \* the user who sent it, the user it is about
  body,           \* the new role and status, "keep" when left out
  seen,           \* the role of the target when the handler read it
  entry           \* the audit entry the request goes on to write

userVars == <<status, role>>
vars == <<userVars, pc, op, actor, target, body, seen, entry>>

-----------------------------------------------------------------------------
\* Nothing here tells a MANAGER from an OPERATOR.
Roles   == {"ADMIN", "OPERATOR"}
Bodies  ==
  [role : Roles \union {"keep"}, status : {"ACTIVE", "SUSPENDED", "keep"}]
Entries ==
  {"none", "USER_CREATED", "USER_UPDATED", "ROLE_CHANGED", "USER_DELETED"}

Exists(u)      == status[u] \in {"ACTIVE", "SUSPENDED"}
ActiveAdmin(u) == status[u] = "ACTIVE" /\ role[u] = "ADMIN"
ActiveAdmins   == {u \in Users : ActiveAdmin(u)}

TypeOK ==
  /\ status \in [Users -> {"UNBORN", "ACTIVE", "SUSPENDED", "GONE"}]
  /\ role \in [Users -> Roles]
  /\ pc \in [Requests -> {"idle", "find", "count", "write", "audit"}]
  /\ op \in [Requests -> {"create", "update", "remove"}]
  /\ actor \in [Requests -> Users]
  /\ target \in [Requests -> Users]
  /\ body \in [Requests -> Bodies]
  /\ seen \in [Requests -> Roles]
  /\ entry \in [Requests -> Entries]
  /\ \A r \in Requests :
       /\ op[r] = "create" => body[r].role \in Roles
       /\ pc[r] # "audit" <=> entry[r] = "none"

Keep == [role |-> "keep", status |-> "keep"]

Init ==
  /\ status = [u \in Users |-> IF u = Founder THEN "ACTIVE" ELSE "UNBORN"]
  /\ role = [u \in Users |-> IF u = Founder THEN "ADMIN" ELSE "OPERATOR"]
  /\ pc = [r \in Requests |-> "idle"]
  /\ op = [r \in Requests |-> "update"]
  /\ actor = [r \in Requests |-> Founder]
  /\ target = [r \in Requests |-> Founder]
  /\ body = [r \in Requests |-> Keep]
  /\ seen = [r \in Requests |-> "OPERATOR"]
  /\ entry = [r \in Requests |-> "none"]

-----------------------------------------------------------------------------
Goto(r, p) == pc' = [pc EXCEPT ![r] = p]

\* The handler is over: forget what it knew.
Finish(r) ==
  /\ Goto(r, "idle")
  /\ op' = [op EXCEPT ![r] = "update"]
  /\ actor' = [actor EXCEPT ![r] = Founder]
  /\ target' = [target EXCEPT ![r] = Founder]
  /\ body' = [body EXCEPT ![r] = Keep]
  /\ seen' = [seen EXCEPT ![r] = "OPERATOR"]
  /\ entry' = [entry EXCEPT ![r] = "none"]

\* JwtAuthGuard reads the sender, RolesGuard looks at the role it read.
Admitted(a) == ActiveAdmin(a)

Authorize(r, a, o, t, b) ==
  /\ pc[r] = "idle"
  /\ Admitted(a)
  /\ o = "create" => b.role # "keep" /\ b.status = "keep"
  /\ o = "remove" => b = Keep
  /\ o # "create" => status[t] # "UNBORN"
  /\ Goto(r, "find")
  /\ op' = [op EXCEPT ![r] = o]
  /\ actor' = [actor EXCEPT ![r] = a]
  /\ target' = [target EXCEPT ![r] = t]
  /\ body' = [body EXCEPT ![r] = b]
  /\ UNCHANGED <<userVars, seen, entry>>

\* Seeded defect: nobody compares the new role with the old one.
OwnRoleUnchecked(r) == FALSE

ChangesOwnRole(r) ==
  target[r] = actor[r] /\ body[r].role \notin {"keep", role[target[r]]}

SuspendsSelf(r) == target[r] = actor[r] /\ body[r].status = "SUSPENDED"

\* Seeded defect: an administrator may remove its own account.
SelfRemovalUnchecked(r) == FALSE

RemovesSelf(r) == target[r] = actor[r]

\* The first query of update and remove, and the checks on what it returned.
FindTarget(r) ==
  LET t == target[r] IN
  /\ pc[r] = "find" /\ op[r] # "create"
  /\ Exists(t)
  /\ op[r] = "update" => ~ChangesOwnRole(r) /\ ~SuspendsSelf(r)
  /\ op[r] = "remove" => ~RemovesSelf(r)
  /\ seen' = [seen EXCEPT ![r] = role[t]]
  /\ Goto(r, IF op[r] = "remove" /\ role[t] = "ADMIN" THEN "count" ELSE "write")
  /\ UNCHANGED <<userVars, op, actor, target, body, entry>>

\* The first query of create: nobody in the tenant has the e-mail.
FindEmail(r) ==
  /\ pc[r] = "find" /\ op[r] = "create"
  /\ Goto(r, "write")
  /\ UNCHANGED <<userVars, op, actor, target, body, seen, entry>>

\* adminCount > 1
OthersLeft == Cardinality(ActiveAdmins) > 1

CountAdmins(r) ==
  /\ pc[r] = "count"
  /\ OthersLeft
  /\ Goto(r, "write")
  /\ UNCHANGED <<userVars, op, actor, target, body, seen, entry>>

\* A check fails, the row is not there, or the database refuses the write
\* because the e-mail or the row is gone: the request ends with an error.
Refused(r) ==
  /\ \/ pc[r] = "find" /\ op[r] = "create"
     \/ /\ pc[r] = "find" /\ op[r] = "update"
        /\ ~Exists(target[r]) \/ ChangesOwnRole(r) \/ SuspendsSelf(r)
     \/ /\ pc[r] = "find" /\ op[r] = "remove"
        /\ ~Exists(target[r]) \/ RemovesSelf(r)
     \/ pc[r] = "count" /\ ~OthersLeft
     \/ pc[r] = "write" /\ (op[r] = "create" \/ ~Exists(target[r]))
  /\ Finish(r)
  /\ UNCHANGED userVars

\* A column that the body leaves out is not written.
Given(v, old) == IF v = "keep" THEN old ELSE v

\* Seeded defect: the old role is not looked at.
RoleGiven(r) == body[r].role # "keep"

\* dto.role !== undefined && dto.role !== user.role
RoleChanged(r) == body[r].role \notin {"keep", seen[r]}

Writes(r, e) ==
  /\ Goto(r, "audit")
  /\ entry' = [entry EXCEPT ![r] = e]
  /\ UNCHANGED <<op, actor, target, body, seen>>

CreateUser(r) ==
  /\ pc[r] = "write" /\ op[r] = "create"
  /\ status[target[r]] = "UNBORN"
  /\ status' = [status EXCEPT ![target[r]] = "ACTIVE"]
  /\ role' = [role EXCEPT ![target[r]] = body[r].role]
  /\ Writes(r, "USER_CREATED")

UpdateUser(r) ==
  /\ pc[r] = "write" /\ op[r] = "update"
  /\ Exists(target[r])
  /\ status' = [status EXCEPT ![target[r]] = Given(body[r].status, @)]
  /\ role' = [role EXCEPT ![target[r]] = Given(body[r].role, @)]
  /\ Writes(r, IF RoleChanged(r) THEN "ROLE_CHANGED" ELSE "USER_UPDATED")

RemoveUser(r) ==
  /\ pc[r] = "write" /\ op[r] = "remove"
  /\ Exists(target[r])
  /\ status' = [status EXCEPT ![target[r]] = "GONE"]
  /\ UNCHANGED role
  /\ Writes(r, "USER_DELETED")

\* The last call of every handler appends its entry to the audit log, which
\* no handler here reads; when the call is rejected the change stays.
Audit(r) ==
  /\ pc[r] = "audit"
  /\ Finish(r)
  /\ UNCHANGED userVars

-----------------------------------------------------------------------------
Next ==
  \E r \in Requests :
    \/ \E a, t \in Users, o \in {"create", "update", "remove"}, b \in Bodies :
         Authorize(r, a, o, t, b)
    \/ FindTarget(r) \/ FindEmail(r) \/ CountAdmins(r) \/ Refused(r)
    \/ CreateUser(r) \/ UpdateUser(r) \/ RemoveUser(r)
    \/ Audit(r)

Spec == Init /\ [][Next]_vars

-----------------------------------------------------------------------------
(* Correctness                                                             *)

\* Is r about to act on something that has changed since it was read: the
\* rights of its sender, or the role of its target?
Stale(r) == ~ActiveAdmin(actor[r]) \/ seen[r] # role[target[r]]

\* The guards and the checks of users.service.ts:120-131 and 169-185 together:
\* only a request that is stale by the time it writes can leave the tenant
\* without an active administrator.  The count of the administrators, which
\* may be out of date as well, is not what protects the last one: a sender
\* that is still an active administrator is.
OnlyStaleRequestsLockOut ==
  [][\A r \in Requests :
       ActiveAdmins # {} /\ (UpdateUser(r) \/ RemoveUser(r)) /\ ~Stale(r)
         => ActiveAdmins' # {}]_vars

\* users.service.ts:120-125: nobody changes its own role, except by a request
\* whose role was changed by another one in between.
OwnRoleKept ==
  [][\A r \in Requests :
       UpdateUser(r) /\ target[r] = actor[r] /\ ~Stale(r)
         => role'[actor[r]] = role[actor[r]]]_vars

\* users.service.ts:132-150: unless another request changed the role in
\* between, the entry says ROLE_CHANGED exactly when the update changes the
\* role that is in the database.
AuditNamesTheChange ==
  [][\A r \in Requests :
       UpdateUser(r) /\ seen[r] = role[target[r]]
         => (entry'[r] = "ROLE_CHANGED"
               <=> role'[target[r]] # role[target[r]])]_vars

-----------------------------------------------------------------------------
(* What the documentation says and the code does not do                    *)

\* docs/authentication.md:135-136: nobody removes or suspends itself or changes
\* its own role, and the last active administrator is not removed; so the
\* tenant always has one.
AdminRemains == ActiveAdmins # {}
=============================================================================
