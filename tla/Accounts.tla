------------------------------ MODULE Accounts ------------------------------
(***************************************************************************)
(* How accounts come to be: POST /auth/register (auth.service.ts) and the  *)
(* callback of OAuth (oauth.controller.ts, oauth.service.ts), which finds  *)
(* the user of a provider account, or links one by its e-mail, or makes a  *)
(* tenant with its first user.  Every query is a step of its own, and none *)
(* is in a transaction with another.                                       *)
(*                                                                         *)
(* OAuth states and users are numbered in the order of their creation.     *)
(* All names give one base slug, of which n stands for the n-th candidate; *)
(* other names only collide less.  Passwords, cookies and the tokens of    *)
(* sessions are left out, and of the exchange with the provider there is   *)
(* the profile that comes of it.  A request that is refused before its     *)
(* first write changes nothing and is not a step.                          *)
(***************************************************************************)
EXTENDS Naturals

CONSTANTS
  Handlers,   \* requests in flight
  Profiles,   \* accounts at the providers
  Emails,
  NoEmail,    \* the e-mail of an idle handler
  EmailOf,    \* the verified e-mail of a provider account
  Form,       \* the register form, in the place of a provider account
  Attempts,   \* slugs that are looked up; 20 in the code
  MaxStates,  \* bound: states handed out
  MaxUsers,   \* bound: users created
  MaxFaults   \* bound: calls rejected

ASSUME AccountsAssumption ==
  /\ EmailOf \in [Profiles -> Emails]
  /\ Form \notin Profiles
  /\ NoEmail \notin Emails
  /\ Attempts \in Nat \ {0}
  /\ MaxStates \in Nat
  /\ MaxUsers \in Nat
  /\ MaxFaults \in Nat

VARIABLES
  states,   \* Redis: the states a callback may still come with
  tenants,  \* rows: the slug, and (history) what the tenant was made for
  users,    \* rows: number, tenant and e-mail
  linkOf,   \* OAuthAccount: the user of a provider account, or 0
  issued,   \* states handed out so far
  created,  \* users created so far
  passed,   \* history: the states that callbacks have passed with
  faults,
  phase,    \* the query that a handler performs next
  profile,  \* the profile of a callback, or Form
  email,    \* the e-mail it goes by
  place,    \* the state, and later the slug, that it is at
  target,   \* the user that it has found or made
  known     \* users created when it looked for the e-mail

tables == <<tenants, users, linkOf, created>>
cache == <<states, issued, passed>>
locals == <<phase, profile, email, place, target, known>>
vars == <<tables, cache, faults, locals>>

Slugs == 1..(Attempts + 1)
Ids == 1..MaxUsers
Tenants == [slug : Slugs, origin : Profiles \union {Form}]
Users == [id : Ids, tenant : Slugs, email : Emails]
Phases == {"idle", "state", "exchange", "account", "email", "link", "slug",
           "tenant", "user", "session", "log", "undo"}

Taken(slug) == \E t \in tenants : t.slug = slug
Is(id) == \E u \in users : u.id = id

Init ==
  /\ states = {} /\ issued = 0 /\ passed = {}
  /\ tenants = {} /\ users = {} /\ created = 0
  /\ linkOf = [p \in Profiles |-> 0]
  /\ faults = 0
  /\ phase = [h \in Handlers |-> "idle"]
  /\ profile = [h \in Handlers |-> Form]
  /\ email = [h \in Handlers |-> NoEmail]
  /\ place = [h \in Handlers |-> 0]
  /\ target = [h \in Handlers |-> 0]
  /\ known = [h \in Handlers |-> 0]

\* The handler comes from one query to the next.
Goto(h, from, to, at, user) ==
  /\ phase[h] = from
  /\ phase' = [phase EXCEPT ![h] = to]
  /\ place' = [place EXCEPT ![h] = at]
  /\ target' = [target EXCEPT ![h] = user]

Same(h) == UNCHANGED <<profile, email, known>>

\* The end of a handler; what it held is forgotten.
Finish(h) ==
  /\ phase' = [phase EXCEPT ![h] = "idle"]
  /\ profile' = [profile EXCEPT ![h] = Form]
  /\ email' = [email EXCEPT ![h] = NoEmail]
  /\ place' = [place EXCEPT ![h] = 0]
  /\ target' = [target EXCEPT ![h] = 0]
  /\ known' = [known EXCEPT ![h] = 0]

----------------------------------------------------------------------------
(* GET /auth/:provider/authorize and the first half of the callback        *)

Authorize ==
  /\ issued < MaxStates
  /\ issued' = issued + 1
  /\ states' = states \union {issued + 1}
  /\ UNCHANGED <<tables, passed, faults, locals>>

StateExpires ==
  \E s \in states :
    /\ states' = states \ {s}
    /\ UNCHANGED <<tables, issued, passed, faults, locals>>

GetState(h) ==
  \E s \in states :
    /\ Goto(h, "idle", "state", s, 0)
    /\ Same(h)
    /\ UNCHANGED <<tables, cache, faults>>

\* Seeded defect: the state is left to expire.
DelNothing(h) ==
  /\ Goto(h, "state", "exchange", 0, 0)
  /\ passed' = passed \union {place[h]}
  /\ Same(h)
  /\ UNCHANGED <<tables, states, issued, faults>>

\* The number of keys that DEL has removed is not looked at.
DelState(h) ==
  /\ Goto(h, "state", "exchange", 0, 0)
  /\ states' = states \ {place[h]}
  /\ passed' = passed \union {place[h]}
  /\ Same(h)
  /\ UNCHANGED <<tables, issued, faults>>

Exchange(h) ==
  \E p \in Profiles :
    /\ Goto(h, "exchange", "account", 0, 0)
    /\ profile' = [profile EXCEPT ![h] = p]
    /\ email' = [email EXCEPT ![h] = EmailOf[p]]
    /\ UNCHANGED <<tables, cache, faults, known>>

\* The provider refuses the code or has no verified e-mail; or the user that
\* was found, and not just created, is suspended.
Refused(h) ==
  /\ \/ phase[h] = "exchange"
     \/ phase[h] = "session" /\ profile[h] # Form /\ place[h] = 0
  /\ Finish(h)
  /\ UNCHANGED <<tables, cache, faults>>

----------------------------------------------------------------------------
(* resolveUser                                                             *)

FindAccount(h) ==
  /\ phase[h] = "account"
  /\ IF linkOf[profile[h]] # 0
       THEN Goto(h, "account", "session", 0, linkOf[profile[h]])
       ELSE Goto(h, "account", "email", 0, 0)
  /\ Same(h)
  /\ UNCHANGED <<tables, cache, faults>>

Namesakes(e) == {u.id : u \in {v \in users : v.email = e}}

\* Seeded defect: the newest user of an e-mail.
Last(ids) == CHOOSE i \in ids : \A j \in ids : j <= i

\* orderBy createdAt, the first row.
First(ids) == CHOOSE i \in ids : \A j \in ids : i <= j

FindEmail(h) ==
  /\ IF Namesakes(email[h]) # {}
       THEN Goto(h, "email", "link", 0, First(Namesakes(email[h])))
       ELSE Goto(h, "email", "slug", 1, 0)
  /\ known' = [known EXCEPT ![h] = created]
  /\ UNCHANGED <<tables, cache, faults, profile, email>>

\* The unique index on the provider account, and the key of the user.
Link(h) ==
  /\ phase[h] = "link"
  /\ linkOf[profile[h]] = 0
  /\ Is(target[h])
  /\ Goto(h, "link", "session", 0, target[h])
  /\ linkOf' = [linkOf EXCEPT ![profile[h]] = target[h]]
  /\ Same(h)
  /\ UNCHANGED <<tenants, users, created, cache, faults>>

LinkRefused(h) ==
  /\ phase[h] = "link"
  /\ linkOf[profile[h]] # 0 \/ ~Is(target[h])
  /\ Finish(h)
  /\ UNCHANGED <<tables, cache, faults>>

----------------------------------------------------------------------------
(* A new tenant and its first user, by a callback or by the form           *)

AskRegister(h) ==
  \E e \in Emails :
    /\ Goto(h, "idle", "slug", 1, 0)
    /\ email' = [email EXCEPT ![h] = e]
    /\ UNCHANGED <<tables, cache, faults, profile, known>>

\* The candidate after the last look-up is taken unseen.
FindSlug(h) ==
  /\ \/ /\ Taken(place[h]) /\ place[h] < Attempts
        /\ Goto(h, "slug", "slug", place[h] + 1, 0)
     \/ /\ Taken(place[h]) /\ place[h] = Attempts
        /\ Goto(h, "slug", "tenant", place[h] + 1, 0)
     \/ /\ ~Taken(place[h])
        /\ Goto(h, "slug", "tenant", place[h], 0)
  /\ Same(h)
  /\ UNCHANGED <<tables, cache, faults>>

CreateTenant(h) ==
  /\ ~Taken(place[h])
  /\ Goto(h, "tenant", "user", place[h], 0)
  /\ tenants' = tenants \union {[slug |-> place[h], origin |-> profile[h]]}
  /\ Same(h)
  /\ UNCHANGED <<users, linkOf, created, cache, faults>>

\* The unique slug was taken since, or at the last candidate all along.
TenantRefused(h) ==
  /\ phase[h] = "tenant"
  /\ Taken(place[h])
  /\ Finish(h)
  /\ UNCHANGED <<tables, cache, faults>>

\* The user of a callback is inserted together with its link.
CreateUser(h) ==
  /\ phase[h] = "user"
  /\ created < MaxUsers
  /\ profile[h] # Form => linkOf[profile[h]] = 0
  /\ Goto(h, "user", "session", place[h], created + 1)
  /\ created' = created + 1
  /\ users' = users \union {[id |-> created + 1, tenant |-> place[h], email |-> email[h]]}
  /\ linkOf' = [p \in Profiles |-> IF p = profile[h] THEN created + 1 ELSE linkOf[p]]
  /\ Same(h)
  /\ UNCHANGED <<tenants, cache, faults>>

\* P2002 on the provider account; nobody removes the tenant.
UserRefused(h) ==
  /\ phase[h] = "user"
  /\ profile[h] # Form /\ linkOf[profile[h]] # 0
  /\ Finish(h)
  /\ UNCHANGED <<tables, cache, faults>>

CreateSession(h) ==
  /\ Is(target[h])
  /\ Goto(h, "session", "log", place[h], target[h])
  /\ Same(h)
  /\ UNCHANGED <<tables, cache, faults>>

\* The user went with its tenant since it was found.
SessionRefused(h) ==
  /\ phase[h] = "session"
  /\ ~Is(target[h])
  /\ Finish(h)
  /\ UNCHANGED <<tables, cache, faults>>

Log(h) ==
  /\ phase[h] = "log"
  /\ Finish(h)
  /\ UNCHANGED <<tables, cache, faults>>

\* Seeded defect: the links of a user that goes stay behind.
UndoKeepsLinks(h) ==
  /\ phase[h] = "undo"
  /\ tenants' = {t \in tenants : t.slug # place[h]}
  /\ users' = {u \in users : u.tenant # place[h]}
  /\ Finish(h)
  /\ UNCHANGED <<linkOf, created, cache, faults>>

\* The catch block of register: users and links go with the tenant.
Undo(h) ==
  /\ phase[h] = "undo"
  /\ tenants' = {t \in tenants : t.slug # place[h]}
  /\ users' = {u \in users : u.tenant # place[h]}
  /\ linkOf' = [p \in Profiles |->
                  IF \E u \in users' : u.id = linkOf[p] THEN linkOf[p] ELSE 0]
  /\ Finish(h)
  /\ UNCHANGED <<created, cache, faults>>

----------------------------------------------------------------------------
(* The world                                                               *)

\* POST /users: a tenant that has a user gets another one (see TenantUsers).
Invite ==
  \E u \in users, e \in Emails :
    /\ created < MaxUsers
    /\ ~ \E v \in users : v.tenant = u.tenant /\ v.email = e
    /\ created' = created + 1
    /\ users' = users \union {[id |-> created + 1, tenant |-> u.tenant, email |-> e]}
    /\ UNCHANGED <<tenants, linkOf, cache, faults, locals>>

\* Seeded defect: the try block of register begins after the user.
CaughtLate == {"session", "log"}

\* The phases of register's try block.
Protected == {"user", "session", "log"}

\* The next call of a handler is rejected; when it was the removal of the
\* tenant, the catch swallows it.  The death of the process is this, and in
\* the try block of register twice: it does not come to the removal either.
Rejected(h) ==
  /\ phase[h] # "idle"
  /\ faults < MaxFaults
  /\ faults' = faults + 1
  /\ IF profile[h] = Form /\ phase[h] \in Protected
       THEN Goto(h, phase[h], "undo", place[h], target[h]) /\ Same(h)
       ELSE Finish(h)
  /\ UNCHANGED <<tables, cache>>

Next ==
  \/ Authorize \/ StateExpires \/ Invite
  \/ \E h \in Handlers :
       \/ GetState(h) \/ DelState(h) \/ Exchange(h) \/ Refused(h)
       \/ FindAccount(h) \/ FindEmail(h) \/ Link(h) \/ LinkRefused(h)
       \/ AskRegister(h) \/ FindSlug(h) \/ CreateTenant(h) \/ TenantRefused(h)
       \/ CreateUser(h) \/ UserRefused(h)
       \/ CreateSession(h) \/ SessionRefused(h) \/ Log(h) \/ Undo(h)
       \/ Rejected(h)

Spec == Init /\ [][Next]_vars

----------------------------------------------------------------------------
(* Properties                                                              *)

Founding(h) == phase[h] \in {"user", "undo"}

\* The type invariant, with the keys of the database: slugs, users and the
\* tenant of a user are unique, links point to users there are, and a tenant
\* in the making has its row.
TypeOK ==
  /\ states \subseteq 1..issued /\ issued \in 0..MaxStates
  /\ passed \subseteq 1..issued
  /\ tenants \subseteq Tenants /\ users \subseteq Users
  /\ created \in 0..MaxUsers /\ faults \in 0..MaxFaults
  /\ linkOf \in [Profiles -> 0..MaxUsers]
  /\ phase \in [Handlers -> Phases]
  /\ profile \in [Handlers -> Profiles \union {Form}]
  /\ email \in [Handlers -> Emails \union {NoEmail}]
  /\ place \in [Handlers -> Nat]
  /\ target \in [Handlers -> 0..MaxUsers]
  /\ known \in [Handlers -> 0..created]
  /\ \A u \in users : u.id <= created /\ Taken(u.tenant)
  /\ \A u, v \in users : u.id = v.id => u = v
  /\ \A t, w \in tenants : t.slug = w.slug => t = w
  /\ \A p \in Profiles : linkOf[p] # 0 => Is(linkOf[p])
  /\ \A h \in Handlers : Founding(h) => Taken(place[h])

\* An OAuth state is spent for good once a callback has passed with it: no
\* other callback can begin with it.  (Those that had read it before may
\* still pass: oauth.controller.ts 103-111 reads and deletes in two commands.)
StateIsSpent == passed \intersect states = {}

\* A tenant without a user is one in the making, or has a cause: a
\* registration that failed left one only if its clean-up was rejected as
\* well (auth.service.ts 120-123), and an OAuth sign-up only if a call was
\* rejected or its provider account got a user by another callback
\* (oauth.service.ts 242-258).  A process that dies during a registration
\* rejects its next call and the clean-up, hence counts as two.
OwnerlessHasCause ==
  \A t \in tenants :
    \/ \E u \in users : u.tenant = t.slug
    \/ \E h \in Handlers : Founding(h) /\ place[h] = t.slug
    \/ t.origin = Form /\ faults > 1
    \/ t.origin # Form /\ (faults > 0 \/ linkOf[t.origin] # 0)

\* A provider account gets the oldest user of its e-mail, and a new one only
\* if there is none; but for users that were made after the handler had
\* looked (oauth.service.ts 217-222).
ProfilesFindTheirUser ==
  [][\A p \in Profiles :
       linkOf[p] = 0 /\ linkOf'[p] # 0 =>
         \A u \in users :
           u.email = EmailOf[p] /\ u.id < linkOf'[p] =>
             \E h \in Handlers : /\ phase'[h] # phase[h]
                                 /\ profile[h] = p /\ u.id > known[h]]_vars
=============================================================================
