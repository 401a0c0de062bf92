--------------------------- MODULE AccountsProofs ---------------------------
(***************************************************************************)
(* Theorems about Accounts, for every set of requests, provider accounts   *)
(* and e-mails, any number of slugs looked up, and any number of states,   *)
(* users and rejected calls.                                               *)
(***************************************************************************)
EXTENDS Accounts, WellFoundedInduction, TLAPS

-----------------------------------------------------------------------------
(* The oldest user of an e-mail                                            *)

Below == {p \in Nat \X Nat : p[1] < p[2]}

LEMMA BelowIsWellFounded == IsWellFoundedOn(Below, Nat)
BY NatLessThanWellFounded DEF OpToRel, Below

\* oauth.service.ts:217-222: orderBy createdAt gives the user that no other of
\* the e-mail is older than.
LEMMA FirstIsLeast ==
  ASSUME NEW ids \in SUBSET Nat, ids # {}
  PROVE  First(ids) \in ids /\ \A i \in ids : First(ids) <= i
<1>1. PICK least \in ids : \A i \in ids : <<i, least>> \notin Below
  BY BelowIsWellFounded, WFMin
<1>2. ASSUME NEW i \in ids PROVE least <= i
  <2>1. <<i, least>> \in Nat \X Nat /\ ~(i < least)
    BY <1>1 DEF Below
  <2>2. QED
    BY <2>1
<1>3. QED
  BY <1>2 DEF First

-----------------------------------------------------------------------------
(* What a sign-up knows                                                    *)

\* A handler that has made a tenant, and has not answered.
Made(h) == Founding(h) \/ (phase[h] \in {"session", "log"} /\ place[h] # 0)

\* The state it has read was handed out; it goes by the e-mail of its profile,
\* which it has from the provider; the slug it is at can be one; a registration
\* always goes on with its own tenant, and clears up only after a call was
\* rejected; and the tenant that it has made is there, made for its profile.
SignUpAt(h) ==
  /\ phase[h] = "state" => place[h] \in 1..issued
  /\ phase[h] \in {"idle", "state", "exchange"} => profile[h] = Form
  /\ phase[h] \in {"account", "email", "link"} => profile[h] \in Profiles
  /\ profile[h] \in Profiles => email[h] = EmailOf[profile[h]]
  /\ phase[h] \in {"slug", "tenant", "user"} => email[h] \in Emails /\ place[h] \in Slugs
  /\ phase[h] = "slug" => place[h] <= Attempts
  /\ phase[h] \in {"session", "log"} /\ profile[h] = Form => place[h] # 0
  /\ phase[h] = "undo" => profile[h] = Form /\ faults > 0
  /\ Made(h) => \E t \in tenants : t.slug = place[h] /\ t.origin = profile[h]

\* No two handlers go on with one tenant.
Apart ==
  \A h, i \in Handlers : h # i /\ Made(h) /\ Made(i) => place[h] # place[i]

SignUps == (\A h \in Handlers : SignUpAt(h)) /\ Apart

\* Who has looked for an e-mail in vain finds only users that were made since;
\* and who has found one, only such that are younger or were made since.
LookedAt(h) ==
  \A u \in users :
    u.email = email[h] =>
      /\ phase[h] \in {"slug", "tenant", "user"} /\ profile[h] # Form => u.id > known[h]
      /\ phase[h] = "link" => u.id >= target[h] \/ u.id > known[h]

-----------------------------------------------------------------------------
(* Steps of one handler                                                    *)

Others(h) ==
  \A i \in Handlers \ {h} :
    /\ phase'[i] = phase[i] /\ place'[i] = place[i] /\ target'[i] = target[i]
    /\ profile'[i] = profile[i] /\ email'[i] = email[i] /\ known'[i] = known[i]

LEMMA GotoMoves ==
  ASSUME TypeOK, NEW h \in Handlers, NEW from, NEW to, NEW at, NEW user,
         Goto(h, from, to, at, user)
  PROVE  /\ phase[h] = from
         /\ phase'[h] = to /\ place'[h] = at /\ target'[h] = user
         /\ \A i \in Handlers \ {h} :
              phase'[i] = phase[i] /\ place'[i] = place[i] /\ target'[i] = target[i]
BY DEF Goto, TypeOK

LEMMA GotoTyped ==
  ASSUME TypeOK, NEW h \in Handlers, NEW from, NEW to \in Phases, NEW at \in Nat,
         NEW user \in 0..MaxUsers, Goto(h, from, to, at, user)
  PROVE  /\ phase' \in [Handlers -> Phases]
         /\ place' \in [Handlers -> Nat]
         /\ target' \in [Handlers -> 0..MaxUsers]
BY DEF Goto, TypeOK

LEMMA FinishMoves ==
  ASSUME TypeOK, NEW h \in Handlers, Finish(h)
  PROVE  /\ phase'[h] = "idle" /\ profile'[h] = Form /\ place'[h] = 0
         /\ Others(h)
BY DEF Finish, Others, TypeOK

LEMMA FinishTyped ==
  ASSUME TypeOK, NEW h \in Handlers, Finish(h)
  PROVE  /\ phase' \in [Handlers -> Phases]
         /\ profile' \in [Handlers -> Profiles \union {Form}]
         /\ email' \in [Handlers -> Emails \union {NoEmail}]
         /\ place' \in [Handlers -> Nat]
         /\ target' \in [Handlers -> 0..MaxUsers]
         /\ known' \in [Handlers -> 0..created]
<1>1. "idle" \in Phases /\ 0 \in 0..MaxUsers /\ 0 \in 0..created
  BY AccountsAssumption DEF Phases, TypeOK
<1>2. QED
  BY <1>1 DEF Finish, TypeOK

\* A tenant in the making has its row after a step that takes none away.
LEMMA FoundedStay ==
  ASSUME TypeOK, NEW h \in Handlers, tenants \subseteq tenants',
         \A i \in Handlers \ {h} : phase'[i] = phase[i] /\ place'[i] = place[i],
         Founding(h)' => Taken(place[h])'
  PROVE  (\A i \in Handlers : Founding(i) => Taken(place[i]))'
BY DEF TypeOK, Founding, Taken

\* A user that is found is one that was created.
LEMMA NamesakesTyped ==
  ASSUME TypeOK, NEW e, Namesakes(e) # {}
  PROVE  /\ First(Namesakes(e)) \in Namesakes(e) /\ First(Namesakes(e)) \in 0..MaxUsers
         /\ \A i \in Namesakes(e) : First(Namesakes(e)) <= i
<1>1. Namesakes(e) \in SUBSET Nat /\ Namesakes(e) \subseteq 0..MaxUsers
  BY AccountsAssumption DEF Namesakes, TypeOK, Users, Ids
<1>2. QED
  BY <1>1, FirstIsLeast

-----------------------------------------------------------------------------
(* Type correctness                                                        *)

\* A step of a handler that changes no table.
LEMMA QuietTyped ==
  ASSUME TypeOK, NEW h \in Handlers, UNCHANGED <<tables, cache>>,
         faults' \in 0..MaxFaults,
         \A i \in Handlers \ {h} : phase'[i] = phase[i] /\ place'[i] = place[i],
         phase' \in [Handlers -> Phases],
         profile' \in [Handlers -> Profiles \union {Form}],
         email' \in [Handlers -> Emails \union {NoEmail}],
         place' \in [Handlers -> Nat],
         target' \in [Handlers -> 0..MaxUsers],
         known' \in [Handlers -> 0..created],
         Founding(h)' => Taken(place[h])'
  PROVE  TypeOK'
<1>1. (\A i \in Handlers : Founding(i) => Taken(place[i]))'
  BY FoundedStay DEF tables
<1>2. /\ (\A u \in users : u.id <= created /\ Taken(u.tenant))'
      /\ (\A u, v \in users : u.id = v.id => u = v)'
      /\ (\A t, w \in tenants : t.slug = w.slug => t = w)'
      /\ (\A p \in Profiles : linkOf[p] # 0 => Is(linkOf[p]))'
  BY DEF TypeOK, tables, Taken, Is
<1>3. QED
  BY <1>1, <1>2 DEF TypeOK, tables, cache

LEMMA FinishQuietTyped ==
  ASSUME TypeOK, NEW h \in Handlers, Finish(h), UNCHANGED <<tables, cache>>,
         faults' \in 0..MaxFaults
  PROVE  TypeOK'
<1>1. ~Founding(h)'
  BY FinishMoves DEF Founding
<1>2. \A i \in Handlers \ {h} : phase'[i] = phase[i] /\ place'[i] = place[i]
  BY FinishMoves DEF Others
<1>3. QED
  BY <1>1, <1>2, FinishTyped, QuietTyped

LEMMA GotoQuietTyped ==
  ASSUME TypeOK, NEW h \in Handlers, NEW from, NEW to \in Phases, NEW at \in Nat,
         NEW user \in 0..MaxUsers, Goto(h, from, to, at, user),
         UNCHANGED <<tables, cache>>, faults' \in 0..MaxFaults,
         profile' \in [Handlers -> Profiles \union {Form}],
         email' \in [Handlers -> Emails \union {NoEmail}],
         known' \in [Handlers -> 0..created],
         to \in {"user", "undo"} => Taken(at)
  PROVE  TypeOK'
<1>1. Founding(h)' => Taken(place[h])'
  BY GotoMoves DEF Founding, Taken, tables
<1>2. \A i \in Handlers \ {h} : phase'[i] = phase[i] /\ place'[i] = place[i]
  BY GotoMoves
<1>3. QED
  BY <1>1, <1>2, GotoTyped, QuietTyped
LEMMA CallbackTyped ==
  ASSUME TypeOK, SignUps, NEW h \in Handlers,
         \/ GetState(h) \/ DelState(h) \/ Exchange(h) \/ FindAccount(h)
         \/ FindEmail(h) \/ Link(h)
  PROVE  TypeOK'
<1> USE AccountsAssumption
<1>0. /\ {"state", "exchange", "account", "email", "link", "slug", "session"} \subseteq Phases
      /\ 0 \in 0..MaxUsers /\ 0 \in Nat /\ 1 \in Nat /\ SignUpAt(h)
  BY DEF Phases, SignUps
<1>1. CASE GetState(h)
  <2>1. PICK s \in states : Goto(h, "idle", "state", s, 0) /\ s \in Nat
    BY <1>1 DEF GetState, TypeOK
  <2>2. Same(h) /\ UNCHANGED <<tables, cache, faults>>
    BY <1>1 DEF GetState
  <2>3. QED
    BY <1>0, <2>1, <2>2, GotoQuietTyped DEF Same, TypeOK
<1>2. CASE DelState(h)
  <2>1. Goto(h, "state", "exchange", 0, 0)
    BY <1>2 DEF DelState
  <2>2. ~Founding(h)' /\ place[h] \in 1..issued
        /\ \A i \in Handlers \ {h} : phase'[i] = phase[i] /\ place'[i] = place[i]
    BY <1>0, <2>1, GotoMoves DEF Founding, SignUpAt
  <2>3. (\A i \in Handlers : Founding(i) => Taken(place[i]))'
    BY <1>2, <2>2, FoundedStay DEF DelState, tables
  <2>4. /\ phase' \in [Handlers -> Phases] /\ place' \in [Handlers -> Nat]
        /\ target' \in [Handlers -> 0..MaxUsers]
    BY <1>0, <2>1, GotoTyped
  <2>5. states' \subseteq 1..issued /\ passed' \subseteq 1..issued
    BY <1>2, <2>2 DEF DelState, TypeOK
  <2>6. QED
    BY <1>2, <2>3, <2>4, <2>5 DEF DelState, tables, Same, TypeOK, Taken, Is
<1>3. CASE Exchange(h)
  <2>1. PICK p \in Profiles :
          /\ Goto(h, "exchange", "account", 0, 0)
          /\ profile' = [profile EXCEPT ![h] = p]
          /\ email' = [email EXCEPT ![h] = EmailOf[p]]
          /\ UNCHANGED <<tables, cache, faults, known>>
    BY <1>3 DEF Exchange
  <2>2. /\ profile' \in [Handlers -> Profiles \union {Form}]
        /\ email' \in [Handlers -> Emails \union {NoEmail}]
    BY <2>1 DEF TypeOK
  <2>3. QED
    BY <1>0, <2>1, <2>2, GotoQuietTyped DEF TypeOK
<1>4. CASE FindAccount(h)
  <2>1. linkOf[profile[h]] \in 0..MaxUsers
    BY <1>0, <1>4 DEF FindAccount, SignUpAt, TypeOK
  <2>2. CASE linkOf[profile[h]] # 0
    BY <1>0, <1>4, <2>1, <2>2, GotoQuietTyped DEF FindAccount, Same, TypeOK
  <2>3. CASE linkOf[profile[h]] = 0
    BY <1>0, <1>4, <2>3, GotoQuietTyped DEF FindAccount, Same, TypeOK
  <2>4. QED
    BY <2>2, <2>3
<1>5. CASE FindEmail(h)
  <2>1. known' \in [Handlers -> 0..created]
    BY <1>5 DEF FindEmail, TypeOK
  <2>2. CASE Namesakes(email[h]) # {}
    BY <1>0, <1>5, <2>1, <2>2, NamesakesTyped, GotoQuietTyped DEF FindEmail, TypeOK
  <2>3. CASE Namesakes(email[h]) = {}
    BY <1>0, <1>5, <2>1, <2>3, GotoQuietTyped DEF FindEmail, TypeOK
  <2>4. QED
    BY <2>2, <2>3
<1>6. CASE Link(h)
  <2>1. Goto(h, "link", "session", 0, target[h]) /\ profile[h] \in Profiles
        /\ target[h] \in 0..MaxUsers
    BY <1>0, <1>6 DEF Link, SignUpAt, TypeOK
  <2>2. ~Founding(h)' /\ \A i \in Handlers \ {h} : phase'[i] = phase[i] /\ place'[i] = place[i]
    BY <2>1, GotoMoves DEF Founding
  <2>3. (\A i \in Handlers : Founding(i) => Taken(place[i]))'
    BY <1>6, <2>2, FoundedStay DEF Link
  <2>4. /\ phase' \in [Handlers -> Phases] /\ place' \in [Handlers -> Nat]
        /\ target' \in [Handlers -> 0..MaxUsers]
    BY <1>0, <2>1, GotoTyped
  <2>5. /\ linkOf' \in [Profiles -> 0..MaxUsers]
        /\ (\A p \in Profiles : linkOf[p] # 0 => Is(linkOf[p]))'
    BY <1>6, <2>1 DEF Link, TypeOK, Is
  <2>6. QED
    BY <1>6, <2>3, <2>4, <2>5 DEF Link, cache, Same, TypeOK, Taken
<1>7. QED
  BY <1>1, <1>2, <1>3, <1>4, <1>5, <1>6

LEMMA FoundingTyped ==
  ASSUME TypeOK, SignUps, NEW h \in Handlers,
         \/ AskRegister(h) \/ FindSlug(h) \/ CreateTenant(h) \/ CreateUser(h)
         \/ CreateSession(h) \/ Undo(h) \/ Rejected(h)
  PROVE  TypeOK'
<1> USE AccountsAssumption
<1>0. /\ {"slug", "tenant", "user", "session", "log", "undo"} \subseteq Phases
      /\ 0 \in 0..MaxUsers /\ 1 \in Nat /\ SignUpAt(h)
      /\ place[h] \in Nat /\ target[h] \in 0..MaxUsers
  BY DEF Phases, SignUps, TypeOK
<1>1. CASE AskRegister(h)
  <2>1. PICK e \in Emails : email' = [email EXCEPT ![h] = e]
    BY <1>1 DEF AskRegister
  <2>2. email' \in [Handlers -> Emails \union {NoEmail}]
    BY <2>1 DEF TypeOK
  <2>3. QED
    BY <1>0, <1>1, <2>2, GotoQuietTyped DEF AskRegister, TypeOK
<1>2. CASE FindSlug(h)
  <2>1. PICK to \in {"slug", "tenant"}, at \in {place[h], place[h] + 1} :
          Goto(h, "slug", to, at, 0)
    BY <1>2 DEF FindSlug
  <2>2. at \in Nat /\ Same(h) /\ UNCHANGED <<tables, cache, faults>>
    BY <1>0, <1>2 DEF FindSlug
  <2>3. QED
    BY <1>0, <2>1, <2>2, GotoQuietTyped DEF Same, TypeOK
<1>3. CASE CreateTenant(h)
  <2>1. Goto(h, "tenant", "user", place[h], 0) /\ place[h] \in Slugs
        /\ profile[h] \in Profiles \union {Form}
    BY <1>0, <1>3 DEF CreateTenant, SignUpAt, Goto, TypeOK
  <2>2. tenants' \subseteq Tenants /\ Taken(place[h])' /\ place'[h] = place[h]
    <3>1. [slug |-> place[h], origin |-> profile[h]] \in Tenants
      BY <2>1 DEF Tenants
    <3>2. place'[h] = place[h]
      BY <2>1, GotoMoves
    <3>3. QED
      BY <1>3, <3>1, <3>2 DEF CreateTenant, Taken, TypeOK
  <2>3. (\A i \in Handlers : Founding(i) => Taken(place[i]))'
    <3>1. \A i \in Handlers \ {h} : phase'[i] = phase[i] /\ place'[i] = place[i]
      BY <2>1, GotoMoves
    <3>2. Taken(place[h]') = Taken(place[h]) /\ (Taken(place[h]))' /\ tenants \subseteq tenants'
      BY <1>3, <2>2 DEF CreateTenant, Taken
    <3>3. QED
      BY <3>1, <3>2, FoundedStay
  <2>4. /\ phase' \in [Handlers -> Phases] /\ place' \in [Handlers -> Nat]
        /\ target' \in [Handlers -> 0..MaxUsers]
    BY <1>0, <2>1, GotoTyped
  <2>5. /\ (\A t, w \in tenants : t.slug = w.slug => t = w)'
        /\ (\A u \in users : u.id <= created /\ Taken(u.tenant))'
    BY <1>3 DEF CreateTenant, Taken, TypeOK
  <2>6. QED
    BY <1>3, <2>2, <2>3, <2>4, <2>5 DEF CreateTenant, cache, Same, TypeOK, Is
<1>4. CASE CreateUser(h)
  <2> DEFINE new == [id |-> created + 1, tenant |-> place[h], email |-> email[h]]
  <2>1. Goto(h, "user", "session", place[h], created + 1) /\ created + 1 \in Ids
        /\ created \in Nat
    BY <1>4 DEF CreateUser, TypeOK, Ids
  <2>2. new \in Users /\ Taken(place[h])
    BY <1>0, <1>4, <2>1 DEF CreateUser, SignUpAt, Users, TypeOK, Founding
  <2>3. /\ users' = users \union {new} /\ tenants' = tenants /\ created' = created + 1
        /\ \A p \in Profiles : linkOf'[p] \in {created + 1, linkOf[p]}
        /\ DOMAIN linkOf' = Profiles
    BY <1>4 DEF CreateUser
  <2>4. (\A i \in Handlers : Founding(i) => Taken(place[i]))'
    <3>1. ~Founding(h)' /\ \A i \in Handlers \ {h} : phase'[i] = phase[i] /\ place'[i] = place[i]
      BY <2>1, GotoMoves DEF Founding
    <3>2. QED
      BY <2>3, <3>1, FoundedStay
  <2>5. /\ phase' \in [Handlers -> Phases] /\ place' \in [Handlers -> Nat]
        /\ target' \in [Handlers -> 0..MaxUsers]
    <3>1. created + 1 \in 0..MaxUsers
      BY <2>1 DEF Ids
    <3>2. QED
      BY <1>0, <2>1, <3>1, GotoTyped
  <2>6. /\ (\A u \in users : u.id <= created /\ Taken(u.tenant))'
        /\ (\A u, v \in users : u.id = v.id => u = v)'
    <3>1. \A u \in users : u.id \in Nat /\ u.id <= created
      BY DEF TypeOK, Users, Ids
    <3>2. new.id = created + 1 /\ new.tenant = place[h]
      OBVIOUS
    <3>3. QED
      BY <2>1, <2>2, <2>3, <3>1, <3>2 DEF TypeOK, Taken
  <2>7. linkOf' \in [Profiles -> 0..MaxUsers]
        /\ (\A p \in Profiles : linkOf[p] # 0 => Is(linkOf[p]))'
    <3>1. ASSUME NEW p \in Profiles PROVE linkOf'[p] \in 0..MaxUsers
      BY <2>1, <2>3 DEF Ids, TypeOK
    <3>2. ASSUME NEW p \in Profiles, linkOf'[p] # 0
          PROVE  \E u \in users' : u.id = linkOf'[p]
      <4>1. CASE linkOf'[p] = created + 1
        <5>1. new \in users' /\ new.id = created + 1
          BY <2>3
        <5>2. QED
          BY <4>1, <5>1
      <4>2. CASE linkOf'[p] = linkOf[p]
        BY <2>3, <3>2, <4>2 DEF Is, TypeOK
      <4>3. QED
        BY <2>3, <4>1, <4>2
    <3>3. linkOf' = [p \in Profiles |-> linkOf'[p]]
      BY <1>4 DEF CreateUser
    <3>4. QED
      BY <3>1, <3>2, <3>3 DEF Is
  <2>8. known' \in [Handlers -> 0..created'] /\ created' \in 0..MaxUsers
    BY <1>4, <2>1 DEF CreateUser, Same, TypeOK, Ids
  <2>9. QED
    BY <1>4, <2>2, <2>3, <2>4, <2>5, <2>6, <2>7, <2>8 DEF CreateUser, cache, Same, TypeOK
<1>5. CASE CreateSession(h)
  BY <1>0, <1>5, GotoQuietTyped DEF CreateSession, Same, TypeOK
<1>6. CASE Undo(h)
  <2>1. Finish(h) /\ phase[h] = "undo"
    BY <1>6 DEF Undo
  <2>2. \A t \in tenants : t.slug # place[h] => t \in tenants'
    BY <1>6 DEF Undo
  <2>3. (\A i \in Handlers : Founding(i) => Taken(place[i]))'
    <3>1. ASSUME NEW i \in Handlers, Founding(i)' PROVE Taken(place[i])'
      <4>1. i # h /\ place'[i] = place[i] /\ Founding(i)
        BY <2>1, <3>1, FinishMoves DEF Founding, Others
      <4>2. place[i] # place[h] /\ Taken(place[i])
        BY <2>1, <4>1 DEF SignUps, Apart, Made, Founding, TypeOK
      <4>3. QED
        BY <2>2, <4>1, <4>2 DEF Taken
    <3>2. QED
      BY <3>1
  <2>4. (\A u \in users : u.id <= created /\ Taken(u.tenant))'
    BY <1>6, <2>2 DEF Undo, TypeOK, Taken
  <2>5. linkOf' \in [Profiles -> 0..MaxUsers]
        /\ (\A p \in Profiles : linkOf[p] # 0 => Is(linkOf[p]))'
    BY <1>0, <1>6 DEF Undo, TypeOK, Is
  <2>6. QED
    BY <1>6, <2>1, <2>3, <2>4, <2>5, FinishTyped DEF Undo, cache, TypeOK
<1>7. CASE Rejected(h)
  <2>1. faults' \in 0..MaxFaults
    BY <1>7 DEF Rejected, TypeOK
  <2>2. CASE Finish(h)
    BY <1>7, <2>1, <2>2, FinishQuietTyped DEF Rejected
  <2>3. CASE /\ profile[h] = Form /\ phase[h] \in Protected
             /\ Goto(h, phase[h], "undo", place[h], target[h]) /\ Same(h)
    <3>1. Taken(place[h])
      BY <1>0, <2>3 DEF Protected, SignUpAt, Made, Founding, Taken
    <3>2. QED
      BY <1>0, <1>7, <2>1, <2>3, <3>1, GotoQuietTyped DEF Rejected, Same, TypeOK
  <2>4. QED
    BY <1>7, <2>2, <2>3 DEF Rejected
<1>8. QED
  BY <1>1, <1>2, <1>3, <1>4, <1>5, <1>6, <1>7
-----------------------------------------------------------------------------
(* What a sign-up knows stays true                                         *)

\* Nothing that another handler does takes away what i knows: it neither
\* removes the tenant that i has made nor makes another one at its slug.
LEMMA OthersKnow ==
  ASSUME TypeOK, SignUps, NEW h \in Handlers, Others(h), NEW i \in Handlers \ {h},
         issued <= issued', issued' \in Nat, faults <= faults', faults' \in Nat,
         \A t \in tenants : t.slug = place[i] /\ Made(i) => t \in tenants'
  PROVE  SignUpAt(i)'
<1>1. SignUpAt(i) /\ issued \in Nat /\ faults \in Nat
  BY AccountsAssumption DEF SignUps, TypeOK
<1>2. Made(i)' <=> Made(i)
  BY DEF Others, Made, Founding
<1>3. place[i] \in 1..issued => place[i] \in 1..issued'
  BY <1>1
<1>4. faults > 0 => faults' > 0
  BY <1>1
<1>5. QED
  BY <1>1, <1>2, <1>3, <1>4 DEF Others, SignUpAt

\* A handler that has just made a tenant is alone with it, and one that goes
\* on with its tenant stays so.
LEMMA StillApart ==
  ASSUME TypeOK, SignUps, NEW h \in Handlers, Others(h),
         Made(h)' => \A i \in Handlers \ {h} : Made(i) => place'[h] # place[i]
  PROVE  Apart'
<1>1. \A i \in Handlers \ {h} : (Made(i)' <=> Made(i)) /\ place'[i] = place[i]
  BY DEF Others, Made, Founding
<1>2. QED
  BY <1>1 DEF SignUps, Apart

\* A step of a handler that makes no tenant and keeps all the others'.
LEMMA OwnStep ==
  ASSUME TypeOK, SignUps, NEW h \in Handlers, Others(h),
         issued' = issued, faults <= faults', faults' \in Nat,
         \A i \in Handlers \ {h} : \A t \in tenants :
           t.slug = place[i] /\ Made(i) => t \in tenants',
         Made(h)' => Made(h) /\ place'[h] = place[h],
         SignUpAt(h)'
  PROVE  SignUps'
<1>1. issued' \in Nat /\ issued <= issued'
  BY AccountsAssumption DEF TypeOK
<1>2. \A i \in Handlers \ {h} : SignUpAt(i)'
  BY <1>1, OthersKnow
<1>3. Apart'
  BY StillApart DEF SignUps, Apart
<1>4. QED
  BY <1>2, <1>3 DEF SignUps

LEMMA FinishKnown ==
  ASSUME TypeOK, SignUps, NEW h \in Handlers, Finish(h), issued' = issued,
         faults <= faults', faults' \in Nat,
         \A i \in Handlers \ {h} : \A t \in tenants :
           t.slug = place[i] /\ Made(i) => t \in tenants'
  PROVE  SignUps'
<1>1. SignUpAt(h)' /\ ~Made(h)'
  BY AccountsAssumption, FinishMoves DEF SignUpAt, Made, Founding
<1>2. QED
  BY <1>1, FinishMoves, OwnStep
LEMMA GotoOthers ==
  ASSUME TypeOK, NEW h \in Handlers, NEW from, NEW to, NEW at, NEW user,
         Goto(h, from, to, at, user),
         \A i \in Handlers \ {h} :
           profile'[i] = profile[i] /\ email'[i] = email[i] /\ known'[i] = known[i]
  PROVE  Others(h)
BY GotoMoves DEF Others

\* A query that leaves the tenants alone and makes nothing.
LEMMA QueryKnown ==
  ASSUME TypeOK, SignUps, NEW h \in Handlers, Others(h),
         UNCHANGED <<tenants, issued, faults>>,
         Made(h)' => Made(h) /\ place'[h] = place[h],
         SignUpAt(h)'
  PROVE  SignUps'
<1>1. faults <= faults' /\ faults' \in Nat
  BY AccountsAssumption DEF TypeOK
<1>2. QED
  BY <1>1, OwnStep

LEMMA CallbackKnown ==
  ASSUME TypeOK, SignUps, NEW h \in Handlers,
         \/ GetState(h) \/ DelState(h) \/ Exchange(h) \/ FindAccount(h)
         \/ FindEmail(h) \/ Link(h)
  PROVE  SignUps'
<1> USE AccountsAssumption
<1>0. SignUpAt(h) /\ UNCHANGED <<tenants, issued, faults>>
  BY DEF SignUps, GetState, DelState, Exchange, FindAccount, FindEmail, Link, tables, cache
<1>1. CASE GetState(h)
  <2>1. PICK s \in states : Goto(h, "idle", "state", s, 0) /\ Same(h) /\ s \in 1..issued
    BY <1>1 DEF GetState, TypeOK
  <2>2. Others(h) /\ phase[h] = "idle" /\ phase'[h] = "state" /\ place'[h] = s
        /\ profile'[h] = profile[h] /\ email'[h] = email[h]
    BY <2>1, GotoMoves, GotoOthers DEF Same
  <2>3. SignUpAt(h)' /\ ~Made(h)'
    BY <1>0, <2>1, <2>2 DEF SignUpAt, Made, Founding
  <2>4. QED
    BY <1>0, <2>2, <2>3, QueryKnown
<1>2. CASE DelState(h)
  <2>1. Others(h) /\ phase[h] = "state" /\ phase'[h] = "exchange"
        /\ profile'[h] = profile[h] /\ email'[h] = email[h]
    BY <1>2, GotoMoves, GotoOthers DEF DelState, Same
  <2>2. SignUpAt(h)' /\ ~Made(h)'
    BY <1>0, <2>1 DEF SignUpAt, Made, Founding
  <2>3. QED
    BY <1>0, <2>1, <2>2, QueryKnown
<1>3. CASE Exchange(h)
  <2>1. PICK p \in Profiles :
          /\ Goto(h, "exchange", "account", 0, 0) /\ known' = known
          /\ profile' = [profile EXCEPT ![h] = p]
          /\ email' = [email EXCEPT ![h] = EmailOf[p]]
    BY <1>3 DEF Exchange
  <2>2. profile'[h] = p /\ email'[h] = EmailOf[p]
        /\ \A i \in Handlers \ {h} :
             profile'[i] = profile[i] /\ email'[i] = email[i] /\ known'[i] = known[i]
    BY <2>1 DEF TypeOK
  <2>3. Others(h) /\ phase'[h] = "account"
    BY <2>1, <2>2, GotoMoves, GotoOthers
  <2>4. SignUpAt(h)' /\ ~Made(h)'
    BY <2>2, <2>3 DEF SignUpAt, Made, Founding
  <2>5. QED
    BY <1>0, <2>3, <2>4, QueryKnown
<1>4. CASE FindAccount(h) \/ Link(h)
  <2>1. PICK from, to, user :
          /\ from \in {"account", "link"} /\ to \in {"session", "email"}
          /\ Goto(h, from, to, 0, user) /\ Same(h)
    BY <1>4 DEF FindAccount, Link
  <2>2. Others(h) /\ phase[h] = from /\ phase'[h] = to /\ place'[h] = 0
        /\ profile'[h] = profile[h] /\ email'[h] = email[h]
    BY <2>1, GotoMoves, GotoOthers DEF Same
  <2>3. SignUpAt(h)' /\ ~Made(h)'
    BY <1>0, <2>1, <2>2 DEF SignUpAt, Made, Founding
  <2>4. QED
    BY <1>0, <2>2, <2>3, QueryKnown
<1>5. CASE FindEmail(h)
  <2>1. PICK to, at, user :
          /\ to \in {"link", "slug"}
          /\ Goto(h, "email", to, at, user) /\ (to = "slug" => at = 1)
    BY <1>5 DEF FindEmail
  <2>2. \A i \in Handlers \ {h} :
          profile'[i] = profile[i] /\ email'[i] = email[i] /\ known'[i] = known[i]
    BY <1>5 DEF FindEmail, TypeOK
  <2>3. Others(h) /\ phase[h] = "email" /\ phase'[h] = to /\ place'[h] = at
        /\ profile'[h] = profile[h] /\ email'[h] = email[h]
    BY <1>5, <2>1, <2>2, GotoMoves, GotoOthers DEF FindEmail
  <2>4. profile[h] \in Profiles /\ email[h] = EmailOf[profile[h]] /\ email[h] \in Emails
        /\ 1 \in Slugs /\ 1 <= Attempts
    BY <1>0, <2>3 DEF SignUpAt, Slugs
  <2>5. SignUpAt(h)' /\ ~Made(h)'
    BY <2>1, <2>3, <2>4 DEF SignUpAt, Made, Founding
  <2>6. QED
    BY <1>0, <2>3, <2>5, QueryKnown
<1>6. QED
  BY <1>1, <1>2, <1>3, <1>4, <1>5

LEMMA FoundingKnown ==
  ASSUME TypeOK, SignUps, NEW h \in Handlers,
         \/ AskRegister(h) \/ FindSlug(h) \/ CreateTenant(h) \/ CreateUser(h)
         \/ CreateSession(h) \/ Undo(h) \/ Rejected(h)
  PROVE  SignUps'
<1> USE AccountsAssumption
<1>0. /\ SignUpAt(h) /\ issued' = issued /\ issued \in Nat /\ faults \in Nat
      /\ place[h] \in Nat
  BY DEF SignUps, AskRegister, FindSlug, CreateTenant, CreateUser, CreateSession, Undo,
         Rejected, cache, TypeOK
<1>1. CASE AskRegister(h)
  <2>1. PICK e \in Emails :
          Goto(h, "idle", "slug", 1, 0) /\ email' = [email EXCEPT ![h] = e]
          /\ UNCHANGED <<tables, cache, faults, profile, known>>
    BY <1>1 DEF AskRegister
  <2>2. email'[h] = e /\ \A i \in Handlers \ {h} : email'[i] = email[i]
    BY <2>1 DEF TypeOK
  <2>3. Others(h) /\ phase'[h] = "slug" /\ place'[h] = 1 /\ 1 \in Slugs /\ 1 <= Attempts
        /\ profile'[h] = profile[h]
    BY <2>1, <2>2, GotoMoves, GotoOthers DEF Slugs
  <2>4. SignUpAt(h)' /\ ~Made(h)'
    <3>1. phase[h] = "idle"
      BY <2>1, GotoMoves
    <3>2. QED
      BY <1>0, <2>2, <2>3, <3>1 DEF SignUpAt, Made, Founding
  <2>5. QED
    BY <1>0, <2>1, <2>3, <2>4, QueryKnown DEF tables
<1>2. CASE FindSlug(h)
  <2>1. PICK to \in {"slug", "tenant"}, at \in {place[h], place[h] + 1} :
          /\ Goto(h, "slug", to, at, 0) /\ Same(h) /\ tenants' = tenants /\ faults' = faults
          /\ to = "slug" => place[h] < Attempts /\ at = place[h] + 1
          /\ at = place[h] + 1 => place[h] <= Attempts
    BY <1>0, <1>2 DEF FindSlug, tables
  <2>2. Others(h) /\ phase[h] = "slug" /\ phase'[h] = to /\ place'[h] = at
        /\ profile'[h] = profile[h] /\ email'[h] = email[h]
    BY <2>1, GotoMoves, GotoOthers DEF Same
  <2>3. at \in Slugs /\ (to = "slug" => at <= Attempts)
    BY <1>0, <2>1, <2>2 DEF SignUpAt, Slugs
  <2>4. SignUpAt(h)' /\ ~Made(h)'
    BY <1>0, <2>1, <2>2, <2>3 DEF SignUpAt, Made, Founding
  <2>5. QED
    BY <1>0, <2>1, <2>2, <2>4, QueryKnown
<1>3. CASE CreateTenant(h)
  <2>1. Others(h) /\ phase[h] = "tenant" /\ phase'[h] = "user" /\ place'[h] = place[h]
        /\ profile'[h] = profile[h] /\ email'[h] = email[h]
    BY <1>3, GotoMoves, GotoOthers DEF CreateTenant, Same
  <2>2. \E t \in tenants' : t.slug = place[h] /\ t.origin = profile[h]
    <3>1. [slug |-> place[h], origin |-> profile[h]] \in tenants'
      BY <1>3 DEF CreateTenant
    <3>2. QED
      BY <3>1
  <2>3. SignUpAt(h)'
    BY <1>0, <2>1, <2>2 DEF SignUpAt, Made, Founding
  <2>4. ASSUME NEW i \in Handlers \ {h}, Made(i) PROVE place'[h] # place[i]
    <3>1. Taken(place[i])
      BY <2>4 DEF SignUps, SignUpAt, Taken
    <3>2. QED
      BY <1>3, <2>1, <3>1 DEF CreateTenant
  <2>5. Apart'
    BY <2>1, <2>4, StillApart
  <2>6. ASSUME NEW i \in Handlers \ {h} PROVE SignUpAt(i)'
    <3>1. tenants \subseteq tenants' /\ faults' = faults
      BY <1>3 DEF CreateTenant
    <3>2. issued <= issued' /\ faults <= faults' /\ issued' \in Nat /\ faults' \in Nat
      BY <1>0, <3>1
    <3>3. QED
      BY <2>1, <3>1, <3>2, OthersKnow
  <2>7. QED
    BY <2>3, <2>5, <2>6 DEF SignUps
<1>4. CASE CreateUser(h) \/ CreateSession(h)
  <2>1. PICK to, user :
          /\ to \in {"session", "log"}
          /\ Goto(h, phase[h], to, place[h], user) /\ Same(h)
          /\ UNCHANGED <<tenants, faults>> /\ (to = "session" => phase[h] = "user")
          /\ (to = "log" => phase[h] = "session")
    BY <1>4 DEF CreateUser, CreateSession, tables, Goto
  <2>2. Others(h) /\ phase'[h] = to /\ place'[h] = place[h]
        /\ profile'[h] = profile[h] /\ email'[h] = email[h]
    BY <2>1, GotoMoves, GotoOthers DEF Same
  <2>3. SignUpAt(h)' /\ (Made(h)' => Made(h))
    BY <1>0, <2>1, <2>2 DEF SignUpAt, Made, Founding, Slugs
  <2>4. QED
    BY <1>0, <2>1, <2>2, <2>3, QueryKnown
<1>5. CASE Undo(h)
  <2>1. Finish(h) /\ faults' = faults /\ faults <= faults' /\ Made(h)
    BY <1>0, <1>5 DEF Undo, Made, Founding
  <2>2. ASSUME NEW i \in Handlers \ {h}, NEW t \in tenants, t.slug = place[i], Made(i)
        PROVE  t \in tenants'
    BY <1>5, <2>1, <2>2 DEF Undo, SignUps, Apart
  <2>3. QED
    BY <1>0, <2>1, <2>2, FinishKnown
<1>6. CASE Rejected(h)
  <2>1. faults <= faults' /\ faults' \in Nat /\ faults' > 0 /\ tenants' = tenants
    BY <1>0, <1>6 DEF Rejected, tables
  <2>2. CASE Finish(h)
    BY <1>0, <2>1, <2>2, FinishKnown
  <2>3. CASE /\ profile[h] = Form /\ phase[h] \in Protected
             /\ Goto(h, phase[h], "undo", place[h], target[h]) /\ Same(h)
    <3>1. Others(h) /\ phase'[h] = "undo" /\ place'[h] = place[h]
          /\ profile'[h] = profile[h] /\ email'[h] = email[h]
      BY <2>3, GotoMoves, GotoOthers DEF Same
    <3>2. Made(h)
      BY <1>0, <2>3 DEF Protected, SignUpAt, Made, Founding
    <3>3. SignUpAt(h)'
      BY <1>0, <2>1, <2>3, <3>1, <3>2 DEF SignUpAt, Made, Founding
    <3>4. QED
      BY <1>0, <2>1, <3>1, <3>2, <3>3, OwnStep
  <2>4. QED
    BY <1>6, <2>2, <2>3 DEF Rejected
<1>7. QED
  BY <1>1, <1>2, <1>3, <1>4, <1>5, <1>6
\* The handlers' ends, and the steps of the world.
LEMMA RestTyped ==
  ASSUME TypeOK, SignUps,
         \/ Authorize \/ StateExpires \/ Invite \/ UNCHANGED vars
         \/ \E h \in Handlers :
              \/ Refused(h) \/ LinkRefused(h) \/ TenantRefused(h) \/ UserRefused(h)
              \/ SessionRefused(h) \/ Log(h)
  PROVE  TypeOK' /\ SignUps'
<1> USE AccountsAssumption
<1>0. /\ issued \in Nat /\ created \in Nat /\ faults \in Nat
      /\ faults \in 0..MaxFaults
  BY DEF TypeOK
<1>1. ASSUME NEW h \in Handlers,
             \/ Refused(h) \/ LinkRefused(h) \/ TenantRefused(h) \/ UserRefused(h)
             \/ SessionRefused(h) \/ Log(h)
      PROVE  TypeOK' /\ SignUps'
  <2>1. Finish(h) /\ UNCHANGED <<tables, cache>> /\ UNCHANGED <<tenants, issued, faults>>
    BY <1>1 DEF Refused, LinkRefused, TenantRefused, UserRefused, SessionRefused, Log,
                tables, cache
  <2>2. faults' \in 0..MaxFaults /\ faults <= faults' /\ faults' \in Nat
    BY <1>0, <2>1
  <2>3. QED
    BY <2>1, <2>2, FinishQuietTyped, FinishKnown
<1>2. CASE Authorize \/ StateExpires
  <2>1. /\ UNCHANGED <<tables, passed, faults, locals>>
        /\ issued' \in 0..MaxStates /\ issued <= issued'
        /\ states' \subseteq 1..issued'
    <3>1. CASE Authorize
      BY <1>0, <3>1 DEF Authorize, TypeOK
    <3>2. CASE StateExpires
      BY <1>0, <3>2 DEF StateExpires, TypeOK
    <3>3. QED
      BY <1>2, <3>1, <3>2
  <2>2. passed' \subseteq 1..issued'
    BY <1>0, <2>1 DEF TypeOK
  <2>3. TypeOK'
    BY <2>1, <2>2 DEF TypeOK, tables, locals, Taken, Is, Founding
  <2>4. \A n \in 1..issued : n \in 1..issued'
    BY <1>0, <2>1
  <2>5. SignUps'
    BY <2>1, <2>4 DEF SignUps, SignUpAt, Apart, Made, Founding, tables, locals
  <2>6. QED
    BY <2>3, <2>5
<1>3. CASE Invite
  <2>1. PICK u \in users, e \in Emails :
          /\ created < MaxUsers
          /\ created' = created + 1
          /\ users' = users \union {[id |-> created + 1, tenant |-> u.tenant, email |-> e]}
          /\ UNCHANGED <<tenants, linkOf, cache, faults, locals>>
    BY <1>3 DEF Invite
  <2> DEFINE new == [id |-> created + 1, tenant |-> u.tenant, email |-> e]
  <2>2. new \in Users /\ Taken(u.tenant)
    <3>1. created + 1 \in Ids /\ u.tenant \in Slugs
      BY <1>0, <2>1 DEF Ids, TypeOK, Users
    <3>2. QED
      BY <3>1 DEF Users, TypeOK
  <2>3. created' \in 0..MaxUsers /\ known' \in [Handlers -> 0..created']
    BY <1>0, <2>1 DEF locals, TypeOK
  <2>4. /\ (\A v \in users : v.id <= created /\ Taken(v.tenant))'
        /\ (\A v, w \in users : v.id = w.id => v = w)'
    <3>1. \A v \in users : v.id \in Nat /\ v.id <= created
      BY DEF TypeOK, Users, Ids
    <3>2. new.id = created + 1 /\ new.tenant = u.tenant
      OBVIOUS
    <3>3. users' = users \union {new} /\ tenants' = tenants /\ created' = created + 1
      BY <2>1
    <3>4. QED
      BY <1>0, <2>2, <3>1, <3>2, <3>3 DEF TypeOK, Taken
  <2>5. (\A p \in Profiles : linkOf[p] # 0 => Is(linkOf[p]))'
    BY <2>1 DEF TypeOK, Is
  <2>6. TypeOK'
    BY <2>1, <2>2, <2>3, <2>4, <2>5 DEF TypeOK, cache, locals, Taken, Founding
  <2>7. SignUps'
    BY <2>1 DEF SignUps, SignUpAt, Apart, Made, Founding, cache, locals
  <2>8. QED
    BY <2>6, <2>7
<1>4. CASE UNCHANGED vars
  <2>1. TypeOK'
    BY <1>4 DEF vars, tables, cache, locals, TypeOK, Taken, Is, Founding
  <2>2. SignUps'
    BY <1>4 DEF vars, tables, cache, locals, SignUps, SignUpAt, Apart, Made, Founding
  <2>3. QED
    BY <2>1, <2>2
<1>5. QED
  BY <1>1, <1>2, <1>3, <1>4

\* Every variable keeps its type and the tables their keys, and what a sign-up
\* knows holds, however the requests interleave and whatever is rejected.
THEOREM SignUpInvariance == Spec => [](TypeOK /\ SignUps)
<1>1. Init => TypeOK /\ SignUps
  <2> USE AccountsAssumption
  <2>1. Init => TypeOK
    BY DEF Init, TypeOK, Phases, Founding
  <2>2. Init => SignUps
    BY DEF Init, SignUps, SignUpAt, Apart, Made, Founding
  <2>3. QED
    BY <2>1, <2>2
<1>2. TypeOK /\ SignUps /\ [Next]_vars => TypeOK' /\ SignUps'
  BY CallbackTyped, FoundingTyped, CallbackKnown, FoundingKnown, RestTyped DEF Next
<1>3. QED
  BY <1>1, <1>2, PTL DEF Spec

\* oauth.controller.ts, oauth.service.ts, auth.service.ts: the types, and the
\* keys that the database keeps.
THEOREM AccountsTypeCorrect == Spec => []TypeOK
BY SignUpInvariance, PTL

-----------------------------------------------------------------------------
(* OAuth states                                                            *)

\* No callback begins with a state that another one has passed with
\* (oauth.controller.ts:103-111): states are handed out once, and whoever
\* passes has deleted the one it read.
THEOREM StatesAreSpent == Spec => []StateIsSpent
<1>1. Init => StateIsSpent
  BY DEF Init, StateIsSpent
<1>2. TypeOK /\ StateIsSpent /\ [Next]_vars => StateIsSpent'
  <2> SUFFICES ASSUME TypeOK, StateIsSpent, [Next]_vars PROVE StateIsSpent'
    OBVIOUS
  <2>1. CASE Authorize
    <3>1. issued + 1 \notin passed
      BY AccountsAssumption DEF TypeOK
    <3>2. QED
      BY <2>1, <3>1 DEF Authorize, StateIsSpent
  <2>2. ASSUME NEW h \in Handlers, DelState(h) PROVE StateIsSpent'
    BY <2>2 DEF DelState, StateIsSpent
  <2>3. ASSUME states' \subseteq states, passed' = passed PROVE StateIsSpent'
    BY <2>3 DEF StateIsSpent
  <2>4. CASE StateExpires
    BY <2>3, <2>4 DEF StateExpires
  <2>5. CASE Invite \/ UNCHANGED vars
    BY <2>3, <2>5 DEF Invite, vars, cache
  <2>6. ASSUME NEW h \in Handlers,
               \/ GetState(h) \/ Exchange(h) \/ Refused(h)
               \/ FindAccount(h) \/ FindEmail(h) \/ Link(h) \/ LinkRefused(h)
               \/ AskRegister(h) \/ FindSlug(h) \/ CreateTenant(h) \/ TenantRefused(h)
               \/ CreateUser(h) \/ UserRefused(h)
               \/ CreateSession(h) \/ SessionRefused(h) \/ Log(h) \/ Undo(h)
               \/ Rejected(h)
        PROVE  StateIsSpent'
    <3>1. UNCHANGED cache
      BY <2>6 DEF GetState, Exchange, Refused, FindAccount, FindEmail, Link, LinkRefused,
                  AskRegister, FindSlug, CreateTenant, TenantRefused, CreateUser,
                  UserRefused, CreateSession, SessionRefused, Log, Undo, Rejected
    <3>2. QED
      BY <2>3, <3>1 DEF cache
  <2>7. QED
    BY <2>1, <2>2, <2>4, <2>5, <2>6 DEF Next
<1>3. QED
  BY <1>1, <1>2, AccountsTypeCorrect, PTL DEF Spec
-----------------------------------------------------------------------------
(* Tenants without a user                                                  *)

\* Why a tenant may have no user, or that it has one.
Cause(t) ==
  \/ \E u \in users : u.tenant = t.slug
  \/ \E h \in Handlers : Founding(h) /\ place[h] = t.slug
  \/ t.origin = Form /\ faults > 1
  \/ t.origin # Form /\ (faults > 0 \/ linkOf[t.origin] # 0)

\* A cause that is not the handler's own lasts, if its step takes no user of the
\* tenant away, and a link only after a call was rejected.
LEMMA CauseStays ==
  ASSUME TypeOK, NEW h \in Handlers, Others(h), NEW t \in tenants, Cause(t),
         \A u \in users : u.tenant = t.slug => u \in users',
         faults' \in Nat, faults <= faults',
         \A p \in Profiles : linkOf[p] # 0 => linkOf'[p] # 0 \/ faults > 0,
         Founding(h) /\ place[h] = t.slug => Cause(t)'
  PROVE  Cause(t)'
<1>1. faults \in Nat /\ t.origin \in Profiles \union {Form}
  BY AccountsAssumption DEF TypeOK, Tenants
<1>2. CASE \E u \in users : u.tenant = t.slug
  BY <1>2 DEF Cause
<1>3. CASE \E i \in Handlers : Founding(i) /\ place[i] = t.slug
  <2>1. PICK i \in Handlers : Founding(i) /\ place[i] = t.slug
    BY <1>3
  <2>2. i # h => Founding(i)' /\ place'[i] = t.slug
    BY <2>1 DEF Others, Founding
  <2>3. QED
    BY <2>1, <2>2 DEF Cause
<1>4. CASE t.origin = Form /\ faults > 1
  BY <1>1, <1>4 DEF Cause
<1>5. CASE t.origin # Form /\ (faults > 0 \/ linkOf[t.origin] # 0)
  BY <1>1, <1>5 DEF Cause
<1>6. QED
  BY <1>2, <1>3, <1>4, <1>5 DEF Cause

\* A step that leaves the tables alone, but for users and links that come.
LEMMA CausesGrow ==
  ASSUME TypeOK, NEW h \in Handlers, Others(h), OwnerlessHasCause,
         tenants' = tenants, users \subseteq users', faults' \in Nat, faults <= faults',
         \A p \in Profiles : linkOf[p] # 0 => linkOf'[p] # 0,
         \A t \in tenants : Founding(h) /\ place[h] = t.slug => Cause(t)'
  PROVE  OwnerlessHasCause'
<1>1. \A t \in tenants : Cause(t)
  BY DEF OwnerlessHasCause, Cause
<1>2. \A t \in tenants : Cause(t)'
  BY <1>1, CauseStays
<1>3. QED
  BY <1>2 DEF OwnerlessHasCause, Cause

\* A tenant without a user is one in the making or has its cause
\* (auth.service.ts:88-124, oauth.service.ts:242-258): the handler that fails
\* at the user of a tenant clears it up, unless that was rejected as well; or it
\* came by a callback, whose profile has got a user elsewhere.
THEOREM OwnerlessTenantsHaveCause == Spec => []OwnerlessHasCause
<1> USE AccountsAssumption
<1>1. Init => OwnerlessHasCause
  BY DEF Init, OwnerlessHasCause
<1>2. TypeOK /\ TypeOK' /\ SignUps /\ OwnerlessHasCause /\ [Next]_vars => OwnerlessHasCause'
  <2> SUFFICES ASSUME TypeOK, TypeOK', SignUps, OwnerlessHasCause, [Next]_vars
               PROVE  OwnerlessHasCause'
    OBVIOUS
  <2>0. faults \in Nat /\ faults' \in Nat
    BY DEF TypeOK
  <2>1. ASSUME NEW h \in Handlers, Others(h), ~Founding(h), UNCHANGED tables,
               faults' = faults
        PROVE  OwnerlessHasCause'
    BY <2>0, <2>1, CausesGrow DEF tables
  <2>2. ASSUME NEW h \in Handlers, \/ GetState(h) \/ DelState(h) \/ Exchange(h)
                                   \/ FindAccount(h) \/ FindEmail(h) \/ AskRegister(h)
                                   \/ FindSlug(h) \/ CreateSession(h)
        PROVE  OwnerlessHasCause'
    <3>1. PICK from, to, at, user :
            /\ from \in {"idle", "state", "exchange", "account", "email", "slug", "session"}
            /\ Goto(h, from, to, at, user)
      BY <2>2 DEF GetState, DelState, Exchange, FindAccount, FindEmail, AskRegister,
                  FindSlug, CreateSession
    <3>2. \A i \in Handlers \ {h} :
            profile'[i] = profile[i] /\ email'[i] = email[i] /\ known'[i] = known[i]
      BY <2>2 DEF GetState, DelState, Exchange, FindAccount, FindEmail, AskRegister,
                  FindSlug, CreateSession, Same, TypeOK
    <3>3. Others(h) /\ ~Founding(h)
      BY <3>1, <3>2, GotoMoves, GotoOthers DEF Founding
    <3>4. UNCHANGED tables /\ faults' = faults
      BY <2>2 DEF GetState, DelState, Exchange, FindAccount, FindEmail, AskRegister,
                  FindSlug, CreateSession, tables
    <3>5. QED
      BY <2>1, <3>3, <3>4
  <2>3. ASSUME NEW h \in Handlers, \/ Refused(h) \/ LinkRefused(h) \/ TenantRefused(h)
                                   \/ SessionRefused(h) \/ Log(h)
        PROVE  OwnerlessHasCause'
    <3>1. Finish(h) /\ ~Founding(h) /\ UNCHANGED tables /\ faults' = faults
      BY <2>3 DEF Refused, LinkRefused, TenantRefused, SessionRefused, Log, Founding
    <3>2. QED
      BY <2>1, <3>1, FinishMoves
  <2>4. ASSUME NEW h \in Handlers, Link(h) PROVE OwnerlessHasCause'
    <3>1. Others(h) /\ ~Founding(h)
      BY <2>4, GotoMoves, GotoOthers DEF Link, Same, Founding
    <3>2. tenants' = tenants /\ users' = users /\ faults' = faults
          /\ \A p \in Profiles : linkOf[p] # 0 => linkOf'[p] # 0
      BY <2>4 DEF Link, TypeOK
    <3>3. QED
      BY <2>0, <3>1, <3>2, CausesGrow
  <2>5. ASSUME NEW h \in Handlers, CreateTenant(h) PROVE OwnerlessHasCause'
    <3>1. Others(h) /\ ~Founding(h) /\ Founding(h)' /\ place'[h] = place[h]
      BY <2>5, GotoMoves, GotoOthers DEF CreateTenant, Same, Founding
    <3>2. UNCHANGED <<users, linkOf, faults>>
      BY <2>5 DEF CreateTenant
    <3>3. ASSUME NEW t \in tenants PROVE Cause(t)'
      <4>1. Cause(t)
        BY DEF OwnerlessHasCause, Cause
      <4>2. QED
        BY <2>0, <3>1, <3>2, <4>1, CauseStays
    <3>4. \E i \in Handlers : Founding(i)' /\ place'[i] = place[h]
      BY <3>1
    <3>5. \A t \in tenants' : t \in tenants \/ t.slug = place[h]
      BY <2>5 DEF CreateTenant
    <3>6. QED
      BY <3>3, <3>4, <3>5 DEF OwnerlessHasCause, Cause
  <2>6. ASSUME NEW h \in Handlers, CreateUser(h) PROVE OwnerlessHasCause'
    <3>1. Others(h)
      BY <2>6, GotoMoves, GotoOthers DEF CreateUser, Same
    <3>2. tenants' = tenants /\ faults' = faults /\ users \subseteq users'
      BY <2>6 DEF CreateUser
    <3>3. \A p \in Profiles : linkOf[p] # 0 => linkOf'[p] # 0
      BY <2>6 DEF CreateUser, TypeOK
    <3>4. \E u \in users' : u.tenant = place[h]
      <4> DEFINE new == [id |-> created + 1, tenant |-> place[h], email |-> email[h]]
      <4>1. new \in users' /\ new.tenant = place[h]
        BY <2>6 DEF CreateUser
      <4>2. QED
        BY <4>1
    <3>5. \A t \in tenants : place[h] = t.slug => Cause(t)'
      BY <3>4 DEF Cause
    <3>6. QED
      BY <2>0, <3>1, <3>2, <3>3, <3>5, CausesGrow
  <2>7. ASSUME NEW h \in Handlers, UserRefused(h) PROVE OwnerlessHasCause'
    <3>1. Finish(h) /\ UNCHANGED <<tables, faults>> /\ Made(h)
          /\ profile[h] # Form /\ linkOf[profile[h]] # 0
      BY <2>7 DEF UserRefused, Made, Founding
    <3>2. ASSUME NEW t \in tenants, place[h] = t.slug PROVE Cause(t)'
      <4>1. t.origin = profile[h]
        BY <3>1, <3>2 DEF SignUps, SignUpAt, TypeOK
      <4>2. QED
        BY <3>1, <4>1 DEF Cause, tables
    <3>3. QED
      BY <2>0, <3>1, <3>2, FinishMoves, CausesGrow DEF tables
  <2>8. ASSUME NEW h \in Handlers, Undo(h) PROVE OwnerlessHasCause'
    <3>1. Others(h) /\ faults' = faults /\ phase[h] = "undo" /\ faults > 0
      BY <2>8, FinishMoves DEF Undo, SignUps, SignUpAt
    <3>2. ASSUME NEW t \in tenants' PROVE Cause(t)'
      <4>1. t \in tenants /\ t.slug # place[h]
        BY <2>8 DEF Undo
      <4>2. Cause(t)
        BY <4>1 DEF OwnerlessHasCause, Cause
      <4>3. \A u \in users : u.tenant = t.slug => u \in users'
        BY <2>8, <4>1 DEF Undo
      <4>4. QED
        BY <2>0, <3>1, <4>1, <4>2, <4>3, CauseStays
    <3>3. QED
      BY <3>2 DEF OwnerlessHasCause, Cause
  <2>9. ASSUME NEW h \in Handlers, Rejected(h) PROVE OwnerlessHasCause'
    <3>1. UNCHANGED tables /\ faults' = faults + 1 /\ faults <= faults'
      BY <2>0, <2>9 DEF Rejected
    <3>2. CASE Finish(h)
      <4>1. ASSUME NEW t \in tenants, Founding(h), place[h] = t.slug PROVE Cause(t)'
        <5>1. t.origin = profile[h]
          BY <4>1 DEF SignUps, SignUpAt, Made, TypeOK
        <5>2. CASE profile[h] # Form
          BY <2>0, <3>1, <5>1, <5>2 DEF Cause
        <5>3. CASE profile[h] = Form
          <6>1. CASE phase[h] = "undo"
            BY <2>0, <3>1, <5>1, <5>3, <6>1 DEF Cause, SignUps, SignUpAt
          <6>2. CASE phase[h] = "user"
            <7>1. phase'[h] = "idle" /\ phase'[h] = "undo"
              BY <2>9, <3>2, <5>3, <6>2, FinishMoves, GotoMoves DEF Rejected, Protected
            <7>2. QED
              BY <7>1
          <6>3. QED
            BY <4>1, <6>1, <6>2 DEF Founding
        <5>4. QED
          BY <5>2, <5>3
      <4>2. QED
        BY <2>0, <3>1, <3>2, <4>1, FinishMoves, CausesGrow DEF tables
    <3>3. CASE Goto(h, phase[h], "undo", place[h], target[h]) /\ Same(h)
      <4>1. Others(h) /\ Founding(h)' /\ place'[h] = place[h]
        BY <3>3, GotoMoves, GotoOthers DEF Same, Founding
      <4>2. \A t \in tenants : place[h] = t.slug => Cause(t)'
        BY <4>1 DEF Cause
      <4>3. QED
        BY <2>0, <3>1, <4>1, <4>2, CausesGrow DEF tables
    <3>4. QED
      BY <2>9, <3>2, <3>3 DEF Rejected
  <2>10. CASE Authorize \/ StateExpires \/ UNCHANGED vars
    BY <2>10 DEF Authorize, StateExpires, vars, tables, locals, OwnerlessHasCause, Founding
  <2>11. CASE Invite
    <3>1. users \subseteq users' /\ UNCHANGED <<tenants, linkOf, faults, locals>>
      BY <2>11 DEF Invite
    <3>2. QED
      BY <3>1 DEF locals, OwnerlessHasCause, Founding
  <2>12. QED
    BY <2>2, <2>3, <2>4, <2>5, <2>6, <2>7, <2>8, <2>9, <2>10, <2>11 DEF Next
<1>3. QED
  BY <1>1, <1>2, SignUpInvariance, PTL DEF Spec
-----------------------------------------------------------------------------
(* The user of a provider account                                          *)

Looked == \A h \in Handlers : LookedAt(h)

\* Users that come are younger than all that a handler has looked among.
UsersCome == \A u \in users' : u \in users \/ u.id = created + 1

LEMMA OthersLooked ==
  ASSUME TypeOK, Looked, UsersCome, NEW h \in Handlers, Others(h),
         NEW i \in Handlers \ {h}
  PROVE  LookedAt(i)'
<1>1. known[i] < created + 1
  BY AccountsAssumption DEF TypeOK
<1>2. QED
  BY <1>1 DEF Looked, LookedAt, UsersCome, Others

LEMMA LookedGoesOn ==
  ASSUME TypeOK, Looked, UsersCome, NEW h \in Handlers, Others(h), LookedAt(h)'
  PROVE  Looked'
BY OthersLooked DEF Looked

\* A handler that no longer goes by what it found.
LEMMA LookedEnds ==
  ASSUME TypeOK, Looked, UsersCome, NEW h \in Handlers, Others(h),
         \/ phase'[h] \notin {"slug", "tenant", "user", "link"}
         \/ phase'[h] # "link" /\ profile'[h] = Form
  PROVE  Looked'
<1>1. LookedAt(h)'
  BY DEF LookedAt
<1>2. QED
  BY <1>1, LookedGoesOn

\* Whoever has looked for an e-mail knows which users are older.
LEMMA LookedInvariant ==
  ASSUME TypeOK, SignUps, Looked, [Next]_vars
  PROVE  Looked'
<1> USE AccountsAssumption
<1>0. UsersCome
  <2>1. CASE Invite \/ \E h \in Handlers : CreateUser(h)
    BY <2>1 DEF Invite, CreateUser, UsersCome
  <2>2. CASE users' \subseteq users
    BY <2>2 DEF UsersCome
  <2>3. QED
    BY <2>1, <2>2
    DEF Next, vars, tables, Authorize, StateExpires, GetState, DelState, Exchange, Refused,
        FindAccount, FindEmail, Link, LinkRefused, AskRegister, FindSlug, CreateTenant,
        TenantRefused, UserRefused, CreateSession, SessionRefused, Log, Undo, Rejected
<1>1. ASSUME NEW h \in Handlers, \/ GetState(h) \/ DelState(h) \/ FindAccount(h) \/ Link(h)
                                 \/ CreateUser(h) \/ CreateSession(h)
      PROVE  Looked'
  <2>1. PICK from, to, at, user :
          /\ to \in {"state", "exchange", "session", "email", "log"}
          /\ Goto(h, from, to, at, user) /\ Same(h)
    BY <1>1 DEF GetState, DelState, FindAccount, Link, CreateUser, CreateSession
  <2>2. QED
    BY <1>0, <2>1, GotoMoves, GotoOthers, LookedEnds DEF Same
<1>2. ASSUME NEW h \in Handlers, Finish(h) PROVE Looked'
  BY <1>0, <1>2, FinishMoves, LookedEnds
<1>3. ASSUME NEW h \in Handlers, Exchange(h) PROVE Looked'
  <2>1. \A i \in Handlers \ {h} :
          profile'[i] = profile[i] /\ email'[i] = email[i] /\ known'[i] = known[i]
    BY <1>3 DEF Exchange, TypeOK
  <2>2. Others(h) /\ phase'[h] = "account"
    BY <1>3, <2>1, GotoMoves, GotoOthers DEF Exchange
  <2>3. QED
    BY <1>0, <2>2, LookedEnds
<1>4. ASSUME NEW h \in Handlers, AskRegister(h) PROVE Looked'
  <2>1. \A i \in Handlers \ {h} :
          profile'[i] = profile[i] /\ email'[i] = email[i] /\ known'[i] = known[i]
    BY <1>4 DEF AskRegister, TypeOK
  <2>2. Others(h) /\ phase[h] = "idle" /\ phase'[h] = "slug" /\ profile'[h] = profile[h]
    BY <1>4, <2>1, GotoMoves, GotoOthers DEF AskRegister
  <2>3. profile'[h] = Form
    BY <2>2 DEF SignUps, SignUpAt
  <2>4. QED
    BY <1>0, <2>2, <2>3, LookedEnds
<1>5. ASSUME NEW h \in Handlers, FindEmail(h) PROVE Looked'
  <2>1. /\ known' = [known EXCEPT ![h] = created] /\ known'[h] = created
        /\ UNCHANGED <<users, profile, email>>
    BY <1>5 DEF FindEmail, tables, TypeOK
  <2>2. Others(h)
    BY <1>5, <2>1, GotoOthers DEF FindEmail, TypeOK
  <2>3. LookedAt(h)'
    <3>1. \A u \in users : u.email = email[h] => u.id \in Namesakes(email[h])
      BY DEF Namesakes
    <3>2. CASE Namesakes(email[h]) # {}
      <4>1. phase'[h] = "link" /\ target'[h] = First(Namesakes(email[h]))
        BY <1>5, <3>2, GotoMoves DEF FindEmail
      <4>2. \A i \in Namesakes(email[h]) : target'[h] <= i
        BY <3>2, <4>1, NamesakesTyped
      <4>3. QED
        BY <2>1, <3>1, <4>1, <4>2 DEF LookedAt
    <3>3. CASE Namesakes(email[h]) = {}
      <4>1. phase'[h] = "slug"
        BY <1>5, <3>3, GotoMoves DEF FindEmail
      <4>2. QED
        BY <2>1, <3>1, <3>3, <4>1 DEF LookedAt
    <3>4. QED
      BY <3>2, <3>3
  <2>4. QED
    BY <1>0, <2>2, <2>3, LookedGoesOn
<1>6. ASSUME NEW h \in Handlers, FindSlug(h) \/ CreateTenant(h) PROVE Looked'
  <2>1. PICK from, to, at :
          /\ from \in {"slug", "tenant"} /\ to \in {"slug", "tenant", "user"}
          /\ Goto(h, from, to, at, 0) /\ Same(h) /\ users' = users
    BY <1>6 DEF FindSlug, CreateTenant, tables
  <2>2. Others(h) /\ phase[h] = from /\ phase'[h] = to
    BY <2>1, GotoMoves, GotoOthers DEF Same
  <2>3. LookedAt(h)'
    BY <2>1, <2>2 DEF Looked, LookedAt, Same
  <2>4. QED
    BY <1>0, <2>2, <2>3, LookedGoesOn
<1>7. ASSUME NEW h \in Handlers, Rejected(h) PROVE Looked'
  <2>1. CASE Goto(h, phase[h], "undo", place[h], target[h]) /\ Same(h)
    BY <1>0, <2>1, GotoMoves, GotoOthers, LookedEnds DEF Same
  <2>2. QED
    BY <1>2, <1>7, <2>1 DEF Rejected
<1>8. CASE Authorize \/ StateExpires \/ Invite \/ UNCHANGED vars
  <2>1. UNCHANGED locals
    BY <1>8 DEF Authorize, StateExpires, Invite, vars
  <2>2. ASSUME NEW h \in Handlers PROVE LookedAt(h)'
    <3>1. known[h] < created + 1
      BY DEF TypeOK
    <3>2. QED
      BY <1>0, <2>1, <3>1 DEF locals, Looked, LookedAt, UsersCome
  <2>3. QED
    BY <2>2 DEF Looked
<1>9. QED
  BY <1>1, <1>2, <1>3, <1>4, <1>5, <1>6, <1>7, <1>8
  DEF Next, Refused, LinkRefused, TenantRefused, UserRefused, SessionRefused, Log, Undo

\* A provider account that gets a user gets the oldest of its e-mail, or a new
\* one where there is none, but for users that were made after its callback had
\* looked (oauth.service.ts:194-258).
THEOREM ProfilesGetTheirUser == Spec => ProfilesFindTheirUser
<1> USE AccountsAssumption
<1> DEFINE Finds(p) ==
      linkOf[p] = 0 /\ linkOf'[p] # 0 =>
        \A u \in users :
          u.email = EmailOf[p] /\ u.id < linkOf'[p] =>
            \E h \in Handlers : /\ phase'[h] # phase[h]
                                /\ profile[h] = p /\ u.id > known[h]
<1>1. TypeOK /\ SignUps /\ Looked /\ [Next]_vars => [\A p \in Profiles : Finds(p)]_vars
  <2> SUFFICES ASSUME TypeOK, SignUps, Looked, [Next]_vars, NEW p \in Profiles,
                      linkOf[p] = 0, linkOf'[p] # 0,
                      NEW u \in users, u.email = EmailOf[p], u.id < linkOf'[p]
               PROVE  \E h \in Handlers : /\ phase'[h] # phase[h]
                                          /\ profile[h] = p /\ u.id > known[h]
    OBVIOUS
  <2>1. u.id \in Nat /\ u.id <= created /\ created \in Nat
    BY DEF TypeOK, Users, Ids
  <2>2. ASSUME NEW h \in Handlers, Link(h)
        PROVE  phase'[h] # phase[h] /\ profile[h] = p /\ u.id > known[h]
    <3>1. profile[h] = p /\ linkOf'[p] = target[h] /\ phase[h] = "link" /\ phase'[h] = "session"
      BY <2>2, GotoMoves DEF Link, TypeOK
    <3>2. email[h] = EmailOf[p] /\ target[h] \in Nat
      BY <3>1 DEF SignUps, SignUpAt, TypeOK
    <3>3. QED
      BY <2>1, <3>1, <3>2 DEF Looked, LookedAt
  <2>3. ASSUME NEW h \in Handlers, CreateUser(h)
        PROVE  phase'[h] # phase[h] /\ profile[h] = p /\ u.id > known[h]
    <3>1. profile[h] = p /\ phase[h] = "user" /\ phase'[h] = "session"
      BY <2>3, GotoMoves DEF CreateUser
    <3>2. email[h] = EmailOf[p]
      BY <3>1 DEF SignUps, SignUpAt
    <3>3. QED
      BY <3>1, <3>2 DEF Looked, LookedAt
  <2>4. ASSUME NEW h \in Handlers, Undo(h) PROVE FALSE
    BY <2>4 DEF Undo
  <2>5. ASSUME UNCHANGED linkOf PROVE FALSE
    BY <2>5
  <2>6. QED
    BY <2>2, <2>3, <2>4, <2>5
    DEF Next, vars, tables, Authorize, StateExpires, Invite, GetState, DelState, Exchange,
        Refused, FindAccount, FindEmail, LinkRefused, AskRegister, FindSlug, CreateTenant,
        TenantRefused, UserRefused, CreateSession, SessionRefused, Log, Rejected
<1>2. Init => Looked
  BY DEF Init, Looked, LookedAt
<1>3. Spec => []Looked
  BY <1>2, SignUpInvariance, LookedInvariant, PTL DEF Spec
<1>4. QED
  BY <1>1, <1>3, SignUpInvariance, PTL DEF Spec, ProfilesFindTheirUser
=============================================================================
