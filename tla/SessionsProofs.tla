--------------------------- MODULE SessionsProofs ---------------------------
(***************************************************************************)
(* Theorems about Sessions, for every set of pages and of calls and any    *)
(* number of tokens and of failures.                                       *)
(***************************************************************************)
EXTENDS Sessions, TLAPS

-----------------------------------------------------------------------------
(* Type correctness                                                        *)

\* Where the form of a page can be: only a logout revokes a session, and a
\* login comes without a token.
FormAt(x) ==
  /\ phase[x] = "revoke" => op[x] = "logout"
  /\ phase[x] \in {"idle", "find", "create"} => carried[x] = 0

Typed == TypeOK /\ \A x \in Tabs : FormAt(x)

\* Every variable keeps its type, no token is in the database that was not
\* made, and an answer that opens a session has the token of one.
THEOREM SessionsTypeCorrect == Spec => []Typed
<1> USE PagesAssumption, TokensAssumption
<1>1. Init => Typed
  <2> SUFFICES ASSUME Init PROVE Typed
    OBVIOUS
  <2>1. made = 0 /\ 0 \in 0..MaxTokens /\ 0 \in 0..MaxFaults /\ 0 \in 0..made
    BY DEF Init
  <2>2. {login, parent} \subseteq [Ids -> 0..made]
    BY <2>1 DEF Init
  <2>3. {carried, issued} \subseteq [Handlers -> 0..made]
    BY <2>1 DEF Init
  <2>4. QED
    BY <2>1, <2>2, <2>3 DEF Init, Typed, TypeOK, FormAt, Handlers, Phases
<1>2. Typed /\ [Next]_vars => Typed'
  <2> SUFFICES ASSUME Typed, [Next]_vars PROVE Typed'
    OBVIOUS
  <2> USE DEF Typed, TypeOK, FormAt, Goto, Handlers, Phases, dbVars,
              browserVars, serverVars
  <2>1. ASSUME NEW c \in Calls, Fetch(c) PROVE Typed'
    BY <2>1 DEF Fetch
  <2>2. ASSUME NEW c \in Calls, OnUnauthorized(c) PROVE Typed'
    <3>1. /\ waits' \in [Calls -> Calls]
          /\ phase' \in [Handlers -> Phases]
          /\ carried' \in [Handlers -> 0..made]
      BY <2>2 DEF OnUnauthorized, SharedRefresh
    <3>0. calm' \in BOOLEAN
      <4>1. CASE calm' = calm
        BY <4>1
      <4>2. CASE calm' = (calm /\ \A d \in Calls :
                                   TabOf[d] # TabOf[c] => phase[d] = "idle")
        BY <4>2, Zenon
      <4>3. QED
        BY <2>2, <4>1, <4>2 DEF OnUnauthorized
    <3>2. /\ \A x \in Tabs : phase'[x] = phase[x] /\ carried'[x] = carried[x]
          /\ \A h \in Handlers : phase'[h] \in {"log", "ok"} => phase[h] = phase'[h]
      BY <2>2 DEF OnUnauthorized
    <3>3. QED
      BY <2>2, <3>0, <3>1, <3>2 DEF OnUnauthorized
  <2>3. ASSUME NEW c \in Calls, RefreshAnswered(c) PROVE Typed'
    <3>1. /\ jar' \in 0..made /\ access' \in BOOLEAN
          /\ call' \in [Calls -> {"idle", "refused", "waiting", "retry"}]
          /\ waits' \in [Calls -> Calls]
      <4>1. \A d \in Calls : Outcome(d) \in {"retry", "idle"}
        BY DEF Outcome
      <4>2. /\ call' \in [Calls -> {"idle", "refused", "waiting", "retry"}]
            /\ waits' \in [Calls -> Calls]
        BY <2>3, <4>1 DEF RefreshAnswered
      <4>3. jar' \in 0..made /\ access' \in BOOLEAN
        <5>1. CASE phase[c] = "ok"
          BY <2>3, <5>1 DEF RefreshAnswered, SetAuthCookies
        <5>2. CASE phase[c] # "ok"
          BY <2>3, <5>2 DEF RefreshAnswered
        <5>3. QED
          BY <5>1, <5>2
      <4>4. QED
        BY <4>2, <4>3
    <3>2. QED
      BY <2>3, <3>1 DEF RefreshAnswered, Finish
  <2>4. ASSUME NEW c \in Calls, Retry(c) PROVE Typed'
    BY <2>4 DEF Retry
  <2>5. ASSUME NEW x \in Tabs, AskLogin(x) PROVE Typed'
    BY <2>5 DEF AskLogin
  <2>6. ASSUME NEW x \in Tabs, AskLogout(x) PROVE Typed'
    BY <2>6 DEF AskLogout
  <2>7. ASSUME NEW x \in Tabs, FormAnswered(x) PROVE Typed'
    <3>1. jar' \in 0..made /\ access' \in BOOLEAN
      <4>1. CASE phase[x] = "no"
        BY <2>7, <4>1 DEF FormAnswered
      <4>2. CASE phase[x] # "no" /\ op[x] = "login"
        BY <2>7, <4>2 DEF FormAnswered, SetAuthCookies
      <4>3. CASE phase[x] # "no" /\ op[x] # "login"
        <5>1. 0 \in 0..made
          BY TokensAssumption
        <5>2. QED
          BY <2>7, <4>3, <5>1 DEF FormAnswered, ClearAuthCookies
      <4>4. QED
        BY <4>1, <4>2, <4>3
    <3>2. QED
      BY <2>7, <3>1 DEF FormAnswered, Finish
  <2>8. ASSUME NEW c \in Calls, RotateFind(c) PROVE Typed'
    BY <2>8 DEF RotateFind, beyondServer
  <2>9. ASSUME NEW c \in Calls, RotateRevoke(c) PROVE Typed'
    <3>1. /\ token' \in [Ids -> {"none", "live", "lapsed", "revoked"}]
      BY <2>9 DEF RotateRevoke
    <3>2. ASSUME NEW t \in Ids, token'[t] # "none" PROVE t <= made
      <4>1. CASE t = carried[c]
        BY <4>1
      <4>2. CASE t # carried[c]
        BY <2>9, <3>2, <4>2 DEF RotateRevoke
      <4>3. QED
        BY <4>1, <4>2
    <3>3. QED
      BY <2>9, <3>1, <3>2 DEF RotateRevoke, beyondServer
  <2>10. ASSUME NEW x \in Tabs, LoginFind(x) PROVE Typed'
    BY <2>10 DEF LoginFind, beyondServer
  <2>11. ASSUME NEW x \in Tabs, LogoutRevoke(x) PROVE Typed'
    BY <2>11 DEF LogoutRevoke, beyondServer
  <2>12. ASSUME NEW h \in Handlers, CreateSession(h) PROVE Typed'
    <3>1. /\ made' \in 0..MaxTokens /\ made + 1 \in Ids /\ made' = made + 1
          /\ token' \in [Ids -> {"none", "live", "lapsed", "revoked"}]
          /\ \A t \in Ids : token'[t] # "none" => t <= made'
      BY <2>12 DEF CreateSession, Ids
    <3>2. login' \in [Ids -> 0..made'] /\ parent' \in [Ids -> 0..made']
      <4>1. \A n \in 0..made : n \in 0..made'
        BY <3>1
      <4>2. made + 1 \in 0..made' /\ carried[h] \in 0..made
        BY <3>1
      <4>3. carried[h] # 0 => login[carried[h]] \in 0..made
        BY <4>2 DEF Ids
      <4>4. QED
        BY <2>12, <3>1, <4>1, <4>2, <4>3 DEF CreateSession
    <3>3. /\ carried' \in [Handlers -> 0..made']
          /\ issued' \in [Handlers -> 0..made'] /\ issued'[h] # 0
          /\ \A g \in Handlers \ {h} : issued'[g] = issued[g]
      BY <2>12, <3>1 DEF CreateSession, beyondServer
    <3>4. QED
      BY <2>12, <3>1, <3>2, <3>3 DEF CreateSession, beyondServer
  <2>13. ASSUME NEW h \in Handlers, Log(h) PROVE Typed'
    BY <2>13 DEF Log, beyondServer
  <2>14. ASSUME NEW h \in Handlers, AccountIsGone(h) PROVE Typed'
    BY <2>14 DEF AccountIsGone, beyondServer
  <2>15. ASSUME NEW h \in Handlers, Rejected(h) PROVE Typed'
    <3>1. faults' \in 0..MaxFaults
      BY <2>15 DEF Rejected
    <3>2. QED
      BY <2>15, <3>1 DEF Rejected
  <2>16. CASE AccessLapses
    BY <2>16 DEF AccessLapses, beyondWorld
  <2>17. ASSUME NEW t \in Ids, RefreshLapses(t) PROVE Typed'
    BY <2>17 DEF RefreshLapses, beyondWorld
  <2>18. ASSUME NEW s \in {"ACTIVE", "SUSPENDED", "GONE"}, SetStatus(s)
         PROVE  Typed'
    BY <2>18 DEF SetStatus, beyondWorld
  <2>19. CASE UNCHANGED vars
    BY <2>19 DEF vars
  <2>20. QED
    BY <2>1, <2>2, <2>3, <2>4, <2>5, <2>6, <2>7, <2>8, <2>9, <2>10, <2>11,
       <2>12, <2>13, <2>14, <2>15, <2>16, <2>17, <2>18, <2>19
    DEF Next, Page, Form, Rotation, Session
<1>3. QED
  BY <1>1, <1>2, PTL DEF Spec

-----------------------------------------------------------------------------
(* The calls that share a refresh                                          *)

\* frontend/lib/api.ts:158-167: whoever waits, waits for a refresh that is
\* under way, with any number of calls on any number of pages.
THEOREM NobodyForgotten == Spec => []NobodyIsForgotten
<1> USE PagesAssumption
<1>1. Init => NobodyIsForgotten
  BY DEF Init, NobodyIsForgotten
<1>2. Typed /\ NobodyIsForgotten /\ [Next]_vars => NobodyIsForgotten'
  <2> SUFFICES ASSUME Typed, NobodyIsForgotten, [Next]_vars
               PROVE  NobodyIsForgotten'
    OBVIOUS
  <2> USE DEF Typed, TypeOK, NobodyIsForgotten, Goto, Handlers, dbVars,
              browserVars, serverVars
  <2>1. ASSUME NEW c \in Calls, Fetch(c) PROVE NobodyIsForgotten'
    BY <2>1 DEF Fetch
  <2>2. ASSUME NEW c \in Calls, OnUnauthorized(c) PROVE NobodyIsForgotten'
    BY <2>2 DEF OnUnauthorized, SharedRefresh
  <2>3. ASSUME NEW c \in Calls, RefreshAnswered(c) PROVE NobodyIsForgotten'
    BY <2>3 DEF RefreshAnswered, Finish, Waiting, Outcome
  <2>4. ASSUME NEW c \in Calls, Retry(c) PROVE NobodyIsForgotten'
    BY <2>4 DEF Retry
  <2>5. ASSUME NEW x \in Tabs, Form(x) \/ LoginFind(x) \/ LogoutRevoke(x)
        PROVE  NobodyIsForgotten'
    BY <2>5 DEF Form, AskLogin, AskLogout, FormAnswered, Finish, LoginFind,
                LogoutRevoke, beyondServer
  <2>6. ASSUME NEW c \in Calls, Rotation(c) PROVE NobodyIsForgotten'
    BY <2>6 DEF Rotation, RotateFind, RotateRevoke, beyondServer
  <2>7. ASSUME NEW h \in Handlers, Session(h) PROVE NobodyIsForgotten'
    BY <2>7 DEF Session, CreateSession, Log, AccountIsGone, Rejected,
                beyondServer
  <2>8. CASE AccessLapses
    BY <2>8 DEF AccessLapses, beyondWorld
  <2>9. ASSUME NEW t \in Ids, RefreshLapses(t) PROVE NobodyIsForgotten'
    BY <2>9 DEF RefreshLapses, beyondWorld
  <2>10. ASSUME NEW s \in {"ACTIVE", "SUSPENDED", "GONE"}, SetStatus(s)
         PROVE  NobodyIsForgotten'
    BY <2>10 DEF SetStatus, beyondWorld
  <2>11. CASE UNCHANGED vars
    BY <2>11 DEF vars
  <2>12. QED
    BY <2>1, <2>2, <2>3, <2>4, <2>5, <2>6, <2>7, <2>8, <2>9, <2>10, <2>11
    DEF Next, Page
<1>3. QED
  BY <1>1, <1>2, SessionsTypeCorrect, PTL DEF Spec

-----------------------------------------------------------------------------
(* The tokens that have replaced one another                               *)

\* A token that has been replaced is not good any more, nor is one that a
\* handler is about to replace.
ReplacedAreDead ==
  /\ \A t, u \in Ids : parent[u] = t => token[t] # "live"
  /\ \A h \in Handlers : \A t \in Ids :
       phase[h] = "create" /\ carried[h] = t => token[t] # "live"

\* What was not made has left no trace.
MadeInOrder ==
  \A t \in Ids : /\ t > made => parent[t] = 0 /\ login[t] = 0
                 /\ t <= made => login[t] # 0

\* In a session that was not forked only the newest token has no successor.
Chained ==
  \A t, u \in Ids :
    /\ t < u /\ login[t] = login[u] /\ login[t] # 0
    /\ ~Forked(login[t])
    => \E v \in Ids : parent[v] = t

Lineage == ReplacedAreDead /\ MadeInOrder /\ Chained

\* A step that makes no token, brings none back, and lets no handler go on to
\* replace one that is still good.
Harmless ==
  /\ UNCHANGED <<made, login, parent>>
  /\ \A t \in Ids : token'[t] = "live" => token[t] = "live"
  /\ \A h \in Handlers : \A t \in Ids :
       phase'[h] = "create" /\ carried'[h] = t =>
         token'[t] # "live" \/ (phase[h] = "create" /\ carried[h] = t)

LEMMA HarmlessKeepsLineage ==
  ASSUME Lineage, Harmless PROVE Lineage'
<1>1. ReplacedAreDead'
  BY DEF Lineage, ReplacedAreDead, Harmless
<1>2. MadeInOrder'
  BY DEF Lineage, MadeInOrder, Harmless
<1>3. Chained'
  BY DEF Lineage, Chained, Forked, Harmless
<1>4. QED
  BY <1>1, <1>2, <1>3 DEF Lineage

\* token.service.ts:38-92: the new token is the newest, and the one that it
\* replaces is dead.
LEMMA CreateKeepsLineage ==
  ASSUME Typed, Lineage, NEW h \in Handlers, CreateSession(h)
  PROVE  Lineage'
<1> USE TokensAssumption
<1> DEFINE new == made + 1
           old == carried[h]
<1>1. /\ made' = new /\ new \in Ids /\ made \in Nat /\ old \in 0..made
      /\ token' = [token EXCEPT ![new] = "live"]
      /\ parent' = [parent EXCEPT ![new] = old]
      /\ login' = [login EXCEPT ![new] = IF old = 0 THEN new ELSE login[old]]
      /\ phase' = [phase EXCEPT ![h] = "log"] /\ carried' = carried
      /\ phase[h] = "create"
  BY DEF CreateSession, Typed, TypeOK, Ids, Goto, beyondServer
<1>2. /\ token \in [Ids -> {"none", "live", "lapsed", "revoked"}]
      /\ parent \in [Ids -> 0..made] /\ login \in [Ids -> 0..made]
      /\ phase \in [Handlers -> Phases] /\ carried \in [Handlers -> 0..made]
  BY DEF Typed, TypeOK
<1>3. old # 0 => /\ old \in Ids /\ token[old] # "live" /\ login[old] # 0
                 /\ login[old] \in 0..made
  <2> SUFFICES ASSUME old # 0 PROVE old \in Ids /\ token[old] # "live" /\ login[old] # 0 /\ login[old] \in 0..made
    OBVIOUS
  <2>1. old \in Ids /\ old <= made
    BY <1>1 DEF Ids
  <2>2. QED
    BY <1>1, <1>2, <2>1 DEF Lineage, ReplacedAreDead, MadeInOrder
<1> HIDE DEF new, old
<1>4. \A t \in Ids : t # new => /\ token'[t] = token[t] /\ parent'[t] = parent[t]
                                /\ login'[t] = login[t]
  BY <1>1, <1>2
<1>5. /\ token'[new] = "live" /\ parent'[new] = old
      /\ login'[new] = IF old = 0 THEN new ELSE login[old]
  BY <1>1, <1>2
<1>6. new = made + 1 /\ new # 0
  BY <1>1 DEF new
<1>7. \A t \in Ids : t > made \/ parent[t] # new
  BY <1>1, <1>2, <1>6
<1>8. ReplacedAreDead'
  <2>1. ASSUME NEW t \in Ids, NEW u \in Ids, parent'[u] = t
        PROVE  token'[t] # "live"
    <3>1. CASE u = new
      <4>1. t = old /\ t # 0 /\ t # new
        BY <1>1, <1>5, <1>6, <2>1, <3>1 DEF Ids
      <4>2. QED
        BY <1>3, <1>4, <4>1
    <3>2. CASE u # new
      <4>1. parent[u] = t /\ t # new
        BY <1>1, <1>2, <1>4, <1>6, <2>1, <3>2
      <4>2. QED
        BY <1>4, <4>1 DEF Lineage, ReplacedAreDead
    <3>3. QED
      BY <3>1, <3>2
  <2>2. ASSUME NEW g \in Handlers, NEW t \in Ids,
               phase'[g] = "create", carried'[g] = t
        PROVE  token'[t] # "live"
    <3>1. phase[g] = "create" /\ carried[g] = t /\ t # new
      BY <1>1, <1>2, <1>6, <2>2
    <3>2. QED
      BY <1>4, <3>1 DEF Lineage, ReplacedAreDead
  <2>3. QED
    BY <2>1, <2>2 DEF ReplacedAreDead
<1>9. MadeInOrder'
  <2> SUFFICES ASSUME NEW t \in Ids
               PROVE  /\ t > new => parent'[t] = 0 /\ login'[t] = 0
                      /\ t <= new => login'[t] # 0
    BY <1>1 DEF MadeInOrder
  <2>1. CASE t = new
    BY <1>3, <1>5, <1>6, <2>1 DEF Ids
  <2>2. CASE t # new
    BY <1>1, <1>4, <1>6, <2>2 DEF Lineage, MadeInOrder, Ids
  <2>3. QED
    BY <2>1, <2>2
<1>10. \A f : Forked(f) => Forked(f)'
  <2> SUFFICES ASSUME NEW f, Forked(f) PROVE Forked(f)'
    OBVIOUS
  <2>1. PICK t \in Ids, u \in Ids :
          t # u /\ parent[t] = parent[u] /\ parent[t] # 0 /\ login[t] = f
    BY DEF Forked
  <2>2. parent[new] = 0
    BY <1>1, <1>6 DEF Lineage, MadeInOrder
  <2>3. t # new /\ u # new
    BY <2>1, <2>2
  <2>4. QED
    BY <1>4, <2>1, <2>3 DEF Forked
<1>11. Chained'
  <2> SUFFICES ASSUME NEW t \in Ids, NEW u \in Ids, t < u,
                      login'[t] = login'[u], login'[t] # 0,
                      ~Forked(login[t])'
               PROVE  \E v \in Ids : parent'[v] = t
    BY DEF Chained
  <2>1. u <= new /\ t # new
    <3>1. u <= new
      BY <1>1, <1>9 DEF MadeInOrder, Ids
    <3>2. QED
      BY <1>1, <3>1 DEF Ids
  <2>2. CASE u # new
    <3>1. PICK v \in Ids : parent[v] = t
      BY <1>4, <1>10, <2>1, <2>2 DEF Lineage, Chained
    <3>2. v # new
      BY <1>1, <1>6, <3>1 DEF Lineage, MadeInOrder, Ids
    <3>3. QED
      BY <1>4, <3>1, <3>2
  <2>3. CASE u = new
    <3>1. old # 0 /\ old # new /\ login[t] = login[old] /\ t \in 1..made
      BY <1>1, <1>2, <1>4, <1>5, <1>6, <2>1, <2>3 DEF Ids
    <3>2. CASE t = old
      BY <1>1, <1>5, <3>2
    <3>3. CASE t < old
      <4>1. PICK v \in Ids : parent[v] = t
        BY <1>3, <1>4, <1>10, <2>1, <3>1, <3>3 DEF Lineage, Chained
      <4>2. v # new
        BY <1>1, <1>6, <4>1 DEF Lineage, MadeInOrder, Ids
      <4>3. QED
        BY <1>4, <4>1, <4>2
    <3>4. CASE t > old
      <4>1. PICK v \in Ids : parent[v] = old
        BY <1>3, <1>4, <1>10, <2>1, <3>1, <3>4 DEF Lineage, Chained
      <4>2. v # new /\ parent'[v] = old
        BY <1>1, <1>3, <1>4, <1>6, <3>1, <4>1 DEF Lineage, MadeInOrder, Ids
      <4>3. login'[new] = login'[t]
        BY <2>3
      <4>4. Forked(login[t])'
        BY <1>1, <1>5, <3>1, <4>2, <4>3 DEF Forked
      <4>5. QED
        BY <4>4
    <3>5. QED
      BY <1>1, <3>1, <3>2, <3>3, <3>4 DEF Ids
  <2>4. QED
    BY <2>2, <2>3
<1>12. QED
  BY <1>8, <1>9, <1>11 DEF Lineage

\* The tokens of a session form a chain with one living end, or it was forked.
THEOREM LineageKept == Spec => []Lineage
<1> USE PagesAssumption, TokensAssumption
<1>1. Init => Lineage
  BY DEF Init, Lineage, ReplacedAreDead, MadeInOrder, Chained, Ids
<1>2. Typed /\ Lineage /\ [Next]_vars => Lineage'
  <2> SUFFICES ASSUME Typed, Lineage, [Next]_vars PROVE Lineage'
    OBVIOUS
  <2>1. ASSUME NEW h \in Handlers, CreateSession(h) PROVE Lineage'
    BY <2>1, CreateKeepsLineage
  <2>2. SUFFICES ASSUME \A h \in Handlers : ~CreateSession(h)
                 PROVE  Harmless
    BY <2>1, HarmlessKeepsLineage
  <2> USE DEF Typed, TypeOK, FormAt, Harmless, Goto, Handlers, dbVars,
              browserVars, serverVars
  <2>3. ASSUME NEW c \in Calls, Page(c) PROVE Harmless
    BY <2>3 DEF Page, Fetch, OnUnauthorized, RefreshAnswered, Retry, Finish
  <2>4. ASSUME NEW x \in Tabs, Form(x) PROVE Harmless
    BY <2>4 DEF Form, AskLogin, AskLogout, FormAnswered, Finish
  <2>5. ASSUME NEW c \in Calls, RotateFind(c) PROVE Harmless
    BY <2>5 DEF RotateFind, beyondServer
  <2>6. ASSUME NEW c \in Calls, RotateRevoke(c) PROVE Harmless
    BY <2>6 DEF RotateRevoke, beyondServer
  <2>7. ASSUME NEW x \in Tabs, LoginFind(x) PROVE Harmless
    <3>1. \A t \in Ids : carried[x] # t
      BY <2>7 DEF LoginFind, Ids
    <3>2. QED
      BY <2>7, <3>1 DEF LoginFind, beyondServer
  <2>8. ASSUME NEW x \in Tabs, LogoutRevoke(x) PROVE Harmless
    BY <2>8 DEF LogoutRevoke, beyondServer
  <2>9. ASSUME NEW h \in Handlers, Session(h) PROVE Harmless
    BY <2>2, <2>9 DEF Session, Log, AccountIsGone, Rejected, beyondServer
  <2>10. CASE AccessLapses
    BY <2>10 DEF AccessLapses, beyondWorld
  <2>11. ASSUME NEW t \in Ids, RefreshLapses(t) PROVE Harmless
    BY <2>11 DEF RefreshLapses, beyondWorld
  <2>12. ASSUME NEW s \in {"ACTIVE", "SUSPENDED", "GONE"}, SetStatus(s)
         PROVE  Harmless
    BY <2>12 DEF SetStatus, beyondWorld
  <2>13. CASE UNCHANGED vars
    BY <2>13 DEF vars
  <2>14. QED
    BY <2>3, <2>4, <2>5, <2>6, <2>7, <2>8, <2>9, <2>10, <2>11, <2>12, <2>13
    DEF Next, Rotation
<1>3. QED
  BY <1>1, <1>2, SessionsTypeCorrect, PTL DEF Spec

\* token.service.ts:77-92: a session has one good token, or two refreshes
\* have forked it, with any number of pages, calls, failures and logouts.
THEOREM OneTokenEach == Spec => []OneTokenPerLogin
<1>1. Typed /\ Lineage => OneTokenPerLogin
  <2> SUFFICES ASSUME Typed, Lineage, NEW t \in Ids, NEW u \in Ids,
                      token[t] = "live", token[u] = "live",
                      login[t] = login[u], ~Forked(login[t])
               PROVE  t = u
    BY DEF OneTokenPerLogin
  <2>1. login[t] # 0
    BY DEF Typed, TypeOK, Lineage, MadeInOrder
  <2>2. \A v \in Ids : parent[v] # t /\ parent[v] # u
    BY DEF Lineage, ReplacedAreDead
  <2>3. ~(t < u) /\ ~(u < t)
    BY <2>1, <2>2 DEF Lineage, Chained
  <2>4. QED
    BY <2>3, TokensAssumption DEF Ids
<1>2. QED
  BY <1>1, SessionsTypeCorrect, LineageKept, PTL

-----------------------------------------------------------------------------
(* The cookie                                                              *)

\* The token of an answer under way is good or expired, and nobody else
\* knows it.
OpensFresh ==
  \A h \in Handlers : issued[h] # 0 =>
    /\ jar # issued[h]
    /\ issued[h] \in Ids /\ token[issued[h]] # "revoked"
    /\ \A g \in Handlers : /\ carried[g] # issued[h]
                           /\ g # h => issued[g] # issued[h]

\* The answer that will take the token of the cookie away.
Replaces(h) == phase[h] \in {"create", "log", "ok"} /\ carried[h] = jar

\* A used token stays in the cookie only until the answer to the handler
\* that used it.
Renewed ==
  faults = 0 /\ jar # 0 /\ token[jar] = "revoked"
    => \E h \in Handlers : Replaces(h)

\* An account that is gone has no tokens.
GoneWithTokens == status = "GONE" => \A t \in Ids : token[t] = "none"

Cookie == OpensFresh /\ Renewed /\ GoneWithTokens

\* auth.service.ts:53-74: only an answer changes the cookie, and it brings a
\* token that no other handler has seen.
LEMMA CookieKept == Spec => []Cookie
<1> USE PagesAssumption, TokensAssumption
<1>1. Init => Cookie
  BY DEF Init, Cookie, OpensFresh, Renewed, GoneWithTokens, Ids
<1>2. Typed /\ Cookie /\ [Next]_vars => Cookie'
  <2> SUFFICES ASSUME Typed, Cookie, [Next]_vars PROVE Cookie'
    OBVIOUS
  <2> USE DEF Typed, TypeOK, FormAt, Cookie, OpensFresh, Renewed, Replaces,
              GoneWithTokens, Goto, Handlers, dbVars, browserVars, serverVars
  <2>1. ASSUME NEW c \in Calls, Fetch(c) PROVE Cookie'
    BY <2>1 DEF Fetch
  <2>2. ASSUME NEW c \in Calls, OnUnauthorized(c) PROVE Cookie'
    <3>1. CASE phase' = phase /\ carried' = carried
      BY <2>2, <3>1 DEF OnUnauthorized
    <3>2. CASE SharedRefresh(c) = {} /\ phase' = [phase EXCEPT ![c] = "find"]
               /\ carried' = [carried EXCEPT ![c] = jar]
      <4>1. phase[c] = "idle"
        BY <3>2 DEF SharedRefresh
      <4>2. OpensFresh'
        BY <2>2, <3>2 DEF OnUnauthorized
      <4>3. Renewed'
        BY <2>2, <3>2, <4>1 DEF OnUnauthorized
      <4>4. QED
        BY <2>2, <4>2, <4>3 DEF OnUnauthorized
    <3>3. QED
      BY <2>2, <3>1, <3>2 DEF OnUnauthorized
  <2>3. ASSUME NEW c \in Calls, RefreshAnswered(c) PROVE Cookie'
    <3>1. OpensFresh'
      BY <2>3 DEF RefreshAnswered, SetAuthCookies, Finish
    <3>2. Renewed'
      BY <2>3 DEF RefreshAnswered, SetAuthCookies, Finish
    <3>3. QED
      BY <2>3, <3>1, <3>2 DEF RefreshAnswered
  <2>4. ASSUME NEW c \in Calls, Retry(c) PROVE Cookie'
    BY <2>4 DEF Retry
  <2>5. ASSUME NEW x \in Tabs, AskLogin(x) PROVE Cookie'
    BY <2>5 DEF AskLogin
  <2>6. ASSUME NEW x \in Tabs, AskLogout(x) PROVE Cookie'
    <3>1. OpensFresh'
      BY <2>6 DEF AskLogout
    <3>2. Renewed'
      BY <2>6 DEF AskLogout
    <3>3. QED
      BY <2>6, <3>1, <3>2 DEF AskLogout
  <2>7. ASSUME NEW x \in Tabs, FormAnswered(x) PROVE Cookie'
    <3>1. OpensFresh'
      BY <2>7 DEF FormAnswered, SetAuthCookies, ClearAuthCookies, Finish
    <3>2. Renewed'
      BY <2>7 DEF FormAnswered, SetAuthCookies, ClearAuthCookies, Finish
    <3>3. QED
      BY <2>7, <3>1, <3>2 DEF FormAnswered
  <2>8. ASSUME NEW c \in Calls, RotateFind(c) PROVE Cookie'
    BY <2>8 DEF RotateFind, beyondServer
  <2>9. ASSUME NEW c \in Calls, RotateRevoke(c) PROVE Cookie'
    <3>1. OpensFresh'
      BY <2>9 DEF RotateRevoke, beyondServer
    <3>2. Renewed'
      BY <2>9 DEF RotateRevoke, beyondServer, Ids
    <3>3. QED
      BY <2>9, <3>1, <3>2 DEF RotateRevoke, beyondServer
  <2>10. ASSUME NEW x \in Tabs, LoginFind(x) PROVE Cookie'
    BY <2>10 DEF LoginFind, beyondServer
  <2>11. ASSUME NEW x \in Tabs, LogoutRevoke(x) PROVE Cookie'
    <3>1. OpensFresh'
      BY <2>11 DEF LogoutRevoke, beyondServer
    <3>2. Renewed'
      BY <2>11 DEF LogoutRevoke, beyondServer, Ids
    <3>3. GoneWithTokens'
      BY <2>11 DEF LogoutRevoke, beyondServer
    <3>4. QED
      BY <3>1, <3>2, <3>3
  <2>12. ASSUME NEW h \in Handlers, CreateSession(h) PROVE Cookie'
    <3>1. made + 1 \in Ids /\ made \in Nat
      BY <2>12 DEF CreateSession, Ids
    <3>2. OpensFresh'
      BY <2>12, <3>1 DEF CreateSession, beyondServer
    <3>3. Renewed'
      BY <2>12, <3>1 DEF CreateSession, beyondServer
    <3>4. QED
      BY <2>12, <3>2, <3>3 DEF CreateSession, beyondServer
  <2>13. ASSUME NEW h \in Handlers, Log(h) PROVE Cookie'
    BY <2>13 DEF Log, beyondServer
  <2>14. ASSUME NEW h \in Handlers, AccountIsGone(h) PROVE Cookie'
    <3>1. OpensFresh'
      BY <2>14 DEF AccountIsGone, beyondServer
    <3>2. Renewed'
      BY <2>14 DEF AccountIsGone, beyondServer, Ids
    <3>3. GoneWithTokens'
      BY <2>14 DEF AccountIsGone, beyondServer
    <3>4. QED
      BY <3>1, <3>2, <3>3
  <2>15. ASSUME NEW h \in Handlers, Rejected(h) PROVE Cookie'
    BY <2>15 DEF Rejected
  <2>16. CASE AccessLapses
    BY <2>16 DEF AccessLapses, beyondWorld
  <2>17. ASSUME NEW t \in Ids, RefreshLapses(t) PROVE Cookie'
    <3>1. OpensFresh'
      BY <2>17 DEF RefreshLapses, beyondWorld
    <3>2. Renewed'
      BY <2>17 DEF RefreshLapses, beyondWorld, Ids
    <3>3. GoneWithTokens'
      BY <2>17 DEF RefreshLapses, beyondWorld
    <3>4. QED
      BY <3>1, <3>2, <3>3
  <2>18. ASSUME NEW s \in {"ACTIVE", "SUSPENDED", "GONE"}, SetStatus(s)
         PROVE  Cookie'
    <3>1. OpensFresh'
      BY <2>18 DEF SetStatus, beyondWorld
    <3>2. Renewed'
      BY <2>18 DEF SetStatus, beyondWorld, Ids
    <3>3. GoneWithTokens'
      BY <2>18 DEF SetStatus, beyondWorld
    <3>4. QED
      BY <3>1, <3>2, <3>3
  <2>19. CASE UNCHANGED vars
    BY <2>19 DEF vars
  <2>20. QED
    BY <2>1, <2>2, <2>3, <2>4, <2>5, <2>6, <2>7, <2>8, <2>9, <2>10, <2>11,
       <2>12, <2>13, <2>14, <2>15, <2>16, <2>17, <2>18, <2>19
    DEF Next, Page, Form, Rotation, Session
<1>3. QED
  BY <1>1, <1>2, SessionsTypeCorrect, PTL DEF Spec

\* token.service.ts:86-90, auth.service.ts:53-74: with any number of pages and
\* answers in any order, none of them lost, a browser at rest holds no token
\* that was used or revoked.
THEOREM JarUsable == Spec => []JarIsUsable
<1>1. Cookie => JarIsUsable
  BY DEF Cookie, Renewed, Replaces, JarIsUsable
<1>2. QED
  BY <1>1, CookieKept, PTL

-----------------------------------------------------------------------------
(* A browser that nothing disturbs                                         *)

\* No two refreshes are under way.
OneRefresh ==
  \A c, d \in Calls : phase[c] # "idle" /\ phase[d] # "idle" => c = d

\* Until the refresh c revokes its token, the token is good; when it creates
\* the next one, no other has been made in its place; and it is refused only if
\* it came without a token.
RefreshKnows(c) ==
  /\ phase[c] \in {"find", "revoke"} /\ carried[c] # 0
       => token[carried[c]] = "live"
  /\ phase[c] = "create"
       => \A t \in Ids : parent[t] # 0 => parent[t] # carried[c]
  /\ phase[c] = "no" => carried[c] = 0

\* The token of an answer under way is good.
OpensLive ==
  \A h \in Handlers :
    phase[h] \in {"log", "ok"} /\ issued[h] # 0 => token[issued[h]] = "live"

\* So is the token of the cookie, unless a refresh is replacing it.
JarLives ==
  jar # 0 => \/ token[jar] = "live"
             \/ \E c \in Calls :
                  phase[c] \in {"create", "log", "ok"} /\ carried[c] = jar

\* No token was ever replaced twice.
Undivided ==
  \A t, u \in Ids : parent[t] = parent[u] /\ parent[t] # 0 => t = u

Undisturbed ==
  /\ status = "ACTIVE"
  /\ OneRefresh
  /\ \A c \in Calls : RefreshKnows(c)
  /\ OpensLive
  /\ JarLives
  /\ Undivided

CalmInv == calm => Undisturbed

\* A step that leaves the tokens, the cookie and the handlers alone.
LEMMA NothingMoves ==
  ASSUME CalmInv, UNCHANGED <<status, token, parent, jar, phase, carried, issued>>,
         calm' => calm
  PROVE  CalmInv'
BY DEF CalmInv, Undisturbed, OneRefresh, RefreshKnows, OpensLive, JarLives, Undivided

\* frontend/lib/api.ts:158-167: a refresh that starts alone comes with the token
\* of the cookie, which is good.
LEMMA RefreshStarts ==
  ASSUME Typed, CalmInv, NEW c \in Calls, OnUnauthorized(c)
  PROVE  CalmInv'
<1> USE PagesAssumption
<1>1. CASE UNCHANGED <<phase, carried, calm>>
  BY <1>1, NothingMoves DEF OnUnauthorized, dbVars
<1>2. CASE /\ SharedRefresh(c) = {} /\ Goto(c, "find")
           /\ carried' = [carried EXCEPT ![c] = jar]
           /\ calm' = (calm /\ \A d \in Calls :
                                 TabOf[d] # TabOf[c] => phase[d] = "idle")
  <2> SUFFICES ASSUME calm' PROVE Undisturbed'
    BY DEF CalmInv
  <2>1. calm /\ \A d \in Calls : TabOf[d] # TabOf[c] => phase[d] = "idle"
    BY <1>2, Zenon
  <2>2. Undisturbed
    BY <2>1 DEF CalmInv
  <2>3. \A d \in Calls : phase[d] = "idle"
    BY <1>2, <2>1 DEF SharedRefresh
  <2>4. /\ UNCHANGED <<status, token, parent, jar, issued>>
        /\ phase' = [phase EXCEPT ![c] = "find"]
    BY <1>2 DEF OnUnauthorized, dbVars, Goto
  <2>5. OneRefresh'
    BY <2>3, <2>4 DEF OneRefresh, Typed, TypeOK, Handlers
  <2>6. jar # 0 => token[jar] = "live"
    BY <2>2, <2>3 DEF Undisturbed, JarLives
  <2>7. \A d \in Calls : RefreshKnows(d)'
    BY <1>2, <2>3, <2>4, <2>6 DEF RefreshKnows, Typed, TypeOK, Handlers
  <2>8. OpensLive'
    BY <2>2, <2>4 DEF Undisturbed, OpensLive, Typed, TypeOK, Handlers
  <2>9. JarLives' /\ Undivided'
    BY <2>2, <2>4, <2>6 DEF Undisturbed, JarLives, Undivided
  <2>10. QED
    BY <2>2, <2>4, <2>5, <2>7, <2>8, <2>9 DEF Undisturbed
<1>3. QED
  BY <1>1, <1>2 DEF OnUnauthorized

\* auth.service.ts:53-74: the answer to a handler puts a good token into the
\* cookie, or none, or leaves it alone.
LEMMA AnswerKeepsCalm ==
  ASSUME Typed, CalmInv, NEW h \in Handlers, phase[h] \in {"ok", "no"},
         UNCHANGED <<status, token, parent, calm>>,
         \/ phase[h] = "ok" /\ jar' = issued[h]
         \/ jar' = 0
         \/ jar' = jar /\ (h \in Calls => phase[h] = "no"),
         Finish(h)
  PROVE  CalmInv'
<1> USE PagesAssumption DEF Typed, TypeOK
<1> SUFFICES ASSUME calm' PROVE Undisturbed'
  BY DEF CalmInv
<1>1. Undisturbed
  BY DEF CalmInv
<1>2. /\ phase' = [phase EXCEPT ![h] = "idle"]
      /\ carried' = [carried EXCEPT ![h] = 0]
      /\ issued' = [issued EXCEPT ![h] = 0]
  BY DEF Finish, Goto
<1>3. \A g \in Handlers : \/ phase'[g] = "idle"
                          \/ /\ phase'[g] = phase[g] /\ carried'[g] = carried[g]
                             /\ issued'[g] = issued[g]
  BY <1>2
<1>4. OneRefresh' /\ OpensLive' /\ Undivided'
  BY <1>1, <1>3 DEF Undisturbed, OneRefresh, OpensLive, Undivided, Handlers
<1>5. \A d \in Calls : RefreshKnows(d)'
  BY <1>1, <1>3 DEF Undisturbed, RefreshKnows, Handlers
<1>6. JarLives'
  <2>1. CASE jar' = issued[h] /\ phase[h] = "ok"
    BY <1>1, <2>1 DEF Undisturbed, OpensLive, JarLives
  <2>2. CASE jar' = 0
    BY <2>2 DEF JarLives
  <2>3. CASE jar' = jar /\ (h \in Calls => phase[h] = "no")
    <3>1. ASSUME NEW c \in Calls, phase[c] \in {"create", "log", "ok"}
          PROVE  phase'[c] = phase[c] /\ carried'[c] = carried[c]
      BY <1>2, <2>3, <3>1 DEF Handlers
    <3>2. QED
      BY <1>1, <2>3, <3>1 DEF Undisturbed, JarLives
  <2>4. QED
    BY <2>1, <2>2, <2>3
<1>7. QED
  BY <1>1, <1>4, <1>5, <1>6 DEF Undisturbed

\* token.service.ts:77-92: the step of a handler in the server that touches no
\* token, other than to refuse an account that is gone.
LEMMA StepKeepsCalm ==
  ASSUME Typed, CalmInv, NEW h \in Handlers,
         UNCHANGED <<status, token, parent, jar, carried, issued, calm>>,
         NEW p \in Phases, Goto(h, p),
         h \in Calls =>
           /\ phase[h] # "idle" /\ p \notin {"find", "create"}
           /\ p = "revoke" => phase[h] = "find"
           /\ p = "no" /\ calm => carried[h] = 0
           /\ phase[h] \in {"create", "log", "ok"} => p \in {"log", "ok"},
         p \in {"log", "ok"} => phase[h] \in {"log", "ok"} \/ issued[h] = 0
  PROVE  CalmInv'
<1> USE PagesAssumption DEF Typed, TypeOK
<1> SUFFICES ASSUME calm' PROVE Undisturbed'
  BY DEF CalmInv
<1>1. Undisturbed /\ phase' = [phase EXCEPT ![h] = p]
  BY DEF CalmInv, Goto
<1>2. OneRefresh'
  BY <1>1 DEF Undisturbed, OneRefresh, Handlers
<1>3. ASSUME NEW c \in Calls PROVE RefreshKnows(c)'
  <2>1. RefreshKnows(c)
    BY <1>1 DEF Undisturbed
  <2>2. CASE c = h
    BY <1>1, <2>1, <2>2 DEF RefreshKnows, Handlers
  <2>3. CASE c # h
    BY <1>1, <2>1, <2>3 DEF RefreshKnows, Handlers
  <2>4. QED
    BY <2>2, <2>3
<1>4. OpensLive'
  BY <1>1 DEF Undisturbed, OpensLive
<1>5. JarLives'
  <2>1. ASSUME NEW c \in Calls, phase[c] \in {"create", "log", "ok"}
        PROVE  phase'[c] \in {"create", "log", "ok"}
    BY <1>1, <2>1 DEF Handlers
  <2>2. QED
    BY <1>1, <2>1 DEF Undisturbed, JarLives
<1>6. QED
  BY <1>1, <1>2, <1>3, <1>4, <1>5 DEF Undisturbed, Undivided

\* token.service.ts:86-90: the only refresh under way revokes its token, which
\* nobody has replaced.
LEMMA RevokeKeepsCalm ==
  ASSUME Typed, Lineage, Cookie, CalmInv, NEW c \in Calls, RotateRevoke(c)
  PROVE  CalmInv'
<1> USE PagesAssumption, TokensAssumption DEF Typed, TypeOK
<1> SUFFICES ASSUME calm' PROVE Undisturbed'
  BY DEF CalmInv
<1>1. /\ phase[c] = "revoke" /\ calm
      /\ token' = [token EXCEPT ![carried[c]] = "revoked"]
      /\ phase' = [phase EXCEPT ![c] = "create"]
      /\ UNCHANGED <<status, parent, jar, carried, issued>>
  BY DEF RotateRevoke, Goto, beyondServer, browserVars
<1>2. Undisturbed
  BY <1>1 DEF CalmInv
<1>3. \A d \in Calls : d # c => phase[d] = "idle" /\ phase'[d] = "idle"
  BY <1>1, <1>2 DEF Undisturbed, OneRefresh, Handlers
<1>4. OneRefresh'
  BY <1>3 DEF OneRefresh
<1>5. ASSUME NEW d \in Calls PROVE RefreshKnows(d)'
  <2>1. CASE d # c
    BY <1>3, <2>1 DEF RefreshKnows
  <2>2. CASE d = c
    <3>1. \A t \in Ids : parent[t] # 0 => parent[t] # carried[c]
      <4>1. carried[c] # 0 => token[carried[c]] = "live" /\ carried[c] \in Ids
        BY <1>1, <1>2 DEF Undisturbed, RefreshKnows, Handlers, Ids
      <4>2. QED
        BY <4>1 DEF Lineage, ReplacedAreDead
    <3>2. phase'[c] = "create"
      BY <1>1 DEF Handlers
    <3>3. QED
      BY <1>1, <2>2, <3>1, <3>2 DEF RefreshKnows
  <2>3. QED
    BY <2>1, <2>2
<1>6. OpensLive'
  <2>1. ASSUME NEW h \in Handlers, phase'[h] \in {"log", "ok"}, issued[h] # 0
        PROVE  token'[issued[h]] = "live"
    <3>1. phase[h] \in {"log", "ok"}
      BY <1>1, <2>1
    <3>2. token[issued[h]] = "live" /\ issued[h] \in Ids /\ issued[h] # carried[c]
      BY <1>2, <2>1, <3>1 DEF Undisturbed, OpensLive, Cookie, OpensFresh, Handlers
    <3>3. QED
      BY <1>1, <3>2
  <2>2. QED
    BY <1>1, <2>1 DEF OpensLive
<1>7. JarLives'
  <2>1. CASE jar = carried[c]
    BY <1>1, <2>1 DEF JarLives, Handlers
  <2>2. CASE jar # carried[c] /\ jar # 0
    <3>1. token[jar] = "live"
      BY <1>1, <1>2, <1>3, <2>2 DEF Undisturbed, JarLives
    <3>2. jar \in Ids
      BY <2>2 DEF Ids
    <3>3. QED
      BY <1>1, <2>2, <3>1, <3>2 DEF JarLives
  <2>3. QED
    BY <1>1, <2>1, <2>2 DEF JarLives
<1>8. QED
  BY <1>1, <1>2, <1>4, <1>5, <1>6, <1>7 DEF Undisturbed, Undivided

\* token.service.ts:38-92: the new token takes the place of one that no other
\* token has taken the place of, or opens a session of its own.
LEMMA CreateKeepsCalm ==
  ASSUME Typed, Lineage, Cookie, CalmInv, NEW h \in Handlers, CreateSession(h)
  PROVE  CalmInv'
<1> USE PagesAssumption, TokensAssumption DEF Typed, TypeOK
<1> DEFINE new == made + 1
<1> SUFFICES ASSUME calm' PROVE Undisturbed'
  BY DEF CalmInv
<1>1. /\ phase[h] = "create" /\ calm /\ new \in Ids /\ made \in Nat
      /\ token' = [token EXCEPT ![new] = "live"]
      /\ parent' = [parent EXCEPT ![new] = carried[h]]
      /\ issued' = [issued EXCEPT ![h] = new]
      /\ phase' = [phase EXCEPT ![h] = "log"]
      /\ UNCHANGED <<status, jar, carried>>
  BY DEF CreateSession, Goto, beyondServer, browserVars, Ids
<1>2. Undisturbed
  BY <1>1 DEF CalmInv
<1>3. /\ \A g \in Handlers : carried[g] # new
      /\ jar # new /\ parent[new] = 0
      /\ \A t \in Ids : token[t] = "live" => t # new /\ token'[t] = "live"
  BY <1>1 DEF Lineage, MadeInOrder
<1> HIDE DEF new
<1>4. OneRefresh'
  BY <1>1, <1>2 DEF Undisturbed, OneRefresh, Handlers
<1>5. \A t \in Ids : t # new => parent'[t] = parent[t]
  BY <1>1
<1>6. h \in Tabs => carried[h] = 0
  BY <1>1 DEF FormAt
<1>7. ASSUME NEW c \in Calls PROVE RefreshKnows(c)'
  <2>1. CASE c = h
    BY <1>1, <2>1 DEF RefreshKnows, Handlers
  <2>2. CASE c # h
    <3>1. phase'[c] = phase[c] /\ carried'[c] = carried[c] /\ RefreshKnows(c)
      BY <1>1, <1>2, <2>2 DEF Undisturbed, Handlers
    <3>2. CASE h \in Calls
      <4>1. phase[c] = "idle"
        BY <1>1, <1>2, <2>2, <3>2 DEF Undisturbed, OneRefresh
      <4>2. QED
        BY <3>1, <4>1 DEF RefreshKnows
    <3>3. CASE h \in Tabs
      <4>1. parent'[new] = 0
        BY <1>1, <1>6, <3>3
      <4>2. carried[c] # 0 => carried[c] \in Ids
        BY DEF Handlers, Ids
      <4>3. QED
        BY <1>3, <1>5, <3>1, <4>1, <4>2 DEF RefreshKnows
    <3>4. QED
      BY <3>2, <3>3 DEF Handlers
  <2>3. QED
    BY <2>1, <2>2
<1>8. OpensLive'
  <2>1. ASSUME NEW g \in Handlers, phase'[g] \in {"log", "ok"}, issued'[g] # 0
        PROVE  token'[issued'[g]] = "live"
    <3>1. CASE g = h
      BY <1>1, <3>1
    <3>2. CASE g # h
      <4>1. token[issued[g]] = "live" /\ issued[g] \in Ids /\ issued'[g] = issued[g]
        BY <1>1, <1>2, <2>1, <3>2 DEF Undisturbed, OpensLive, Cookie, OpensFresh
      <4>2. QED
        BY <1>3, <4>1
    <3>3. QED
      BY <3>1, <3>2
  <2>2. QED
    BY <2>1 DEF OpensLive
<1>9. JarLives'
  <2>1. ASSUME NEW c \in Calls, phase[c] \in {"create", "log", "ok"}
        PROVE  phase'[c] \in {"create", "log", "ok"}
    BY <1>1, <2>1 DEF Handlers
  <2>2. jar # 0 => jar \in Ids
    BY DEF Ids
  <2>3. QED
    BY <1>1, <1>2, <1>3, <2>1, <2>2 DEF Undisturbed, JarLives
<1>10. Undivided'
  <2>1. ASSUME NEW t \in Ids, t # new, parent[t] # 0
        PROVE  parent[t] # carried[h]
    <3>1. CASE h \in Tabs
      BY <1>6, <2>1, <3>1
    <3>2. CASE h \in Calls
      BY <1>1, <1>2, <2>1, <3>2 DEF Undisturbed, RefreshKnows
    <3>3. QED
      BY <3>1, <3>2 DEF Handlers
  <2>2. parent'[new] = carried[h]
    BY <1>1
  <2>3. QED
    BY <1>2, <1>5, <2>1, <2>2 DEF Undisturbed, Undivided
<1>11. QED
  BY <1>1, <1>2, <1>4, <1>7, <1>8, <1>9, <1>10 DEF Undisturbed

\* As long as no refresh meets another one, no logout, no failure, no expiry and
\* no administrator, the cookie holds a good token or is about to get one.
THEOREM CalmInvariance == Spec => []CalmInv
<1> USE PagesAssumption, TokensAssumption
<1>1. Init => CalmInv
  BY DEF Init, CalmInv, Undisturbed, OneRefresh, RefreshKnows, OpensLive, JarLives,
         Undivided, Handlers
<1>2. Typed /\ Lineage /\ Cookie /\ CalmInv /\ [Next]_vars => CalmInv'
  <2> SUFFICES ASSUME Typed, Lineage, Cookie, CalmInv, [Next]_vars PROVE CalmInv'
    OBVIOUS
  <2> USE DEF dbVars, browserVars, serverVars, beyondServer, beyondWorld
  <2>1. ASSUME NEW c \in Calls, Fetch(c) \/ Retry(c) PROVE CalmInv'
    BY <2>1, NothingMoves DEF Fetch, Retry
  <2>2. ASSUME NEW c \in Calls, OnUnauthorized(c) PROVE CalmInv'
    BY <2>2, RefreshStarts
  <2>3. ASSUME NEW c \in Calls, RefreshAnswered(c) PROVE CalmInv'
    <3>1. c \in Handlers
      BY DEF Handlers
    <3>2. CASE phase[c] = "ok"
      BY <2>3, <3>1, <3>2, AnswerKeepsCalm DEF RefreshAnswered, SetAuthCookies
    <3>3. CASE phase[c] = "no"
      BY <2>3, <3>1, <3>3, AnswerKeepsCalm DEF RefreshAnswered
    <3>4. QED
      BY <2>3, <3>2, <3>3 DEF RefreshAnswered
  <2>4. ASSUME NEW x \in Tabs, AskLogin(x) PROVE CalmInv'
    <3>1. x \in Handlers /\ x \notin Calls /\ "find" \in Phases
      BY DEF Handlers, Phases
    <3>2. QED
      BY <2>4, <3>1, StepKeepsCalm DEF AskLogin
  <2>5. ASSUME NEW x \in Tabs, AskLogout(x) PROVE CalmInv'
    <3>1. x \notin Calls /\ \A c \in Calls : phase'[c] = phase[c] /\ carried'[c] = carried[c]
      BY <2>5 DEF AskLogout, Goto, Typed, TypeOK, Handlers
    <3>2. \A h \in Handlers : phase'[h] \in {"log", "ok"} => phase[h] = phase'[h]
      BY <2>5 DEF AskLogout, Goto, Typed, TypeOK, Handlers
    <3>3. QED
      BY <2>5, <3>1, <3>2
      DEF AskLogout, CalmInv, Undisturbed, OneRefresh, RefreshKnows, OpensLive,
          JarLives, Undivided
  <2>6. ASSUME NEW x \in Tabs, FormAnswered(x) PROVE CalmInv'
    <3>1. x \in Handlers /\ x \notin Calls
      BY DEF Handlers
    <3>2. CASE phase[x] = "no"
      BY <2>6, <3>1, <3>2, AnswerKeepsCalm DEF FormAnswered
    <3>3. CASE phase[x] = "ok" /\ op[x] = "login"
      BY <2>6, <3>1, <3>3, AnswerKeepsCalm DEF FormAnswered, SetAuthCookies
    <3>4. CASE phase[x] = "ok" /\ op[x] # "login"
      BY <2>6, <3>1, <3>4, AnswerKeepsCalm DEF FormAnswered, ClearAuthCookies
    <3>5. QED
      BY <2>6, <3>2, <3>3, <3>4 DEF FormAnswered
  <2>7. ASSUME NEW c \in Calls, RotateFind(c) PROVE CalmInv'
    <3> DEFINE p == IF carried[c] # 0 /\ Valid(carried[c]) THEN "revoke" ELSE "no"
    <3>1. c \in Handlers /\ p \in Phases /\ Goto(c, p) /\ phase[c] = "find"
      BY <2>7 DEF RotateFind, Handlers, Phases
    <3>2. p = "no" /\ calm => carried[c] = 0
      BY <3>1 DEF CalmInv, Undisturbed, RefreshKnows, Valid
    <3>3. p \in {"revoke", "no"}
      OBVIOUS
    <3> HIDE DEF p
    <3>4. QED
      BY <2>7, <3>1, <3>2, <3>3, StepKeepsCalm DEF RotateFind
  <2>8. ASSUME NEW c \in Calls, RotateRevoke(c) PROVE CalmInv'
    BY <2>8, RevokeKeepsCalm
  <2>9. ASSUME NEW x \in Tabs, LoginFind(x) PROVE CalmInv'
    <3>1. /\ x \in Handlers /\ x \notin Calls
          /\ \A p \in {"create", "no"} : p \in Phases
      BY DEF Handlers, Phases
    <3>2. QED
      BY <2>9, <3>1, StepKeepsCalm DEF LoginFind
  <2>10. ASSUME NEW h \in Handlers, CreateSession(h) PROVE CalmInv'
    BY <2>10, CreateKeepsCalm
  <2>11. ASSUME NEW h \in Handlers, Log(h) PROVE CalmInv'
    <3>1. "ok" \in Phases
      BY DEF Phases
    <3>2. QED
      BY <2>11, <3>1, StepKeepsCalm DEF Log
  <2>12. ASSUME NEW h \in Handlers, AccountIsGone(h) PROVE CalmInv'
    BY <2>12 DEF AccountIsGone, CalmInv, Undisturbed
  <2>13. CASE calm' = FALSE
    BY <2>13 DEF CalmInv
  <2>14. CASE AccessLapses
    BY <2>14, NothingMoves DEF AccessLapses
  <2>15. CASE UNCHANGED vars
    BY <2>15, NothingMoves DEF vars
  <2>16. QED
    BY <2>1, <2>2, <2>3, <2>4, <2>5, <2>6, <2>7, <2>8, <2>9, <2>10, <2>11, <2>12,
       <2>13, <2>14, <2>15
    DEF Next, Page, Form, Rotation, Session, LogoutRevoke, Rejected, RefreshLapses,
        SetStatus
<1>3. QED
  BY <1>1, <1>2, SessionsTypeCorrect, LineageKept, CookieKept, PTL DEF Spec

\* frontend/lib/api.ts:158-167: a page is told SESSION_EXPIRED only with a cause,
\* for any number of pages, of calls that share a refresh, and of sign-ins.
THEOREM ExpiryHasCause == Spec => ExpiredForCause
<1>1. CalmInv /\ [Next]_vars =>
        [\A c \in Calls :
           RefreshAnswered(c) /\ phase[c] = "no" => ~calm \/ carried[c] = 0]_vars
  BY DEF CalmInv, Undisturbed, RefreshKnows
<1>2. QED
  BY <1>1, CalmInvariance, PTL DEF Spec, ExpiredForCause

\* auth.service.ts:216-220: in a session that nothing disturbed the token of the
\* cookie is the only good one, so the logout that revokes it ends the session.
THEOREM LogoutIsFinal == Spec => LogoutEnds
<1>1. Typed /\ Lineage /\ CalmInv /\ OneTokenPerLogin /\ [Next]_vars =>
        [\A x \in Tabs :
           /\ LogoutRevoke(x) /\ calm
           /\ carried[x] = jar /\ jar # 0
           /\ \A c \in Calls : phase[c] = "idle"
           => \A t \in Ids : token'[t] = "live" => login[t] # login[jar]]_vars
  <2> SUFFICES ASSUME Typed, CalmInv, OneTokenPerLogin, NEW x \in Tabs,
                      LogoutRevoke(x), calm, carried[x] = jar, jar # 0,
                      \A c \in Calls : phase[c] = "idle",
                      NEW t \in Ids, token'[t] = "live", login[t] = login[jar]
               PROVE  FALSE
    OBVIOUS
  <2>1. Undisturbed /\ jar \in Ids
    BY TokensAssumption DEF CalmInv, Typed, TypeOK, Ids
  <2>2. token[jar] = "live"
    BY <2>1 DEF Undisturbed, JarLives
  <2>3. ~Forked(login[t])
    BY <2>1 DEF Undisturbed, Undivided, Forked
  <2>4. token[t] = "live" /\ t # jar
    BY <2>2 DEF LogoutRevoke
  <2>5. QED
    BY <2>1, <2>2, <2>3, <2>4 DEF OneTokenPerLogin
<1>2. QED
  BY <1>1, SessionsTypeCorrect, LineageKept, CalmInvariance, OneTokenEach, PTL
     DEF Spec, LogoutEnds
=============================================================================
