------------------------------ MODULE Sessions ------------------------------
(***************************************************************************)
(* The sessions of one account: its refresh tokens in the database, the    *)
(* handlers that create, rotate and revoke them, and a browser whose tabs  *)
(* share one cookie jar.  A page that is told 401 refreshes the session    *)
(* and tries again; the calls of one page share one refresh (lib/api.ts).  *)
(* Each await of a handler is an action.                                   *)
(***************************************************************************)
EXTENDS Integers, FiniteSets

CONSTANTS
  Tabs,        \* pages open in the browser; each may submit a form
  Calls,       \* API calls that can be under way at the same time
  TabOf,       \* the page of each call
  MaxTokens,   \* bound: refresh tokens ever created
  MaxFaults    \* bound: calls of a handler that fail, answers that are lost

ASSUME PagesAssumption ==
  /\ TabOf \in [Calls -> Tabs]
  /\ Calls \intersect Tabs = {}

ASSUME TokensAssumption == MaxTokens \in Nat /\ MaxFaults \in Nat

VARIABLES
  status,           \* of the account
  token,            \* the RefreshToken rows, by the order of creation
  made,             \* how many there have been
  login, parent,    \* history: the first token of the session that a token
                    \* belongs to, and the one it replaced
  jar,              \* the ls_refresh cookie: a token, or 0
  access,           \* is there an ls_access cookie that has not expired?
  call, waits,      \* the calls, and the refresh each is waiting for
  phase, op,        \* the handlers in the server; those of the pages' forms
  carried, issued,  \*   log in or out.  The token each came with, the new one
  calm,             \* history: nothing has disturbed the browser's session
  faults

dbVars      == <<status, token, made, login, parent>>
browserVars == <<jar, access, call, waits>>
serverVars  == <<phase, op, carried, issued>>
vars == <<dbVars, browserVars, serverVars, calm, faults>>

-----------------------------------------------------------------------------
Ids == 1..MaxTokens

\* The refresh that a call has started goes by the name of the call, the
\* form of a page by the name of the page.
Handlers == Calls \union Tabs

Phases == {"idle", "find", "revoke", "create", "log", "ok", "no"}

TypeOK ==
  /\ status \in {"ACTIVE", "SUSPENDED", "GONE"}
  /\ token \in [Ids -> {"none", "live", "lapsed", "revoked"}]
  /\ made \in 0..MaxTokens
  /\ {login, parent} \subseteq [Ids -> 0..made]
  /\ jar \in 0..made
  /\ access \in BOOLEAN
  /\ call \in [Calls -> {"idle", "refused", "waiting", "retry"}]
  /\ waits \in [Calls -> Calls]
  /\ phase \in [Handlers -> Phases]
  /\ op \in [Tabs -> {"login", "logout"}]
  /\ {carried, issued} \subseteq [Handlers -> 0..made]
  /\ \A h \in Handlers :
       phase[h] \in {"log", "ok"} /\ (h \in Calls \/ op[h] = "login") => issued[h] # 0
  /\ \A t \in Ids : token[t] # "none" => t <= made
  /\ calm \in BOOLEAN
  /\ faults \in 0..MaxFaults

\* A browser that has no session yet.
Init ==
  /\ status = "ACTIVE"
  /\ token = [t \in Ids |-> "none"] /\ made = 0
  /\ login = [t \in Ids |-> 0] /\ parent = [t \in Ids |-> 0]
  /\ jar = 0 /\ access = FALSE
  /\ call = [c \in Calls |-> "idle"] /\ waits = [c \in Calls |-> c]
  /\ phase = [h \in Handlers |-> "idle"] /\ op = [x \in Tabs |-> "login"]
  /\ carried = [h \in Handlers |-> 0] /\ issued = [h \in Handlers |-> 0]
  /\ calm = TRUE /\ faults = 0

-----------------------------------------------------------------------------
(* The pages                                                               *)

\* JwtAuthGuard lets a request of the browser pass.
Authenticated == access /\ status = "ACTIVE"

\* Every call and form under way may still create a token.
Room ==
  made + Cardinality({c \in Calls : call[c] # "idle"})
       + Cardinality({x \in Tabs : phase[x] # "idle"}) < MaxTokens

Goto(h, p) == phase' = [phase EXCEPT ![h] = p]

\* A page calls the API; what comes back is what it asked for, or 401.
Fetch(c) ==
  /\ call[c] = "idle" /\ Room
  /\ call' = [call EXCEPT ![c] = IF Authenticated THEN "idle" ELSE "refused"]
  /\ UNCHANGED <<dbVars, jar, access, waits, serverVars, calm, faults>>

\* Seeded defect: every call refreshes for itself.
SharesNothing(c) == {}

\* refreshPromise of the page: a refresh that has not been answered.
SharedRefresh(c) ==
  {d \in Calls : TabOf[d] = TabOf[c] /\ phase[d] # "idle"}

\* The 401 arrives: the call joins the refresh of its page, or starts one.
OnUnauthorized(c) ==
  /\ call[c] = "refused"
  /\ call' = [call EXCEPT ![c] = "waiting"]
  /\ \/ \E d \in SharedRefresh(c) :
          /\ waits' = [waits EXCEPT ![c] = d]
          /\ UNCHANGED <<phase, carried, calm>>
     \/ /\ SharedRefresh(c) = {}
        /\ waits' = [waits EXCEPT ![c] = c]
        /\ Goto(c, "find")
        /\ carried' = [carried EXCEPT ![c] = jar]
        /\ calm' = (calm /\ \A d \in Calls :
                              TabOf[d] # TabOf[c] => phase[d] = "idle")
  /\ UNCHANGED <<dbVars, jar, access, op, issued, faults>>

\* Seeded defect: a refresh that was refused leaves its calls hanging.
HangsOnRefusal(c) == IF phase[c] = "ok" THEN "retry" ELSE "waiting"

\* The calls are tried again, or told that the session has expired.
Outcome(c) == IF phase[c] = "ok" THEN "retry" ELSE "idle"

\* Seeded defect: a refresh cookie that is there is kept.
SetIfAbsent(h) == jar' = (IF jar = 0 THEN issued[h] ELSE jar) /\ access' = TRUE

\* setAuthCookies
SetAuthCookies(h) == jar' = issued[h] /\ access' = TRUE

ClearAuthCookies == jar' = 0 /\ access' = FALSE

Finish(h) ==
  /\ Goto(h, "idle")
  /\ carried' = [carried EXCEPT ![h] = 0]
  /\ issued' = [issued EXCEPT ![h] = 0]

Waiting(d, c) == call[d] = "waiting" /\ waits[d] = c

\* The answer to a refresh reaches the page and all calls that wait for it.
RefreshAnswered(c) ==
  /\ phase[c] \in {"ok", "no"}
  /\ IF phase[c] = "ok" THEN SetAuthCookies(c) ELSE UNCHANGED <<jar, access>>
  /\ call' = [d \in Calls |-> IF Waiting(d, c) THEN Outcome(c) ELSE call[d]]
  /\ waits' = [d \in Calls |-> IF Waiting(d, c) THEN d ELSE waits[d]]
  /\ Finish(c)
  /\ UNCHANGED <<dbVars, op, calm, faults>>

\* A call is tried again once, with canRefresh = false: what comes back, be
\* it another 401, is final.
Retry(c) ==
  /\ call[c] = "retry"
  /\ call' = [call EXCEPT ![c] = "idle"]
  /\ UNCHANGED <<dbVars, jar, access, waits, serverVars, calm, faults>>

AskLogin(x) ==
  /\ phase[x] = "idle" /\ Room
  /\ Goto(x, "find")
  /\ op' = [op EXCEPT ![x] = "login"]
  /\ UNCHANGED <<dbVars, browserVars, carried, issued, calm, faults>>

\* The guard refuses a logout whose access token has expired, and request
\* does not refresh for it.
AskLogout(x) ==
  /\ phase[x] = "idle"
  /\ Goto(x, IF Authenticated THEN "revoke" ELSE "no")
  /\ op' = [op EXCEPT ![x] = "logout"]
  /\ carried' = [carried EXCEPT ![x] = jar]
  /\ UNCHANGED <<dbVars, browserVars, issued, calm, faults>>

FormAnswered(x) ==
  /\ phase[x] \in {"ok", "no"}
  /\ IF phase[x] = "no" THEN UNCHANGED <<jar, access>>
     ELSE IF op[x] = "login" THEN SetAuthCookies(x) ELSE ClearAuthCookies
  /\ Finish(x)
  /\ op' = [op EXCEPT ![x] = "login"]
  /\ UNCHANGED <<dbVars, call, waits, calm, faults>>

-----------------------------------------------------------------------------
(* The handlers                                                            *)

beyondServer == <<status, browserVars, op, carried, faults>>

Valid(t) == t # 0 /\ token[t] = "live" /\ status = "ACTIVE"

\* rotateSession looks the token up.
RotateFind(c) ==
  /\ phase[c] = "find"
  /\ Goto(c, IF carried[c] # 0 /\ Valid(carried[c]) THEN "revoke" ELSE "no")
  /\ UNCHANGED <<token, made, login, parent, issued, calm, beyondServer>>

\* Seeded defect: the token that was used stays good.
RotateKeeps(c) ==
  /\ phase[c] = "revoke" /\ status # "GONE"
  /\ Goto(c, "create")
  /\ UNCHANGED <<token, made, login, parent, issued, calm, beyondServer>>

\* It revokes the row by its id, whatever has become of it.
RotateRevoke(c) ==
  /\ phase[c] = "revoke" /\ status # "GONE"
  /\ token' = [token EXCEPT ![carried[c]] = "revoked"]
  /\ Goto(c, "create")
  /\ UNCHANGED <<made, login, parent, issued, calm, beyondServer>>

\* login finds the account; that the password and the code are right is
\* taken for granted.
LoginFind(x) ==
  /\ phase[x] = "find"
  /\ Goto(x, IF status = "ACTIVE" THEN "create" ELSE "no")
  /\ UNCHANGED <<token, made, login, parent, issued, calm, beyondServer>>

\* createSession, for the account as it was read before.
CreateSession(h) ==
  LET new == made + 1 IN
  /\ phase[h] = "create" /\ status # "GONE"
  /\ made < MaxTokens
  /\ made' = new
  /\ token' = [token EXCEPT ![new] = "live"]
  /\ parent' = [parent EXCEPT ![new] = carried[h]]
  /\ login' = [login EXCEPT ![new] =
                 IF carried[h] = 0 THEN new ELSE login[carried[h]]]
  /\ issued' = [issued EXCEPT ![h] = new]
  /\ Goto(h, "log")
  /\ UNCHANGED <<calm, beyondServer>>

\* Seeded defect: a logout only clears the cookies.
LogoutKeeps(x) ==
  /\ phase[x] = "revoke"
  /\ calm' = FALSE
  /\ Goto(x, "log")
  /\ UNCHANGED <<token, made, login, parent, issued, beyondServer>>

\* revokeSession: updateMany touches no row that is revoked or gone.
LogoutRevoke(x) ==
  /\ phase[x] = "revoke"
  /\ token' = [t \in Ids |->
       IF t = carried[x] /\ token[t] # "none" THEN "revoked" ELSE token[t]]
  /\ calm' = FALSE
  /\ Goto(x, "log")
  /\ UNCHANGED <<made, login, parent, issued, beyondServer>>

\* The audit entry of the refresh, the login or the logout.
Log(h) ==
  /\ phase[h] = "log" /\ status # "GONE"
  /\ Goto(h, "ok")
  /\ UNCHANGED <<token, made, login, parent, issued, calm, beyondServer>>

\* The rows of an account that was removed are not there to be written.
AccountIsGone(h) ==
  /\ \/ phase[h] \in {"create", "log"}
     \/ phase[h] = "revoke" /\ h \in Calls
  /\ status = "GONE"
  /\ Goto(h, "no")
  /\ UNCHANGED <<token, made, login, parent, issued, calm, beyondServer>>

\* A call of the handler is rejected, and it answers 500; or its answer is
\* lost, and fetch throws.
Rejected(h) ==
  /\ phase[h] \in Phases \ {"idle", "no"}
  /\ faults < MaxFaults
  /\ faults' = faults + 1
  /\ calm' = FALSE
  /\ Goto(h, "no")
  /\ UNCHANGED <<token, made, login, parent, issued, status, browserVars, op,
                 carried>>

-----------------------------------------------------------------------------
(* Time, and the administrators                                            *)

beyondWorld == <<made, login, parent, jar, call, waits, serverVars, faults>>

AccessLapses ==
  /\ access
  /\ access' = FALSE
  /\ UNCHANGED <<status, token, calm, beyondWorld>>

RefreshLapses(t) ==
  /\ token[t] = "live"
  /\ token' = [token EXCEPT ![t] = "lapsed"]
  /\ calm' = FALSE
  /\ UNCHANGED <<status, access, beyondWorld>>

\* UsersService.update leaves the tokens alone, UsersService.remove deletes
\* them with the account.
SetStatus(s) ==
  /\ status # "GONE" /\ status # s
  /\ status' = s
  /\ token' = IF s = "GONE" THEN [t \in Ids |-> "none"] ELSE token
  /\ calm' = FALSE
  /\ UNCHANGED <<access, beyondWorld>>

-----------------------------------------------------------------------------
Page(c) == Fetch(c) \/ OnUnauthorized(c) \/ RefreshAnswered(c) \/ Retry(c)

Form(x) == AskLogin(x) \/ AskLogout(x) \/ FormAnswered(x)

Rotation(c) == RotateFind(c) \/ RotateRevoke(c)

Session(h) == CreateSession(h) \/ Log(h) \/ AccountIsGone(h) \/ Rejected(h)

Next ==
  \/ \E c \in Calls : Page(c) \/ Rotation(c)
  \/ \E x \in Tabs : Form(x) \/ LoginFind(x) \/ LogoutRevoke(x)
  \/ \E h \in Handlers : Session(h)
  \/ AccessLapses
  \/ \E t \in Ids : RefreshLapses(t)
  \/ \E s \in {"ACTIVE", "SUSPENDED", "GONE"} : SetStatus(s)

Spec == Init /\ [][Next]_vars

-----------------------------------------------------------------------------
(* Correctness                                                             *)

\* Two tokens took the place of one: two refreshes came with the same token,
\* and both had found it good before either revoked it.
Forked(f) ==
  \E t, u \in Ids :
    t # u /\ parent[t] = parent[u] /\ parent[t] # 0 /\ login[t] = f

\* token.service.ts:77-92: rotation keeps one good token per session, unless
\* two refreshes have forked it; failures, logouts and expiry do not.
OneTokenPerLogin ==
  \A t, u \in Ids :
    /\ token[t] = "live" /\ token[u] = "live"
    /\ login[t] = login[u] /\ ~Forked(login[t])
    => t = u

\* token.service.ts:86-90, auth.service.ts:53-74: when all is answered and no
\* answer was lost, the browser does not hold a token that has been used or
\* revoked, in whatever order the answers to its pages came in.
JarIsUsable ==
  faults = 0 /\ jar # 0 /\ (\A h \in Handlers : phase[h] = "idle")
    => token[jar] # "revoked"

\* frontend/lib/api.ts:158-167: a page that shares its refresh is never told
\* SESSION_EXPIRED without a cause: there was no session, or it expired, was
\* ended, met a failure, or another page refreshed it at the same time.
ExpiredForCause ==
  [][\A c \in Calls :
       RefreshAnswered(c) /\ phase[c] = "no" => ~calm \/ carried[c] = 0]_vars

\* auth.service.ts:216-220: when a logout with the browser's own token meets
\* no refresh, none of the tokens of the session stays good.
LogoutEnds ==
  [][\A x \in Tabs :
       /\ LogoutRevoke(x) /\ calm
       /\ carried[x] = jar /\ jar # 0
       /\ \A c \in Calls : phase[c] = "idle"
       => \A t \in Ids : token'[t] = "live" => login[t] # login[jar]]_vars

\* frontend/lib/api.ts:158-167: a call waits only for a refresh that is under
\* way, however many calls joined it and however it ends.
NobodyIsForgotten ==
  \A c \in Calls : call[c] = "waiting" => phase[waits[c]] # "idle"

-----------------------------------------------------------------------------
(* What the documentation says and the code does not do                    *)

\* docs/authentication.md:28: a logout that comes with a refresh token revokes
\* it and clears the cookies.
LogoutClears ==
  [][\A x \in Tabs :
       FormAnswered(x) /\ op[x] = "logout" /\ carried[x] # 0
         => jar' = 0]_vars
=============================================================================
