# LogiSense: formal models, checks and proofs

TLA+ models of the LogiSense backend and of the parts of its frontend that talk to
it, translated from the source, with TLC
configurations that check them on small instances and TLAPS proofs that hold
for every value of the constants. Paths below are relative to `backend/src/`
of the repository, except `docs/` and `frontend/`. `PROJECT.json` says, for
every definition that models code, which lines it stands for.

    tlc -workers 2 -config import_faults.cfg MCImportPipeline
    tlapm ImportPipelineProofs.tla

## The system

A multi-tenant logistics application: a NestJS API with Prisma over MySQL,
Redis with a BullMQ queue, one WebSocket gateway, and a Next.js frontend. One
backend process serves the requests *and* runs the queue worker. Almost nothing
is wrapped in a database transaction: a handler queries, decides, and writes in
separate `await`s, and every other handler may run in between. This is where
nearly all the hard behaviour comes from.

| Component | State | Operations | Interacts with | What makes it correct |
| --- | --- | --- | --- | --- |
| Import pipeline (`modules/imports`, `queue`) | the `Import` row, the stored file, the BullMQ job, the runs of `process` and of `handleQueueFailure` | upload, take job, each step of a run, retry, callback of a failed attempt, backoff, crash, stalled-job check | audit log, WebSocket, registry | progress never ahead of the database; COMPLETED means loaded in full; one verdict, audited and announced; the queue drains; the file lives as long as it is needed and no longer |
| Import rows and the registry (`import.worker.ts`, `customers`, `carriers`) | `Customer` and `Carrier` rows | find a row by its business key, then insert or update; create, update, remove by the API | two imports at a time and any number of requests on one table, no unique index | importing again updates instead of duplicating; tenants stay apart |
| Tenant users (`modules/users`, guards) | `User` rows: role and status | create, update, remove by administrators, each admitted by the guards first | other requests of administrators | a tenant keeps an administrator; nobody changes its own role; the audit log names what happened |
| Rate limiter (`common/rate-limit`) | a `Map` of buckets in memory | `canActivate`, with a sweep of expired buckets | every request | limits are enforced, nobody is refused without cause, the map does not grow for ever |
| Sessions (`auth.service.ts`, `token.service.ts`, `frontend/lib/api.ts`) | `RefreshToken` rows, access tokens in the browser | login, refresh with rotation, logout | users, the pages of a browser, which share its cookies and each one refresh | rotation keeps one good token per session; the cookie is not left with a dead one; no page is told without cause that its session expired; a logout ends the session |
| Accounts: OAuth and register (`oauth.*.ts`, `auth.service.ts`) | one-time states in Redis; `Tenant`, `User` and `OAuthAccount` rows | authorize, callback, register | users, sessions | a state is spent by the callback it admits; a provider account gets its person's user; no tenant is left without a user for no reason |
| Credentials: second factor and password (`mfa.service.ts`, `auth.service.ts`) | `mfaSecret`, `mfaEnabled` and `passwordHash` of a `User` | setup, confirm, disable, change of password, the check of a login | the key in the environment, sessions | nobody is locked out, and no second factor goes off, by what the person did right |
| Simulations, freight (`simulations`, `freight`, `customers`, `carriers`) | simulations with their quotes | create, remove; update and removal of carriers, removal of customers | registry, insights, dashboard | a simulation is whole, its cheapest quote is the cheapest, it lasts; what is in use is not removed |
| Insights, dashboard | `Insight` rows; aggregates that are only read | regenerate; overview, carriers, routes | simulations | the aggregates agree with each other and with the insights |
| Progress in the browser (`websocket`, `frontend/app/imports`, `frontend/lib/api.ts`) | rooms, the page's list, events and timer | connect, join, lose the connection, load, poll, retry | import pipeline | the page shows no verdict too early and ends up with the last one |
| Audit log | entries | append | every handler that writes | an entry for what happened |
| Infrastructure | configuration, logging, paging, health | none that changes state | all | none checked |

Hard to test, and hence what the properties are for (`hazards` in
`PROJECT.json` has each at its line): writes that arrive after somebody else's
verdict; jobs with an id the queue already knows; a process that dies at any
`await`, with BullMQ running the job again from its first row; calls that are
rejected halfway; a callback that is not awaited; lookups that are stale by the
time of the write; counts of administrators that are out of date; buckets at
the instant they expire; two pages that use one refresh token, and whose answers
set one cookie in any order; carriers that are removed while they are being
compared; sign-ups that overlap or break off between the tenant and its user; a
second factor that is set up twice; events that nobody hears.

## Modules

| Module | Models |
| --- | --- |
| `ImportPipeline` | upload, job, worker, callback, retry, crash; every `await` an action |
| `Registry` | the table of customers (or carriers) under imports and API requests |
| `TenantUsers` | create, update and remove of users, with the guards in front |
| `FixedWindow` | abstract specification: what the rate limiter promises for a key |
| `RateLimit` | the guard with its map and its sweeps; implements `FixedWindow` |
| `Sessions` | refresh tokens, their rotation, login and logout, and the pages of one browser |
| `SimulationTable` | abstract specification: what the simulations are to those who read them |
| `Simulations` | simulations beside the customers and carriers they refer to; implements `SimulationTable` |
| `Freight` | what a carrier asks for a cargo, as operators |
| `Figures` | the dashboard's reports and the rules of the insights, as operators |
| `Insights` | `regenerate` beside simulations that come and go; built on `SimulationTable` and `Figures` |
| `Accounts` | OAuth sign-in and register, query by query |
| `Credentials` | second factor and password of one account |
| `ImportProgress` | the imports page: its list, its polling and its socket, beside all writers of the status |
| `MC*` | the instances for TLC: symmetry and the values of function constants |
| `*Proofs` | theorems and proofs about `ImportPipeline`, `Registry`, `TenantUsers`, `RateLimit`, `Sessions`, `Simulations`, `Credentials`, `Accounts`; also, at the end of `ImportPipelineProofs`, about `ImportProgress`, and in `SimulationsProofs` about `Figures` and `Insights`. A module that extends two models needs their names to differ, which is why those of `ImportProgress` and `Insights` are longer |

A definition named *Seeded defect* in a comment is not part of a model. It is
the code with a plausible bug in it, kept beside the definition it deforms: put
in the place of that definition it makes one of the properties fail, which
shows that the property says something about the code.

### ImportPipeline

The four groups of actions are the four concurrent parties.

* **POST /imports** (`imports.controller.ts:54`, `imports.service.ts:61`):
  `Upload` (multer has stored the file), `CreateInsert`, `CreateAudit`,
  `CreateEnqueue`, `CreateMarkProcessing`. The last of them writes PROCESSING
  when the worker may long be running. No `await` is guarded, so each may end
  the request (`CreateFails`).
* **POST /imports/:id/retry** (`imports.service.ts:113`): `RetryRead` with its
  check of FAILED, then audit, enqueue and mark, `RetryFails`.
* **The worker** (`import.worker.ts:34`): `TakeJob`, `FindImport`, `ParseFile`,
  `StartRows`, `UpsertRow` / `RowRefused`, `SaveProgress`, `CompleteImport`,
  `AuditCompleted`, `MarkFailed`, `AuditFailed`, `CleanupFile`, and the end of
  the job, `JobSucceeds` or `JobFails`. A rejected call in the `try` block leads
  to `fail()` (`TryFails`), one outside of it makes `process` throw
  (`ProcessThrows`) and costs the job an attempt.
* **The `failed` event** (`import.processor.ts:60`): `CallbackFind`,
  `CallbackMarkFailed`, `CallbackAudit`. It is started with `void`, so several
  may be in flight and they run beside the next attempt. `finding`, `marking`
  and `logging` count them by the call that they wait for.

`AddImportJob` is `queue.add` with `jobId = importId`: BullMQ ignores it when a
job of that id exists in *any* state, failed jobs included. `Restart` is what a
new process finds: requests and callbacks are lost; rows, file and queue are
there; BullMQ's stalled-job check puts an active job back in the queue once
(`MaxStalls = 1`, its default) and fails it after that. A rejection in the
callback is an unhandled one, which ends a Node process (`CallbackRejects`).

Abstractions. A file is a kind (`TABLE`, `MALFORMED`, or the `SIMULATIONS` type
that the worker refuses), a number of rows, and which of them have a name
(`named`): the worker skips a row without one (`import.worker.ts:230`, `271`) and
counts it in `totalRows` and `processedRows` all the same. `saved` is the set of
rows that have reached the database; loading one again changes nothing here
(`Registry` looks at the rows themselves). How many rows were valid and how many
skipped, which only the audit entry says, is left out. A *fault* is a
call that is rejected without having been performed. `errorMessage`, the early
return for an import that is not in the database (imports are never deleted),
failures of Redis while it moves a job, graceful shutdown, and the limit of
1000 failed jobs (`removeOnFail`; here they are kept for good) are left out.

### Registry

One table, `KeyedBy` document (customers) or name (carriers). A record has its
tenant, name, document and, as a history field, the handler that made it (`by`).
Documents come in the three spellings that the code tells apart: digits only
(imports normalise to it), formatted, and padded with a blank that `trim`
removes. Names are equal when the collation of the database says
so.

* Imports: `Start`, then for every row `FindRow` (`findFirst` without an order
  may return *any* match) and `WriteRow` (insert, or update by id alone).
  `RowIsGone` is the update of a record that was deleted, `Interrupted` the
  death of the process. A blank cell leaves its column as it was.
* Requests: `AskCreate`, `AskUpdate`, `AskRemove` are the first query and its
  checks, `Answer` the write, `RecordIsGone` the update or delete of a record
  that is no longer there. That a simulation uses a record, for which remove
  stops, is a free choice here; `Simulations` has both sides of it.

Rows without a name, which the code skips, do not occur in a sheet here
(`ImportPipeline` has them); other
columns, and the audit entries that follow a write, have no influence on the
table. `last` is a history variable: the table as a job's last full run left it.

### TenantUsers

A request is admitted (`Authorize`) on one reading of its sender by
`JwtAuthGuard` and `RolesGuard`, reads its target (`FindTarget`, `FindEmail`),
for a removal of an administrator counts the active ones (`CountAdmins`), writes
(`CreateUser`, `UpdateUser`, `RemoveUser`) and appends its audit entry
(`Audit`). `Refused` is every way of ending with an error. The token itself,
names, passwords and the difference between MANAGER and OPERATOR, which nothing
here looks at, are left out. If the audit entry is rejected the change stays;
that is why `Audit` changes nothing else.

### FixedWindow and RateLimit

`canActivate` is synchronous, hence one action: sweep if due, then find or open
the bucket, count, answer. `count[k] = 0` stands for no bucket. The clock starts
at `SweepInterval`, because `Date.now()` is far from the `lastSweep = 0` of a new
process, and the first request finds a sweep due. `Restart` empties the map. The
unit of time is abstract; rounding the header up to seconds is left out.
`admitted` is a history variable.

`FixedWindow` has no table: for each key the requests `used` in the open window
and the time `left` to it. `RateLimit` implements it under
`used = count, left = resetAt - now` for buckets that have not expired, and
zeros for all others, so that neither dead buckets that linger nor sweeps show.

### Sessions

One account and one browser. In the database the `RefreshToken` rows, by the
order of their creation; in the browser one cookie jar (`jar` is `ls_refresh`,
`access` says whether there is an `ls_access` cookie that has not expired) and
several pages, each with its calls and its own `refreshPromise`.

* **Pages** (`frontend/lib/api.ts`): `Fetch` is a call that the guard passes or
  refuses, `OnUnauthorized` its 401, which joins the refresh of the page
  (`SharedRefresh`) or starts one with the cookie of that moment,
  `RefreshAnswered` the answer, which sets the cookies and reaches everybody who
  waits, `Retry` the second and last try. `AskLogin`, `AskLogout` and
  `FormAnswered` are the forms. A page keeps its session in `sessionStorage`, so
  it may log out although another page already did.
* **Handlers**: a refresh goes by the name of the call that started it, a form by
  the name of its page. `RotateFind`, `RotateRevoke`, `CreateSession` and `Log` are
  the awaits of `refresh`; `LoginFind`, `CreateSession`, `Log` those of `login`;
  `LogoutRevoke`, `Log` those of `logout`. `RotateRevoke` updates by id, whatever has
  become of the row since it was found.
* **The world**: tokens lapse at any time; administrators suspend, readmit and
  remove the account (`SetStatus`; the rows go with it, and a handler that then
  writes is rejected, `AccountIsGone`); a call of a handler is rejected or its
  answer is lost (`Rejected`, also a 429 of the rate limiter).

Passwords, codes and hashes are left out: a login knows the right ones
(`Credentials` has what becomes of them), and accounts are there from the start
(`Accounts` makes them). `login`
and `parent` are history: the session a token belongs to, named by its first
token, and the token it replaced. `calm` is history too: no failure, logout,
expiry of a refresh token, change of the account, or refresh by two pages at once.

### SimulationTable, Simulations and Freight

`SimulationTable` is what dashboard, insights and history rely on: a simulation
appears whole, with at least one quote and all the cheapest ones marked, and
stays as it is until it is removed. `Simulations` is how the code gets there.

* `create` (`simulations.service.ts:24`): `AskCreate` looks the customer up,
  `FindCarriers` reads the active carriers and computes a quote for each,
  `StoreSimulation` is the transaction, `Log` and `Answer` the audit entry and the
  query for the answer. `NoCarriers` is the error of a tenant without any.
* `remove` (`AskRemove`, `DeleteSimulation`); removal of a customer
  (`AskRemoveCustomer`, `LookForSimulations`, `DeleteCustomer`); removal of a carrier
  (`AskCarrier`, `LookForSelections`, `DeleteCarrier`); its update (`UpdateCarrier`:
  other terms, active or not). No operation selects a carrier; the seed data have
  simulations with one (`prisma/seed.ts:227`), whose refusal is `Rejected`.
* The database: a simulation refers to a customer that is there and a quote to a
  carrier that is there (`References`); a customer that is deleted leaves its
  simulations with nobody, a carrier with quotes cannot be deleted, quotes go with
  their simulation (`schema.prisma`, `onDelete`). Whatever breaks a key is `Rejected`,
  which may also strike at any other call.

`Marked` is `minTotal` with the test of each quote for equality, as the code has it;
`CheapestOf` of the table is the definition by comparison. `Cost` is a parameter, so
that the theorems hold for any prices; the run gives it `TotalCost` of `Freight`.

`Freight` is `calculate` over integers, scaled by the decimals that the columns
have: cents, hundredths of a cent per km, ten-thousandths of the value. JavaScript
computes in binary fractions, which may differ by a cent where a half is rounded.
The days of delivery are left out, on which nothing decides.

### Figures and Insights

`rows` are what a query returns: for each simulation its route, its week, what each
carrier asks and which are marked. `Overview`, `WeeklyCost`, `CarrierFigures` and
`RouteFigures` are the three reports of `dashboard.service.ts`; `Economy`, `Carrier`,
`Concentration` and `Trend` the four rules of `insights.service.ts`. An average is a
sum and a count until it is rounded. The order of the reports, and the cut to five
routes and four weeks, are left out. Where the code takes the first of several
equals, which depends on the order of rows, the model takes any of them. The figure
of an insight is a fraction, `figure / per`: the rule of the carrier keeps its average
unrounded and tells it in whole reais (`InReais`), while the dashboard rounds to cents.

`Insights` has the table of `SimulationTable` as its world, a clock, and `regenerate`
with its three queries (`GetOverviewData`, `GetCarrierData`, `GetRouteData`), at the
last of which the rules follow, and its inserts one by one (`Insert`, in the order of
the code). `Reply` also stands for a query or an insert that is rejected: what was
inserted stays. Simulations come and go and time passes at any point, `changes` times
at most during one run of the handler.

### Accounts

Every query of the sign-up is an action: `Authorize`, `GetState` and `DelState` with
their two Redis commands, `Exchange`; then `FindAccount`, `FindEmail` and `Link`
(`resolveUser`, `oauth.service.ts:184`); or `FindSlug` up to `Attempts` times,
`CreateTenant`, `CreateUser` and `CreateSession`, on which the register form
(`AskRegister`) comes in as well. `Undo` is the catch block of `register`, which removes
the tenant; the callback has none. The `...Refused` actions are the unique indexes
and foreign keys. `Invite` is a user that an administrator adds.

The exchange with the provider is the choice of a profile with a verified e-mail.
All names give one base slug, the worst case for slugs. Removal of users by
administrators is left to `TenantUsers`, passwords to `Credentials`. A state may expire
at any time (its ten minutes are not a clock). The death of the process is a rejected
call, and during a registration two, since the clean-up does not happen either. `TypeOK`
contains the keys of the
database, which the guards of the actions have to keep.

### Credentials

One row, and requests that read it, check, and write by id in a later query: setup
(`AskSetup`, `StoreSecret`, `ShowSecret`: the person has the secret only when the answer
comes), confirm (`AskConfirm`, `Enable`), disable (`AskDisable`, `Disable`) and the
change of the password (`AskPassword`, `StorePassword`). A secret is sealed with the key
of the process; `Restart` may bring another key. A TOTP code is named by its secret:
a code of a secret is accepted for that secret and no other; its time steps and
window are left out, and so is its replay within the window. `VerifyLoginTotp` is the
check of a login. `Stale(h)` says that the second factor is no longer what the
handler read.

### ImportProgress

`ImportPipeline` seen from the browser. Of the backend it keeps every writer of the
status: the worker (`Start`, `Conclude`, `BreakOff`), `MarkProcessing` of upload and
retry, and the callback (`CallbackReads`, `CallbackMark`); `Announce`, `EmitProgress`
and `CallbackEmit` send to whoever is in the room. A process that dies after the
verdict's event and before the queue has removed the job has it run again (`Announce`).
The page
(`frontend/app/imports/page.tsx`) has its list (`Poll`, `Refresh`, `ReadList`, `Loaded`,
`LoadFails`), each load of which closes the subscription and opens another (`Join`,
`NotAdmitted`, `Disconnect`), and its handler of events (`Receive`). Several loads may be
under way and be answered in any order. Left out: counters, messages, other imports,
and that a room belongs to a tenant, which is one condition of a query.

## Runs

All runs have `CHECK_DEADLOCK FALSE`: the models stop when users ask for nothing
more and their bounds are spent, which is the system at rest.

| Run | Instance | Shows |
| --- | --- | --- |
| `import_faults` | 1 import of up to 3 rows, with a name or without, batches of 2, 2 attempts, 1 retry, 2 faults, 2 crashes | types; progress is backed by the database, but for rows that are skipped; COMPLETED is whole; events are backed by the audit log; the file is there as long as it is needed, and not for ever; and for behaviours without faults: one verdict, which is announced; a retry never completes; only the upload's late write undoes COMPLETED |
| `import_live` | 1 import of up to 2 rows, 1 retry, 2 faults, 1 crash, `FairSpecOfFewFiles` | queued jobs end, their imports get an end date |
| `registry_overlap` | customers; 2 tenants, 1 job of up to 2 rows, run up to twice, and 2 requests of any kind | no spreadsheet duplicates its own records, also when requests edit and remove what the other or the import is about to change; tenants stay apart |
| `registry_imports` | customers; 2 jobs of up to 2 rows, each run up to twice, one after the other, interrupted at any point | importing again changes nothing, the last row of a document wins |
| `users_requests` | 2 users, 2 requests at a time | only a stale request locks the tenant out or changes its sender's role; the audit log names the change |
| `rate_limit` | 2 keys with different limits and windows, a table that is full at 2 buckets, 6 instants, 1 restart | fixed windows are implemented; the bound on any minute; dead buckets go |
| `sessions` | 2 pages, one with 2 calls and one with 1, 3 tokens, 1 failure | one good token per session unless it was forked; the cookie is usable; nobody waits for nothing; a page that is told of an expired session had cause; a logout ends its session |
| `simulations` | 2 handlers, 2 simulations, 2 carriers with 2 kinds of terms, 1 customer, 1 cargo on a route of 410 km | the simulations implement the table; a customer that is removed was not in use when its handler looked |
| `insights` | up to 2 simulations on 2 routes with 2 carriers that ask 50 or 51 cents, 4 instants, 1 handler, 1 disturbance | the reports of the dashboard agree with each other; the insights of an undisturbed run agree with the dashboard |
| `accounts` | 2 handlers, 2 provider accounts with one e-mail, another e-mail, 2 states, 2 slugs that are looked up, 2 users, 2 rejected calls | the keys of the database; a state is spent; a tenant without a user has a cause; a provider account finds its user |
| `credentials` | 3 requests, 2 keys, 3 secrets, 2 passwords, 1 restart | only another key or a stale request locks the person out; only a disable with its code or a stale request takes the second factor away |
| `import_progress` | 1 import, 2 loads, 1 event under way, 2 runs, 1 failed load, `ProgressFairSpec` | no verdict is shown before it is written; the list comes to rest at a verdict |

A type invariant that is proved for all constants (`Registry`, `TenantUsers`,
`RateLimit`, `Sessions`, `Simulations`, `ImportProgress`) is not checked by a run as well.

### Bounds, and why they are enough

* *Import pipeline.* Imports do not share state but for the worker's two slots,
  which only delay; one import with its retry meets every interleaving of the
  four parties. Three rows in batches of two give the empty file, a partial
  batch, a whole one and a batch plus a row, each row with a name or without one;
  `import_live` has fewer files, of which two rows either both have a name or both
  lack it, because how a run ends does not depend on its rows. Two attempts give a first, a last
  and the backoff between; two crashes exceed `MaxStalls = 1`, so that a job is
  given up. Two faults meet a fault of the worker followed by one of `fail()` or
  of the callback. The real values are 3 attempts, batches of 100 and two jobs at
  a time; the proofs do not depend on them.
* *Registry.* A job and two requests are the smallest system where a lookup of one
  handler is overtaken by another and by a third party; two jobs at a time occur in
  the counterexample to `ImportsNeverDuplicate`, and the proofs cover any number.
  Two rows are enough for a row to meet the record of a row before it; two names and one or two document
  numbers give equal and different keys. Tenants, jobs, names and numbers are
  interchangeable, hence the symmetry (no liveness is checked here).
* *Tenant users.* Users are created, suspended, demoted and removed; with two of
  them and two requests in flight each may pull the rug from under the other.
  The proofs cover any number.
* *Rate limiter.* The clock runs through more than two windows of each key and
  three sweep intervals; `MaxRequests` exceeds both limits, so that refusals occur.
* *Sessions.* Two calls of one page share a refresh, the call of the other page
  does not. Three tokens are a login and the two refreshes that fork it, or two
  logins and a refresh. Which page logs in or out is free. The proofs cover any
  number of pages, calls, tokens and failures.
* *Simulations.* Two handlers are a simulation and a change of what it is about to
  refer to. Of the two kinds of terms each is cheaper in one respect and only the
  second has the rebate for the cargo; with both carriers on the same terms two
  quotes are equally cheap. Ids are given out once, so that two of them allow for a
  removal and a second simulation. The proofs cover any number, and any costs.
* *Insights.* Two simulations share a route and a carrier, or neither. 50 and 51 cents
  give equal averages, different ones, one of 50.5 that the dashboard rounds and the
  insight does not, an average of half a real, from which the whole reais of the text
  are as far as they may be, a change of exactly one per cent, which is no trend, and one of
  two, which is one; the four instants reach before, into and beyond
  the two periods that a trend compares. One disturbance is enough to separate the
  three queries; insights do not look at other insights, so that a second handler
  adds nothing.
* *Accounts.* Two callbacks with one state; one person with an account at each of two
  providers; an invitation that overtakes `FindEmail`. With two look-ups the third
  candidate is the one that is taken unseen. Two rejected calls are the failure of a
  registration and that of its clean-up.
* *Credentials.* A setup that is overtaken by a setup and its confirmation needs three
  requests and two secrets; the third secret is set up after a disable. The proofs
  cover any number.
* *ImportProgress.* Two loads answer out of order; one event under way and the one of
  the verdict are an order of two; two runs are a retry or a second attempt.

### Fairness

`import_live` uses `FairSpec` (`FairSpecOfFewFiles` is the same for fewer files): weak
fairness of each handler that has begun, of the
worker's run, of the callbacks, of handing out waiting jobs and of promoting
delayed ones. The event loop runs every continuation that is ready, `BullMQ`
polls its queue and its delayed set as long as the process is up, and the
container restarts a process that died (`docker-compose.yml`,
`restart: unless-stopped`). No fairness is assumed of users, faults or crashes.
The number of crashes and faults is bounded: without a bound a process that dies
in every run would stall for ever.

`QueuedImportsEnd` has a disjunct for disturbances, because the callback that
gives an import its end date is not retried: when the process dies with the
callback in flight, nobody marks the import.

`import_progress` assumes weak fairness of `Poll`, `ReadList` and `Loaded` alone: the
page's interval fires and its requests are answered. Nothing is assumed of the
socket, so that `ListSettles` shows that polling suffices, nor of the worker: the
property speaks of imports that come to keep a verdict.

### What the runs found

Some documented properties are refuted by the models. They stand at the end of their
modules under *What the documentation says and the code does not do*; adding one to
the configuration that is named with it shows the counterexample.

* **An upload may undo its own verdict** (`imports.service.ts:105`;
  `CompletedIsFinal`, `import_faults`). The handler
  queues the job and *then* writes PROCESSING without a condition. A small file
  may be done by then: its import shows PROCESSING for good.
* **A retry of a job that failed for good runs nothing**
  (`import.processor.ts:69`; `AcceptedRetryIsQueued`, `import_faults`). The job's id
  is still among the failed ones, so
  `queue.add` ignores it, and the import turns PROCESSING, from which it cannot
  even be retried. Where the job did succeed after `fail()`, a retry is queued
  but finds its file deleted: `RetriedNeverCompletes` holds, that is, without
  faults no retry can ever complete.
* **Two imports at a time duplicate records** (`import.worker.ts:240`;
  `ImportsNeverDuplicate`, `registry_imports` with `Concurrency = 2`), against
  "reimportar atualiza em vez de duplicar" (`docs/async-processing.md:114`).
* **Rows without a document make imports depend on their order**
  (`import.worker.ts:243`): importing one spreadsheet twice changes the table.
  `registry_imports` has `BlankRows = FALSE` for this reason; with `TRUE` its
  property `ReimportChangesNothing` fails.
* **The last administrator may go** (`users.service.ts:175`; `AdminRemains`,
  `users_requests`), against
  `docs/authentication.md:135-136`. `OnlyStaleRequestsLockOut` shows that what
  protects the last administrator is that the sender is one; the count alone
  protects nothing that this does not.
* **A logout may end nothing** (`frontend/lib/api.ts:199`; `LogoutClears`,
  `sessions`), against
  `docs/authentication.md:28`: the route needs an access token, and the page does
  not refresh for it. After 15 minutes of rest the logout is answered 401, cookies
  and token stay, and the next call of any page brings the session back.
* **Two refreshes with one token may both succeed** (`token.service.ts:79`),
  against "Reuso de refresh antigo → `INVALID_REFRESH`"
  (`docs/authentication.md:22-24`). `Forked` in `OneTokenPerLogin` is this case.
* **The page may hide a verdict** (`frontend/app/imports/page.tsx:129`; `VerdictIsShown`,
  `import_progress`). The badge prefers the last event to the list. An event of the
  middle of the run covers the list's COMPLETED for good when the event of the
  verdict fell between two subscriptions.
* **Joins may be refused and are not repeated** (`websocket.gateway.ts:54`,
  `frontend/lib/api.ts:239`): `join-import` may arrive before the look-up of the user,
  and after a reconnection nobody joins (`NotAdmitted`, `Disconnect`). Polling makes up
  for it (`ListSettles`).
* **A stale setup turns the second factor off** (`mfa.service.ts:101`): it writes by id
  what it was allowed to write before a confirmation. `Stale` in `FactorIsKept`.
* **An OAuth state may admit two callbacks** (`oauth.controller.ts:102`), which both read
  it before either deletes it; `StateIsSpent` is what remains true.
* **A tenant may be left without a user** (`oauth.service.ts:245`) by a callback that
  breaks off or comes second: tenant and user are two queries without a clean-up.
  `OwnerlessHasCause` lists the ways.
* **Savings are always nought** (`dashboard.service.ts:84`, `insights.service.ts:113`): the
  "selected" quote is by construction the cheapest. `FiguresAgree` shows it, and no
  insight of type economy is ever generated.
* **`avgCost` of a route is a sum** (`dashboard.service.ts:190`).
* **A check that cannot fire** (`carriers.service.ts:160`) for simulations that the program
  makes: none of its operations selects a carrier, only the seed data do; a carrier with
  quotes is kept by the foreign key alone.
* **A customer may be removed under a new simulation** (`customers.service.ts:167`), which
  then has none; `CustomersGoUnused` says how far the check goes.
* **Prices and chargeable weight** (`freight.service.ts:51`, `simulations.service.ts:63`): the
  rebate above 500 kg, of which the formula in the README of the repository says
  nothing, is on the whole total; the chargeable weight that is stored has the factor
  6000, whatever the carriers' are.

Also seen while modelling: a rejected
`audit.log` after the row says COMPLETED makes it FAILED
(`import.worker.ts:114-132`; the model has it). A SIMULATIONS file is never
removed (`import.worker.ts:48`), although `docs/async-processing.md:70` says that
files go in any case; `FileLifetime` excludes it. `create` compares a document
untrimmed, stores it trimmed, and imports store digits only, so that one document
has three spellings (`customers.service.ts:73-90`, `import.worker.ts:232`).
`docs/architecture.md:47` gives one limit of 120 requests a minute, while the
code has one per handler and address, and any *sliding* minute may admit one less
than twice that (`SlidingBound`, which is tight). The insight of the carrier keeps
and tells its average otherwise than the dashboard shows it (unrounded, and in whole
reais, `insights.service.ts:154-156`, against cents, `dashboard.service.ts:161`);
`InsightsMatchDashboard` says how far they are apart. Insights are only appended:
`regenerate` twice has all of them twice, and a rejected insert leaves a part of them,
which no document speaks of and no property here is about.

## Proofs

Every theorem is proved from the module's named assumptions on its constants
alone, and from the hypotheses that it states itself (`Serial` and `BlankRows` in
`RegistryProofs`): for all sets of imports, tenants, jobs, requests, users and keys, and all
values of the bounds.

**ImportPipelineProofs.** `TypeCorrect`; then `RunInvariance`, whose `RunInv` says
what a run knows at each of its steps: until the upload has queued the job nobody
else can touch the import; a run exists exactly for an active job; the rows that
a run has passed, and those that are counted, are saved if they have a name, and
nothing else is (`RowsCounted`); between `start` and `complete` the row cannot say
COMPLETED. The last is what makes it inductive: `status = "COMPLETED"` alone says
nothing of the rows of a run that is under way, and the late write of `create` may
come at any step. `ProgressBacked`, `CompletedWhole` and `EventsBacked` follow, for
any number of faults and crashes. `CleanInvariance` is about behaviours without
faults: a table import is *clean* (never failed, completed at most once, file present
while it may be read) or *spoiled* (a row was refused: its file is gone or going, it
will never complete). `SingleVerdict`, `RetriesNeverComplete` and
`UndoneOnlyByCreate` follow. `FaultFreeInvariance` lets the process die but no call
fail: nothing throws, so that only crashes interrupt a job; a run that is past its
verdict has audited and announced it; an import without a verdict has its file and,
once queued, its job, which BullMQ gives up only after more crashes than it forgives.
From it `QuietVerdict` and `FileOutlivesRuns`. It is needed because a job that is gone
says nothing by itself: that its end was audited before the job was removed is a fact
about the order of the last steps of a run.

The end of the same module, which extends `ImportProgress` too, has its theorems:
`ProgressTypeCorrect`; `KnownInvariant`: every verdict in a list, an answer, an event
under way or the worker's hand is one the import has had. From it `PageIsNeverAhead`,
which states `NeverAhead`. `Shown \in had` alone is not inductive, since it says nothing
of what is still on the wire.

**RegistryProofs.** `RegistryTypeCorrect`; `KeyInvariance`, whose heart is
`QueryHolds`: between the two queries of a row, a record that was missed is still
missing *among the job's own records*, and a record that was found still has the key
of the row, or is gone. Others may insert and delete what they like; only an edit of
a record may break it, hence `~Edited` in `NoDuplicatesWithinAJob`.
`HitsInvariance`: the records a handler's lookup has returned are of its own tenant and
remain so until it writes, although others may edit or delete them meanwhile; from it
`NoWriteAcrossTenants`.

The second half is about imports that run one after the other with no requests beside
them (`Serial`). `SerialInvariance`: at most one import runs; what its lookup has
found, or missed, still holds *in the whole table* when the row is written; and the rows
so far are `Loaded`, each as the last of its key gives it. From it
`SerialImportsNeverDuplicate`, so that the violation of `ImportsNeverDuplicate` is one of
concurrency alone, and `TheLastRowWins`, both with rows that lack a document.
`ReimportInvariance` goes on from there: the last full run of a spreadsheet and the table
are records of the same ids, tenants and keys, that differ in records of the sheet at
most. So a row that is imported again always finds its record (`RowRewrites`), and two
tables in which the whole sheet is loaded are one table (`LoadedAlike`):
`ReimportsChangeNothing`. It supposes a document in every row, without which it is false
(see above). No induction over the spreadsheet is needed: the invariant says at row *m*
what rows 1 to *m* have left behind.

**TenantUsersProofs.** `UsersTypeCorrect`; `ChecksRemembered`, what a handler past its
checks knows of its sender and target; from it `FreshRequestsNeverLockOut` and
`OwnRoleStays` for any number of concurrent requests, and
`SerialRequestsKeepAnAdmin`: if requests come one at a time, some active
administrator always remains, so that the violation of `AdminRemains` is one of
concurrency alone. `AuditEntryIsRight`: a handler compares the role it read, so that
its entry is right exactly while that role is still in the row.

**RateLimitProofs.** `LimiterTypeCorrect`; `SweptClean` (whatever had expired at the
last sweep is gone), from it `DeadBucketsAreSwept`; and `ImplementsFixedWindow`, a
refinement: every request maps to a request of the abstract windows, a tick to a
tick, a restart to forgetting. `MinuteIsBounded` proves the bound of a *sliding* window,
`(2 + restarts) * Limit - 1`, for all limits and windows. That bound is not inductive:
a request that is admitted adds one to every window it falls into. `WindowInv` says how
much `Room` each window that is not over has: the bucket that counts brings what it has
admitted, without its first request for a window that begins after it was opened; what
lies before it is at most one limit less one; a restart, which forgets the bucket, pays
for what the lost bucket had admitted. The admissions of a window are a sum over a set of
instants; the lemmas on sums (`SumsExist`, `SumAdds`, `SumGrows`, `SumOfZeros`) are
proved by a least counterexample (`WFMin` on the size of the set), since the induction
theorems of the library cannot be instantiated.

**SessionsProofs.** `SessionsTypeCorrect`; `NobodyForgotten`; `LineageKept`, an
invariant of the tokens of a session: those that were replaced, or that a handler is
about to replace, are dead, and if no token was replaced twice every token but the
newest was replaced, hence `OneTokenEach`. That there is one good token is not
inductive, since it says nothing of the handler between `RotateRevoke` and
`CreateSession`. `CookieKept`: a token that no answer has delivered is known to
nobody, and a dead token in the cookie has a handler whose answer will replace it,
hence `JarUsable`. The steps that make no token are shown `Harmless` one by one.
`CalmInvariance` is about calm histories (nothing expired, failed or was ended, and no
two pages refreshed at once): the token a refresh carries is good until its own
handler replaces it, the token of the cookie is good or being replaced, and none was
replaced twice. From it `ExpiryHasCause` and, with `OneTokenEach`, `LogoutIsFinal`: the
only good token of the session is the one the logout names.

**SimulationsProofs.** `SimulationsTypeCorrect`; `MarkedAreCheapest`: the quotes that ask
`minTotal` are those that no other undercuts, since a non-empty set of costs has a
least one (`WFMin` for `<` on the naturals); with it `SimulationsImplementTable`, a
refinement: `StoreSimulation` maps to `Store`, `DeleteSimulation` to `Remove`, every
other action to a stutter. It needs the type invariant, because a handler stores
what it computed earlier: that the offer has a quote and its place is a route are
facts about its phase. `CustomersGoOnlyUnused` needs an invariant too: no simulation
that was known when the handler looked is for its customer, and none comes to be.

*Figures and Insights*, in the same module. `InsightsInvariant` has the inductive invariant:
finitely many simulations are stored, each with quotes of which the cheapest are marked
(`TableFacts`); there is one rule of a type at most (`RuleFacts`); and until something
comes or goes, what a run has read is what is stored, and what it says is what could be
said of it (`ReadFacts`). That insights match the dashboard is not inductive, since it
says nothing of the queries before the rules. With it `InsightsTypeCorrect`,
`TheInsightsMatchDashboard` and `TheFiguresAgree` are statements about the operators of
`Figures` on any finite table, and most of the proof is lemmas about these:

* sums are the folds of the community modules, which are proved to exist, to add up, to
  split by any classification (`SumByClass`: by route, by carrier, by week) and to be
  bounded by their least and greatest terms (`SumBetween`);
* an insight's whole reais are at most half a real off the average (`ReaisAreClose`), and
  the lowest average is the lowest also when all are rounded;
* `RoundDiv` stays within half of the divisor (`RoundBounds`) and is monotone, so that an
  average lies between the cheapest and the dearest also when it is rounded to cents;
* the common denominator of the routes' averages is a product of the numbers of quotes,
  each of which divides it (`ProductDivides`);
* what these need of induction is one lemma, `SubsetInduction`: a set of subsets of a
  finite set that has each subset whose proper subsets it has, has all of them. It is
  proved by a smallest counterexample (`WFMin` for strict inclusion), with a set in the
  place of the predicate that the library's theorems take as an operator.

Assumed are finitely many carriers, costs that are natural numbers, and a period of at
least a week. The attempt at this proof found one property false that the run could
not refute: `InsightsMatchDashboard` used to say that the concentration of the most
frequent route, in rounded percent, times the number of routes is at least 99. With seven
routes of one simulation each it is 98. What is true for any number is that half a percent
is lost at most: `(2 * figure + 1) * routes >= 200`.

**CredentialsProofs.** `CredentialsTypeCorrect`, whose heart is that pending setups have
secrets of their own which nobody has been shown; `ReadingInvariance`: what a request
has read still tells it what to write, its code is that of the secret it read, sealed
with the key of the running process. From it `OnlyStaleRequestsLockOut` and
`FactorStays`: a step by a handler whose reading is fresh is one of few.

**AccountsProofs.** `AccountsTypeCorrect`, `StatesAreSpent`,
`OwnerlessTenantsHaveCause` and `ProfilesGetTheirUser`. `SignUpInvariance` has what the
first and the third need: a handler between its two inserts has made the tenant it
names, and no two handlers the same one (`Apart`), because the slug is unique when the
tenant is inserted and the tenant outlives the handler's next call. `Looked` is what
the last needs: what a handler has not found when it looked for an e-mail was made
since. Ids of users grow, so that "made since" is an inequality; that the users of an
e-mail have an oldest is `WFMin` for `<` on the naturals.

**Only model-checked.** Liveness (`QueueDrains`, `QueuedImportsEnd`, `ListSettles`):
fairness and ENABLED are out of the prover's reach. Every invariant and every action
property that a run checks is stated by a theorem, `ReimportChangesNothing` under the
hypotheses that its run has. The tariff of `Freight` is only evaluated: for the theorems
`Cost` is a parameter of which nothing is known but that it is a cost
(`CostAssumption`).

## Not modelled, and the plan

Next, in this order:

1. One registry for `Registry` and `Simulations`: imports that update a carrier while it
   is being compared. Each has the other's part as a free choice or not at all today;
   what they share is that a carrier's row changes between two queries.
2. Removal of users and tenants beside `Accounts`, which `TenantUsers` has for a tenant
   with its users given.

Left out for good: integrations (calls to external services with a cache that nothing
decides on), configuration, logging, paging, health checks, read-only endpoints other
than the dashboard's, and presentation in the frontend: input and output without a
protocol to check.
