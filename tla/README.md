# A verification development for pm-core-apis

TLA+ models of the property-management back end in `src/` (a TypeScript
service on Express, TypeORM/PostgreSQL and Redis), the TLC configurations that
check them on small instances, and TLAPS proofs of the properties that matter
most for every value of the constants. `PROJECT.json` is the index: components,
runs, mutants, the map from each definition to the lines it models, findings,
hazards and theorems. Paths below are relative to `src/src/` unless they start
with `src/`.

## 1. Inventory

Requests enter through Express controllers, which validate a body and call one
service. A service is a singleton object without state of its own: what it
keeps is in PostgreSQL (through a repository that extends `BaseRepository`) and
in Redis (through `RedisCache`). Node runs one request's code up to its next
`await`; at each `await` any other request may run, and several processes may
share the database and the cache. So a component's state is tables, cached
values, and what each request in flight has read so far.

| Component | State | Operations | Talks to | What makes it hard | What makes it correct |
|---|---|---|---|---|---|
| Lease billing, ledger, reports (`services/properties/propertyLeaseAgreementService.ts` 75-292) | none: derived from a lease row and its payments | schedule, ledger, next due date, estimate of periods, rent roll, arrears aging | lease and payment repositories | date roll-over of short months; nested allocation loops sharing balances; four walks of one schedule, each with its own bounds | due dates increase within the term; each cycle billed once; payments fill the oldest period first; reports agree with the ledger |
| Lease agreements (same file 294-562) | `lease_agreements` rows; Redis keys | create, update, extend, terminate, delete; details, tenant list, landlord list | base repository, Redis, property service | read, check and write in separate statements; failing Redis after a committed write; keys nobody invalidates | a lease changes by whole writes of one request; a deleted lease stays deleted; an end date is decided on one the lease had; caches catch up |
| Organization memberships (`services/organizations/organizationUserService.ts`) | `organization_users` rows, one Redis key per pair | add/replace/remove roles, set status, soft-delete, restore, read | base repository, Redis | read-modify-write under READ COMMITTED, ORM diffs, no unique index, soft-deleted rows, a refresh that reads the cache | a request nobody disturbs does what it is called for; one live membership per user and organization |
| Base service and repository (`services/baseService.ts`, `repositories/baseRepository.ts`) | none | CRUD, transactions, error mapping | TypeORM | what an error leaves behind | used inside the models above |
| Redis cache (`utils/redisCache.ts`, `config/redis.ts`) | keys with a lifetime | get, set, delete, collections | Redis | `ensureConnected` may throw, a command's error is swallowed | a failed command never changes an answer |
| HTTP API (`app.ts`, `routes`, `middlewares`, `controllers`, `validations`) | the request on its way | 198 routes: schema, middlewares, handler | every service, OIDC and policy middlewares | order of registration, three places that each demand keys of a request, async middlewares, errors after a write | a request reaches the route it means, is answered, and is refused before anything is written |
| Location links (`services/locations/locationAddressComponentService.ts`) | link rows with a primary flag; three families of keys | create, update, delete, upsert, bulk upsert, reorder | base repository, Redis | a single primary kept by read-then-write; relations missing from what is read | at most one primary link per location |
| Process and database connection (`server.ts`, `config/database.ts`) | initialization promise, pool, HTTP server, signal handlers | initialize with retries, migrate, listen, shut down | OS signals, PostgreSQL | two SIGTERM handlers, a memoised failed promise, a 10 s timer, `destroy()` that may fail or be called twice | a start settles; listens on a connected database; exits when asked; drains first |
| Users, credentials, roles (`services/users/*`) | rows, keys by id, phone, e-mail and role | CRUD, credentials, registration, role lists | Redis, argon2, SMS, tenancies | one user under several keys; creation over several transactions; unique indexes over a column that is NULL | no key outlives its row's change by more than a lifetime; a half-made account can be completed; a PIN that is sent opens its account |
| Properties, units, tenancies (`services/properties/*`) | rows, lists by property, number, code | CRUD, assignment of tenants | Redis, users | key mismatches between writers and readers; create-or-get | as above |
| KYC, access control, organizations, catalog, client apps, payment providers, locations | rows and cached copies | CRUD and lists | Redis | the same cache pattern wired by hand in each service: which keys, in which order, from which copy | a writer refreshes what it made old, answers what it wrote, and does not fail after writing |
| File storage (`services/storage/*`) | records and blobs | upload, delete, archive | S3/Glacier | two stores, no common transaction | no blob without a record, no record without a blob |
| Authentication, policies, SMS, audit, rate limiter, queues, crypto | none or external | | external services | | decided outside this code |

`PROJECT.json` lists every one of them with its status, and every hazard with
the line where it bites and the property that covers it, or why none does yet.

## 2. Modules

| Module | What it is |
|---|---|
| `BillingCalendar` | dates, and `addByFrequency` with the roll-over of JavaScript's `Date` |
| `LeaseLedger` | one ledger request, an iteration of the code's loops per step |
| `LeaseReports` | the other walks of the schedule, and the properties that compare them with the ledger |
| `LeaseRows` | the lease row and a column-wise update |
| `LeaseLife` | abstract specification: the life of a lease, without requests, reads or caches |
| `LeaseLifecycle` | the concurrent lease requests, await by await; implements `LeaseLife` |
| `OrganizationMemberships` | the concurrent membership requests |
| `MembershipContract` | a history variable over them: what a request nobody disturbs promises |
| `ProcessLifecycle` | one process from its start to its exit |
| `ServiceSteps`, `AccountMethods`, `PropertyMethods` | the methods of 32 services as sequences of queries, statements and Redis commands |
| `CachedServices` | concurrent requests of one of these services, step by step |
| `ServedAlone` | what each of their methods does one at a time, computed |
| `ApiSchemas`, `ApiHandlers`, `PropertyHandlers`, `ApiRoutes` | the Joi schemas, the controllers' methods, the routes in their order |
| `HttpRequests` | one request through router, middlewares and handler |
| `UserAccounts` | concurrent invitations, registrations, creations and updates over users, credentials and tenancies |
| `MCLeaseReports`, `MCLeaseLifecycle`, `MCMemberships`, `MCCachedServices` | values of the constants for TLC |
| `LeaseLedgerProofs`, `LeaseReportsProofs`, `LeaseLifecycleProofs`, `MembershipProofs`, `ProcessProofs`, `UserAccountsProofs`, `CachedServicesProofs` | theorems and their proofs |
| `RecursionFacts` | lemmas the proofs about loops and sums need: induction over the naturals, walks along a table, sums over a finite set |

### Lease ledger (`BillingCalendar`, `LeaseLedger`, `LeaseReports`)

A date is a month number and a day; `Rolled` is the normalisation of JavaScript's
setters, and `AddMonths` keeps the order of the code: roll over first, then cap
the day at 28 in the month it rolled into. Lengths of months are the runtime's
(external). An instant is counted in half days, enough to tell midnight, where
the reports cut, from the rest of a day. All times are in one zone (UTC).

`LeaseLedger` is one request. `lease` and `payments` are the rows it finds,
`pc` the place in `getLeaseLedger`. `FirstDueOnOrAfter` and
`BuildBillingSchedule` are the iterations of the two schedule loops;
`TakePayment`, `SkipPaidPeriod`, `ApplyToPeriod` and `EndPayment` those of the
nested allocation loops; `GetPayments` chooses any order among payments of one
instant (the sort is stable and the query unordered). The guard of 1000 is the
constant `SafetyGuard`; it is tested after a push, so a schedule has at most
`SafetyGuard + 1` periods. `firstPaymentDate` is the effective one (the start
date when the column is null). Amounts are whole cents; the rounding of sums of
floating-point amounts is not modelled.

`LeaseReports` has one operator per report. The rent roll's `monthEnd` is the
midnight that *begins* the last day, so later payments of that day fall in no
month: the model keeps that, and claims agreement only of what is billed.
`EstimatedPeriods` counts from the first payment date even when it is before
the start, so `ForecastsMatchSchedule` claims the count only for the others.
Overpayment is dropped by the code without a trace; `LedgerIsWaterfall` says it
is dropped only when every period is full.

Payments reach the model as table rows, not through `createPayment`: that
method never sets the NOT NULL column `currency`
(`services/properties/propertyLeasePaymentService.ts` 50-57), so on PostgreSQL
its insert always fails.

### Lease lifecycle (`LeaseRows`, `LeaseLife`, `LeaseLifecycle`)

Workers serve requests. Each `await` of the code ends a step; `seen` is what
the request read and will use later. `Begin` takes any request its validation
lets through, `Insert`/`Load`/`WriteColumns`/`Reload`/`Remove` are the database
statements, `Forget`/`Store`/`Lookup`/`Query` the cache ones. `Abandon` ends a
request at any step: a database error, a Redis connection that
`ensureConnected` cannot make (it throws outside the `try`), or a crash. A Redis
command that fails otherwise changes nothing, so `Forget` and `Store` may do
nothing. `Expire` is the lifetime of a key.

`LeaseLife` is what the operations promise: sign, amend, extend, terminate and
bury, each one write. The refinement maps a row to its lease's life and a
deleted uuid to `Gone`. A history variable, `ends`, keeps the end dates each lease has
had: an extension is to a day after one of them, a termination snaps to one of them, so
dropping the comparison of `extendLease` or the snap of `terminateLease` breaks
`LeasesLive`. That they are the *present* end date is more than the code does: rows are
read in one statement and written in another, so an extension may overwrite the end a
termination has just set (the lease then is terminated, with an end after its
termination), or shorten the lease (`extend_race`), and a termination may snap to an end
that has been extended since. Points taken from the code: the organization is always
the request's, since the cross-check's error is swallowed (line 384); `extend`
does not look at the status; `update` may rewrite status, terms and start date;
`leaseAgreement:<id>` is written and never read; the details and the tenant's
and landlord's lists are never invalidated. The tenant list is the same code as
the landlord's with another filter; the run takes one of them. What the readers
find in the end is `CachesCatchUp` of `CachedServices`.
Left out: columns no step looks at, and the keys of `terms` other than
`termination`.

### Memberships (`OrganizationMemberships`, `MembershipContract`)

The rows of one user in one organization (several, as no unique index covers
the pair), the Redis key of the pair, and concurrent requests. Transactions run
under READ COMMITTED, PostgreSQL's default: a transaction's statements see what
is committed by then. `em.save` is TypeORM's: a SELECT by id that also finds
soft-deleted rows (`Diff`, the columns in which the loaded object differs), then
an UPDATE of those columns (`Save`); as the loaded object has `deletedAt` null,
a save of a row deleted in between restores it. The UPDATE, the reload and the
commit are one step, since the row is locked from one to the other. Whether
TypeORM counts two arrays with equal roles as different is left open. `roles`
is NOT NULL without default, so creating a membership without roles fails
(`Insert`). `findOne` has no order, so it may return any live row.

`MembershipContract` adds `before`: the rows a request began with, or
`Disturbed` once another request has changed a row since. The three properties
about it are relative to that: what overlapping requests do to each other is
decided by which columns each save finds changed, and the code promises nothing
there.

One request does not do what it documents, alone or not. The comment of
`restoreOrganizationUser` (`repositories/organizations/organizationUserRepository.ts`
184-185) says "Restores a soft-deleted OrganizationUser", but the lookup it begins with
(189-192) leaves soft-deleted rows out: what it finds needs no restoring, and what needs it
is not found and answered with an error. The model follows the code (`Find`, `Update`);
`AloneAsPromised` leaves restore out, since there is no promise the code keeps.

### Process lifecycle (`ProcessLifecycle`)

`main` is the place in `startServer`, `init` that of the one initialization
(`initializationPromise`), which the constructors of the repositories start when
they are imported, before `startServer` has its secrets. A step is what runs between
two turns of the event loop. Both SIGTERM listeners run in one such step, that of
`config/database.ts` first, because `server.ts` imports it before it registers its
own; without a server the latter exits at once. SIGINT has only the former. An
initialization that fails for good rejects the promises of the constructors, which
nobody handles, so the process is shut down whether or not `startServer` waits
already. `source` is the object of the last attempt: one whose migrations failed
stays connected, so `initialize` may return it early, and may return one whose
migrations still run. `destroy()` of a pool that is ending is an error;
`isInitialized` stays true until it has succeeded. `server.close` on a closed server
queues its callback again, and each shutdown sets a timer; `timer` stands for the
pending ones. `process.exit()` without a status is 0. A failed `listen` is an
`Uncaught` error. Configuration values are not modelled.

### Cached services (`ServiceSteps`, `AccountMethods`, `PropertyMethods`, `CachedServices`)

The tables of methods write each method of a service as the sequence of what it awaits
(and of the tests between two awaits): `updateUser == Updates(FindOrFail \o Write \o
FindOrFail \o Forget("id") \o Save("id"))`. `Find` loads a row with the relations the
code reads, `FindBare` without them; `Write` is an UPDATE, `SaveRow` TypeORM's `save` of
a loaded entity, which inserts a row that has gone; `ReadFirst(key, steps)` is
`getFromCache` and, on a miss, the steps. A key is named by what it is made of; where
writer and reader build it differently (`tenantsByProperty:<id>` and
`tenantsByProperty:tenantsByProperty:<id>`) they have two names. `Updates` marks the
methods that answer the row as it is afterwards.

`CachedServices` runs these methods: `subject` picks a service and a key its readers
look up, `row` is one row of its table, `entry` what Redis holds under the key, and each
worker has the `rest` of its steps and the copy it has `held` since its last read. Rows
have no columns: a copy is *current* until the row changes. One step is one awaited
operation; tests between awaits run before anybody else (`Turn`). `standing` says
whether a writing request is still alone: no other request has changed row or entry
since it began and Redis took all its commands. The safety properties are about
requests that are alone, so every exception below happens to a single client:

- `WritesRefresh`: 15 services have keys no writer ever touches (`NeverRefreshed`, 32
  keys: every list of tenants, units by number, users by phone and e-mail, the listings of
  properties, locations near a point, ...); 21 methods leave an old copy under a key others
  refresh (`StaleAfter`).
- `AnswersAsWritten`: seven updates answer the row as it was.
- `NoErrorAfterWriting`: `updateLink`, `clearCenterPoint` and `bulkDeleteLinks` read
  relations `findById` has not loaded, `deleteRequest` those of the request it has
  deleted, and `upsertLink` looks in an old list: all five may write and then fail.
- `DeletedStaysDeleted` (of all requests, alone or not): seven methods save an entity
  they loaded, and bring back a row deleted in between.
- `CachesCatchUp` (of all requests): once nobody begins to write, what Redis holds
  becomes current for good. It fails as soon as one reader stores what it found.

`ServedAlone` says what these methods do one at a time. `After` is the steps of
`CachedServices` again, as a function from one situation of a request to the next ones;
`Alone` and `Anyhow` follow it from where each method begins until nothing new comes, `Alone`
with nobody in between but expiry, `Anyhow` with any row and entry requests may have left.
`MethodsAssumption` says that both are complete and that no situation of a request alone
breaks the first three properties above. That the concurrent requests of `CachedServices`
stay within them is proved (section 4).

Simplifications: one row per table, and a creation of a row that is there is refused
(unique columns); filters such as `isActive` are part of the columns; other rows' keys
behave alike; a key that is not considered is always missed (so what a writer finds
under a *second* key is not old: `clearCenterPoint` leaves more behind than shown);
a write of another table in the same method (files, the components of a location; for
credentials and tenancies see `UserAccounts`) is left out, and so are uncached queries.

### HTTP requests (`ApiSchemas`, `ApiHandlers`, `PropertyHandlers`, `ApiRoutes`, `HttpRequests`)

All but the last are tables translated line by line: of a schema the keys of each part
that must or may be there, its defaults and the flags it converts; of a handler the keys
it reads, what it refuses and the calls it awaits; of the routes their order, paths,
middlewares and handlers. `HttpRequests` takes any request that means one of the 198
routes, complete, or without one key or part, from a caller with or without
membership, and runs it: `Handling` is the first route that fits (Express), then one
action per kind of step. A service call gives a result, nothing, or an exception; each
handler catches as its code does. `smooth` says that nothing outside the code went
wrong. The exceptions the properties name are requests that really behave so:

- `Shadowed`: nine routes are registered behind a parameter that takes their requests
  (`GET /properties/listed` is answered by `GET /properties/:id`).
- `Unread`: handlers that succeed without reading what the path names; of these
  `/permissions/:permissionIdentifier` and `/locations/:locationId` read a parameter of
  another name.
- `Impassable`: seven routes no request can pass, because schema, path and service
  demand different keys.
- `CheckedInside`: four handlers call the validation middleware with their own `next`, so
  the router goes on behind their back; `WrittenThenRead`: two updates whose second call
  may fail. Everywhere else a handler turns a request into an error only before its writing
  call has returned (`ErrorsBeforeWrites`). The writing call itself may have committed when
  it throws: Redis is out of reach (`utils/redisCache.ts` 44), or what it reads next is not
  there (`services/locations/locationAddressComponentService.ts` 132, 259;
  `services/properties/propertyRequestService.ts` 108). `written` is then `"maybe"`, and
  `NoErrorAfterWriting` of `CachedServices` says which methods do so by themselves.
- `requireOrgRoleForProperty` awaits a query outside any `try`: when it fails the
  rejection is unhandled and `server.ts` shuts the process down, which is why `Answered`
  has a second disjunct.

Left out: the formats of values, what is inside nested objects, headers and the bodies
of answers.

### User accounts (`UserAccounts`)

`createTenantWithUser` looks a user up by phone, creates it if there is none, sets its
credential to a new PIN, makes it the tenant of the unit and texts the PIN;
`registerUser` does the same by e-mail, without a tenancy. Each statement is a
transaction of its own. The model has the three tables (a user's phone and e-mail, which
users have a credential, which are tenants of the one unit considered), the Redis
entries by phone, and workers that serve `createTenantWithUser`,
`registerUser`, `createUser` or `updateUser` step by step; `deleteUser`,
`createUnitTenant` and `deleteUnitTenant` are single statements. `at` is the next
statement of a worker, `held` the user it has found or made, `inForce` the workers whose
credential nobody has replaced. As in the code:

- the unique indexes of `users` (`entities/users/userEntity.ts` 35-36) hold the tenant,
  which no request sets: NULLs are distinct, so `InsertUser` has no guard, and "User
  with this email or phone already exists." (`controllers/users/userController.ts` 18)
  cannot come from them. Without an order, `findOne` returns any of two users;
- a credential is inserted, then saved a second time (`createUserCredentials` calls
  `create`, which saves, and `save`): `SaveNew` undoes what came in between;
- an invitation that gives other names than the account found has calls `updateUser` first
  (`ReadUser`, `WriteUser`, `ReloadUser`): it writes back the phone it read, and the PIN
  goes to the phone read last;
- credentials and tenancies reference the user, so a user who has one is not deleted;
- a failed SMS changes nothing (`SendSms`); `Abandon` is a database error, Redis out of
  reach or a crash, at any step.

`alone` says that no other request has changed a row since this one began (Redis may
still hold what was true earlier). `NoSecondForSearched`: while alone, and whatever the
cache holds, an invitation makes no second account for the phone, and a registration none
for the e-mail, it has searched for. It is about the searched column only. Without any
overlap an invitation may make an account with an e-mail another one has, a registration
(`services/users/userService.ts` 111-113) one with a phone another one has, and `createUser`,
which asks nobody, one with both taken: the message "User with this email or phone
already exists." has no check behind it.
`PinOpensAccount`: a PIN that is texted belongs to an
account that exists and has a credential, and is that credential if the request was
alone. `PinsReachTheirPhone`: nobody refreshes the entry by phone, so the PIN of an invitation may
go to the phone an account *had*, but not for ever. `InvitationsHeal`: whatever an invitation
left when it stopped (a user without credential, a credential without tenancy), inviting
again and again makes the person a tenant with a credential, once nothing fails, as
long as accounts do not change or leave and there are uuids left (the model's are few).

Simplifications: the entries by e-mail are not followed, so `registerUser` may find nothing
there or a copy of any account there is or was, with any phone; an `updateUser` always
sets phone and e-mail (what it does not send keeps a value the account had, which is one
of them); expiry and attempts of credentials, and the copy cached under the id, are left
out; uuids are not used twice.

## 3. Runs

| Run | Result | What it shows |
|---|---|---|
| `lease_ledger` | passes | `TypeOK`, `ScheduleWithinTerm`, `OldestPeriodFirst`, `EachCycleBilledOnce`, `LedgerIsWaterfall`, `ReportsMatchLedger`, `ForecastsMatchSchedule` |
| `lease_lifecycle` | passes | `TypeOK` and `LeasesLive`: racing writers implement `LeaseLife` |
| `cached_services` | passes | `TypeOK`, `WritesRefresh`, `AnswersAsWritten`, `NoErrorAfterWriting`, `DeletedStaysDeleted`, `CachesCatchUp`; evaluates `MethodsAssumption` |
| `http_requests` | passes | `TypeOK`, `ReachesItsRoute`, `ActsOnItsResource`, `FieldsArrive`, `WellFormedServed`, `ErrorsBeforeWrites`, `UpdatesOnlyWhatWasSent`, `Answered` |
| `memberships` | passes | `TypeOK`, `AloneAsPromised`, `OneMembershipAlone` |
| `arrears_age` | violated | the arrears report dates a debt from the oldest period, paid or not |
| `monthly_anchor` | violated | a monthly lease first due at a month's end leaves its day, and skips a month, after a short one |
| `extend_race` | violated | of two overlapping extensions the later write may shorten the lease |
| `membership_refresh` | violated | the refresh after a status change stores the old status again |
| `user_accounts` | passes | `TypeOK`, `PinOpensAccount`, `NoSecondForSearched`, `PinsReachTheirPhone`, `InvitationsHeal` |
| `process` | passes | `TypeOK`, `ErrorsDrain`, `ListensOnDatabase`, `StopsWhenAsked`, `StartSettles` |
| `process_sigterm` | violated | on SIGTERM the process exits with status 0 while requests are open |

A violated run checks one sentence of a comment or a log against the code; the
findings in `PROJECT.json` quote it. Every property of a passing run has a
mutant: a plausible bug of the modelled code (a dropped merge, an off-by-one, a
missing reset) under which TLC finds the property violated.

### Bounds, and why they are enough

- `lease_ledger`: nine leases chosen for their dates, not for their number: month
  ends before a leap and a common February, each frequency, a first payment before
  the term, within it and after its end, and a lease that ends before it begins;
  every table of up to two payments and some of three (amounts below, above and
  across the period's amount 2; instants at midnight and later in the same day, one of
  them the last of a month); a guard of 4, which cuts the weekly lease short.
- `lease_lifecycle`: two leases (one start date can be contended), two workers (every
  pairwise race), three writes (create and two racing changes; `LeasesLive` is proved for
  any number), three days (an order with a middle). Leases and workers are symmetric.
- `cached_services`: two workers (every pairwise race), each service and key by itself,
  any number of requests. Services share no table and readers of different keys no
  entry, so nothing is lost between them. Liveness, so no symmetry. `MethodsAssumption`
  has no bound: it takes every service, key and method, from every row and entry they can
  meet (`Rounds` is none: where 40 steps were too few the assumption would be false). A
  mistake in a table of methods makes it false before any behaviour is explored, so the
  mutants of this run are of the actions.
- `http_requests`: every route, every request that is complete or lacks one thing, every
  outcome of each call. There is one request: handlers share no state but the services'.
- `memberships`: two rows (the smallest number with a duplicate), two roles, one
  status and none, two workers, three writing requests and any number of
  reads. The violation runs need no more than that.
- `process`: two requests (one may hang while another ends) and two attempts (one
  that is repeated and one that is the last). Everything else is unbounded; the run
  is exhaustive.

- `user_accounts`: two workers, two accounts (a second one for a phone is the smallest
  duplicate), two phones (an account may change its), one of them invited, one e-mail
  (so lookups by e-mail meet every account), any number of invitations and one other request
  (`MaxOthers`): an update, a deletion, a removal, a registration or a creation that
  meets them at any step. Liveness, so no symmetry.

`MaxWrites` and `MaxRequests` bound write requests only, `MaxOthers` all but invitations; reads, failures and
expiry are unbounded. Runs of request systems switch the deadlock check off
when the bound stops the writers; `cached_services` and `user_accounts` keep it on, for requests go on,
and `http_requests` ends with its request.

### Fairness

`WF(Serve(w))` (with `Turn` in `CachedServices`, and `WF` of the steps of the one request in
`HttpRequests`): a request in flight takes its next step, because the event loop
runs every settled promise and the drivers' timeouts settle the others.
`WF(Expire(key))`: Redis removes what was set with `EX`. Neither `Begin` nor
`Abandon` is fair: nobody has to send requests or fail. `CachesCatchUp` and
`PinsReachTheirPhone` need exactly these two; nothing in the code makes a stale copy go
away earlier. That people are invited again, and that failures end, are hypotheses of
`InvitationsHeal`.

In `ProcessLifecycle` the steps of the start (`LoadSecrets`, `Initialize`) are fair
because the SDK's and the driver's timeouts end them, `Drained` and `TimerFires`
because the event loop runs their callbacks, `Destroy` because ending a pool ends or
fails. Requests are not: `Finish` may never happen, which is why `StopsWhenAsked`
needs the timer. Nor are signals and errors.

## 4. Proofs

Assumptions on constants: `LedgerAssumption` (leases and payments are well-typed
rows, dates are dates of the calendar, as in a `date` column; the payments of a table have
different ids, the primary key; tables are finite), `ReportsAssumption` (the reports are
asked for dates and months), `RowsAssumption` and `LifecycleAssumption` (the null values
are no rows, changes keep rows well typed), `MembershipsAssumption`, `AttemptsAssumption`,
`ServicesAssumption` (the null method is no method), `AccountsAssumption` (null is no user,
phone or e-mail). `MethodsAssumption` is of another kind: it is about no constant, but a
closed formula about the tables of methods, each of which runs to its end in a finite
number of situations. TLC decides it by computing them; the provers, which cannot unfold
that computation, take its truth from there. TLC evaluates all nine in the runs above.

- `LeaseLedgerProofs`. `AddByFrequencyAdvances`: stepping any date by any
  frequency gives a later date. `TypeCorrect` by `TypeInv` (a request past its
  first step has a lease; inside the period loop it has a payment).
  `ScheduleAlwaysWithinTerm` by `ScheduleInv`: the next due date is beyond every
  period pushed so far, without which the order of the dates is not inductive.
  `AllocationIsFifo` by `FifoInv`: while a payment is being poured, every period
  before `k` is settled or nothing is left; before any payment nothing is paid.
- `RecursionFacts`. The library states induction with an operator as parameter, which the
  provers cannot instantiate; in the form about a set of naturals (`WFMin`, a set that is
  not empty has a least member) they can. From it follow what the proofs about the reports
  need: a recursive function over a table exists and obeys its equation, a walk from one
  period to the next meets every period in order, and `SumFunctionOnSet` adds, splits and
  compares as sums do.
- `LeaseReportsProofs`. `CyclesAlwaysBilledOnce` by `ChainInv`: the periods pushed so far
  and the next due date form one chain, each link `AddByFrequency` of the one before; with
  the arithmetic of day numbers two periods never fall on one day, nor skip a cycle.
  `LedgerAlwaysWaterfall` by `WaterInv`: the queue is a permutation of the payments
  (`QueueInv`), each period holds what the sum poured so far, less the periods before it,
  leaves it (`LevelInv`), and the slices of a payment add up to what has been poured of it
  (`ShownInv`). `ReportsAlwaysMatchLedger`: the rent roll and the arrears report bill the
  initial part of the schedule that is due by their date. `ForecastsAlwaysMatchSchedule` by
  `ForecastInv`: the loops of the forecasts, which start from the first payment date, come
  by the date the ledger starts its schedule with.
- `LeaseLifecycleProofs`. `TypeCorrect` by `TypeInv` (what a worker has seen and will write
  fits its request and its step: without it nothing says that a write keeps a row well
  typed). `LeasesLiveAsPromised`: `Spec => LeasesLive`, by the
  refinement mapping `LifeOf` and the invariant `WriterInv` (a deleted uuid has
  no row; the end date of a row is recorded in `ends`, and so is that of the row a worker
  has loaded to extend or terminate a lease, however old it is; requests are well typed at
  each step). Each database step maps to one abstract action or to a
  stutter, every other step to a stutter.
- `MembershipProofs`. `TypeCorrect` by `TypeInv`, which adds that a held or
  cached membership has a row. `PromisesKept` and `DuplicatesNeedOverlap` by
  `AloneInv`: the rows of an undisturbed worker at a database step are those it
  began with, and the membership and dirty columns it holds are what its request
  makes of them.
- `ProcessProofs`. `TypeCorrect` by `TypeInv` (a delay is followed by another attempt,
  so one is left; without it the attempt is not bounded). `ListensAlwaysOnDatabase`
  by `ListenInv` (migrations run on an initialized data source).
  `ErrorsAlwaysDrain` by `DrainInv`: the callback of `server.close` awaits `destroy()`
  only when no connection is open, and only a signal makes `config/database.ts`
  close the pool.
- `UserAccountsProofs`. All for any numbers of users, workers, phones and e-mails.
  `TypeCorrect`; `PinAlwaysOpensAccount` and `NeverSecondForSearched` by
  `AccountsInv`: the user a worker goes on with has a credential once that step is past, and
  keeps it, since a credential references its user; while nobody else changes a row, its PIN
  is in force, the user it texts is a tenant, and no account matches one it is about to make.
- `CachedServicesProofs`. For any number of workers. `TypeCorrect` by `TypeInv` (a worker
  that serves nobody has nothing to do). `DeletedAlwaysStaysDeleted` by `CalmInv`: what a
  worker has still to do makes no row, unless its method creates or restores, or is one of
  the seven `Resurrecting`. That follows for each of the 32 services from laws about
  sequences of steps (`Formed`, `Calm`: what concatenation, branches and reads preserve), so
  the proof follows the tables method by method and not state by state.

  `NeverErrorAfterWriting`, `AlwaysAnswersAsWritten` and `WritesAlwaysRefresh` rest on
  `AloneInv`, an inductive invariant that joins what one request does to what many do:
  `ServedAlone` computes the situations (steps left, copy held, row, entry) of a request
  alone and of one in the midst of others, and every action of `CachedServices` is shown to
  keep each worker within them. The worker that steps follows `After`
  (`ServeAlone`); when it changes row or entry, a worker beside it finds its copy grown old
  at most, and if that one is writing it counts as disturbed (`OthersAlone`). That is why
  the invariant must speak of disturbed requests and of readers too: what they leave behind
  is where the next request begins. The three theorems follow: each holds in every
  situation of a request alone, which is what `MethodsAssumption` says. So TLC contributes
  the sequential part, a finite computation, and TLAPS that any number of concurrent
  requests adds nothing to it.

Only model-checked: liveness (`CachesCatchUp`, `PinsReachTheirPhone`, `InvitationsHeal`,
`StopsWhenAsked`, `StartSettles`, `Answered`), which is out of the reach of TLAPS; and the
properties of `HttpRequests`. That model has no constants and one request: TLC has
enumerated every behaviour it has, and a proof would repeat the enumeration.

## 5. Not modelled

Not modelled: two links of one location and its single primary (`ensureSinglePrimary`,
`services/locations/locationAddressComponentService.ts` 209-221: read and write in two
statements, so overlapping requests can leave two primaries; `CachedServices` follows one
row), the filters a cached list was made with
(`services/properties/propertyUnitService.ts` 236), file records and blobs, the sums over the leases of a property.

Left out for good: cryptography, the policy engine, SMS, rate limiting and the
broker (their behaviour is external), the audit trail (its wiring in `server.ts` is
commented out), and the entities of domains no service uses.
