# Fleet telemetry server: a TLA+ verification project

The repository is a NestJS server for a fleet of vehicles: devices post readings, dashboards
follow them over WebSocket, operators keep vehicles, fleets, accounts, roles and notifications.
It keeps rows in Postgres (TypeORM), keys in Redis, an audit log in MongoDB and a job queue in
Redis (Bull), and runs one process per CPU. Paths below are relative to the repository's root.

## 1. Inventory

| Component | State it keeps | Operations | What is hard | What makes it correct |
|---|---|---|---|---|
| Telemetry ingest (`src/telemetry/telemetry.service.ts`) | rows of `telemetry` | `ingestTelemetry`, `getLatest`, `getHistory` | lookup, emit and save are separate steps; a throwing emit and a failing save are swallowed | live view, history and answer agree |
| Telemetry gateway (`src/telemetry/telemetry.gateway.ts`) | map socket → fleets, socket.io rooms | connect, disconnect, subscribe, unsubscribe, `broadcastToFleet` | map and rooms kept in step by hand; one gateway per process | subscribers, and only they, are served |
| Cluster (`config/system/cluster.ts`) | the processes | fork at start, `exit` handler | a process dies with calls, sockets and jobs in it, and the handler, which logs "Starting a new worker", forks none | what it held ends or is taken over by the rest |
| Vehicles, fleets (`src/vehicle`) | rows of `vehicles`, `fleets` | create, update, delete, assign, lists | read-then-save over TypeORM, whose `save` reloads, compares, updates or inserts | keys hold; a save changes what its body says |
| Sessions (`src/auth/auth.service.ts`, `src/cache`) | refresh, session and reset keys in Redis, passwords | `signIn`, `refreshAccessToken`, `logout`, `resetPassword` | several Redis commands per operation, errors swallowed, tokens equal within a second | tokens live as long as promised and no longer |
| Registration (`src/auth`: two register routes, `signUp`, `registerAccount`) | rows of `users` | register staff, register an administrator | looked up as typed, stored in lower case; the body is spread into the entity; errors rewritten twice; lost answers | one account per address; the answer says what became of it; administrators are made by granters |
| Roles and privileges (`src/auth`) | roles, privileges, their join table | create role, create privilege, assign; guards | lookups that nobody awaits; a body that is cascaded into the role; `save` writes a difference | roles hold what was assigned, by who may |
| Cache (`src/cache`) | Redis keys | set, get, delete; lists, hashes, counters without callers | two commands per `set`; swallowed errors | see Sessions |
| Notifications (`src/notification`) | Bull's jobs | send e-mail, SMS, push; processor's callbacks | retries, stalled jobs, lost answers | what is called sent was sent, boundedly often |
| Audit log (`src/audit`) | documents in MongoDB | `log`, `searchLogs` | errors swallowed; two parallel queries per page | one record per attempt |
| Pagination (`common/utils/pagination.ts`) | none | `generatePagination`, used by seven lists | rows arrive between pages and queries | a walk misses nothing |
| HTTP pipeline (`src/main.ts`, `config/logger/http-error.filter.ts`, `src/request-context`) | what `main.ts` installs | guards, interceptors, pipes, handler, filter | the order of the stages, and an interceptor that throws | nothing passes a stage that should stop it; every call is answered |
| Logging, configuration, request context | none of interest | — | — | — |

How they interact. Controllers call services; ingest calls the gateway's `broadcastToFleet` and then
the repository; deleting a vehicle races with the readings that refer to it; auth uses the cache
service; the push processor calls the audit service; every list calls `generatePagination`. All of
it runs in each process of the cluster, which share the databases and nothing in memory.

## 2. Modules and how they correspond to the code

A step boundary is an `await`: what runs between two awaits on one event loop is one action, and a
query or command takes effect in one action. Calls are model values that are made once.

**`TelemetryPipeline`** — one reading's way. `IngestLookup` is `findOne`, which finds the vehicle,
does not (404) or rejects (500, for it stands outside both `try` blocks); `IngestBroadcast` builds
the payload and emits, or the emit throws and is logged; `BeginSave`/`CommitSave` are TypeORM's
transaction (its start stamps `createdAt`, its end makes the row visible), `RefuseSave` the foreign
key's answer, `FailSave` any other failure, perhaps with the COMMIT on its way: then the row is
`pending`, and `LateCommit` or `Rollback` decides after the call has gone on. `Answer` returns.
`HandleConnection` ... `HandleUnsubscribe` are the gateway's handlers, with `subscriptions` and
`joined` kept apart as the code keeps them. `RemoveVehicle` and `ReinsertVehicle` are what the
vehicle service does to the rows that readings refer to. `WorkerExit` is a process's death. `sent`,
`muted`, `earlier`, `removed` are history variables.

**`FleetRegistry`** — `VehicleService` and `FleetService`. Each operation reads its entity
(`FindOne`, `GetFleetById`, `FindAssigned`), then `save` reloads (`LoadVehicle`, `LoadFleet`)
and writes (`WriteVehicle`, `WriteFleet`), or `remove` deletes by id. The constraints of Postgres
(`VinTaken`, `NameTaken`, `FleetMissing`) turn a write into an error. `overtaken` remembers that
what a call read was changed before its save reloaded it.

**`Sessions`** — `signIn` is `SignIn`, `Compare`, `SetSession`, `SetRefresh`, `ExpireRefresh`;
`refreshAccessToken` is `RefreshAccessToken`, `GetKey` and the same `SetSession`; `logout` is
`Logout`, `DelKey`; `resetPassword` is `ResetPassword`, `SavePassword`, `DelReset`. Each of them may
be refused before the service is called (`TurnAway`: 429 by the throttler, and for a logout 401 by
`AuthGuard` when the access token is no longer good), which leaves every key as it is. A clock stands
for JWT expiry and Redis' time to live. The writer of `reset-password:<userId>` is not in the
repository and is modelled as external (`MailResetToken`).

**`AccessControl`** — `Admit` is `JwtStrategy.validate` and `PrivilegesGuard`; `FindRole` starts the
lookups of `assignPrivilege`, each of which comes back in a `Lookup` of its own, before or after
`Reload` and `Save`; `LookupFails` is the rejection nobody handles, which ends the process.
`CreateRole` is `save` of whatever the body makes of a role: `AppModule` strips nothing from it, so
it may name the id of a role that exists and list privileges, which the relation cascades.
`Inserted`/`Deleted` are the difference TypeORM writes to the join table, at the end of either
operation's `Save`.

**`PushQueue`** — `Arrive` to `Answer` are `POST /notifications`. `Take`, `NextState`, `Promote` and
`CheckStalled` are Bull, modelled from the options and callbacks the code gives it;
`HandleSendPush`, `OnCompleted`, `OnFailed` are the processor's methods, `GetStrategy` the factory
with the three strategies' `send` (the SMS one writes to the console and reaches nobody), `LogAudit`
the audit service. The constant `Processors` says which workers provide the processor: in the code
as composed, none.

**`Paging`** — a client that asks one of seven lists for a page and follows `nextUrl`. `Find` and
`Count` are the two queries, in the order TypeORM makes them (with its shortcut, `Concludes`, for a
page that has not the size asked for and is not an empty one after others) or in either order for
the audit log. `Take` and `Fails` are what the databases make of a size: 0 is no limit to either,
a negative one is its absolute value to MongoDB and an error to Postgres. `GeneratePagination`
checks, after the queries, and links; `Insert` is a row that somebody else saves. No code deletes
rows of the five lists that can answer, so there is no deletion.

**`Registration`** — a call to one of the two register routes, from guards to answer. `Arrive` is
the throttler and, on the administrator's route, the bearer token; `Validate` is
`JwtStrategy.validate` with `PrivilegesGuard`; `Enter` the interceptors, of which `main.ts` adds
one that throws (`Throws`; `installed` says who composes the server); `FindUser`,
`GetRoleByName`, `Reload` and `RegisterAccount` are the awaits of `signUp`, each of which may fail,
the last one before or after its effect. `registerAccount` spreads the body into the entity: a body
may set `isEmailVerified`, and with the `id` of a row it makes the save an UPDATE of that row, which
`Reload` reads and `Write` changes where the two differ. `Rethrown` and `Catch` are what the catch
blocks and the exception filter make of an error. `CreateRole` and `AssignPrivilege` are other
administrators at work (their detail is in `AccessControl`). `past` is a history variable: rows as
they were before an UPDATE. `Eligible`, the accounts that `signIn` asks for a password, is the
interface to `Sessions`: `ConfirmedByBody` says when an account comes to be one of them.

**Abstract specifications.** `ReadingLog` is what devices and dashboards may rely on: a reading is
shown at most once, kept at most once, and neither after its call was answered, but for one that the
database failed while it kept it, which stays in doubt until the database decides.
`TelemetryPipeline` implements it (`KeepsReadingLog`) with `telemetry` for the log, `pending` for
what is in doubt, `inbox` for the feeds, `sent` for what was shown; workers, vehicles, transactions
and subscriptions are hidden. `Outbox` is the push queue without workers, locks, attempts and
backoff: accept, deliver a bounded number of copies, settle once, nothing after. `PushQueue`
implements it (`KeepsOutbox`) with `Fate` of Bull's state for `fate` and the deliveries of push
messages for `copies`. `TokenStore` is what a client may rely on of a refresh token, without
accounts, passwords and cache commands: a token is live from before its sign-in is answered until it
expires or a logout names it, and an unexpired token is refreshed if it was live at some moment of
the call, refused if it was not; a call that is turned away changes nothing, a logout included.
`Sessions` implements it (`KeepsTokenStore`) with the keys that have not expired for `live`, the
tokens that calls have signed for `issued`, and its calls but those of `resetPassword`, which touch
no refresh key. All three refinements are checked by TLC on the runs below and proved (section 5).

**Theorems** (section 5) are in modules of their own: `TelemetryPipelineProofs`, `PushQueueProofs`,
`RegistrationProofs`, `AccessControlProofs`, `SessionsProofs`, `TokenStoreProofs` (which extends
`SessionsProofs`), `FleetRegistryProofs`, `PagingProofs`. `MC*.tla` add symmetry sets and state why
the instance is finite.

## 3. Runs

| Run | What it asks | Result |
|---|---|---|
| `pipeline` | two overlapping readings, one vehicle deleted and inserted again, one dashboard, failing lookups, emits and saves, exit | all its properties hold, and it implements `ReadingLog` |
| `pipeline_two_workers` | README.md:60, "WebSocket cluster backed by Redis Pub/Sub" | violated: the gateway emits in its own process only |
| `registry` | three overlapping calls from every consistent pair of tables | keys hold; lost updates and returning rows only through overtaken saves |
| `registry_manager` | a fleet has a manager | violated: a rename overtaken by a deletion inserts the fleet without one |
| `sessions` | three calls over a clock, failing Redis, exits | an issued token works, a reset token works once; it implements `TokenStore` |
| `sessions_same_second` | four calls within a second | a logout that was answered as done is final, but for a failed DEL and twin tokens |
| `access` | two overlapping administrators' calls, every join table | no role gains what no call named for it, or changes by a call that was not entitled; a lone call replaces |
| `access_named` | assign-privilege.dto.ts:14, "the privileges to assign" | violated: the save overtakes the lookups |
| `push` | a push job over three workers, two of which exit | ends, boundedly repeated, audited once; it implements `Outbox` |
| `push_as_composed` | notification.controller.ts:17, "sent successfully" | violated: nobody takes the job |
| `paging` | walks over a growing list, any page size | nothing missed (but in the audit log), repeats explained |
| `registration` | two overlapping register calls, every table of roles and accounts, failures, lost answers, exits | one account per address, true answers, administrators by granters, nobody confirmed but by a body |

What the negative results mean is quoted with its lines in `PROJECT.json`, "findings". Met while
modelling and not given a run: `createVehicle` hands `fleetId` to an entity that has no such
property, so a vehicle is created without the fleet its body names; `GET /fleets` and `GET
/vehicles` declare `req` without `@Req()`, so they always answer 500 (`WithoutRequest` in `Paging`);
`searchLogs` reads `limit` while `nextUrl` adds `perPage`; the `exit` handler of cluster.ts:33 logs
"Starting a new worker" and forks none (`WorkerExit`: `alive` only shrinks); the interceptor that
main.ts:44 installs answers 500 to every call that passes the guards (`Throws` in `Registration`);
auth.service.ts:108 says "Request a confirmation email" and nothing calls `confirmAccount`, so an
account that registers can sign in only if its own body calls it confirmed, or rewrites the row of
one that is (`ConfirmedByBody`); a `createRole` that names the id of a role rewrites it, and a
registration that names the id of an account does (user-role.repository.ts:26,
user.repository.ts:37); `perPage=0` reads the whole list before it is refused; an SMS is answered as
sent and goes to the console.

`WalkIsComplete` is worth a remark: it holds for the lists that TypeORM counts after it has found,
and needs its exception (`late`) for the audit log. There the count may precede the page's query,
and a record that comes in between pushes an older one off the last page, unseen.

### Bounds and why they are enough

Calls, sockets and jobs are made once, so every bound is a constant of a `.cfg`.

- `pipeline`: the hazards are between two readings of one vehicle, a deletion and a subscriber. A
  second vehicle or socket shares no state with the first but the rooms; a third reading adds
  nothing to order that two do not show. The proofs drop these bounds.
- `registry`: a lost update takes two calls, a row that returns two, and three allow one call
  between the read and the reload of another. Two values of each key suffice for a clash.
- `sessions`: `Life = MaxTime = 2` lets a token expire within a run; three calls are a sign-in, a
  logout or reset, and a use. The second run trades time for a fourth call, since two equal tokens
  need two sign-ins.
- `access`: two roles tell "its role" from another; a body holds any set of the privileges, each of
  them once or twice.
- `push`: three workers and `MaxStalled = 1`, Bull's default, let a job stall twice and be given
  up; `Attempts = 3` is the code's. One call: jobs share only the processors' time, and the
  theorems of section 5 hold for any number of them.
- `paging`: five rows are three pages of two or five of one, the last page full or not; the
  first page asked for is 0, 1 or 2, the size -1 to 2.
- `registration`: a race for an address takes two calls, and a second address tells its account
  from others. `BodiesMC` has an address in both cases, with a confirmation and without, the id of
  the other account with its own address and with the first, and the id of the row that another call
  may have made. Bodies ask for the role ADMIN, the one that would matter; both routes overwrite it.
  The two roles are the ones the routes assign. The theorems cover any number of each.

### Fairness

`FairSpec` of `TelemetryPipeline`, `PushQueue` and `Registration` only. Weak fairness per call: an
event loop that runs resumes a promise that settled, and databases answer or fail (the failure is a
step too). Bull's processors take waiting jobs, promote delayed ones and check for stalled ones by
timers that run as long as the process does; `JobsEnd` therefore excuses the case that no processor
lives. Nothing forces a client, a socket, a clock tick or a process's exit.

## 4. Findings in short

Four documented statements that the code does not keep are the four `violation` runs above. All
other properties, those a reader of the code would doubt included, hold on the instances.

## 5. What is proved

`TelemetryPipelineProofs`, for any numbers of vehicles, fleets, requests, sockets and workers, from
`PipelineNames` only (the special names differ from the ordinary ones):

- `TypeCorrect`: `TypeOK` is inductive.
- `LifecycleHolds`: `Lifecycle`, one conjunction `CallAt(r)` per request, ties a call's phase to its
  body, answer, row and broadcast. None of the safety invariants is inductive alone: that a stored
  reading was emitted, or its emit threw, needs to know that a call which reached `saving` has been
  through the broadcast. With it, `StoredWasBroadcastHolds`, `NoOrphanReadingHolds` and
  `AcceptedButNotStoredHolds` are immediate.
- `StampedHolds`, `InboxOrderedHolds`: stamps of ended transactions lie behind the clock, and a
  reading in an inbox was sent; both relate a call to the calls answered before it arrived
  (`earlier`). `DeviceOrderKeptHolds` follows. The helper lemmas `OutsideIngest`, `InboxGrowth` and
  `PhaseAdvances` say once which actions can touch what.
- `KeepsReadingLogHolds`: initial states map to initial states, and under `TypeOK` and `Lifecycle`
  every step maps to `Show` (a broadcast), `Keep` (a commit), `Doubt` (a failure with the COMMIT on
  its way), `Drop` (its rollback), `Reply` (an answer) or a stutter. `Lifecycle` is needed for the
  guards: that a call which broadcasts has not done so before, that one which commits has not been
  answered unless its save is in doubt, and that a call answered 404 or 500 was never shown.
- `AgreementHolds`, `DeliveredOnlyToSubscribersHolds`: the gateway's map and the rooms agree for
  every open socket, from which the action property follows.
- `LatestNeverGoesBackHolds`: a stored reading's stamp and vehicle never change while it is there
  (`StoredIsFinal`), and a transaction that commits adds to what `getLatest` chooses from.
- `EverySubscriberServedByOneWorker`: `EverySubscriberServed` for a single worker, as in development
  mode (`cluster.ts:12`), from `Agreement` and `Homed` (every open socket is held by a worker). The
  hypothesis cannot be dropped: run `pipeline_two_workers`.

`PushQueueProofs`, for any numbers of calls, workers and processors and any limits, from
`QueueConstants` only:

- `InductiveHolds`: `Inductive` joins `TypeOK`, `JobAt(r)` and `RecordsAgree`. `TypeOK` alone is not
  inductive (that a counter stays in range needs that a running job has attempts and stalls left),
  and neither is `DeliveriesBounded`: `JobAt` counts the attempt in hand separately, since its
  message may be out before its outcome is known. `RecordsAgree` places each audit record against
  the job's counters. `TypeStep`, `JobStep` and `RecordsStep` have one step per action.
- `TypeCorrect`, `SentWasDeliveredHolds`, `DeliveriesBoundedHolds`, `AuditedOnceHolds` follow. They
  cover what the run's single call cannot: jobs that compete for processors.
- `KeepsOutboxHolds`: every step maps to one of `Outbox` or a stutter, under `Inductive`. The
  bound on copies comes from the counters of attempts and stalls.

`RegistrationProofs`, for any numbers of calls, addresses, roles and bodies, from
`RegistrationConstants` and `RegistrationRequests` (the two roles exist; the special value is no
address, role or call; an id is given by a row of the start or by a call, never by both):

- `InductiveHolds`: `Inductive` joins `TypeOK`, `Rows` and one `CallAt(c)` per call. The unique key
  gives one row per stored address; that it is one per address in any case needs that every row is
  in lower case (`Rows`), which an UPDATE keeps. That an answer is true when given is a matter of
  one step; that it stays true needs `past`, since another call may rewrite the row, and that no
  other call's write is taken for this one's (`OtherCalls`). `SeenAt` says what a save still knows
  of the row it reloaded: that it is there, and as it was unless another call names it too. `Writes`
  and `WriteStep` say once what an INSERT or UPDATE does to the table and to the invariant;
  `QuietStep` treats the steps that leave it alone.
- `TypeCorrect`, `OneAccountPerAddressHolds`, `AnswersTrueHolds` follow, and two action properties:
  `AdminsByGrantersHolds`, for which `CallAt` carries the guard's verdict over the awaits up to the
  save, and `ConfirmedByBodyHolds`, which needs that a reloaded row which was confirmed still is
  there to be named. `UsersChange` says that only a save changes accounts, and one row of them.

`AccessControlProofs`, for any numbers of roles, privileges and calls, from `AccessNames` (the
three privileges that the guards ask for exist, and no set of privileges is the special value):

- `InductiveHolds`: `Inductive` joins `TypeOK` and `CallAt(c)`. `TypeOK`, by which every grant is of
  a privilege that exists, is not inductive alone: it needs that what a call holds has been found,
  and that a role which a save has reloaded goes on to exist. `CallAt` keeps what a call looks for,
  and what its lookups brought, within its own body's entries, so that a late lookup cannot carry a
  privilege to another role, and keeps the guard's verdict with the call.
- Three action properties, from `OnlySavesWrite` and `WhoWrote`. `ChangesAreByTheEntitled` takes the
  verdict from `CallAt`. `GainsWereNamed` rests on `InsertedWasNamed`: a body without privileges
  goes by those that its reload showed, so it inserts none. `LoneCallsReplace` needs that a call
  which no other has cut into has seen its role as the table has it when it writes the difference
  (`Difference`).

`SessionsProofs`, for any users, passwords, tokens, calls, lifetime and bound of the clock, from
`SessionsConstants` and `SessionsNone`:

- `InductiveHolds`: `CallAt(c)` says where a phase puts a call in the code (`Place`), what it holds
  (`Holds`), and what its answer promises of a key (`Kept`, `Gone`, `Spent`); `PairAt(c, d)` speaks
  of a call that was answered before another began. `IssuedTokenUsable` is not inductive: between
  the SET and the EXPIRE of `setRefresh` the key has no end, and a second sign-in of the same second
  may be about to write the same key; `Kept` bounds the key from below by the token's own end.
  `LogoutIsFinal` needs that nobody writes the key again, which holds only if the one sign-in that
  was handed the token is over (`Gone`, `Sole`), and that a refresh which was in flight at the
  logout is not one that began after it (`RefusedAfter`). `IsFiniteSet(Signers)` gives cardinalities
  their meaning.
- The step lemmas say once per action what it changes; `OtherCall` and `OtherPair` carry the
  invariant over for the calls that a step does not touch.
- `TypeCorrect`, `IssuedTokensUsable`, `LogoutsAreFinal`, `ResetTokensUsedOnce` follow.

`TokenStoreProofs`, from the same assumptions: `KeepsTokenStoreHolds`. Under `Inductive` and `Ready`
(a written key outlives its token, and a call that has not begun has not failed) every action maps
to one of `TokenStore` or a stutter (`SignInMaps` to `ExitMaps`). `Frame` and `View` say what a step
of one call leaves of the mapped state of the others. `Ready` is what makes the clock's step legal:
no key goes before its token does.

`FleetRegistryProofs`, for any numbers of vehicles, fleets and calls, from `RegistryNames`:

- `InductiveHolds`: `Inductive` joins `TypeOK`, `TablesConsistent` and `CallAt(c)`: what a call read
  (`EntityAt`), that it is still so unless the call was overtaken (`Fresh`), and how little its save
  then writes (`PlanAt`). `TablesConsistent` needs the types of what is written; that a save is
  confined needs `Fresh` at the reload and `PlanAt` at the write. `OvertakeSound` shows
  that `overtaken`, a history variable, misses no change.
- `TypeCorrect`, `TablesStayConsistent`, and two action properties, `SavesAreConfined` (the lost
  update only when overtaken) and `DeletesAreFinal` (a deleted row returns only by a save that had
  read it).

`PagingProofs`, for any finite set of rows and any pages and page sizes, from `PagingConstants`:

- The argument is about places: `Rank(S, k)` is the place of row `k` in the list `S`, and `Reach`
  the last place that the pages read so far cover. `RankOnto`, `RowsBetween` and `PageRows` say
  which places a page of `Skip` and `Take` holds; `RankInsert`, that an arrival moves a row down by
  one place at most.
- `InductiveHolds`: every row still to come lies beyond `Reach`, and what will be shown again is
  bounded by the arrivals (`WalkAt`); what the count says of the rows still to come (`CountAt`);
  that a page which was followed to has rows (`PageAt`). `WalkIsComplete` speaks of the end of a
  walk only, so it needs all of this on the way.
- `TypeCorrect`, `WalksAreComplete`, `RepeatsAreBounded`, `NextPagesHaveRows` follow.

Only model-checked: liveness (`EveryIngestAnswered`, `JobsEnd`, `EveryCallAnswered`), which is out
of this prover's reach. Every other property of a passing run is stated by a theorem.

## 6. Not modelled, and why

- The rest of the HTTP pipeline. `RequestContextInterceptor`, which `main.ts` installs globally,
  throws in `intercept`; composed by `main.ts`, no request reaches a handler (`Throws` in
  `Registration`). So the other modules model the services as `AppModule` composes them, which is
  how the repository's own end-to-end test runs them. The global pipes and `TransformInterceptor`
  come after the one that throws, and without `main.ts` they are not installed: nothing runs them.
- Without the pipes nothing holds a body to its class. The models take bodies that have what the
  class asks for, and, where the code takes a body over whole (`createRole`, `registerAccount`), the
  further members that the properties can tell: `id`, `userPrivileges`, `isEmailVerified`. Left
  out are a body that lacks a member; one that renames a privilege or role, or moves its rows
  (`AccessControl` identifies a privilege's row with its name; `Paging` assumes that nothing is renamed
  during a walk); the users of a role; and other columns, `deletedAt` among them. `Sessions` takes
  accounts, and their passwords but for `resetPassword`, as given: that a registration naming an id
  rewrites an account, password included, is in `Registration` alone.
- `confirmAccount` (no caller), `RolesGuard` (guards no route), the list, hash and counter commands
  of the cache (no caller, so no interleaving of `setList`'s three commands can arise), the request
  context (`run` is never called).
- Rows with equal `createdAt` in a paged list: the database's order of ties is unspecified, so a walk
  may then miss or repeat one; `WalkIsComplete` and `RepeatsAreArrivals` say so.
- Text: messages, e-mail layout, log lines, URLs other than the page they name.
- Bcrypt, JWT signatures, socket.io transport, TypeORM's SQL, Bull's scripts: external, modelled by
  what the code relies on.

## 7. Plan

Done first, because the readings are what the server is for: `TelemetryPipeline` and its proofs,
then `FleetRegistry`, `Sessions`, `AccessControl`, `PushQueue` with its proofs, `Paging`; then the
abstract specifications `ReadingLog` and `Outbox` with their refinements, and `Registration` with
its proofs; then the proofs of `AccessControl`, `Sessions`, `FleetRegistry` and `Paging`, and
`TokenStore` with its refinement. What is left:

1. An abstract specification of the users table that `Registration` implements: an address is
   claimed once, and the answer tells by whom.
2. One of the two tables of `FleetRegistry` as keyed stores, with the overtaken saves as their only
   unexpected step.
3. A `Cache` module, once the list commands have a caller.
