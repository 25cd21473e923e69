# Verification of the Laborax core service

TLA+ models of `laborax-core-service`, the NestJS/PostgreSQL/RabbitMQ service
that owns users, sessions, tenants, companies, contracts and the platform
outbox. Every module is translated from the TypeScript in `src/`; paths below
are relative to it. `PROJECT.json` maps each definition to the lines it
models, and lists the runs, the mutants that each property rejects, the
hazards and the theorems.

## 1. Inventory

The service runs as two kinds of process over one database: the API
(`src/main.ts`) and the jobs worker (`src/main.jobs.ts`). Requests of the API
interleave at every `await`; nothing but PostgreSQL keeps them apart, and most
operations are several statements without a transaction.

| Component | State | Operations | What is hard | What makes it correct |
| --- | --- | --- | --- | --- |
| Outbox (`platform/outbox`) | rows with status, attempts, available_at, last_attempt_at; per process a cached AMQP channel and a re-entrancy flag | insert, claim a batch, publish, mark processed or failed, requeue, recover | runs of several processes, publish outside the transaction, crashes, lost connections, drain events, operator actions during a run | one claim per attempt, one copy per claim, PROCESSED only after a publish, nothing waits for ever unnoticed |
| Sessions (`platform/auth`) | rows with user, token hash, expiry, revocation, reuse mark | login, refresh with rotation, logout, logout-all, limit of active sessions | concurrent refreshes of one token, concurrent logins, aborts between statements, revocation during a refresh | replay detection without false alarms, exchanged tokens stay dead, revocation is final, the limit holds |
| Service clients (`platform/service-clients`, seeds, guard) | client rows with status; versioned secrets with a primary and a grace period | create, update, enable, disable, revoke, rotate, seed, verify | concurrent rotations, a seed without a transaction next to a rotation | one current secret, grace for the old one, no lockout |
| Domain events | the rows of each aggregate and their outbox rows | every create and update of a service publishes an event after its write | the write and the event are two statements, without a transaction except in onboarding and internal users | an answered change is in the outbox as it was written |
| Companies (`platform/companies`) | company tree, stored as parents and as materialised paths | create, update, scoped reads | checks before writes, the path is written by a second statement, an update leaves paths alone | paths stay trees, hierarchy rules, one company per tax number |
| Access scope (`platform/auth`) | none: read from memberships and paths | resolve, filters of the repositories | a scope is resolved once and used by later statements | what a scope reaches, memberships reach |
| Memberships, roles, permissions (`platform/memberships`, `roles`, `permissions`), guard | memberships with a scope, roles, grants, assignments | create, update, assign, remove, grant, revoke, effective permissions, guard | scopes are checked on copies, roles change afterwards | global rights come from global users, role and membership scopes match |
| Users (`platform/users`) | rows with address and status | create, internal onboarding, update, credentials, context | check and insert are two statements, case of addresses | one user per address |
| Tenants (`platform/tenants`) | name and slug | create, update, list | unique indexes behind checks | every tenant has a valid slug, events are current |
| Customer contracts, products | contracts with dates, product lists | create, update, list, enabled products | dates are checked against a row read before the transaction | dates in order, reads within the tenant |
| Onboarding (`platform/internal-customers`) | tenant, owner company, contract, admin, events in one transaction | create | checks, then inserts, at READ COMMITTED | the tax number is new, the events are one commit with the rows |
| Audit (`platform/audit`) | records | record after the answer | nothing waits for it | only answered requests are recorded |
| Seeds (`database/seeds`) | permissions, roles, products, administrator | run beside the service, again and again | single statements without a transaction; rows looked up by different keys than the indexes | they add what is missing and keep the invariants |
| RUT and slug normalisation | none | normalise, verify, slugify, validate | modulo 11 with K and 0, accents, dashes | verifiers notice slips, a number has one spelling, a slug is its own slug |
| Health, configuration, HTTP bootstrap, migrations | | | I/O, wiring, generated text | see section 7 |

Interactions: services insert outbox rows (shared table); the dispatcher reads
them (shared table, row locks) and publishes (AMQP); a user's status is read by
a refresh; the guard reads what the administration and the seeds of service
clients write; the access scope reads memberships and company paths; the
permissions guard reads roles and grants, which the seeds write as well.

## 2. Plan

1. `Outbox`, `OutboxDelivery`, `OutboxProofs`: the dispatcher, what it
   promises, and the proof that it does. **Done.**
2. `Sessions`, `SessionsProofs`. **Done.**
3. `ServiceClients`, `ServiceClientsProofs`: rotation, seed and guard. **Done.**
4. `DomainEvents`: what a service promises about a write and its event, and the
   three modules of services that implement it. **Done.**
5. `AccessScope`; `Companies`, `CompaniesProofs`: hierarchy and paths. **Done.**
6. `Access`, `AccessProofs`: users, memberships, roles, permissions and their
   seeds. **Done.**
7. `Customers`, `CustomersProofs`, with `ChileanRut` and `Slugs`: tenants,
   contracts, onboarding. **Done.**
8. `SessionLimitProofs`: the limit of sessions under racing logins. **Done.**
9. `TextProofs`: what normalisation, verifier and slugs compute for texts of
   every length. **Done.**

What is left: the event of a secret rotation (`ServiceClients` stops at the
commit), product dates within a contract, and one instance in which companies
and memberships change together. The last would add states and little else: a
stored membership never changes (`AccessProofs!MembershipsStay`) and a company
never changes its tenant or its settled path (`CompaniesProofs!PlacesStay`),
which is why `Access` and `Companies` may each take the other's rows as
constants.

How the modules fit together: `DomainEvents` ends where `Outbox` begins. Its
`announced` is the insertion that `Outbox` models as `Create`, and from there
`OutboxDelivery` says what becomes of the row. `AccessScope` is extended by the
three service modules, `ChileanRut` by `Companies` and `Customers`, `Slugs` by
`Customers`; both are written with the operators of `Texts`.

## 3. Modules

### Outbox
`Outbox.tla` models `OutboxRepository`, `OutboxDispatcherService`,
`OutboxWorkerService` and `OutboxRabbitmqPublisher`.

- A *run* is one call of `dispatchOnce`; `pc` is the await it is at, `copy` the
  rows that `claimPending` returned (with the attempts it read, before its own
  increment, which is what the message carries). Worker runs start from `Tick`
  under the flag `isRunning`, API runs from `DispatchRequest`.
- `claimPending` is a transaction of two statements: `SelectPending` takes the
  row locks of `for update skip locked` (`lock`), `CommitClaim` writes and
  releases. `ClaimFails` is either statement failing, with or without effect.
- The publisher: `Connect`, `Connected`, `ConnectFails`, `Publish`,
  `PublishFails`, `Drained`. A channel is cached for ever (`chan`), also when
  it is dead. `wire` holds what was written and not yet delivered. Publishing
  may need the drain event; when the channel goes, that event never comes and
  the run is `hung`.
- `MarkProcessed`, `MarkFailed` and their failures; a failing `markFailed`
  leaves the loop. `RequeueFailed` and `RecoverProcessing` are the operator's
  endpoints. `BeginShutdown`, `ChannelClosed`, `Exit` are the shutdown hooks,
  `Crash` and `ConnectionLost` the faults.
- Time is `age`: available_at ahead or passed, and for a claimed row whether
  last_attempt_at is older than the threshold a recover request gives.
- An operator's update statement waits for locked rows. `RequeueFailed` waits
  for all rows it matches; rows in PROCESSING are never locked by a claim, so
  `RecoverProcessing` never waits.

Abstracted: payloads, exchange and routing key, the error text, the size of a
buffer (a publish may or may not fill it). An `error` event of amqplib has no
listener and ends the process, which is `Crash`; a close without an error is
`ConnectionLost`. Inserting a row is `Create`; what it has to do
with the rows it announces is the subject of `DomainEvents`.

`OutboxDelivery.tla` is the abstract specification: status, attempts and sent
copies only. `Outbox!ImplementsDelivery` instantiates it with the same
variables.

### Sessions
`Sessions.tla` models `AuthService.login`, `refresh`, `logout`, `logoutAll` and
the session statements of `AuthRepository`.

- A request is a slot with a `pc`; each database call is an action. `FindSession`
  is the read of the row and all checks made on what it returned;
  `Rotate` is the update by id, which does not look at the hash again.
- A token is the pair of its session and a number; the k-th token stored for a
  session has number k, and `hash` is the number whose hash is stored. Tokens
  carry fresh random ids in the code, so numbering them in the order they are
  stored is a renaming.
- `fresh` is `expires_at > now()`. A refresh admitted before the expiry renews
  the row after it (`revived`).
- `ListActive` and `PruneOne` are the limit: the list is read once, the
  updates are sent together and done in any order.
- `Abort` is a crash of the process or a failed call, at any await.
- History: `given`, `presented`, `replayed`, `exchanged` speak of clients;
  `unpruned`, `revived` and `silenced` name the exceptions in the properties.

Abstracted: password and signature checks (a request that fails them writes
nothing), legacy bcrypt hashes, the lifetime of the token itself, the audit
record, and user agent, IP and last-used columns.

### ServiceClients
`ServiceClients.tla` models one client: no statement touches the rows of two.

- A version of the secret is a row; `secret` is what its hash was made from,
  so that bcrypt's comparison is equality. `until` is valid_until: null
  (`never`), a time ahead or a time past (`Lapse` is the step between them).
- A rotation (`Admins`) is the transaction of
  `ServiceClientsRepository.rotateSecret`, one action per statement. At READ
  COMMITTED each read sees what is committed at that moment, and the writes
  appear in `CommitRotation`. Until then the unique index makes other inserts
  of the version wait (`Held`), and the row lock other updates of the demoted
  row (`RowLocked`).
- A seed (`Seeds`) is a run of `seedServiceClients` for this client, without a
  transaction. Its update of all versions fixes the rows it will write when it
  starts (`targets`) and writes them when it has their locks. The case of a
  client without secrets continues as the code does: the version just
  inserted is revoked and `existingSecret.version` throws.
- A request (`Callers`) is the guard: it reads the client (`CheckClient`), then
  the secrets (`AdmitCaller`, `RefuseCaller`). `verifyServiceClient` makes the
  same two reads.
- `Abort` is a crash or a failed statement: a rotation rolls back, a seed stops
  where it is.
- History: `owed` names requests whose secret was current when they began,
  `cut` seeds that ended between their statements.

Abstracted: names, scopes, last-used times, the link to the replacing secret,
and the event after each operation (`DomainEvents`).

### DomainEvents
The abstract specification of every service that publishes: sets of requests
whose change is `written`, `announced` (an event with that change is in the
outbox), `answered` and `audited`. A change is announced after it is written or
in the same commit, a caller is answered only afterwards, and nothing is
promised about a request that stops. `Companies`, `Access` and `Customers`
instantiate it as `Announcement`, with sets that they compute from their tables
and program counters; `ImplementsDomainEvents` is the refinement. Announced
means that the payload is the row the request returns, so an event built from
an earlier copy would not count.

### AccessScope, Texts, ChileanRut, Slugs
`AccessScope` is `AccessScopeService.resolve` and the filter that repositories
build from a scope (`CompanyVisible`): by tenant when the scope names tenants,
by path otherwise. A path is the sequence of ids that the text joins with
slashes, so that the code's test by prefix is `IsPrefix`.

`Texts` is what both need of JavaScript's strings: the characters that a
replacement leaves (`Picked`, read from left to right), `Without`, `Collapsed`
and `Stripped`. `ChileanRut` is `chilean-rut.ts` over numbered characters:
cleaning, normalisation and the modulo 11 loop as a recursive function, next to
a reference definition of the weighted sum. `Number()` is exact up to 15
digits, which is twice as many as the longest tax number has; the models say
nothing of longer ones, which the DTO's 32 characters would let in. `Slugs` is
`slugify.ts` over a small alphabet in which an accented letter is the letter
and `Accent`, as NFD gives it, and the pattern of the `IsSlug` validator. Both
are used as they are by the services' models: what is stored is what they
return, and what clients send is what the validators let through (names and
slugs of two characters or more, slugs that match the pattern, numbers with
their verifier).

### Companies
`Companies.tla` models `CompaniesService`, `CompaniesRepository` and the audit
interceptor around them.

- A request has a `pc` for the statement it runs next. Creation is
  `ScopeParent`, `CheckRut`, `ReadParent`, `Insert` (with the path `/pending`)
  and `SetPath`; an update is `ScopeTarget`, `ReadTarget`, `Update`. Both end in
  `Publish`, `Answer`, `Audit`. `parent` is the copy of the parent row that the
  child is built from, `id` and `out` the row that is written and returned.
- The unique index on tenant and tax number is a guard of `Insert` and
  `Update`; `Fail` is a statement that fails, or the process that dies, before
  any statement after the checks. A check that throws is `Refuse`.
- History: `moved` names the companies whose type or parent an update wrote.

Memberships are constants. Names, search and pagination are left out.

### Access
`Access.tla` models the controllers, services and repositories of users,
memberships, roles and permissions, the permissions guard, introspection and
`auth/me/context`, and `pnpm db:seed` for permissions, roles and the
administrator.

- A request begins with the guard (`Begin`: every slug that the endpoint asks
  for is effective), resolves its scope (`ResolveScope`, with what the service
  decides from the scope alone), then lists (`List`), reads a context in two
  statements (`Context`, `ContextSlugs`), or runs the checks of its operation
  (`Find`: the scoped `findOne`; `Check`: what the repository reads before an
  insert; `ReadRole`) and one write. Some results are read back by another
  statement (`Reload`). `CreateInternalUser` is a transaction and one step.
- Ids are drawn from the free ones, as random ids are. A row is never deleted
  in this code, only assignments and grants are.
- The seed is one process, `seed.pc` its next statement. It finds rows by
  other keys than the indexes (a role by slug and scope, the administrator's
  membership by user alone) and stops at the first failure; `SeedRevoke` and
  `SeedGrant` are the two statements between which a role has no permissions.
  A second run finds what the first one left.
- Addresses are a name and whether the text is in lower case (`Address`), slugs
  are atoms, the body fields that are absent are `Keep`.
- History: `rescoped` names roles whose scope or tenant an update wrote,
  `adopted` the memberships that the administrator's seed found.

Companies are constants. Passwords, display names, metadata, search and
pagination are left out.

### Customers
`Customers.tla` models `TenantsService`, `CustomerContractsService`,
`InternalCustomersService`, their repositories, the products that
`AuthRepository.getUserContext` enables and the products' seed.

- Onboarding reads (`CheckTenant`, `CheckCompany`, `CheckEmail`) and then
  writes everything and its events in one step: at READ COMMITTED the reads see
  different states, the writes appear together. `looked` remembers which
  companies its check of the tax number covered.
- The write of a contract is a transaction whose first statement locks or
  creates the row that all other writers of the contract start with, so it is
  one step; the row an update was checked against (`current`) was read before.
- `Read` and `AttachProducts` are the two statements of a listing of contracts.
- Days are numbers, an open end is `NoDay`, product codes are atoms.
- History: `stale` names contracts updated after a read that was out of date,
  `overlapped` rows with an event that is missing, or whose requests
  overlapped, so that their events may be out of order.

## 4. Runs

| Run | Instance | Shows |
| --- | --- | --- |
| `outbox_safety` | 2 events, a worker with 2 slots, 1 API slot, 2 attempts, 1 fault | claims, copies, holders, flag, final PROCESSED rows, refinement of `OutboxDelivery` |
| `outbox_worker` | 2 events, worker only, batches of 2, 2 attempts, 2 faults | every inserted event ends PROCESSED, exhausted or stranded, or every worker hangs; without faults every event reaches the exchange |
| `outbox_stranded` | violation | no process recovers a stranded row |
| `sessions_refresh` | 1 session, 3 tokens, 3 requests | no false alarm, a flagged session is unusable, exchanged tokens stay dead, revocation is final |
| `sessions_cap` | 3 sessions, 2 requests, limit 2 | the limit, and that only old sessions are pruned |
| `sessions_replay` | violation | two refreshes with one token both succeed |
| `clients_secrets` | 2 rotations, 2 seeds, 1 request, 3 versions, 4 secrets | one current secret, dead secrets stay dead, a rotation refuses nobody, a lockout only behind an unfinished seed |
| `clients_skip` | violation | a seed skips a client whose configured secret is revoked |
| `companies` | 2 requests, 2 tenants, 3 companies and room for 2, 4 users | paths stay trees and `/pending` is explained, only an update breaks the hierarchy rules, one company per tax number, verifiers notice slips, refinement of `DomainEvents` |
| `companies_scope` | violation, 1 request | a membership scoped to a company shows the companies of its whole tenant |
| `access` | 2 requests, a global and a tenant administrator, room for 1 user, 2 memberships, 2 roles, 1 run of the seed | role and membership scopes agree, one user per address, listings and writes stay in scope, global rights come from global users, refinement of `DomainEvents` |
| `customers` | 2 requests, 1 tenant, owner and contract, room for 2 of each, products seeded at any time | dates in order, an onboarded number is new, the last event is current, reads stay in the tenant, tenants have valid slugs and the slug of a slug is itself, refinement of `DomainEvents` |

Bounds. Two events are enough for a batch whose loop stops half-way; two
attempts for a retry and the limit. One fault at any point of any run shows
every partial failure; two show a fault during the handling of another. Three
requests are a refresh, its replay and a revocation; three sessions with a
limit of two are the smallest table on which pruning must choose. Two rotations
and two seeds are all pairs of writers of the secrets; three versions are the
first one and two that replace it, by any two of them, and with a `Window` of
two (20 in the code) a version drops out of the seed's sight. `MaxVersion`
bounds the versions a call may ask for. `MaxFaults`, `MaxSessions`, `MaxTokens`
and `MaxSeedings` bound the models as guards of the actions that would exceed
them. The constraint `OnePresented` keeps the run about logins to one refresh;
no liveness is checked under it.

In the runs of the services two requests are all pairs of operations: a check
and its write are each other's only window, and every hazard listed needs one
other writer. Bodies are cut down in the MC modules to the combinations that
meet each other (the same parent, role, address, name or contract); every kind
of body is in, and where the scope decides, callers inside and outside of it. In
`access` one request asks for anything, the other for what disturbs it, next to
a run of the seed; both administrators hold every permission, so that only the
scopes tell them apart. One run of the seed is enough there because a run meets rows with the
addresses and slugs of its own that requests made before it, which is what a
second run would find. Room for two companies is a child and its child, or two
siblings, below owners of two tenants. The tax numbers are two that are valid,
one of them in two spellings, and one that is not, and for
`VerifierCatchesSlips` numbers of seven and eight digits, with which the
multipliers start again. Of the texts, a few are asked for as names and slugs;
`SlugsAreStable` also looks at all texts of up to five out of six characters.

`CHECK_DEADLOCK FALSE` is there because the system may stop: all rows are
settled, all requests are answered, or the bounds are used up; the runs of
`ServiceClients`, whose administrators may always act, and of `Customers`,
whose product seed may run again at any time, check for deadlock. Slots of one process,
requests and free ids are interchangeable where the run declares SYMMETRY; runs
with liveness declare none.

Fairness (`Outbox!FairSpec` only): awaited calls return, the interval timer
keeps firing, time passes, a reachable broker receives what was written, a
shutdown ends. These are the event loop, the driver and the timer of
`OutboxWorkerService.onModuleInit`. Nothing is assumed of operators, requests
or faults. `Hung` runs are excluded from progress, since no code wakes them. A
row that an operator put back after it used all its attempts is PENDING and is
never claimed, because requeue and recover do not reset `attempts`:
`EventSettles` counts it as exhausted. The services have no liveness to check:
a request that stops is never taken up again.

## 5. Findings

- **Stranded rows** (`outbox_stranded`). `recoverProcessing` is reachable only
  through an endpoint; the jobs process, which the operations guide makes
  responsible, never calls it.
- **A token exchanged twice** (`sessions_replay`). `refresh` checks the hash it
  read and overwrites it by id; two concurrent refreshes both get tokens and no
  reuse is reported.
- **A configured secret that does not work** (`clients_skip`). The seed compares
  revoked versions too. A client without secrets, left by a seed that stopped
  early, gets version 1, which the same run revokes before it throws; every
  later run finds the match and skips the client.
- **A company scope is a tenant scope** (`companies_scope`). README.md:117 gives
  a scope COMPANY its node and the nodes below; `resolve` also collects the
  tenant of every membership, and the filter looks at paths only when there is
  no tenant (`companies.repository.ts:229`). A membership with scope COMPANY
  always has a tenant, so its user lists every company of it.

## 6. Proofs

`OutboxProofs`, `SessionsProofs`, `SessionLimitProofs`, `ServiceClientsProofs`,
`CompaniesProofs`, `CustomersProofs`, `AccessProofs` and `TextProofs`, checked
by TLAPS for every number of events, runs, processes, sessions, tokens, secrets,
versions, requests, users, memberships, roles, permissions, tenants, companies
and contracts, and for texts of every length. Every invariant, action property
and refinement that a passing run checks is the conclusion of a theorem; the
liveness properties are not.

Outbox. The inductive invariant adds to the types: a locked row is in the batch
of the run that is claiming it and is not yet PROCESSING; a held copy past its
commit is below `attempts`; two runs never hold copies with the same number; a
copy that was sent is not held by a run that has yet to send it. The lock is
needed because between the two statements of a claim the copy equals
`attempts`, and only `skip locked` keeps a second run from reading the same
number. From it follow the safety properties and, with one step per action,
the refinement of `OutboxDelivery` (`Implementation`). `FlagIsRight` (the flag
of a worker is up exactly while a tick of it runs, and one tick runs at most)
is inductive given the types: a tick starts only where the flag is down, and
what ends it, an exit of its process included, takes the flag down with it.

Sessions. The invariant says what a request at each `pc` knows: a request that
is hashing is alone with its session, whose hash is still the provisional one;
a token handed out, presented or exchanged is at most the stored one, and an
exchanged one strictly below it; a request that sets off the alarm presented a
token that was replayed. `AlarmIsRight` needs the link between exchanges and
presentations: the only way a presented token differs from the stored one is
that an earlier presentation replaced it. Assumptions: only that the constants
are of their kinds (`NoUserAssumption`, `BoundAssumption` and their
counterparts in `Outbox`).

The limit of sessions. `ConcurrentLoginsKeepTheLimit` is about sets of sessions,
and each login knows only the list it read. The invariant (`CapInv`): of more
than `MaxActive` sessions that are active and whose logins have listed, one
login, the last to list, saw all the others, so that one of them is still on its
list of sessions to revoke. A login that lists restores this for the sets its
own session joins; one that has revoked all it chose leaves no set too large.
`LoginsRevokeOldSessions` needs `OldInv`, that what is on a list has enough newer
sessions of its owner: a session is chosen behind `MaxActive - 1` newer ones, and
sessions are numbered in the order they are made. Both count finite sets, with
the theorems of the library on cardinality.

Service clients. The unique index carries the argument. Versions are stored
without gaps, so every call that may still insert one wants the same version,
the first free one (`OneFree`); storing it makes all their inserts fail. What a
call read before its insert therefore need only hold while its version is free
(`PrevInv`, `SeedInv`): the primary a rotation is to demote is still the only
one, or a seed revoked it, and a seed that revoked what it saw left no primary.
`RotationInv` adds that at most one rotation is past its insert. A secret
inserted under these conditions is the only current one, and demoting an
already revoked version does not revive it. `NoGaps` states the numbering by
itself. `RotationIsSafe` follows from
`OwedInv`: a demoted version is accepted until it lapses. Assumptions: secrets
that the service generates are not configured ones (`SecretAssumption`), slots
of different kinds differ, and there is at least one version.

Companies. No statement changes the tenant, or a settled path, of a stored
company, and a request that is between the two statements of an insertion is
the only one that writes that company. The copy of the parent row that the
child is built from is therefore as good as the row itself, as far as the path
goes, at any later moment: `PathsStayTrees` follows, however inserts and
updates interleave and wherever an insertion stops. `RulesHold` needs that the
copy's type is the row's unless the parent is in `moved`. `PlacesStay` states
what is kept as an action property. `NumbersStayKeys` puts two things together:
the unique index keeps equal rows apart, and `NormalizeIs` says that what is
stored is in one spelling, so that equal numbers are equal rows. `EventsAreKept` is
the refinement of `DomainEvents`: before its write a request left no event,
between the write and `Publish` it has none, afterwards it has the row it
returns.

Customers. The invariant says what a request that is to write still knows:
the contract it names is stored and keeps its tenant; the copy it checked
either is the row or the write adds the contract to `stale`
(`DatesStayInOrder`); companies are never changed, so an onboarding's number
differs from all it looked at (`OwnersAreNew`). `ReadsStay` is the scope filter
over memberships. `EventsAreCurrent` rests on `CurrentInv`: for a row that is not
in `overlapped`, either one request has written it and not published, and what
it returns is the row, or none has, and the last event about it carries the row.
`RowsStay` states that rows are kept. A tenant is created with a slug
(`SlugInv`), and one that an update sends passed the validator, so that
normalising it again changes nothing (`SentSlug`): `TypeCorrect` can say that
stored slugs are never empty, and `SlugsStayStable` that they are valid.

Texts. A recursive function over the positions of a text is shown to be the
function one expects (`Recursion`), by induction over sets of natural numbers:
a set that holds 0 and the successor of each of its elements is `Nat`, because
a set of numbers has a least one (`Least`, from the well-founded order of finite
sets). What is picked from a text comes from increasing positions and misses
none (`PickedPositions`); from it follow what `Without`, `Collapsed` and
`Stripped` leave, that a slug matches the validator's pattern (`SlugifyIs`) and is
its own slug (`SlugOfSlug`), and that a number sent back as it was shown is the
same number (`NumberOfNumber`). `VerifiersCatchSlips` compares the loop of the
code with the reference sum: one wrong digit changes the sum by the product of
two numbers from 1 to 9 and 2 to 7, two swapped neighbours by the difference of
the digits times 1 or 5, and neither is a multiple of 11.

Access. `Shape` types the state and says which rows a request or the seed holds
at each step. Its steps are of three sorts, reads, writes and ends, and what a
write does to the tables is summed up in `TablesStep`, from which one lemma
(`RowsAreKept`) gives what every step keeps: rows stay stored, memberships
never change, a role whose scope or tenant changes is in `rescoped`. What a
scope reaches once, it reaches for ever (`ReachStays`), so the decision of a
scoped read holds at the later write by id; `WritesStay`, `GlobalStays` and
`ListsStay` follow from the one invariant `AllSound`. `ScopesAgree` adds what
the role that was checked is at the assignment, and that the administrator's
role in the hands of the seed is global or rescoped. `EmailsAreUnique` rests on
the stored addresses being in lower case, so that equality of texts is
equality up to case.

Assumptions: null values are not values (`NullAssumption` and its
counterparts), ids of tenants and of contracts differ, as uuids do
(`IdsAssumption`), names, slugs and numbers are texts (`TextsAssumption`,
`InputAssumption`), bodies are validated bodies (`BodiesAssumption`), the tables at
the start obey the rules that earlier requests left them with
(`InitialAssumption`: paths form trees, dates are in order, addresses differ,
tax numbers are keys),
the path of a company is not empty (`PathsAssumption`), the last of the seeded
roles is a global one, the administrator's (`SeedsAssumption`).

Model-checked only: the liveness properties `EventSettles` and
`EventIsDelivered`, for which TLAPS has no ENABLED, and the violations of
section 5, which are counterexamples.

## 7. Not modelled

Health checks, configuration parsing, request validation, error envelopes,
logging and migrations are I/O, wiring or generated text without state of their
own; the constraints that migrations declare are guards of the writes that rely
on them. Listings leave out search terms, sorting and pages: a page is a part
of what the models show. Display names, descriptions, metadata, passwords and
time stamps are left out where nothing is decided from them. The event of a
secret rotation is left out of `ServiceClients`: the rotation is committed
before the event is inserted, as in the other services, but its answer is the
only place where the new secret is ever shown.
