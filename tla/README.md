# Linea server: TLA+ specifications and proofs

This directory models the Linea server: the path of a request from a URL to a
service method (routes, gateway, authentication, roles, error codes), the state
that requests share (the cache of open genealogy stores, the genealogy records
with their roles and quotas, the proposals, the rate limiter, the key-value
database under them), and the life of the process around them. TLC checks the
models on small instances; TLAPS proves every safety property of the runs (store
cache, genealogies and quota, platform store, proposals, rate limiter, routes,
request path, life cycle) for every instance. `PROJECT.json` lists components, runs,
mutants, hazards and theorems, and maps every definition to the lines it models.

To run: `tlc -workers 2 -config MCTenantManager.cfg MCTenantManager` (and so on
for the other configurations), `tlapm TenantManagerProofs.tla` (and
`GenealogiesProofs`, `PlatformStoreProofs`, `ProposalsProofs`, `RateLimitProofs`,
`ApiProofs`, `RequestPathProofs`, `ServerLifecycleProofs`).

## 1. The system

| component | state | operations | talks to |
|---|---|---|---|
| tenants manager (`internal/tenants`) | LRU list and map of open Badger stores, the opens in flight (`loading`), `closed` | Get, Drop, RemoveOnDisk, Close | every per-genealogy handler (Get), DeleteGenealogy (Drop, RemoveOnDisk), Server.Close |
| authz resolver (`internal/authz`) | a TTL cache of decisions (subject, genealogy) -> role | Resolve, Invalidate | reads the platform store; called by every handler |
| platform store (`internal/platform`) | one Badger database: genealogies, memberships and their reverse index, bans, counters | Put, Get, Delete, Iterate, Inc, Dec; each is one transaction | authz, quotas, genealogies, resolveStore |
| quotas (`internal/quotas`) | none of its own (counters in the platform store) | two checks, increments, decrements | CreateGenealogy, UpdateVisibility, DeleteGenealogy, Accept |
| genealogies service | none of its own | Create, Get, List, UpdateVisibility, Delete, Upsert/Remove/List/Leave membership, Ban, Unban | platform, authz, quotas, tenants |
| per-genealogy gate (`resolveStore`) | none | role, ban, store | authz, platform, tenants; in front of every entity, query and proposal RPC |
| proposals service | proposals and persons, in the genealogy's own store | Create, Submit, Withdraw, Claim, Accept, Reject, BulkReject, Get, List | gate, Linea-core's governance, quotas |
| rate limiter (`internal/ratelimit`) | token buckets by key, a sweeper goroutine | Allow, Close | the rate-limit interceptor |
| gateway and gRPC services (`gen/go`) | routes, method tables | URL, body and query to a message; message to a method | interceptors, services |
| interceptors and OIDC verifier | role map, verifier, the set of methods without auth | Auth, RateLimit, Role, Error, in this order around every call | limiter, services |
| configuration (`internal/config`) | none | FromEnv | verifier, `main` |
| server life cycle (`internal/server`, `cmd/lineasrv`) | both listeners, the two stores, the gateway's connections, `errCh`, `ready` | New, Run, Close | all |
| entity, relationship, source, query services | none | read-only | gate |
| mappers | none | enumerations and records between API, store and Linea-core | services |

What is hard about it:

* **Concurrency.** gRPC serves each request on its own goroutine. The manager has
  a mutex but opens stores outside it; the handlers have no lock at all: a
  handler is a sequence of separate Badger transactions and cache operations.
* **Order.** A decision may be computed, invalidated and cached in any order; the
  clock reading of `Allow` is taken before its mutex.
* **Several sources of one value.** A request's fields come from the URL, the body
  and the query string; its permission from the identity provider's role, the
  membership, the visibility and the ban.
* **Shutdown.** Handlers, REST calls on their way to a handler, serving goroutines
  and the gateway's connections are all there when `Close` begins.
* **Failure.** Each transaction of a handler may fail or be the last one before a
  crash; some errors are discarded on purpose. The person counter and the persons
  it counts are in different databases.
* **Limits.** `MaxOpen`, the two quotas and the bucket capacity are each read in
  one step and relied on in another.

What makes each component correct:

* tenants manager: one handle per directory, none leaked, none closed in the
  cache, a request gets the store of its own genealogy, every Get returns,
  eviction is least-recently-used and keeps to `MaxOpen`;
* authz and genealogies: a decision never exceeds a role somebody entitled gave,
  the listing agrees with authorization, memberships and records go together, a
  genealogy keeps an Owner, the private-genealogy counter is off by no more than
  the faults and races that account for it;
* proposals: each accepted person is counted once, by the Accept that applied it;
  nothing changes without an authorized request; the cap holds up to the Accepts
  in flight;
* gateway, interceptors, gates: the URL names the target, the handler acts for the
  caller, proposals are written past both gates, a denial says nothing about what
  exists;
* platform store: the keys of the tables never meet, a listing is its table;
* server life cycle: no handler on a closed store, nothing left open or blocked,
  a signal ends the process;
* rate limiter: capacity plus refill is a bound from any moment on, and requests
  that arrive out of order do not starve a key.

## 2. Modules

| module | models | extends |
|---|---|---|
| `StoreTable` | abstract: what the disk sees of the manager (open only what is not open; a closed handle stays closed) | |
| `TenantManager` | `internal/tenants/manager.go`; implements StoreTable | |
| `TenantManagerProofs` | theorems | MCTenantManager |
| `Genealogies` | `service/genealogies.go` over `internal/authz`, `internal/platform`, `internal/quotas` | |
| `GenealogiesProofs` | theorems | MCGenealogiesQuota |
| `Mappers` | the enumeration tables of `service/mappers.go` that decide something | |
| `Proposals` | `service/proposals.go`, `service/resolver.go`, the person quota | Mappers |
| `ProposalsProofs` | theorems | MCProposals |
| `RateLimit` | `internal/ratelimit/ratelimit.go` | |
| `RateLimitProofs` | theorems | MCRateLimit |
| `Api` | `gen/go/linea/v1`: request messages, methods, routes, gateway functions | |
| `ApiProofs` | what the route tables promise of every HTTP request | Api |
| `Auth` | `internal/config`, `internal/auth`, the refusal in `cmd/lineasrv` | |
| `RequestPath` | `internal/interceptors`, the role map, the gate of every service method | Api, Auth |
| `RequestPathProofs` | theorems | RequestPath, ApiProofs |
| `ServerLifecycle` | `cmd/lineasrv/main.go`, `internal/server/server.go` | Auth |
| `ServerLifecycleProofs` | theorems | ServerLifecycle |
| `PlatformTables` | abstract: the tables the API speaks of, one row changed at a time | |
| `PlatformStore` | `internal/platform` over keys and prefix scans, `service/platform_mappers.go`; implements PlatformTables | |
| `PlatformStoreProofs` | theorems | PlatformStore |
| `MC...` | instances for TLC, and the history variables some properties need | the module |

How they fit: `RequestPath` ends where `Genealogies` and `Proposals` begin (a
request that passed its gate), with the limiter's answer and the caller's standing
left free; `Genealogies` works on the tables that `PlatformStore` is shown to
implement; `ServerLifecycle` shows that handlers end before `Close` reaches the
tenants manager, which is the constant `Graceful` of `TenantManager`.

Definitions named `X_Something` right before `X` are faulty variants of `X`. They
are in no specification; they are used to test that a property notices the fault.

### TenantManager

A step is one critical section of `Manager.mu`, or one piece of disk I/O outside
it. `GetRefused`, `GetHit`, `GetJoin` and `GetLead` are the four ways the first
critical section of `Get` ends; `OpenOk`/`OpenErr` is `badger.Open`; `Publish` is
the second critical section with `installLocked` and `evictLocked` inside;
`PublishPanic` is the same section after `Close` set `index` to the nil map. A
deleter calls `Drop` and then `RemoveOnDisk`, as `DeleteGenealogy` does. `list`
and `index` are separate variables, because that they agree is a property of the
code. A handle is `<<id, n>>`, the n-th successful open of id, so that a handle
closed and another one opened later on the same directory are told apart. Errors
of closing a store are discarded by the code (or, in `Close`, only reported) and
left out. `Graceful` says whether `Close` waits for the calls in flight, which is
what `Server.Close` arranges (it stops the gRPC server first); with `FALSE`,
`Close` may come at any moment.

### Genealogies

Each handler runs on a worker, one step per Badger transaction or cache
operation; local computation goes with the step after it. The first four steps of
most handlers are `Resolver.Resolve`: `CacheGet`, `ReadGenealogy`,
`ReadMembership`, `CachePut`. `Invalidate` is the last step of the handlers that
end with it. `mem` stands for a membership and its reverse index entry, which
`PutMembership` and `DeleteMembership` write in one transaction. `Crash` loses
requests and the decision cache and keeps the database. `StoreError` fails the
operation at hand: the handler returns, except where the code discards the error
(`_ =`). `held` is a history variable. `ListGenealogies` is an operator over one
state: the model says nothing about the two scans of one call seeing different
states. Subjects are model values; `Extends` says which of them is another one, a slash
and more. A scan for the memberships of a user takes the rows of those too
(`RowsUnder`; that the scan does exactly this is `ScansExact` of PlatformStore), and
`ListGenealogies` does not look at the subject of a row. Which of several rows of one
genealogy comes first depends on the characters, so the operator is the set of the
answers it may give, each a function from the genealogies listed to the role shown. The
anonymous subject stands for a call without an identity.

### Proposals

One genealogy. `ResolveRole`, `CheckBan` and `GetStore` are `resolveStore`; then
`Accept` takes four steps (`AcceptView`, `AcceptCheck`, `AcceptApply`,
`AcceptInc`), the transitions one, `BulkReject` one for each id. `roles` and
`banned` change under the handlers in any way whatever, which covers all that
module Genealogies can do and stale cached decisions besides. Linea-core's
governance package is not in the repository; it is modelled by the table of
states each transition may leave and by `StoreError`, which may refuse any. A
proposal's kind comes from the request's enumerations through `Mappers`, and so
does the filter of `ListProposals`, an operator over one state.

### RateLimit

`ReadClock` and `Take` are the two halves of `Allow`. Time runs in ticks and
tokens in whole numbers: the code's floating-point tokens are refilled by
`elapsed * rate`, which is exact at whole ticks. The ticker's channel holds one
tick. A late request makes `elapsed` negative, takes tokens away and moves
`updated` back, as in the code.

### Api, Auth, RequestPath

`Api` is operators only. A request message is the set of its fields, a pattern a
sequence of literal and variable components with an optional verb, a `request_`
function the order in which body, path and query fill the message;
`registerHandlers` gives the calls that the registered routes make of a request.
A call names its method as a pair, `Lookup` finds the handler of the service
descriptor, and `Decodes` the message that this handler decodes. `Auth` has the configuration and the verifier. `RequestPath` is one
request at a time through the chain: one action per interceptor, the method's
gate (`resolveStore`, `requireRole`, a subject, none) and the errors it may return
after it, and `codeFor`. Requests share only the limiter and the stores here, so
their interleaving is left to the other modules. Values of fields are model
strings. A gRPC client encodes the message of the method it calls: other bytes end in
the handler's `dec`, before any interceptor (`RequestsAssumption`). `Written` in `TargetFromURL` allows for the verb that a pattern without
one keeps on the last component.

### ServerLifecycle

The main goroutine runs through `main.run`, `New`, `Run` and `Close` step by step
(`main` is its place), the two serving goroutines, the goroutines that close the
gateway's connections, a signal and the clients run beside it. gRPC's and
net/http's servers are external and modelled from their use: `GracefulStop`
refuses new calls and waits for handlers, `Shutdown` waits five seconds at most
(so it may return at any time). Registering handlers is in any order, which covers
the code's.

### PlatformStore, PlatformTables

`db` is a function from keys (sequences of characters) to values; every operation
is written with the code's key helpers, the listings with `scanPrefix`. The
refinement mapping reads each table back through the keys and the mappers; the
abstract specification says that an operation changes one row of one table. Keys are
made of `Chars`, a constant that holds at least the characters of the code's prefixes.
`EnsureUser` and `SetPersonCount` have no caller in the server and are included.

## 3. Runs

| run | configuration | shows |
|---|---|---|
| tenant_cache | 3 ids, 3 callers, MaxOpen 2, 2 opens per id, Close at any moment | `CacheCoherent`, `SingleFlight`, `ExclusiveStore`, `OpenAccounted`, `OpenBound`, `TenantIsolation`, `EvictsLRU` |
| tenant_live | 2 ids, 3 callers, 1 deleter, MaxOpen 1, graceful Close, fairness | `GetReturns`, `Implements` (StoreTable), `CleanShutdown`, `DropProtects` |
| genealogies_serial | 2 users of whom one extends the other by a slash and the anonymous one, 1 genealogy, 1 worker, every request, crashes | `ListingAgrees`, `NoOrphanMembers`, `CacheFresh`, `LastOwnerStays` |
| genealogies_quota | 1 user, 2 genealogies, 2 workers, cap 1, crashes and store errors, at most 2 causes of drift | `QuotaDrift` |
| genealogies_concurrent | 2 users, 2 workers, store errors, cache expiry | `DecisionsEarned`, `GrantsAuthorized` |
| proposals | 2 workers, 2 proposals, cap 1, volatile roles and bans, errors, crashes | `CountExact`, `PersonOvershoot`, `FilteredListing`, `OnlyAuthorizedChange` |
| ratelimit | 3 callers, 1 key, capacity 2, rate 1, idle time-out 4, delay 1, horizon 9 | `RateBound`, `QuietKeyServed` |
| request_path | every route with 5 HTTP methods and 4 verbs, 2 payloads, every RPC directly, 7 tokens, 7 environments | `TargetFromURL`, `ActsAsCaller`, `WritersHaveRole`, `DenialHidesExistence` |
| lifecycle | 2 services, 2 REST calls, 1 gRPC call, 4 environments, fairness | `StoresOutliveHandlers`, `NothingLeftOpen`, `SendNeverBlocks`, `Stops` |
| platform_store | 3 subjects (s, st, s/t), 2 genealogies, 4 keys at once, counters to 2 | `Implements` (PlatformTables), `ScansExact` |
| genealogies_last_owner, genealogies_revival | small | a disagreement each, section 5 |

**Bounds.** MaxOpen 2 with three ids makes eviction choose among several entries
and lets an id be evicted and opened anew; three callers are an opener, a waiter
and a third who evicts. In `tenant_live` MaxOpen 1 makes every install evict. The
bound `OpenLimit` only stops successful opens (a failed open is always possible,
so a call never gets stuck by it). One genealogy is enough where no handler looks
at two; the quota run has two because the counter sums over them. Two users are a
grantor and a grantee (and where one extends the other, a listing that takes in the
other's rows), and two workers a check and the write that undercuts it.
`CounterLimit` keeps a counter that crashes make drift finite; in the quota run
`MaxDrift` lets no request start after two causes of drift, which is enough for
a lost step and a double one to meet; `HSpec` is the same specification without
`MaxDrift`, and the one the theorem is about. Four keys are two memberships with their
reverse entries, or a membership, a ban and a record of one genealogy; the three
subjects are a prefix of one another with and without a slash. Two services with a
connection each let `registerHandlers` fail half way. In `ratelimit` the
horizon is two sweeps and one tick more, so that a bucket is filled, emptied,
swept and made anew. Permutations of interchangeable model values are used as
symmetry in the runs of Genealogies (users only where none extends another), Proposals, RateLimit and in `tenant_cache`.

**Deadlock** is checked in all passing runs except `tenant_cache`, where `Close`
at a bad moment makes the process panic and nothing follows (`tenant_live` shows
that this cannot happen when calls end first), and `request_path` and `lifecycle`,
where the process may refuse its configuration or exit.

**Fairness.** In `TenantManager`, weak fairness of `Step(c)`, which
is the next step of a call already in flight, and of `RemoveOnDisk`. These are
disk operations that end and acquisitions of `sync.Mutex`, which starves nobody;
a step stays enabled until taken. No fairness is assumed for clients: that a
request arrives, or that `Close` is called, is never required. In
`ServerLifecycle`, weak fairness of the main goroutine's next step, of the serving
goroutines and of each handler's return: goroutines are scheduled, and
`GracefulStop` waits for handlers without a time limit, so `Stops` needs them to
end. Nothing is assumed of signals, clients, REST handlers or the goroutines that
close connections.

## 4. What is proved

Eight modules hold proofs. Each theorem holds for every value of the constants that
satisfies the named `ASSUME`s of its specification; TLC evaluates those on every run.
Every safety property of a passing run has its theorem, the two refinements
included; what is left to TLC is liveness, named at the end of this section.

### The store cache

`TenantManagerProofs` proves, for any sets of ids, callers and deleters, any
`MaxOpen > 0` and any bound on opens:

| theorem | property |
|---|---|
| `Inductive` | `IInv` below |
| `TypeCorrect` | `TypeOK` |
| `CacheIsCoherent` | `CacheCoherent` |
| `OpensAreSingleFlight` | `SingleFlight` |
| `StoresAreExclusive` | `ExclusiveStore` |
| `HandlesAccounted` | `OpenAccounted` |
| `ImplementsStoreTable` | `Implements` |
| `RequestsAreIsolated` | `TenantIsolation` |
| `ShutdownIsClean` | `CleanShutdown` |
| `OpenIsBounded` | `OpenBound` |
| `EvictionIsLRU` | `EvictsLRU` (of `MCSpec`, with the history `since`) |
| `DropsAreSafe` | `DropProtects` (of `MCLiveSpec`, with the history `served`) |

Assumptions: callers and deleters are different goroutines, there are finitely many
callers, `NoStore` and `NoId` are not a store and not an id, `MaxOpen` is positive
(`New` refuses any other value). They are named `ASSUME`s of TenantManager.

The argument. That handles are exclusive is not inductive: `OpenOk` adds a handle
and one must know that none is open on the same id. A handle is open only if it
is in the index or in the hands of a goroutine about to install it
(`OpenTracked`), it is then under its own id (`OwnStore`), and an id being opened
has one goroutine at it and is not in the index (`SingleFlight`). `Drop`, `Close`
and eviction preserve this because they close exactly what they take out of the
index, and they find it through the list: so the list and the map must agree
(`CacheCoherent`), which rests on what MoveToFront, Remove, PushFront and the
truncation do to a sequence. These are the lemmas at the start of the module. Then

    IInv == TypeOK /\ CacheCoherent /\ SingleFlight /\ OwnStore /\ OpenTracked

is shown inductive, one lemma for each action, and everything else follows from
it; for the refinement, `OpenOk` is the abstract `Open` because the guard of the
abstract action follows from `IInv`, and every other step closes a subset of the
open handles or leaves them alone. `TenantIsolation` is inductive given `IInv`: a
hit needs `OwnStore` for the map, a published handle needs it for the opener, and
the waiters served asked for the same id. For `CleanShutdown` the invariant
`ShutDown` adds that after a graceful Close the map is empty and nobody is opening:
so nothing can be installed, and by `OpenTracked` nothing is open. A corollary of
`SingleFlight` is that the "lost a race" branch of `installLocked` is never taken.

`OpenBound` follows from `OpenTracked` by counting: the position in the list tells
the listed handles apart, the goroutine that brings it the others. For `EvictsLRU`
the invariant `Recency` says that the list is in order of use: an entry was used
since every entry behind it was. MoveToFront and PushFront bring the used id to the
front and into the history of all others, Remove and eviction keep the order, so an
evicted entry has `MaxOpen` different ids in its history. For `DropProtects` the
invariant `Outlived` says that handles are numbered by the opens, so that no closed
one comes back, and that those a deletion saw at its Drop are closed.

### Genealogies, roles and decisions

`GenealogiesProofs` proves, for any users, genealogies, workers, requests, quota and
faults:

| theorem | property | under |
|---|---|---|
| `Inductive` | `IInv` below | |
| `TypeCorrect` | `TypeOK` | |
| `RolesAreEarned` | `DecisionsEarned` | |
| `GrantsAreAuthorized` | `GrantsAuthorized` | |
| `ListingsAgree` | `ListingAgrees` | |
| `MembersHaveGenealogy` | `NoOrphanMembers` | one worker, no store errors |
| `CacheIsFresh` | `CacheFresh` | one worker, no store errors |
| `LastOwnerIsKept` | `LastOwnerStays` | one worker, no store errors |
| `DeletionIsFinal` | `DeletedStaysDeleted` | one worker |
| `CounterAccounts` | `QuotaDrift` (of `HSpec`, with the history `drift`) | |
| `SerialQuotaIsExact` | `QuotaExact` (of `HSpec`) | one worker, no faults |

Assumptions: finitely many users, `Extends` relates different users (nothing else is
assumed of it), the nulls are outside the sets they are null of,
and the requests are well formed (the handlers refuse others at once). The quota
theorems count, so they also assume finitely many workers and genealogies
(`FiniteAssumption`).

`ListingAgrees` says of every answer that `ListGenealogies` may give: what Resolve lets
the subject into is in it (Unlisted to a non-member excepted), and what is in it exists
and has the role that Resolve gives, or that of a member whose subject extends his. It is
not an equality because the code has none (section 5). Where `Extends` is empty, it is one.

The argument. A decision travels: it is computed from a record and a membership read
in different transactions, cached, taken from the cache by another handler and used
to grant. `held`, the highest role a user ever had, only grows, so what was earned
when it was read stays earned however late it is used:

    IInv == TypeOK /\ JobsFit /\ MembersHeld /\ DecisionsEarned /\ GrantsAuthorized

`JobsFit` says where the handler of each operation can be and what it carries there;
`MembersHeld` that `held` covers the memberships. The theorems with one worker are
false of concurrent requests (`genealogies_last_owner` and `genealogies_revival` are
counterexamples for two of them; a decision cached after its `Invalidate` breaks
another), and a store error may leave half a deletion behind. With one worker, and crashes still
possible between any two of its steps, they follow from an invariant on what the
interrupted or running handler has yet to do: `UnusedAbsent` (an id not handed out
yet has no trace), `CacheAccounted` (a stale decision is one that the handler at work
is about to invalidate) and `JobCurrent` (what it read is still in the tables).
`DeletionIsFinal` needs less, and holds with store errors too: the record that
`UpdateVisibility` writes over is the one it read (`ReadCurrent`).

The quota. Between the write of a record and the step of the counter a handler owes
the counter one, or is owed one (`Debt`); `Pending(u)` is what is owed to a user's
counter in all. `drift` counts, in the same step, the two things that lose track: a
debt that disappears while the counter stands still (a crash, an error, the floor at
zero), and a write over a record that is no longer the one that was read. It restricts
no behaviour. With `off` the counter plus what is owed to it minus the records,

    QuotaInv == IInv /\ (\A w : NamesUsed(w)) /\ UnusedAbsent /\ drift \in Nat /\ QuotaDrift

is inductive: each step moves one worker's debt, at most one counter and at most one
record, and `AccountStep` adds up the three. A write is off by what the record
counts for now minus what it counted for when it was read (`WriteQuota`), which is 0 or
covered by `drift`. The cap needs both halves of `QuotaDrift` at once: at the check the
counter is below `MaxPrivate`, so by the first half the records are below it but for
`Pending` and `drift`; and those who owe one, those past the check and the one at the
check are different workers (`Together`). From it, `SerialQuotaIsExact`: one request at
a time and no faults, nothing drifts, as `ReadCurrent` excludes overwriting and an exact
counter is not at the floor when one is given back. So the counter is exact between
requests and the cap is never exceeded.

### The platform store

`PlatformStoreProofs` proves, for any subjects (slashes included), any ids without a
slash and any bounds:

| theorem | property | under |
|---|---|---|
| `Inductive` | `IInv` below | |
| `StoreImplementsTables` | `Implements` (PlatformTables) | |
| `Scans` | `ScansExact` | |
| `UserScansAreOwn` | `OwnMemberships` | no subject extends another by a slash |

Assumptions: subjects and ids are strings over `Chars`; an id holds no slash, as
`uuid.NewString` gives none.

The argument. Where each key helper puts its characters gives, by the first letters,
that keys of two helpers never meet, and that each helper is injective: in
`m/<gid>/<sub>` the id ends at the first slash after the prefix (`FirstSlash`), in
`mr/<sub>/<gid>` it begins after the last (`LastSlash`), whatever slashes the subject
has. A write changes the key it names, hence one row of one table, and every table is
a function of what is under its keys. The scans need to know what can be in the
database at all:

    IInv == KeysKnown /\ MembersPaired /\ CountsTyped

only keys of the helpers; a membership and its reverse entry present together with one
value (the two writes of `PutMembership` and the two deletions of `DeleteMembership`
are each one transaction); counters within the bound. The scan of `m/<gid>/` then
reaches the members of that genealogy, that of `mr/<sub>/` also the subjects that
extend the user's by a slash, which is the exact statement of `ScansExact`.

### Proposals

`ProposalsProofs` proves, for any users, workers, proposals and cap, with the history
variables of `MCProposals`:

| theorem | property |
|---|---|
| `Inductive` | `IInv` below |
| `TypeCorrect` | `TypeOK` |
| `EveryPersonCounted` | `CountExact` |
| `CapExceededByFlight` | `PersonOvershoot` |
| `ChangesAreAuthorized` | `OnlyAuthorizedChange` |
| `ListingIsFiltered` | `FilteredListing` |

Assumptions: finitely many workers and proposals, nulls apart.

    IInv == Fits /\ lost \in Nat /\ JobsSeen /\ CountExact /\ Capped

`Fits` is typing and what a request carries where it is (an existing proposal; after
Accept's first transaction, that proposal's kind); `JobsSeen`, what the gate saw of the
subject when the request passed it; `CountExact` and `Capped` count the Accepts
between governance's transaction and the counter, and between check and counter. A
role or a ban may change after the gate: `OnlyAuthorizedChange` is about what the gate
saw, and needs `JobsSeen` to carry it to the write.

### The rate limiter

`RateLimitProofs` proves, for any keys, callers, capacity, rate, delay and horizon:

| theorem | property |
|---|---|
| `Inductive` | `IInv` below |
| `TypeCorrect` | `TypeOK` |
| `RateIsBounded` | `RateBound` |
| `QuietKeysAreServed` | `QuietKeyServed` |

Assumptions: capacity and rate are positive, a request is at most `MaxDelay` late at
the mutex, and a bucket is full again before the sweeper may forget it
(`IdleAssumption`: without it sweeping is a gift of tokens).

The argument. A late request takes tokens away and moves `updated` back, so neither
the tokens nor the time of a bucket is monotone; what is, is their combination.
`NeverOverdrawn` bounds from below what a bucket lacks by how far `updated` is behind
the latest request; `Accounted` bounds from above what got through plus what is left by
one bucketful and the refill up to `updated`, and for a key without a bucket by the
refill alone. The first gives `QuietKeyServed`, the second `RateBound`.

### Routes and the request path

`ApiProofs` has one theorem, `OneRoute`: of any HTTP request at most one of the
registered routes makes a call, the call names a registered method and has the message
which that method's handler decodes, and the message's genealogy and its item or user are those in the URL, whatever body and query string
say. Each route claims requests by method, number of components, literals and verb; the
claims of two routes exclude each other, and in each `request_` function the path is
applied after the body and the query string cannot set what the path has bound.

`RequestPathProofs` proves, for any environments, requests and tokens:

| theorem | property |
|---|---|
| `Inductive` | `IInv`, the history of the request by its stage |
| `TypeCorrect` | `TypeOK` |
| `TargetIsFromURL` | `TargetFromURL` |
| `CallersActAsThemselves` | `ActsAsCaller` |
| `WritersAreEntitled` | `WritersHaveRole` |
| `DenialsHideExistence` | `DenialHidesExistence` |

Assumptions: the lists of the environment, HTTP requests and method names are made of
strings, a gRPC call carries the message of its method, and a request may come without a
token.

`WritersHaveRole` is about the role in the genealogy, which guards every change; of the
token's role it says what the role map gives, which is less than two comments in the code
promise (section 5).

The properties speak of a request at its handler or of its answer; what makes them
inductive is what each interceptor leaves behind for the ones after it: `NobodyYet`
before AuthInterceptor and `Known` after it, `Charged`, `Granted`, `Untouched` (no
genealogy is looked up before the handler), `Denied`, and `Bound` (the message still
holds what the URL says, from `OneRoute`). `ActsAsCaller` needs that the issuers and
audiences that splitCSV keeps were in the lists, for lists of any length. This is an
induction over a recursive function; the library's induction theorems take an operator
and cannot be used, so the module proves induction over sets of naturals
(`SetInduction`) from the well-founded order on finite sets.

### The life cycle

`ServerLifecycleProofs` proves, for any services, calls, REST calls and
environments, from the one assumption `CallsAssumption`:

| theorem | property |
|---|---|
| `Inductive` | `IInv` below |
| `TypeCorrect` | `TypeOK` |
| `HandlersHaveStores` | `StoresOutliveHandlers` |
| `ExitClosesStores` | `NothingLeftOpen` |
| `ResultsAreSent` | `SendNeverBlocks` |

The argument. None of the three is inductive: whether a store may be closed
depends on where the main goroutine is, and whether a handler runs on the gRPC
server. The invariant ties the three together:

    IInv == TypeOK /\ StoresFollowMain /\ GrpcFollowsMain /\ StoresServe
            /\ HandlersServed /\ ResultsBounded

`StoresFollowMain` and `GrpcFollowsMain` say what is open and how far GracefulStop
is at each step of New, Run and Close; `StoresServe`, that both stores are open
from the end of New until the gRPC server is stopped; `HandlersServed`, that
handlers run only between the start of Serve and that moment. Together they give
`StoresOutliveHandlers`; that both Run and the deferred call execute Close, the
second time on what is closed already, is covered by the same invariant.
`ResultsBounded` counts the results in `errCh` by the goroutines that have ended.

### Only model-checked

`GetReturns` and `Stops`: liveness under fairness is beyond the prover. They hold at the
bounds of section 3.

## 5. Where code and documentation disagree

Two are runs that end with a counterexample. Both take two requests at once: one at a
time, both properties are theorems (`LastOwnerIsKept`, `DeletionIsFinal`).

* `genealogies_last_owner`. "Removing the LAST Owner is forbidden"
  (`genealogies.go:250`). Two Owners leave at once; each counts two.
* `genealogies_revival`. "hard-delete the genealogy and its data"
  (`genealogies.proto:93`). `UpdateVisibility` writes back a record read before
  the deletion.

The others were met while modelling; where a property states what does hold, it is
named.

* "The store MUST be closed first (call Drop)" (`manager.go:173`). A Get between
  `Drop` and `RemoveOnDisk`, or one whose open `Drop` did not see, leaves a store
  open on a removed directory. `DropProtects`: every other store is closed.
* "check before applying so we never exceed the cap" (`proposals.go:154`). Two
  Accepts check before either counts. `PersonOvershoot` gives the bound. The
  private-genealogy cap has the same race (`QuotaDrift` bounds it, for any number of
  goroutines; `SerialQuotaIsExact` says that it takes a race or a fault).
* The last-Owner rule does not cover demotion: `UpsertMembership` gives the only
  Owner a lower role.
* `Close` while a store is being opened makes `installLocked` assign into a nil
  map (`PublishPanic`); `doc.go:9` calls the manager goroutine-safe.
  `Server.Close` avoids it by its order (`StoresOutliveHandlers`).
* Eviction closes stores that requests are using; `doc.go:6` speaks of idle ones.
* `MaxOpen` "caps" open stores (`manager.go:26`), but opens in flight come on top:
  `OpenBound` is the exact bound.
* A decision computed before a change and cached after its `Invalidate` stays for
  the TTL (`CacheFresh` holds with one request at a time only).
* A TTL of 0 does not disable caching (`resolver.go:46-50`).
* "anyone (incl. unauthenticated) can read" a Public genealogy
  (`genealogies.proto:13`), but the auth interceptor refuses a missing token
  (`interceptors.go:48-50`): with authentication on, only Version runs for nobody
  (`ActsAsCaller`).
* "Private/Unlisted ones the caller is an explicit member of" (`genealogies.go:86`),
  "all genealogies a user has explicit access to" (`store.go:191`). The listing takes
  every row under `mr/<sub>/` and does not compare its subject: the private genealogies of
  a member `<sub>/x` are listed to `<sub>`, whom Resolve denies. It takes an identity
  provider that gives out two such subjects. `ListingAgrees` states what holds of the
  listing and `ScansExact` of the scan; `UserScansAreOwn` says when they are right.
* Claim, Accept and Reject are for the Curator in the table of token roles
  (`auth.go:8-11`); the role map asks for Contributor (`server.go:278-280`).
* "mutation RPCs require Contributor" (`server.go:256-257`). `BulkReject` is not in the
  role map, so a token with Viewer does. Here and in the previous case the genealogy's own
  Curator role is required in addition: `WritersHaveRole` states both, as they are.
* `DeleteGenealogy` is commented "Remove memberships + bans" (`genealogies.go:198`)
  and removes memberships only.
* "the genealogy CRUD service also requires Contributor at the global level"
  (`server.go:257-258`); in the map it is at Viewer.
* "Withdraw (own)" (`auth.go:10`): the server does not compare the author; a Contributor
  of the genealogy may ask to withdraw any proposal, and what governance makes of it is
  Linea-core's.
* Issuers and audiences are "paired by index" (`auth.go:85`), after blank parts are
  dropped from each list separately (`config.go:73`): `a,,b` with `x,y,` pairs b with
  y. `ActsAsCaller` requires the pairing only of lists without blanks.
* A subject starts with the issuer's URL and so holds slashes; a REST URL has one
  component for it, so such a member or ban can be named on the gRPC port only (the
  gateway is created with its default handling of escapes, which splits at `%2F`).
* "The zero value is VisibilityPrivate" (`types.go:12`); it is 0, which is not valid.
* `/readyz` answers ready until the process exits, and before the port is bound.
* The limiter's `Close` "MUST" be called (`ratelimit.go:55`) and the server does not.

## 6. Not modelled

* What the entity, relationship, source and query services compute: one read
  transaction of Linea-core and a conversion; their gates and errors are in
  RequestPath. Linea-core itself (store, governance, graph queries) is not in the
  repository.
* Mappers that copy fields into responses, and the tables for certainty,
  relationship type, continuity and source type, which nothing branches on.
* Of the generated code: response messages, descriptors, reflection and getters,
  the `local_request_` functions (the server registers its handlers by endpoint and
  never calls them), the client stubs' transport.
* Logging, addresses and log level of the configuration, `/healthz`.
* Token signatures, dates and algorithms: one bit of a token, go-oidc's business.
* `WithDecision` and `DecisionOf` have no caller in the server.
* JSON encoding and corrupt values of the platform store.
* Counters are 64-bit in the code and unbounded here: each is moved by one and
  capped by quotas far below.

## 7. Plan

Done: the inventory; every component with logic of its own has a module and proofs;
every safety property of the runs is a theorem. What is left:

1. A composition of DeleteGenealogy with TenantManager and resolveStore: what a
   request on a genealogy being deleted may see.
2. The hazards of `PROJECT.json` that no property covers yet: a store evicted under a
   request, an Owner demoted, `/readyz` before and after the port is bound.
