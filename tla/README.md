# llms-proxy in TLA+

llms-proxy is a reverse proxy for language-model services, written in Go. A
client sends a request with its access key and a model name; the proxy checks
the client's quota, chooses an upstream *target* that serves the model, chooses
one of the target's API keys, forwards the request, retries with other keys and
other targets when upstream fails, and charges what the answer cost.

This directory models the parts of it in which goroutines, clocks and failures
meet. TLC checks the modules on small instances, TLAPS proves theorems about
them for every value of their constants.

    tlc -workers 2 -config KeyPool.cfg MCKeyPool      # one run
    tlapm KeyRetryProofs.tla                          # the proofs of a module

`PROJECT.json` has the runs, for each property a mutant of the code that breaks
it, the lines of source every definition stands for, the findings, the hazards
and the theorems.

## 1. Inventory

Paths are under `src/internal/` unless they say otherwise.

| Component | State | Operations | What is hard | What makes it correct |
|---|---|---|---|---|
| Key pool (`proxy/keypool.go`) | per key: exhaustion reason, `cooldownEnd`, `blocked`, token window, in-flight count; `rrCounter`; `clientAffinity` | three selections, mark exhausted, mark recovered, block, unblock, record tokens, acquire and release | every method is atomic, calls of many requests interleave; lazy expiry of cooldowns; a bounded affinity table; counter overflow | bindings lead to active keys and stay put while they work; cooldowns only run down; the pool gets a key back |
| Retry loop and wake-up (`proxy/service.go`, `proxy/forward.go`) | locals of each request; `wakeUpInProgress`, `wakeUpCooldown` | choose key, forward, judge the answer, same-key retries, next key, convergence, probe exhausted keys | state read under the mutex is used after it; release of in-flight counts on many paths; check and swap of the wake-up apart | exact in-flight counts; one wake-up at a time; the loop ends |
| Target selection and failover (`proxy/target.go`, `affinity.go`, `service.go`) | `mutedUntil`, pauses; connection affinity; attempted set; metrics | select, mute, failover, reload, stick | stale affinity, late answers, reload under running requests, a body that carries over from attempt to attempt | client's rights; every request counted once; failover ends; what the affinity remembers of an older configuration misleads nobody and fades |
| Client quota (`quota/`) | `counters`, `exceeded` in memory | Check, Increment, Evaluate, preload, calibration | Evaluate reads the database without the lock; lazy flips at period ends; restart | refusals are justified; charges stay until their period is over; drift is corrected |
| Usage store (`nosql/usage.go`, `usage_agg.go`) | `usage_events`, `usage_agg_hourly`, marker of the backfill | Record, queries, BackfillUsageAgg | a crash between the batches of the backfill and its marker | every event is in the hourly totals exactly once |
| Start-up migrations (`nosql/migrate.go`, `model_costs.go`, `targets.go`) | buckets, markers | import of clients, prices, events and configured targets; renaming of price keys at every start | several transactions, each with its own "already done" test | what is imported is imported once and as a whole; a start loses nothing that is stored |
| Trace store (`tracestore/store.go`) | ring of keys, map of traces, write queue, files | Record, Get, List, disk writer | map and ring are updated apart, identifiers repeat; full queue; pages that span memory and disk | the map does not leak; the ring holds the last records; pages follow each other |
| Copilot accounts (`copilot/`, `nosql/copilot_*.go`) | accounts and pools in the database, one refresh lock per account, cache of models | device flow, token refresh, quota sync, revoke, enable and disable, delete, pool limits, selection | whole records written back by several writers, of whom only one takes the lock; limit read outside the transaction | a deleted account stays deleted; a revocation that nobody is about to overwrite holds; no more accounts than the limit; the status follows the quota |
| Copilot passthrough (`proxy/copilot_*.go`) | none of its own | find the pool, select an account, get its token, translate | an account may change or go between any two of these | as above |
| Admin sessions and users (`admin/session.go`, `portal.go`, `nosql/users.go`) | map of sessions; users with passwords | login, look up, touch, destroy, change of password, first user | look-up and touch are two critical sections, and each reads the clock before its lock | a destroyed session stays destroyed; one whose time is up serves nobody who comes later |
| Admin interface and portal (`admin/handler.go`, `portal.go`) | none of its own | changes of clients, targets, keys, users | database first, caches after: the order of two handlers | caches end up equal to the database |
| Authentication and clients (`auth/`, `nosql/clients.go`, `nosql/copilot_pools.go`) | clients, pools, `keyIndex` | authenticate, create, update, rename, delete, targets of a pool's client, reload | commit and replacement of the index are two steps; a pool's handler writes a client back as a whole | no two clients have one key; the index is that of the database once handlers are over |
| Configuration and target store (`config/`, `nosql/targets.go`) | file, database with its order, cached configuration, running targets | load, migrate, change one target, reload | the proxy runs with a change before it is stored; migration from an old copy | the four copies agree after a change that nothing disturbed; only a request changes a target |
| Translation of requests (`proxy/sanitize.go`, `url.go`, `multipart_convert.go` …) | none | pure functions on text | encodings, streaming | unit-testable |
| Usage extraction and prices (`proxy/usage.go`, `costutil/`, `catalog/`) | price table | parse, price | formats of many providers | unit-testable |
| Process start, logging, middleware (`src/cmd/proxy/main.go`, `logging/`, `middleware/`) | none | wiring | order of start | preload before serving |

How they interact. `ServeHTTP` is one goroutine per request and calls everything
else: `quota.Check`, then `selectTarget`, then `forwardRequest`, which calls the
key pool, then the retry loop, then `writeResponse`, which calls
`recordUsageEvent` and with it the usage store and `quota.Increment`. The
administrator's handlers run in goroutines of their own and call the same pools
and managers. The quota's calibration and the trace writer are background
goroutines. Shared state is behind one mutex per object, the database behind
bbolt's transactions (one writer at a time); between two critical sections
anything may happen, and that is where most of the hazards of `PROJECT.json`
are.

## 2. Plan

| | Module | Contents | State |
|---|---|---|---|
| 1 | `KeyPool`, first part of `KeyRetryProofs` | the pool and its methods; abstract specification of what callers may do to it | done, proved |
| 2 | `KeyRetry`, `KeyRetryProofs` | request goroutines, wake-up and administrator on one pool; refines `KeyPool` | done, proved |
| 3 | `TargetFailover`, first part of `TargetProofs` | outer loop over targets | done, proved |
| 4 | `QuotaManager`, `QuotaManagerProofs` | admission, charging, evaluation, restart | done, proved |
| 5 | `StartUp`, `StartUpProofs` | imports, backfill, renaming of prices, Record, the reports, crashes at every step | done, proved |
| 6 | `TraceStore`, `TraceList`, `RecentTraces`, `TraceStoreProofs` | Record, ring, map, queue, writer, restart; listing; abstract queue of the last records | done, proved |
| 7 | `CopilotAccounts`, `CopilotAccountsProofs` | whole-record writers, token refresh, quota synchronisation, limits, selection | done, proved |
| 8 | `ClientAdmin`, `ClientAdminProofs` | clients, pools and the authentication index | done, proved |
| 9 | `TargetAdmin`, second part of `TargetProofs` | file, database, cache and running targets | done, proved |
| 10 | `AdminSessions`, `AdminSessionsProofs` | sessions, passwords, first user | done, proved |
| 11 | pure algorithms | period ranges with variable months, prices, bodies | left, see section 7 |

The abstract specifications are `KeyPool` (of `KeyRetry`) and `RecentTraces`
(of the trace store). For the other components the promise is a relation
between two or three pieces of state and is stated as an invariant or an action
property: an abstract specification of, say, the sessions would be the module
over again.

Worth adding next: the calendar of `quota/period.go` against a reference
definition.

## 3. The modules

Common conventions. A step is what the code does without giving a lock back; a
program counter `pc[p]` (`place[p]` in `TargetAdmin`) names the place between two steps and `proc[p]` (or
`req[r]`) the locals that live across it. Absolute deadlines become the time
that is left and binding times become ages; `Tick` moves all of them. The clock
may move between any two steps, or not at all. Definitions headed *Mutant:*
are plausible bugs; no specification uses them.

### KeyPool — `proxy/keypool.go`

One action per method of `keyPool`, with the whole method in it: a selection
that recovers an expired key or evicts affinity entries does all that in its
step. `reason`, `cool`, `blocked`, `tokens` and `inFlight` are the fields of
`keyEntry`, `rr` is `rrCounter`, `bound` and `idle` are `clientAffinity` and
`clientAffinityAt`. `SelectKey`, `SelectKeyForClient` and `SelectNextActiveKey`
return a key through their parameter, and each of their rounds is a disjunct.
Walks over the entries are `FirstFrom`; Go's map order in the eviction is a
free choice among bindings of one age. `parseResetTimeSpec` is the set
`ResetIn` of times it may yield. `PoolNext` lets anybody call anything: it is
the abstract specification that `KeyRetry` implements.

### KeyRetry — `proxy/service.go`, `proxy/forward.go`

Requests and the administrator's wake-up run on one pool. The program counter
follows the code:

| `pc` | place in the code |
|---|---|
| `select`, `acquire`, `upstream` | `forwardRequest`: `selectKeyForClient`, `acquireInFlight`, the exchange |
| `wake`, `cas`, `list`, `filter`, `probe`, `cool`, `free`, `reselect` | `tryWakeUp`, `getExhaustedKeys`, `getProbeableExhaustedKeys`, `wakeUpProbe`, `wakeUpComplete`, the deferred release, second selection |
| `judge`, `limited`, `after429`, `next`, `flag`, `close` | the retry loop in `ServeHTTP` |
| `respond`, `finish` | `writeResponse` and the `Close` of the body |

From `upstream` to `finish` the request holds a key, exactly once. The answer
of upstream is a choice: no answer, success, 429 or another failing status,
with any of the exhaustion codes the body could show for it. Whether a probe
succeeds is a choice too. The module EXTENDS `KeyPool`, so its actions use the
pool's methods as they stand. `proc[p].probe` is `desperationProbe`: it says that
`selectKey` has offered an exhausted key, and does not say that the request is
forwarded with it (finding 13).

### TargetFailover — `proxy/service.go`, `target.go`, `affinity.go`, `forward.go`

The outer loop. The loop over keys is one step here with three results: an
answer (`Respond`), an error another target may repair (`FailOver`, or
`FailExplicit` for a target asked for by name), a final error (`Fail`).
`Lookup` reads the connection affinity and deletes the expired entries it
meets, `Choose` is the rest of `selectTarget` with the rewriting of the body
that follows it, `Stick` the affinity write after the answer. `Return` is every
`return`: how often the outcome was counted before it and whether
`requestOutcomeRecorded` was set are parameters, and it does what the deferred
function then does.

`config` is the configuration in force: who is paused, under which name each
target serves the model (none for a target that does not, or is not there), and
who sanitizes. `Reload` is `UpdateTargets` and `ApplyConfig`: it puts any of the
possible configurations in force, with new states for all targets, at any
moment, and leaves the affinity alone. A request that has been given a target
keeps its state and the name the model has there (`req[r].name`); it marks the
old state (`replaced`) and writes the affinity under the old name. The weighted
round robin is a free choice among the candidates, and so is which of the
targets comes first when a name is resolved (`ResolvedNames`). `selectTarget`
takes its lock twice, for the sticky target and for the others; a reload between
the two is not told from one before or after both.

### QuotaManager — `quota/`, `recordUsageEvent`, the handlers that change a client

One client: the manager's maps have one entry per client and nothing relates
two of them. `ledger` is what `usage_agg_hourly` sums up to per hour, `config`
the client's limits in the database, `loaded`/`counters`/`exceeded` the two
maps of the manager. `Evaluate` is four kinds of steps (configuration, one sum
per dimension, store or drop), run by requests without counters, by the
administrator, and by the preload and the calibration. `ChangeClient` covers
creation, change and deletion. `Restart` empties the memory at any moment.
Time is the hour, and a period is a number of hours: months of different
lengths and time zones are not modelled (section 7). A charge is one unit.
`Starts` are the hours at which the proxy may be started for the first time, with
the number of requests that will come.

### TraceStore, TraceList, RecentTraces — `tracestore/store.go`

`Record` is three steps: `Store` into the map (`ring`, a `sync.Map`), `Insert`
into the ring of keys under the mutex with the eviction, `Send` into the
channel or nowhere. `Take` and `Write` are the writer's loop, with lumberjack's
rotation in `Written`. A trace is its identifier, which the client may repeat,
and the time its request began. `Begin` stands for the requests that will be
answered; the others record nothing. `TraceList` has `List` and `listFromDisk`
as operators on one state of the store, and the refinement: read from the slot
that is written next (`Oldest`) and without the empty slots, which come first
(`RecentKeys`), the ring is the queue of `RecentTraces`.

### CopilotAccounts — `copilot/`, `nosql/copilot_*.go`, `admin/copilot_handler.go`, `proxy/copilot_passthrough.go`

An account is one record: its pool and order, its status, whether it has a
device code and an OAuth token, the number of its Copilot token, and what its
quota says. `proc[p].mine` is the caller's copy, `current` the copy that is
read under the refresh lock, `listed` what a loop over all accounts still has
in hand; each of them is written back as a whole by `UpdateAccount`, which
does nothing for an account that is gone. Tokens are numbered in the order
GitHub gives them, and `Expire` takes the oldest.

| `pc` | place in the code |
|---|---|
| `create`, `save`, `clear`, `github`, `poll`, `first` | the handlers: `Create` after the pool was read, revoke and enable and disable and overage, the two halves of the forced refresh, manual synchronisation, `CompleteAuth` with its two calls of GitHub |
| `reload`, `lock`, `fetch`, `activate` | `ForceRefreshToken` and `EnsureValidToken`: waiting for the lock, asking GitHub under it |
| `select`, `get` | a client's request: `SelectAccount`, `GetToken` |
| `next`, `sync` | the loop that refreshes the list of models, and `syncAllAccounts` |

`EnsureValidToken` is shared by three callers; `op` says who goes on
afterwards (`Succeed`, `Fail`). Mutexes are steps that wait.

### ClientAdmin — `nosql/clients.go`, `nosql/copilot_pools.go`, `auth/store.go`, the handlers

`clients` and `pools` are the buckets, `index` is the map requests are
authenticated with. A handler's transaction, its `List` and the replacement of
the index are three steps. A handler of a Copilot pool goes on with a queue
(`todo`) of changes of clients' targets, each with its own read, write, list
and load. A handler of targets or of the configuration lists before it applies
and loads after. `lone` and `agreed` are history: they remember whether
handlers have overlapped since the index was right.

### TargetAdmin — `cmd/proxy/main.go`, `nosql/targets.go`, `config/`, the handlers of targets

The four copies of the targets are `file`, `targets` with `order`, `cache` and
`runtime`. The start migrates the file (`Start`), empties it
(`RemoveTargetsFromFile`) and loads (`Load`); `Stop` may come at any time. A
handler lists (`ListTargets`, with the overlay of an empty database and the
migration that follows), makes the proxy run with its copy (`ApplyConfig`),
changes one target in the database (`Store`) and caches the copy (`Replace`).
Reading a page of the interface takes the first steps only, and they may write.
Contents of targets are what `normalizeTarget` makes of them: that trimming and
the defaults of its fields are idempotent is not part of the model.
`Kept`, the members of a sequence that are in a set, is what the loop of `List`
over the order does, and the removal of a name in `Delete`. `lone` and `agreed`
are the properties' memory: who began when all others were idle, and that a
change has ended alone with none overlapping or failing since.

### AdminSessions — `admin/session.go`, `portal.go`, `nosql/users.go`

A request reads the clock (`Stamp`), then looks its session up under the lock,
or removes it if it is over (`Lookup`), reads the clock again, prolongs the session or
not (`Touch`), and is served. `handleChangePassword` is three steps on the
user's record. Cookies never end, so any session there ever was may arrive.
`Start` seeds the first user. `late` is a property's memory: the session was
over, and held by nobody, when the request came.

### StartUp — `cmd/proxy/main.go`, `nosql/migrate.go`, `usage.go`, `usage_agg.go`, `model_costs.go`

The start as a sequence of transactions, each of which may fail or be the last:
imports of clients, prices and events (batch by batch), the marker, the
backfill of hourly totals (`Scan`, `Flush`, `MarkBuilt`), the renaming of price
keys. Then the program serves: `Record` adds an event and its total, the
administrator changes prices and clients. `Count`, `Aggregate` and `Summary`
are the reports, as operators on the totals; the properties compare them with
the events. An event is its number in key order, `MoveKey` is folded over the
keys with a colon in the order of bbolt's cursor. `history` remembers what the
properties make exceptions for: starts that added a batch (`Flushed`) and ended
without marking it (`redone`), and events that were imported after the totals had been marked as
built (`missed`). A day is a whole number of hours and a month at least two
days, which is all the reports need of the calendar.

## 4. Runs

| Run | Checks | Result |
|---|---|---|
| `key_pool` | `PoolTypeOK`, `AffinityWithinCapacity`, `BindsOnlyActiveKeys`, `LiveBindingMovesOnlyToLessLoaded`, `PermanentStaysExhausted`, `CooldownNeverExtended`, `PoolComesBack` | hold |
| `key_retry` | `TypeOK`, `InFlightExact`, `WakeUpSingleton`, `ImplementsPool` | hold |
| `key_retry_ends` | `EveryProcessEnds` | holds |
| `target_failover` | `TypeOK`, `OutcomeCountedOnce`, `RightsRespected`, `StaleEntryMisleadsNobody`, `EveryRequestEnds`, `MuteEnds`, `StaleEntriesFade` | hold |
| `quota` | `TypeOK`, `RefusalIsJustified`, `CountedUntilReset`, `DriftCorrected` | hold |
| `trace_store` | `TypeOK`, `MemoryBounded`, `ImplementsRecent` | hold |
| `copilot_accounts` | `AccountsWithinLimit`, `DeletedStaysDeleted`, `RevocationSettles`, `StatusFollowsQuota` | hold |
| `client_admin` | `AccessKeysDistinct`, `IndexFollowsClients` | hold |
| `target_admin` | `AdminTypeOK`, `CopiesAgree`, `OnlyRequestsChange` | hold |
| `admin_sessions` | `EndedForGood`, `RemovedForGood` | hold |
| `start_up` | `CountsEveryEvent`, `ReportsAgree`, `ImportedOnce` | hold |
| `price_start` | `PricesSurviveStart` | violated, finding 7 |

Configurations kept beside the runs show the counterexamples of other findings:

| Configuration | Property that is violated | Finding |
|---|---|---|
| `tlc -config KeyPoolRecovery.cfg MCKeyPool` | `RateLimitedKeyRecovers` | 1 |
| `tlc -config KeyRetryCooldown.cfg MCKeyRetry` | `NoWakeUpDuringCooldown` | 2 |
| `tlc -config TargetModel.cfg MCTargetFailover` | `UpstreamGetsItsModel` | 3 |
| `tlc -config TargetAffinity.cfg MCTargetFailover` | `FailoverKeepsAffinity` | 4 |
| `tlc -config QuotaAnyLimit.cfg MCQuotaManager` | `AnyLimitRefuses` | 5 |
| `tlc -config TracePages.cfg MCTraceStore` | `PagesAreComplete` | 6 |
| `tlc -config CopilotRevoked.cfg MCCopilotAccounts` | `RevokedStaysRevoked` | 8 |
| `tlc -config KeyRetryProbe.cfg MCKeyRetry` | `ProbeIsSent` | 13 |

What the passing runs show:

* *The pool.* Whatever order its methods are called in, a client is only ever
  bound to a key that works at that moment; a binding that works moves only by
  rebalancing and only to a strictly less loaded key; late answers neither
  prolong nor shorten a cooldown; a key that is out for good comes back only by
  an unblock or a proof that it works; the table keeps within its capacity; a
  pool without active keys gets one back when clients keep asking.
* *The loop on the pool.* In-flight counts are exact on every path through the
  loop; no path leaves `wakeUpInProgress` set; every step of the loop is one call
  of the pool or none (`ImplementsPool`); and the loop ends once upstream stops
  failing. That a request is only forwarded with a key that is active at that
  moment also holds, but is no promise of the code: it promises the contrary
  for a probe (finding 13).
* *Targets.* Each of the returns of `ServeHTTP` counts the request once; the
  affinity never overrides the client's rights; failover ends; mutes end. The
  affinity outlives the configuration it was written under, so an entry may lead
  from a name to a target that has another one by now, is paused or is gone;
  such an entry sends nobody astray (`StaleEntryMisleadsNobody`), and when a name
  is given up for good its entries run out, although clients keep asking and
  requests under way may write them again (`StaleEntriesFade`).
* *Quota.* `counters` and `exceeded` never drift apart, whoever wrote last; a
  counter goes down only at its reset or by an evaluation; and whatever races,
  faults and restarts leave behind, the next calibration puts right: counters
  that a charge across the hour has missed or has twice, and an entry of
  `exceeded` that an expiry took away as it was new.
* *Traces.* Although map and ring are updated apart, nothing stays in the map
  that no key will evict, also when identifiers repeat; the ring implements a
  queue of the last records.
* *Copilot accounts.* The writers of whole records do overwrite each other; what
  survives is that a deleted account stays deleted, that a revocation holds once
  no older copy is in anybody's hands, and that a pool keeps to the greatest
  limit it has had. No path leaves a refresh lock behind, and when the requests
  are over the synchronisation puts every status into line with its quota.
* *Clients.* No interleaving of renames, new keys and write-backs of pools gives
  two clients one key. The authentication index may be stale after overlapping
  handlers, and the next handler that nobody overlaps puts it right.
* *Stored targets.* The four copies agree after every change that ended alone, whatever
  earlier changes have left; no stale copy of the configuration changes or
  brings back a stored target, but for one case: a database without any target.
* *Sessions.* A session that has been removed is never prolonged into life
  again, and one whose time is up serves nobody who comes later.
* *Start.* Wherever starts were cut short, no event is missing from the totals
  (but for those of finding 12), and an event is counted at most once more for each start that ended between a
  batch and the marker; without such a start every report agrees with the
  events. A crash before or after the import of events does no harm.

### Bounds, and why they are enough

* `KeyPool`: two keys, two clients, a table of one entry. One entry forces an
  eviction at every second binding. `RateLimitCooldown` 1, `HardCooldown` 2 and
  `Permanent` 4 keep the three kinds of deadline apart, `ResetIn` {0, 1} has a
  quota with and without a reset time. `CounterWrap` 3 is not a multiple of
  `N`, so the round robin meets the index that a wrap repeats. `AffinityTTL` 2
  above `RebalanceInterval` 1 gives fresh, rebalanceable and stale bindings.
  One token and one request in flight suffice to make keys differ in load.
* `KeyRetry`: two requests of one client, two keys, the administrator; at most
  two processes run at a time (`MaxActive`), one key is blocked at a time and
  upstream fails twice. Two failures and one retry per key reach the rate
  limit, the change of key, the last forward and the convergence.
  `RebalanceInterval` and `AffinityTTL` are 0: every binding may be rebalanced
  or evicted at once, which allows more than the code does, and the table's
  behaviour in time is `key_pool`'s subject. Symmetry swaps the requests, in
  the run of safety properties only.
* `key_retry_ends`: one request and the administrator. Upstream stops failing
  after two failures (`MaxFailures`), without which no loop over keys can be
  shown to end: codes that are not at account level do not converge.
* `TargetFailover`: two targets and three configurations, any of which may
  follow any other. In the first the first target serves the model under the
  name of its deployment and is sanitizing, and the second under the name the
  clients ask for; in the second the deployment is renamed to that name and the
  second target is paused; in the third the first target is taken out. So an
  entry may lead from a name the clients ask for, or from that of a deployment,
  to a target that no longer has it, cannot be used, or is not there. One request
  may name a target and may use both, the other may use the first only, so an
  entry can also lead it to a target it has no right to. The quiet period is 2,
  so that a mute can be renewed while it lasts; an affinity entry is over with
  the next tick. In `TargetAffinity.cfg` both targets use the name asked for.
* `QuotaManager`: a day of one hour and a month that does not end. Either two
  requests come around one full hour, against limits of one and two units, or one
  request comes around two of them; so a charge may be stamped in one hour and
  counted in the next, and a calibration may fail, with the one of the following
  hour left to repair it. With that comes one trouble, which is a change of the
  client, a fault of the database or a restart at any step. Two requests around
  two hours are beyond what TLC does in minutes. The deadlock check is off
  because clock, requests and troubles are bounded and run out.

* `TraceStore`: two requests, a ring of two, a channel of one, files of one
  record with one backup, four records with three identifiers: the ring wraps
  around twice, identifiers repeat while the first is in the ring or has just
  been evicted, the channel fills and a file is deleted. One failing write or
  restart. `TracePages.cfg` records one after the other, so that the order of
  ending is that of beginning, and speaks of states in which everything is on
  disk under different identifiers. The deadlock check is off because records
  run out.
* `CopilotAccounts`: two accounts, one pool with a limit of one or two, two
  requests of any kind beside the synchronisation, one failing query or restart.
  The database begins with one account in a full pool, authorised with a token
  that has expired, or in the middle of its authorisation; so the second account
  comes only after a deletion or with a greater limit, and a refresh is needed
  at once. Two requests are a writer and whoever it races with.
* `ClientAdmin`: two names, two keys, two targets, two pools, two administrators
  with five requests between them and one restart. Five suffice to create or
  give a pool, change the client's key while the pool writes it back, give the
  old key to another client, and reload.
* `TargetAdmin`: two names with two contents, two administrators with three
  requests, two failing writes or ends of the process. The target is still in
  the file, or in the database already. Symmetry swaps the requests.
* `AdminSessions`: one user, two passwords, two sessions, two requests at a time
  of four in all, one restart; sessions last two units of a clock that goes to
  four, so a session can end, and be prolonged before that. Symmetry swaps
  requests and identifiers; the run has no liveness property.
* `StartUp`: six events over three days of two hours, a week of one day and a
  month of two; one event is stored already or none, three are in the file,
  imported and added up in batches of two, so that the last batch is not full;
  two crashes, two failing transactions (the import of the usage file and then
  its marker: only both together leave events behind that no total has), two
  changes while serving. One model has a colon in its name, as names of local
  models do.

In these five runs the deadlock check is off because requests, crashes and
changes are bounded and run out.

### Fairness

* `FairPoolSpec`: time passes and every client keeps asking for a key. The
  second is an assumption about clients, and `PoolComesBack` needs it, since
  the pool only recovers keys when it is asked.
* `KeyRetry!FairSpec`: goroutines that have begun go on, and upstream answers,
  fails or times out (the transport has timeouts). Neither the clock nor the
  administrator has to move.
* `TargetFailover!FairSpec`: handlers go on, time passes.
* `QuotaManager!FairSpec`: handlers, the administrator's evaluation and the
  calibration go on once begun, time passes. No request has to arrive.
* `CopilotAccounts!FairSpec`: handlers that have begun go on, and the
  synchronisation, which has a ticker of its own, comes again and again. Weak
  fairness is enough for the refresh lock: it is free again and stays free when
  the last holder is done. The other new modules state safety only.

All of it is weak fairness of one goroutine each, which Go's scheduler and
`sync.Mutex` (starvation mode included) give.

## 5. Findings

1. **A rate limited key does not recover by itself** while another key is
   active. `keypool.go:462` says it does; the scans for expired cooldowns run
   only when no key is active.
2. **Two wake-ups within a minute.** `keypool.go:60` says that cannot be;
   `tryWakeUp` reads the cooldown and swaps the flag in two steps.
3. **After a failover the second target may get the first one's model name.**
   The rewritten body replaces the original, and so does the sanitized one.
4. **A failover moves the affinity** although `service.go:673` and
   `affinity_test.go:52` say it does not: after a transport error the affinity
   is not looked up again and the choice counts as a first round robin.
5. **One of two reached limits hides the other.** When the first resets, a
   request is admitted although the second is still reached, against
   `docs/quota-design.md:106`; the next charge notices.

6. **A page of traces skips records.** `tracestore/store.go:399` numbers the
   records of a page by its offset; a page that starts in memory and goes on on
   disk adds the offset a second time.
7. **A start deletes the price of a model with a colon in its name.**
   `MigrateKeys` takes the key for an old one, puts the price under the model's
   name, which is the same key, and deletes that; `model_costs.go:99` calls it
   idempotent.
8. **A revocation may be overwritten.** A refresh, a synchronisation or the end
   of the authorisation that has read the account before writes its copy back
   with the tokens `copilot/service.go:183` says are cleared.
9. **The backfill counts again after a crash** between a batch and its marker,
   although `usage_agg.go:155` calls it idempotent.
10. **A crash between two batches of the import loses the rest of the file**:
    the next start finds events and skips it, against `migrate.go:19`.
11. **Events within a second are out of order.** Keys begin with RFC3339Nano,
    which drops trailing zeros, so `List` is not sorted as `usage.go:62` says
    and a seek to a whole second misses that second's fractions. Found while
    reading; events are numbers in the model.
12. **Imported events may miss the totals for good.** If the import of the usage
    file fails and its marker cannot be written either, the start goes on, marks
    the totals of no events as built, and serves. The next start imports the file
    and skips the backfill (`usage_agg.go:177`), so the events are in the list
    and in no report, against `main.go:115` ("so reads see consistent agg
    data"). `CountsEveryEvent` failed on it with two failing transactions;
    `history.missed` in `StartUp` remembers these events.
13. **The probe of an exhausted key is not sent.** When all keys are exhausted,
    `selectKey` chooses the one with the shortest cooldown and `service.go:482`
    says that the request is sent with it, and that the key recovers if it works.
    `forwardRequest` chooses anew, with `selectKeyForClient`, which has no such
    round: the request goes to the wake-up, and ends with 503 if that does not
    help. The mark of the recovered key (`service.go:493`) is reached only if
    a key has become active meanwhile.

Seen while modelling, without a run of their own:

* `service.go:482` says a failing key's cooldown is prolonged; `markExhausted`
  returns early for a key that is exhausted (`keypool.go:395`), and
  `CooldownNeverExtended` is what holds. `service.go:480` speaks of 30 s, the
  constant is 5 s.
* `service.go:581` says the current key has been marked exhausted; the place is
  reached for every failing status.
* `wakeUpProbe` (`forward.go:1299`) reports a key that was only blocked as
  recovered, and it stays blocked.
* `service.go:533` announces that the 429 is passed on; the request is
  forwarded once more instead, and may end with 503.
* The convergence is described for two different keys; that they differ is not
  checked.
* The affinity is read under the name the first able target gives the model and
  written under the name of the target that served (`TargetFailover!Lookup`,
  `Stick`). With different names the entry may not be found again.
* The affinity is not cleared by a reload, and a request that was under way may
  write an entry for a target that is gone. A client whose entry leads to such a
  target counts as failing over and gets no new entry until the old one is over.
* The affinity is written after 5xx and 429 answers too, while `target.go:146`
  speaks of the last target that succeeded.
* A reload drops the health of all targets and of their key pools.
* `Increment` without counters evaluates the database, which has the event
  already, and adds the cost again; the next calibration corrects it.
* `docs/quota-design.md:191` rules out concurrent evaluations of a client; the
  code does not prevent them, and `QuotaManager` has them.
* A trace whose identifier comes a second time leaves the memory with the
  eviction of the first, and `List` shows the second in both places until then:
  the ring has the key twice, the map has it once. After the eviction `Get`
  goes to disk, where it finds the older one first if they are in one file.
* `List` orders the memory by the end of requests and the disk by their start.
* Nothing calls `Close` on the trace store, so what is queued when the process
  ends is not written; the design accepts that of a crash.
* An evaluation that read the old configuration may store counters for a client
  whose quota has been removed; `ListWithQuota` leaves such a client out of the
  calibration. `Accurate` therefore speaks of clients with limits only.
* Copilot. `DeductAndPersistQuota`, `MarkQuotaExhausted` and
  `RefreshModelCache` are called by nothing, and `token_expired` is never set.
  When another goroutine has refreshed the token, `EnsureValidToken` copies the
  token but not its endpoint (`token.go:190`). A new account counts as
  exhausted until its first synchronisation, and an unlimited one that reports
  nothing left is passed over by the selection (`SelectAccount`). The manual
  synchronisation leaves the status as it was. Accounts of a pool that is
  deleted or renamed stay under its old name.
* Pools. A client that loses its last target may use all of them
  (`copilot_handler.go:272`), and one that may use all is narrowed to the
  pool's when it gets a pool (206). A pool's handler writes the client back as
  it was, with an access key that may have been replaced meanwhile (246). A pool
  that gives up a target leaves the client's right to it (115).
* Targets. The last target, once deleted, may come back from the configuration a
  handler still holds (`handler.go:1354`), from the file with a reload, or with
  the next start if the file could not be emptied. A change that could not be
  stored stays in force until the next one (`handler.go:886`). An overlapping
  update writes the whole target and may lift a pause.
  `__existing_key_index__` is resolved against the keys of the moment.
* Sessions. One whose time is up stays in the map until somebody asks for it. A
  request that has read the clock just before the end prolongs the session just
  after it, or moves `ExpiresAt` back. A change of password leaves sessions
  alone, and two of them may both be authorised by the old password. A random
  first password is lost if the process ends between storing and printing it.
* Start. An emptied bucket is imported again if the marker could not be written;
  a file that cannot be read is marked as imported.

## 6. Proofs

Every theorem holds for any number of keys, clients and requests, any periods
and any bounds, from the `ASSUME`s of the modules: at least two keys, finite
sets of clients, requests and accounts, timed cooldowns shorter than the
permanent one, bounds that are natural numbers, distinct keys in the database a
start finds, events numbered in the order of their times, days of whole hours,
and a database of targets and a file in which no name comes twice. That is the
one thing said of what the first start finds (`StoredAssumption`): a file with a
name twice ends the program (`targets.go:247`), and the order is written in the
transactions that write the records.

**KeyRetryProofs, first part: the pool.** Two inductive invariants. `PoolInv` is the type invariant
with `AffinityWithinCapacity`; the bound is needed inductively because eviction
leaves at most `MaxAffinity - 1` of the bindings there were, and the binding
adds one. The counting goes through the library's theorems on cardinality.
`HealthInv` adds that a key that is not exhausted has no cooldown, which the
action properties need: `PermanentIsPermanent` and `CooldownOnlyRunsDown`
compare a key before and after and have to know that a key without a reason
has no deadline left. `BindingsAreActive` and `LiveBindingsStay` follow from
`PoolInv` method by method. Helper lemmas say once what a scan returns
(`FirstFrom`, `BestActive`: a member of the set, by well-ordering of a finite
set of numbers), and every method has a type lemma.

**KeyRetryProofs, second part: the requests.** `RetryInv` is `PoolInv`, the types of the locals, the fact
that a process at a place where it holds a key has one (`KeyInHand`), and
`InFlightExact`. That invariant is inductive because acquiring adds one
process to `Holders(k)` and one to the count, every release removes both, and
every other step leaves the set alone; without `KeyInHand` a release could be
one of no key at all. `WakeUpSingleton` is inductive relative to it.
`RetryImplementsPool` shows step by step that a step of a request is a step of
`PoolNext` or leaves the pool alone; acquiring respects the pool's
`MaxInFlight` because the count is at most the number of requests. Because of
it what is proved of pools holds of requests: `RetryKeepsCooldowns` is
`CooldownOnlyRunsDown` carried over.

**QuotaManagerProofs.** `RefusalIsJustified` is inductive as it stands: each
step that writes `counters` writes `exceeded` from the new value in the same
critical section, and the only step that flips counters without looking at the
limits deletes the entry. No typing is needed, so it holds whatever the totals
are. The other two theorems rest on `QuotaInv`: the types of the maps and of what
every handler holds, that no handler has read a clock that is ahead, and that a
client that is not loaded has no counters. `QuotaTypeCorrect` needs that the
sum an evaluation reads is an amount; the fold over the hours is solved by an
induction over finite sets that is proved for a set of sets, since the library
states it for an operator. `ChargesAreKept` then goes through the handlers: a
step that adds makes a counter no smaller, the flip of `Increment` and of
`Check` happens only at or after the counter's reset, and every other write is
that of an evaluation.

**TraceStoreProofs.** `MemoryInv` is the types of map, ring and requests with
`MemoryBounded`. It is inductive because of `Storing`: the step that puts a
trace into the map makes it one that is about to get a key, the step that
inserts the key ends that and evicts from the map precisely the identifier
whose slot it takes. `TraceTypeCorrect` adds the channel and the files.
`RingImplementsRecent` is the refinement. Its invariant `RingInv` says that,
read from the slot that is written next, the empty slots come first; then an
insertion either fills the last of them, and the queue grows by one key, or
takes the slot of the oldest key, and the queue loses its head. Both are shown
position by position, with the wrap-around in one lemma (`Wrapped`).

**StartUpProofs.** Four invariants, one upon the other. `Typed` is the type
invariant with what each place of the start has at hand; that the renaming of
prices yields a table of prices is an induction along the keys it folds over.
`ImportInv` says where nothing is marked yet, and that as long as the file has
not been cut short its events are all there, or none is, or the rest is in hand.
`BackfillInv` says that the last key belongs to the backfill under way and that
nothing read or in hand lies behind it. `CellInv` says of every cell, an hour of
a client, that its total has at least the events added so far without the missed
ones, and at most those together with all events `redone` times. It is
inductive because a batch goes into each cell once. `EveryEventIsCounted`
carries the bounds from cells to sums over any window (`SumBounds`, an induction
over the cells), and `ReportsAreTrue` follows where both bounds meet, with the
arithmetic of hours and days (`Floor`, `Quotient`, `BucketHolds`): an event is
in the hour, and its hour in the bucket, of its time.

**TargetProofs, first part: failover.** The invariant is the types and
`ForwardInv`: whoever has been forwarded went to a target it may use, and
unless that has been replaced it is not paused and serves the model under the
name the request has for it. `ForwardInv` needs nothing of the affinity, because
`Choose` looks for the sticky target among those that are usable under the
configuration of the moment; that is why a stale entry does no harm
(`StaleEntriesMisleadNobody`), whatever the set of configurations is. A reload
sets `replaced` for everyone who has been forwarded. `OutcomesAreCountedOnce` is inductive
with the types: each step moves one request into or out of the set of those on
their way (`Underway`) or of those without an outcome (`Uncounted`) together
with the counters, or leaves all of them alone.

**TargetProofs, second part: the four copies.** The module extends both modules
about targets; they share no name. `AdminInv` is the types, with what the order
has to do with the records (`Ordered`: it names the stored targets, each once),
configurations that have a name once, and, of a handler that may change a
target, that its copy has it. Under `Ordered` the list is simply the targets in
their order (`ListedIs`), and each way of writing to the database has a lemma
that says what is listed then (`StoreNew`, `StoreThere`, `StoreDelete`,
`MigrateFills`). `Kept` is recursive; what it keeps, that it keeps the order and
that it commutes with a function on the members is shown by induction over
prefixes, for a set of prefixes (`Upwards`). `OnlyRequests` follows from
`AdminInv`. `CopiesDoAgree` needs three more: who is alone (`Alone`), what a
handler that is alone has at hand at each place, in terms of what is listed
(`Fits`), and that while the copies are said to agree nobody has filled the
database and whoever has not applied a change yet leaves them alone
(`AgreeInv`). `Fits` does not ask that the copies agreed when the handler began;
that is why a change repairs what earlier ones have left.

**CopilotAccountsProofs.** What a handler holds is stale as soon as it is read,
so the invariant (`Inv`) says what stays true of it (`Fits`): the account has
been created, it is in the same pool if it is still there, and the fields that
brought the handler to its place in the code are set. `Good` is what every
action is shown to do to the store and to the locals, one lemma per action, and
the four theorems follow from it. `PoolsKeepTheirLimit` counts: only
`CreateAccount` adds to a pool, one account, below a limit that was the pool's
when it was read; every write-back stays in its pool because of `Fits`.
`SettledRevocationsHold` needs that every place that asks GitHub has found a
device code or an OAuth token in its copy. Deadlines of tokens play no part.

**ClientAdminProofs.** `TypeInv` is the types with `LocalsAtHand`: a handler
that goes on has the pool and the change it goes on with. `KeysStayDistinct` is
inductive with it, since every write to the bucket checks all other clients in
its own transaction. `IndexInv` has four parts: who is alone is alone, while
nobody has overlapped whoever runs is alone, what a handler that is alone has
listed is what there is, and unless it is about to replace the index that is
right. With distinct keys the replacement is never refused.

**AdminSessionsProofs.** `TypeInv` says with the types that a session a request
names has been generated and that no time read is still to come. `LateInv` says
of a request that came too late that its session is `Dead`: over now, held by no
request, and over also for every request that has read the clock and waits for
the lock. Without the last part the invariant would not be inductive.
`RemovedSessionsStayRemoved` needs the types only: the one step that puts a
session into the map takes an identifier not generated yet.

Only model-checked:

* Liveness (`PoolComesBack`, `EveryProcessEnds`, `EveryRequestEnds`,
  `MuteEnds`, `StaleEntriesFade`, `DriftCorrected`, `StatusFollowsQuota`): fairness and ENABLED are
  out of the prover's reach.
* The refresh lock's mutual exclusion is not stated by itself: that it is never
  left behind is part of `StatusFollowsQuota`.
* The violated properties, of course: they are shown by counterexamples.

## 7. Not modelled, and why

* The trace store's `Get` (it only reads), its counters, and `Close`, which
  nothing calls.
* Text: URLs, headers, JSON and multipart bodies, error texts, streaming.
  Conversions have no state; what recognising an error text yields is a choice
  in `KeyRetry`.
* Prices' arithmetic and the parsing of usage: one unit per charge. Reports are
  checked for numbers of requests; tokens and costs are added by the same code.
* Translation between the formats of Copilot and of the clients, the contents of
  the list of models and its table of prices: pure functions on text. Of the
  list's cache only what its refresh does to accounts is modelled.
* The device flow's polling: `CompleteAuth` asks once, the administrator's page
  asks again. `UpdateConfig` of the sessions and the user store's `Create` and
  `Delete` are called by nothing.
* The imports of administrators and of the audit log (single transactions like
  that of clients), the audit log itself, and handlers that only read.
* Fields of the configuration other than targets, their parsing and validation.
* Logging, the HTTP server, its shutdown: I/O and wiring.
* The token window's samples: `Tick` may drop any part of the window, which
  allows every ageing the code can show.
* Weights of the round robin over targets: a free choice.
* Variable months, time zones (`quota/period.go`): hours only, in `QuotaManager`
  and `StartUp`. The calendar is the standard library's, and what is left of the
  code is covered by its table tests.
* Several targets' pools together: pools share nothing but the requests, and
  a request is in one pool at a time.
