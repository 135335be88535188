# Verification of dqueryd

TLA+ models, TLC runs and TLAPS proofs for **dqueryd**, the DNS-over-HTTPS
gateway of this repository (`internal/`, `cmd/`), and for the programs around it that
change what it does (`deploy/`).

## 1. The system

| Component | State it keeps | Operations | What is hard |
|---|---|---|---|
| Answer cache, `internal/cache/cache.go` | map key -> list element, list of nodes in order of use, capacity | `GetFresh`, `GetStale`, `Set`, `Delete` | two copies of one set of entries, two deadlines per entry, eviction at the limit, callers that read the clock before the lock |
| Upstream resolver, `internal/doh/resolver.go`, `resolveUpstream` | one gate (buffered channel) per upstream; per call: attempt, timeout, client context | build, wait for a token, exchange, fall back | a token must come back on every path; timeouts race answers; mirror-image routes may wait for each other |
| DoH query path, `handleDoHQuery`, `resolveWithInflight` in `internal/server/server.go` | table of in-flight calls under `inflightMu`; the cache | look up, lead or follow, publish, store, answer, fall back to a stale answer | leaders and followers of one key interleave; a leader fails or loses its client; shared bytes carry a per-request DNS ID |
| Request policy: regional policy, personal rules, known rule sets, block settings | SQLite rows, read statement by statement per request | decide resolve / block / 451; the console changes rules, preferences and settings | several statements over tables that change in between and that all owners share; statements that fail |
| CN rules, CN learning and the route, `internal/chinarules/store.go`, `pickRouteForVisitor` | rules (fixed for the life of the process), learned map with expiry under an RWMutex | `IsCNDomain`, `LearnCNDomain`, pick a route | check under a read lock, delete under a write lock; an entry must not outlive its evidence |
| Account store, `newAccountStore`, `migrate` | SQLite schema, version row | migrate, reset of an old schema | crash between two DDL statements, restart |
| Accounts: setup, login, sessions, profiles | users, passwords, sessions, profiles, rows that belong to a profile | `handleSetupInit`, `handleAccountLogin`, `clearSession`, `ensureDefaultProfile`, `handleCreateProfile`, `handleProfileSubresource` | count-then-create without a lock; check-then-insert over two statements; a crash in between |
| Known rule sets: refresher, preferences, matching | rule-set rows, domain rows, preferences | `RefreshKnownRuleSets` at start and daily | failures and truncation of downloads, budget shared by all sets |
| Query log, user-action rate limit | log rows of all owners, `actionLast` map | insert, list, stats, clear | every access deletes old rows of everybody; the limit is counted before the clear, with a time read before the lock |
| TTL and cache-control arithmetic | none of its own | `responseTTL`, `clampTTL`, `capTTL`, `negativeResponseTTL`, `effectiveResponseCacheTTL`, `buildCacheControl` | zero TTLs, bounds that are switched off; ages that add up along service, edge and client |
| ECS, `internal/ecs/ecs.go` | none (pure) | selection and masking of client subnets | precedence, mask limits, IPv4-mapped addresses; the answer is shared by the subnet it was fetched for |
| Configuration, `internal/config/config.go` | none after start | defaults, validation | 0 is a default, a negative number is not |
| Account-system client, `internal/account/client.go` | none | HTTP calls to an external service | pure I/O |
| China list builder, `cmd/chinamax-build` | files | parse, add, exclude, write | four files that each write a name in their own way |
| Cloudflare Worker, `deploy/cloudflare/dquery-doh-cache-worker.js` | edge cache, in-flight map | `handleRequest`, `fillCache` | a second single flight, in JavaScript: no locks, awaits, requests the platform drops |
| `deploy/update-rules.sh` | installed source and list, lock file | fetch, build, install, restart | failure between any two commands, a second run, dqueryd that starts meanwhile |
| Console and look-up pages, `frontend/src/scripts` | page state | fetch and render | answers out of order |
| OpenResty and systemd files | configuration | - | no program logic |

How they interact: `main` loads the configuration and the CN rules, opens and
migrates the store, refreshes the rule sets once, then serves. Each request runs
in its own goroutine: policy and routing read the store and the CN rules, the
cache key is computed, and the query path calls the cache, the in-flight table and
the upstream resolver. An answer may teach the CN rules (which changes the route of
later queries) and adds a row to the query log. A background goroutine refreshes
the rule sets daily. The shared state is the cache (own mutex), the in-flight table
(`inflightMu`), the gates (channels), the learned map (RWMutex), `actionLast`
(`actionMu`) and SQLite.

## 2. The modules

| Module | Models | Composed with | Proofs |
|---|---|---|---|
| `Cache` | `internal/cache/cache.go` | refines `CacheContract` (through `CacheHistory`) | `CacheProofs` |
| `CacheContract` | what a caller of the cache relies on: a lookup returns nothing or the last accepted `Set`, inside its window | | |
| `Upstream` | `resolveUpstream` and the gates of `internal/doh/resolver.go` | refines `UpstreamCall` | `UpstreamProofs` |
| `UpstreamCall` | what a caller of `resolveUpstream` relies on: one outcome, from an upstream the route names | | |
| `QueryPath` | `handleDoHQuery` from the cache key on, `resolveWithInflight` | instances of `Cache` and `UpstreamCall` | `QueryPathProofs` |
| `ECS` | `internal/ecs/ecs.go` | | |
| `Config` | what `internal/config/config.go` loads | | |
| `DoHQuery` | `handleDoHQuery` from the request's headers to the key | extends `QueryPath`, `ECS`, `Config` | `QueryPathProofs` |
| `SchemaMigration` | `newAccountStore`, `migrate` | | `StartProofs` |
| `RuleSetRefresh` | `RefreshKnownRuleSets`, its ticker, `main` | | `StartProofs` |
| `Accounts` | setup, login, logout, sessions, default and created profiles, rules, tokens and rule sets of a profile | | `AccountsProofs` |
| `PersonalPolicy` | what `handleDoHQuery` decides before it resolves, and the console requests that change it | | `PersonalPolicyProofs` |
| `QueryLog` | `logPersonalQuery`, the query log in the console, `allowUserAction` | extends and implements `PersonalPolicy` | `PersonalPolicyProofs` |
| `CNLearning` | `pickRouteForVisitor`, `internal/chinarules/store.go`, the learning branch of `handleDoHQuery` | | `CNLearningProofs` |
| `RuleUpdate` | `deploy/update-rules.sh`, `cmd/chinamax-build`, `chinarules.Load`, crashes and starts of dqueryd | extends and implements `CNLearning` | `CNLearningProofs` |
| `AnswerAge` | `responseTTL` and its helpers, `cacheStaleExtra`, `buildCacheControl`, over one cache entry | extends `Config` | `EdgeProofs` |
| `CacheWorker` | the Cloudflare Worker | | `EdgeProofs` |

An `MC` module extends a specification and supplies constants for TLC, and in a few
cases a specification `MCSpec` that leaves out initial states which are others renamed, or
an action constraint that does the same for steps or bounds them; its `.cfg` (or one of several) is a run. `QueryPath` uses the contract of the upstream call and
not `Upstream` itself: `Upstream` is shown to implement the contract, so the two
checks add up to the composition without multiplying their states. It uses `Cache`
itself, because hit, stale and miss are what the query path is about.

Definitions whose comment begins with "Variant:" are not part of any
specification. Each is a plausible mistake in the definition next to it (a dropped
guard, a lock that is not taken, a list that is gone through once too often).
Replacing the definition by its variant must make the property named in
`PROJECT.json` fail: it shows that the property depends on that code.

### Cache

`items` is the map (key to entry), `lru` the list, front first, as a sequence of
keys; `maxItems` the capacity. `GetFresh`, `GetStale`, `Set` and `Delete` are one
action each, atomic because each method holds the mutex throughout. The caller's
clock reading is a parameter: it is taken before the lock, so the calls reach the
cache in any order of times. Bodies are model values; the hit and miss counters are
left out. `CacheHistory` adds what the contract speaks of, the last accepted `Set`
of each key and the order of use.

### Upstream and UpstreamCall

Per call: `stage` (primary or fallback attempt), the attempt's place (build, wait for
a token, exchange, ...), whether its timeout has fired and whether its client is
gone; per upstream the number of tokens in its gate (a buffered channel of
`max_concurrent`, or none). `Acquire` is the send into the channel, `GiveUp` the
`ctx.Done` branch of the same `select`, `Release` the deferred receive. A timeout
fires at any moment of an attempt (`Expire`), and the fallback starts a new one.
HTTP is external: an exchange answers, fails, or ends when its context is done.

### QueryPath

Per request: its place, its query (name, ECS, resolver namespace), the call it leads
or waits for, the answer it got and its reply; `inflight` maps keys to leaders. One
action per critical section of `inflightMu` or cache call, so everything that happens
between two locks interleaves: `Lookup`, `Register` or `Follow`, `UpstreamEnds`,
`Publish` (assign the result and close `done`), `Unregister`, `AnswerMiss` /
`AnswerStale` / `AnswerError`. A client may go away at any time, which cancels the
context its leader resolves under. The clock ticks between any two steps.

The upstream call ends without an answer where `ApplyToMessage` cannot parse the chosen
subnet (`Unsendable`).

### ECS, Config and DoHQuery

An address is its family and its number, a subnet its family, its length and the leading
bits of that many; the widths of the families are constants, so the arithmetic is that of
the code on shorter addresses. `DoHQuery` reads a request's headers, options and peer under
a configuration that `Loaded` admits (defaults applied, then validated) and derives the
query that `QueryPath` goes on with. Two things in the code are modelled as they are,
although no text speaks of them:

- An explicit subnet of an IPv4-mapped address keeps its length when the address is
  unmapped, so `::ffff:1.2.3.4/120` becomes the text "invalid Prefix", which is then part
  of the key and makes every attempt to build the payload fail. Uncached requests with it
  end in a 502.
- `ecsAddr` takes the first four bytes of an IPv4 option. A DNS library may hand the address
  over in sixteen bytes, of which those are zeros; both are possible in the model, and the
  subnet 0.0.0.0 names nobody.

### SchemaMigration

Per table the schema version it was created with, or `Absent`; the version row;
the place in the list of statements. Each statement commits by itself. `Crash` is the
death of the process or a failing statement (main exits on one) and may happen between
any two; `Start` follows. What users store while dqueryd serves is `filled`.

The look-ups of `hasManagedTables` are the statements that may fail without an exit: the
code takes any error for a table that is not there (`server.go:674`). `Decide` therefore
finds any part of the tables that are `Present`. If it finds none of several and there is
no version row, the start skips the reset, creates what is missing and stamps the version
over old tables; `missed` is history and records just that. `ServesNoOldTable` and
`StampMeansComplete` name it as their one exception.

### RuleSetRefresh

Per rule set its status, rows and age; the lists a pass has still to come to and the
time before its deadline. `Refresh` is one turn of the loop: the next stale list by
name is downloaded, which takes at most the client's timeout and what the pass has left,
and then replaced in one transaction or marked with an error, which takes any time: up to
500000 INSERTs have no timeout of their own and are not cut short by the deadline, but the
deadline looks at the wall clock. `spent` is history, what of a pass's time storing has
used up. A download that breaks off is stored as far as it was read, as in the code. `Day`
lets a day pass and, while dqueryd serves, is the tick that begins a pass.

So a pass need not come to every list. `DailyPassReachesAll` says when it does: as long as
storing takes no more than `Slack`, which is what the deadline leaves beyond a timeout per
list (120 s less three timeouts of 30 s and a quick download of 15 s: 15 s for all lists together).
`GoodListsGetUsed` needs no such bound, because a list that was stored, however slowly, is
not due again for days and leaves its time to the others; only lists whose storing fails,
slowly, day after day may starve those behind them (`SlowFailure`).

### Accounts

Each request is a process with one step per SQL statement or transaction;
`ensureDefaultProfile` takes `s.mu` around two of them. `FindProfile` is the check of
`handleProfileSubresource`, `InsertRow` and `DeleteRow` the statement that follows it.
`resources` holds the rows of `dns_rules`, `dns_profile_tokens` and `dns_rule_sets`, by
table, profile and owner. `shown` is the profile a request was answered with as the
default resolver: the first by `created_at`, which is in seconds, so that several may be.
`Restart` kills all requests that are under way; the tables stay.

### PersonalPolicy

One step per SQL statement: `Arrive` (regional policy), `AskRules` (`domainActionFor`),
`AskLists` (one turn of the loop of `knownRuleSetMatch`, one SELECT per parent of the
name), `Block` (`blockPageResponse`). A statement may fail, which the code takes for
"nothing found". The tables are sets and functions: rules, and per owner preferences and
mode, per rule set its domains. The console (`CreateRule`, `DeleteRule`, `SetPreference`,
`UpdateSettings`) and the refresher (`ReplaceList`) change them between any two
statements. A name is a sequence of labels; list entries are compared with the name and
its parents, as the code does. The history variables `quiet`, `standing` and `ever` record
what did or did not change during a look-up; only properties read them.

### QueryLog

A request to a personal resolver that has its verdict logs it in two statements,
`LogPersonalQuery` (the time and the DELETE of old rows) and `InsertRow`. Reading the log
deletes old rows as well (`ReadLog`). A clear is three steps: `AskClear` reads the time,
`AllowUserAction` is its critical section of `actionMu`, `ClearQueryLogs` the DELETE, which
may fail. All other steps are those of `PersonalPolicy` with the log unchanged.

### CNLearning

`learned` maps names to expiry times. `Check` is the critical section of the read lock in
`isLearned`, `Forget` that of the write lock after it, so a request can be between them.
`EndWithAnswer` asks `ShouldLearnAllAnswersCN` and `Learn` writes the entry, with floor
and cap. A negative `ttl_cap`, which `config.Load` accepts, is no cap (`server.go:2279`);
ttls, floor and cap are any integers. `evidence` is history: when the last all-Chinese
answer was seen, and until when the ttl, or the floor, of such an answer reaches at most.

### RuleUpdate

Files are sets of lines, and a line says what it means and how it is written. `Build` is
chinamax-build, `Load` what dqueryd takes from the compact file. A script is at one command
at a time; `install(1)` removes the old file and then copies, so each install is two steps,
and between them the file is `Cut`. `Fail` ends a script anywhere. `RestartService` and
`Crash` leave dqueryd without rules until `LoadRules` finds a whole file; before that,
`log.Fatalf` and the next attempt change nothing. `Serve` is CNLearning without its own
restart. As in the code, missing local files count as empty ones, a download without rules
builds a list of the local ones alone, and a network is excluded only if it is written
letter by letter as it was included. The list the script fetches by default has no
networks, so only those of `local-include.txt` let dqueryd learn.

### AnswerAge

The arithmetic is written over messages reduced to their TTLs (`responseTTL`, `clampTTL`,
... have the names they have in the code); the state around it is one entry of the
service's cache, one copy at the edge, and the copy a client has just received, with the
time the answer was resolved. Every request of a flight stores the result, at a time of its
own (`Resolve`, `StoreResult`), so a slow one overwrites a newer answer; `MaxLag` bounds how
slow one is, since nothing in the code does. The service computes the TTL anew at every hit, so the copy
of a client gets the whole `max-age` again. The edge and the client obey the header: the
edge may serve its copy for `s-maxage` and then for the longer of the two stale times
(`EdgeLimit`), which the bound of `UsedWithinTwiceTTL` counts for copies that came that way.

### CacheWorker

JavaScript runs from one `await` to the next without interruption, so that is a step.
`inflight` maps keys to the request whose fill it is; `Match` and `Hit` or `Miss` are
separate because the look-up in the edge cache is awaited; `Woken` continues after the
awaited fill. The `finally` of the request that fills (`LeaveInflight`) deletes whatever
entry its key has. `Cancelled` drops a request of a client that has gone, `finally`
included, as the platform may. A query has the fields of the key and no others: the `ecs`
parameter of the URL, which the Worker removes with the rest of `search`, and the client
subnet option of the message do not reach the key, although the service looks at both.
`ReplyFits` speaks of the fields of the key only.

## 3. The runs

| Run | Question | Bounds |
|---|---|---|
| `cache` | Do map and list agree, does the capacity hold, is the least recently used key evicted, does a lookup return the last accepted `Set` inside its window? | 3 keys over 2 places, 2 bodies, call times up to the end of a stale window in any order: evictions from either end, overwrites, refused `Set`s |
| `upstream` | Are tokens leaked, invented or held while waiting? Does the call keep `UpstreamCall`? Does it always end? | 2 calls over 2 upstreams of one token in both orders, enough to wait for each other, and one without a gate |
| `query_path` | One resolver per key, no leaked entry, no lost wake-up, the right answer for the client's question and network, no needless 502, and is every request answered? | 3 requests over 2 keys, 4 instants: one while the first request is at work, then through the ttl and the stale window of what it stored and past both; a leader, a follower from the same subnet, and a latecomer or another subnet, of which the first two may lose their clients; or one request with every kind of address (edge, mapped, unparseable, IPv6, mainland), country and subnet option under 5 valid settings (2 more are refused), with addresses of 3 and 4 bits |
| `query_path_id` | Does every reply carry its query's ID? No: see below | 2 requests |
| `schema_migration` | Is an interrupted reset resumed, are user rows kept, does a start succeed in the end? | the 14 real tables in the real orders, databases of an unreadable, an older, this and a later version, and three sets of tables from before the version row (all there were, profiles with rules and block settings, profiles alone), each table found or not by each look-up |
| `ruleset_refresh` | Does a daily pass whose storing keeps to its slack reach every list; is a good list used in the end whatever storing takes; do failures leave working lists alone? | the 4 real lists and the real deadlines in units of 15 s, any time for storing; age 4 days in place of 7 (with fewer days than lists, two that are slow to store could be due again in turn and eat every pass) |
| `accounts` | One default profile, and the one that is shown; rows only below their owner's profiles; a profile per session, nobody locked out, every request answered? | 3 requests over 2 addresses, one expiry; 2 tables, of which one has a DELETE |
| `accounts_setup` | Does setup run only without users? No: see below | 2 requests |
| `policy` | Does a look-up over tables that change decide as it should; do owners stay apart, in policy, log and limit? | 2 owners, 2 rules, 2 lists, 2 seconds, within `Bounds`, six bounds between which behaviours pass: two rules of one owner; one rule of either; two lists that a name of four labels meets at two parents; two clears of the log; a row written during a clear; the row of a blocked query. Rule ids and console goroutines are symmetric |
| `cn_learning` | Does a name take the Chinese route only on evidence; what forgets it early? Do rules mean what the files say, do source and list belong together, does a list take effect? | 2 requests, 3 names (without a rule; below one and the root, which one of the two asks for), 4 seconds: a ttl below the floor or above a cap of one second, and no cap for two of the names; an entry expires, is met, and is learned again; or, at one time with one request, 2 scripts, 3 downloads, 2 pairs of local files, 2 failures, any number of crashes |
| `answer_age` | Is a client ever told to keep an answer for longer than its records allow? For how long is an answer used at all, directly or by way of the edge? | 9 messages by 4 settings, one all defaults and three with a negative number; 7 instants, past the longest stale window of the service, and to the last instant at which the edge may serve its copy where stale_if_error is off; a request stores at most one second late |
| `worker` | Does every reply fit its request, do fills overlap only when they must, does every request end? | 3 requests of one key, or of keys that differ in one part: two waiters of a fill that cannot be shared |

Small bounds suffice because the interesting cases need few actors: the cache is
symmetric in its keys, a key's in-flight call has a leader and followers that do not
see each other, a token is held by one call and waited for by another, an owner meets one
other, a script one other. Where all
assignments of queries to requests would be too many, `MCSpec` keeps one of each kind. The theorems
of section 5 remove the bounds for most safety properties.

`CHECK_DEADLOCK FALSE` stands where requests are made once: when all are answered
the model stops. A request that hangs is then found by `EveryRequestAnswered` and
`EveryRequestEnds` and not by TLC's deadlock check.

Two runs find the code at odds with what the repository says of it:

- `query_path_id`: a request coalesced with another one is answered with the leader's
  bytes, DNS ID included (`server.go:2289`); hits and stale answers are rewritten. The
  tests state that equivalent queries with different IDs share answers and that a
  shared answer gets the asking query's ID (`server_test.go:28`, `:231`).
  `OwnIDUnlessCoalesced` states what does hold.
- `accounts_setup`: two setups that both count the users before either creates one are
  both carried out, although `docs/DQUERY_ACCOUNT_SSO_PLAN.md:17` allows setup only
  when no local users exist.

## 4. Fairness

Safety needs none. The liveness runs assume:

- `Upstream`: a timeout that runs fires, a runnable goroutine runs, and the HTTP client
  returns when its context is done (`NewRequestWithContext`). Nothing is assumed of the
  upstreams and nobody is promised a token: a call that never gets one ends by its
  timeout.
- `QueryPath`: a runnable goroutine runs, and the upstream call ends, which is what
  the run `upstream` shows. Nothing is assumed of clients.
- `SchemaMigration`: the service manager starts the process again (`Restart=` in the
  systemd unit) and a running process runs. Crashes are not assumed to stop; the
  property is about the behaviours in which they do.
- `RuleSetRefresh`: the same, days pass, and a download ends at its timeout. The lists
  in `Good` are those whose source answers.
- `CacheWorker`: the event loop runs what is ready, the edge answers a look-up, and a
  fetch ends, by an error if need be. A request the platform drops is not continued, and
  `EveryRequestEnds` excepts those that await its fill: the code has no timeout there.
- `RuleUpdate`: the timer starts its script and a script that is not stopped goes on (weak);
  dqueryd loads its rules (strong): `Restart=always` with `RestartSec=2s` tries for ever, slower
  than systemd's start limit, and an install is over in an instant, so a try meets a whole
  file. `Fail` is bounded, crashes are not. Liveness is judged in the family of behaviours in
  which scripts run; in the other one the rules stay and the property holds by the start.
- `Accounts`: goroutines run, and `sync.Mutex` is starvation free, which is strong
  fairness of `Lock`.

## 5. The theorems

Assumptions are the named `ASSUME`s of the modules; TLC evaluates them in every run.
Each safety theorem has one inductive invariant, of which the type invariant is a part.
Five properties of the runs contain the type invariant of their module, so that TLC checks it
as well: `InflightConsistent`, `ToldWithinRecords`, and `Consistent`, `TokensAccounted` and
`FlightConsistent` for the modules the query path is made of.

- `CacheProofs`: `Consistent` (the list has no repetition and the keys of the map, and the
  bound), and the order of use; `CacheKeepsContract` is the refinement, step by step.
  `FrontIsNewer` is needed because eviction takes the last key of the list: only when
  the list is in order of use is that the least recently used one.
- `UpstreamProofs`: the tokens of a gate are those of the calls that hold one, and where
  in an attempt a call holds. The cap follows because `Acquire` needs room.
  `UpstreamKeepsPromise` is the safety part of `KeepsPromise`, `UpstreamCall!Spec`.
- `QueryPathProofs` has four invariants: `AnswerInv` has `FlightInv` as a part, and `GoodInv` and
  `ServiceInv` have `AnswerInv`.
  - `FlightInv` (`FlightConsistent`, of which `SingleFlight` is a part): `inflight` belongs to a
    leader that has not unregistered, each leader has an open or published call, and a follower
    waits for such a call. It relates three variables because the code publishes, unregisters
    and stores in separate critical sections.
  - `AnswerInv` (`AnswersOwnQuestion`, `OwnIDUnlessCoalesced`): every entry of the cache is for
    its key, every call was closed with an answer for its leader's key, and what a request came
    back with is for its own key and carries its ID unless it waited. A step that copies an
    answer copies it between equal keys; that the key tells questions and subnets apart is then
    all that is left.
  - `GoodInv` (`NoNeedlessError`): as long as `goodUntil` of a key is not over, its entry is in the
    cache with that deadline. It needs `KeysFit` (the keys of the requests, whatever they are, are
    at most `MaxItems`): otherwise the cache may have evicted the entry, and the property is false.
  - `ServiceInv` (`SubnetIsOwn`): the query of a request is still `QueryOf` its request and the
    settings. The rest is about operators: `Prefix` covers the address it was made from,
    `NormalizeExplicit` and `Capped` only shorten, and `clientIP` finds an address. The hypothesis
    `WellFormed` is what net/http and the DNS library hand over: the peer address is always
    there and lengths are not negative.

  What a look-up and a `Set` do to the entries comes from `CacheProofs`, through the instance
  `Facts` for the cache of the query path: lemmas `LookupReadsEntry`, `StaleMissMeansDead`
  and `SetStoresEntry` are stated about the cache and used here.
- `StartProofs`, `SchemaMigration`: what a crash leaves is recognised as old by the next start.
  Old tables without a version row are recognised by `hasManagedTables`, which looks for
  some tables only; `OrderAssumption` is what that demands of the drop order, and the real
  order meets it: the last data table to go is one it looks for. `BeforeRowAssumption` says what
  databases from before the version row hold. `missed` is carried through: without it a start
  that creates tables has no old one beneath it.
- `StartProofs`, `RuleSetRefresh`: what is left of a daily pass is enough for the worst case of
  the lists it has not come to and for what storing has yet to use of the slack. `DailyAssumption`
  (timeout times lists, with the last one quick, within the deadline: the slack is not negative)
  is what a fifth rule set would break. `ListsAreKept` is about an action
  property (`NoListLost`) that no run repeats.
- `AccountsProofs`: between `CountProfiles` and `InsertDefault` no default profile of the
  user appears, because `s.mu` is held; past `ensureDefaultProfile` there is a profile.
  No profile is older than a default one of its owner (`DefaultFirst`), so that one is
  shown; profiles are neither deleted nor handed on, so what `userOwnsProfile` found still
  holds at the INSERT (`Targeted`).
- `PersonalPolicyProofs`: while a look-up is in the loop, no entry that stood all the time
  is for a name the loop has passed (`LoopIsBelow`), so the loop comes to it; what stands now
  is between `standing` and `ever`. Statements about names are about sequences of labels of
  any length. `LoggingKeepsPolicy` shows that `QueryLog` implements `PersonalPolicy`, so all of
  this holds with the log; `OwnersAreApart` then goes through the steps: which of them loses
  a recent row, and which refuses a clear.
  `QuietVerdictIsRight` compares a decision made statement by statement with one made at once
  (`AtOnce`). `QuietInv` says that while nothing of the owner changes (`quiet`), the statements
  answered so far would be answered the same now: no rule matched when the lists are read, and
  the decision made is one that the database still leads to. That every step which touches
  something the owner's policy depends on also ends `quiet` is the larger part of the proof.
- `CNLearningProofs`: an entry expires within what the evidence vouches for (`Vouched`: the ttl or
  the floor of an all-Chinese answer, and a cap, if there is one, after the last), a lesson about
  to be stored does too, and what is vouched for stays so while newer answers come
  (`EvidenceGrows`). A request that takes the Chinese route has met such an entry or a rule.
  `UpdatesImplementLearning` shows that scripts, crashes and starts are steps of `CNLearning`
  (a `Restart` with other rules). `FilesAlwaysAgree` rests on the lock: while a script is
  between its two installs no other one is, and its temporary list is built from its
  temporary source. `RulesAlwaysAsWritten` needs in addition that every whole list on the disk
  was built from some download, which the installs preserve, and that `Load` undoes nothing
  that `Build` has normalised.
- `EdgeProofs`, `AnswerAge`: `AgeInv` bounds what an entry outlives its answer by (`Lifetime`: the
  lag of a late store and one TTL; `Stretch`: stale_if_error, for answers only) and hands that on
  to the copies at the edge and with the client. The theorems add what `buildCacheControl` tells.
  They rest on `responseTTL` being at most each positive TTL of the records: `Least` is a `CHOOSE`,
  and that a set of natural numbers has a least one is shown by well-founded induction
  (`LeastNatural`, a `WFMin`). The numbers of a cache section are any integers, because
  `config.Load` does not check them.
- `EdgeProofs`, `CacheWorker`: `WorkerInv` says that whatever the edge, the map, an awaited fill
  and a reply hold is of the key it is used for (`SameKey`), that a request fills at most once
  (`FillsOnce`), that no request waits for a fill that had ended when it came (`EndedBefore`),
  and that a fill which is not in the map runs only after one of its key that could not be
  shared (`FillersListed`). The last is the inductive form of `OneFillUnlessUnshared`, which
  speaks of the number of fills only.

The assumptions on the constants are such as the code gives: a cache has room for something
(`cache.New` replaces any other size), `routing` has a section `cn` and one `global`
(`RoutesAssumption`, the two fields of `RoutingConfig`), a cache section has the nine durations
of `CacheConfig` and TTLs are unsigned (`SectionsAssumption`, `MessagesAssumption`). An instance
does not bring the assumptions of its module with it: `StoreAssumptions` shows those of `Cache`
for the instance `Facts`.

`StartProofs` and `EdgeProofs` each extend two modules that share no definition; that is why the
initial predicate, the next-state relation and the variables of `RuleSetRefresh` and `CacheWorker`
have names of their own (`RefreshInit`, `WorkerNext`). No proof about one of the two uses an
assumption of the other.

Model-checked only: all liveness properties (fairness and `ENABLED` are beyond the prover), the
liveness parts of the two refinements, and the two disagreements above. Every invariant and
every action property that a passing run checks is a theorem.

## 6. What is left out

- SQL statements that fail, where the code answers 500 or ignores the error; in
  `RuleSetRefresh` they are failed turns of the loop (the look-up of the stale lists succeeds:
  a pass whose look-up fails does nothing), in `SchemaMigration` crashes, except those of
  `hasManagedTables`, which are tables not found.
- In `Accounts`: requests that only list, what is in the rules, tokens and rule sets of a
  profile (they are stored and listed; no DNS query reads them), and `last_seen_at`.
- Parsing, formatting, headers, logging, counters, password hashing, HMAC and proxies.
- In `DoHQuery`: requests that are refused before the key is computed. `PersonalPolicy` decides
  before, on tables the query path does not read, and whether a name has a Chinese rule is an
  input, which `CNLearning` models; nothing either decides is read again once the key is
  computed. Which addresses are Cloudflare's or mainland ones is given.
- In `Config`: paths, URLs, secrets, HMAC parameters and methods.
- In `QueryLog`: what the console makes of the rows, and the names in them.
- In `RuleUpdate`: the push to GitHub after the restart (off by default), and a builder that
  someone runs by hand with `-out` on the installed list, which bypasses script and lock.
  `install(1)` and YAML are external.
- In `PersonalPolicy`: requests refused for their form or for a resolver nobody owns, and
  the records of a block page. In `CNLearning`: which names contain a keyword, and whether a
  visitor is in mainland China, are given.
- In `CacheWorker`: requests it only forwards, the parsing of the question, headers, and what
  a query holds besides the fields of the key (the `ecs` parameter, the client subnet option).
- In `RuleSetRefresh`: which lines make a domain. A list is a set of domains.
- The account-system client (HTTP calls without state of their own; `Login` has no caller and
  `Me` is only forwarded), the pages of `frontend/` (rendering; the order in which answers to
  look-ups arrive is theirs alone), and the OpenResty and systemd files have no model.

Five hazards have no property, because nothing in the repository says what should hold: a
start on the database of a later dqueryd writes the older version into its version row
(`server.go:615`), failing look-ups of `hasManagedTables` hide old tables (`server.go:674`), a
failing statement of the policy look-up counts as one that found nothing (`server.go:1773`), a
download that breaks off is stored as far as it was read (`server.go:2040`), and the learned map
keeps names that nobody asks for again (`store.go:119`). The models have all of these steps.

## 7. Plan

Done: the cache, the upstream call, the query path from the headers on, migration, refresh,
accounts, policy and query log, CN learning and where its rules come from, the ages of answers,
and the Worker; every safety property of a run is proved. What is left:

1. `NoNeedlessError` under less than `KeysFit`: with the order of use that `CacheProofs` has
   (`WorkingSet`), it should be enough that fewer than `MaxItems` other keys are used between
   the store and the error.
2. An abstract specification of the query path (a request is answered once, with an answer just
   fetched or one stored inside its window) and the refinement, step by step, as for the cache
   and the upstream call.
3. `CNLearning` keeps the map of learned names apart from the query path: that a learned route
   changes only later queries is built into `QueryPath` (the route is part of the query) and
   could be shown by composing the two.
