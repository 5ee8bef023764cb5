# Verification of the UDM device platform

TLA+ models, TLC runs and TLAPS proofs for the Go server in `src/`: a REST API
over PostgreSQL (GORM: users, devices, alert rules), ScyllaDB (telemetry points,
alert events) and KeyDB (caches, online marks, counters).

Run a check with `tlc -config <run>.cfg MC<module>.tla` (`Server.tla` needs no MC
module), a proof with `tlapm <module>_proofs.tla`. `PROJECT.json` lists the runs, the map from
definitions to source lines, the hazards and the theorems.

## 1. The system

One process serves HTTP; every request is a goroutine. The services keep no state
of their own except `deviceService.sf`, a `singleflight.Group`. All sharing goes
through the three stores, none of which takes part in a transaction with another,
and every call to a store is a point where other requests run.

| Component | State | Operations | Hard parts |
|---|---|---|---|
| Device service (`device_service.go`, `device_repo.go`) | rows `devices`, `user_devices`; keys `device:{id}`, `devices:list:{hash}`; flights | Create, FindByID, Update, Delete, List | read-then-SET against write-then-DEL; shared flights; SCAN-then-DEL; partial cleanup (207); upsert after a delete |
| Telemetry service (`telemetry_service.go`) | `telemetry`, `alert_events`; key `telemetry:latest:{id}` | BatchInsert, Query, QueryLatest, DeleteByRange, QueryAlertEvents, Acknowledge | five stores' steps in a row without a transaction; reordered write-through; redelivery |
| Telemetry repository (`telemetry_repo.go`) | points in day buckets | chunked batches, day loops, two-day window | bucket by the timestamp's own zone; chunks that fail half-way |
| Status and counters (`status_service.go`, `cache_service.go`) | `device:online:{id}`, `dashboard:online_set`, `alert:count:*` | SetOnlineStatus, IncrAlertCount, GetDeviceStatus | pipelines that are not transactions; TTLs of related keys |
| Dashboard (`dashboard_service.go`) | `dashboard:overview`, `dashboard:device_total` | GetOverview | a cache of caches; zero as "missing" |
| Device paging (`device_repo.go`, `device_service.go`) | the cursor a client sends back | List by cursor | rows that come and go between the pages of a walk |
| Alert rules (`alert_rule_service.go`) | rows `alert_rules` | Create, FindByDeviceID, Update, Delete | read-modify-save of whole rows; upsert after delete; cascade |
| Users (`user_service.go`) | rows `users` | Create, FindByID, Update, SoftDelete | check-then-insert on two columns; a lost soft delete |
| Cache administration (`cache_handler.go`) | all keys | Invalidate | no middleware sets the role it needs: it always answers 403 |
| Process (`main.go`, `health_handler.go`) | which stores are up | start, health, shutdown | optional stores; a bounded pool; one deadline for three pings; handlers that hang over a shutdown |
| Routing, envelopes, DTOs, logging, configuration | none | formatting | not modelled |

Interaction: FindByID also reads and writes `telemetry:latest:{id}`; Delete of a
device clears its telemetry, online and counter keys; the telemetry service
checks the device row and the alert rules; the dashboard reads the counters and
counts the device rows; main hands every service its stores, or nil for those that
were down at the start.

What makes each part correct:

* device service: a cached copy is stale only inside a writer's window or after
  an identifiable race or failure, never for good; flights lead one fill at a
  time and strand nobody; codes stay unique; every request writes at most one row
  once; a walk through the pages misses no row that stays and repeats none;
* telemetry: a stored point that breaches a rule gets its alert unless something
  failed or the rule changed, a counted severity has an event that was stored with
  it, an acknowledgement is undone only by another point of that time, the latest
  points converge to the table's, the keys of a deleted device vanish;
* counters and presence: a key without TTL has a broken pipeline behind it, an
  online device is in the set, the devices' counts stay within the global one
  while no pipeline was cut;
* day buckets: a range query and QueryLatest miss only what the zones of
  sender, client and server make them miss;
* dashboard: numbers are at most the sum of the layers' TTLs old;
* process: no handler meets a closed store, the health report blames the right
  store first, a signal always ends the process;
* rules and users: an acknowledged change of one field is undone by a change of
  another only if the two requests overlap, unique columns stay unique.

## 2. The modules

| Module | Models | Uses |
|---|---|---|
| `DeviceService` | device CRUD, caches, flights | implements `DeviceDirectory` |
| `DeviceDirectory` | abstract: what the device service promises of the table | |
| `Telemetry` | ingest, latest points, alert events of one device | implements `AlertLog` |
| `AlertLog` | abstract: what an ingest promises of alert events | |
| `TelemetryBuckets` | day buckets, bounds and zones as operators | |
| `TelemetryReads` | queries over the points `Telemetry` stores | `Telemetry`, `TelemetryBuckets` |
| `AlertRuleService` | alert rules and the cascade of their devices | |
| `UserService` | users and their unique columns | |
| `KeyCounters` | presence marks, alert counters, their TTLs | |
| `DevicePages` | walks through the device list | |
| `Dashboard` | the overview, and the composition with what it reads | `KeyCounters`, `DevicePages` |
| `Server` | startup, pool, health, shutdown | |

`MC*.tla` hold finite instances, `*_proofs.tla` theorems.

### DeviceService

`DeviceService.tla` is the core: one request per goroutine, one action per call
to a store, one variable per table, key family or local variable that crosses a
call.

| TLA+ | Code |
|---|---|
| `row[d]` | the row of a device; `n` counts the commits to its id, `live` is its presence |
| `cache[d]` | `device:{id}`: a version, a dead version for the string `"null"`, or `None` |
| `lists[q]` | `devices:list:{hash}`: the row versions the page was built from, or `None` |
| `flight[d]` | `deviceService.sf`: the leader of the call running for that id |
| `op`, `pc`, `dev`, `qry` | a request's operation, next call or outcome, arguments |
| `got`, `snap`, `keys` | what FindByID read, what List read, what a SCAN returned |
| `GetDevice`, `Do`, `QueryDevice`, `FillDevice`, `FinishFlight` | FindByID |
| `GetDeviceList`, `ReadList`, `SetDeviceList` | List |
| `CheckCode`, `Insert`, `Reload`, `ScanLists`, `SweepLists` | Create |
| `Load`, `Save`, `Reload`, `DelDevice`, `ScanLists`, `SweepLists` | Update |
| `Load`, `Remove`, `DelDevice`, `ScanLists`, `SweepLists` | Delete |
| `ExpireDevice`, `ExpireList` | the TTLs |
| `FillResent`, `ListResent`, `Crash`, unacknowledged `Commit`s | resends of go-redis, death of the process, lost answers of PostgreSQL |

Abstractions, and what they rest on:

* Contents are versions: two reads of a row agree iff they saw the same commits.
  A repository call is one atomic step. `FindByID` of the repository preloads the
  users in further statements, so one read can mix a device and its users of two
  commits; the model counts it as the older of the two.
* `GORM.Save` is an UPDATE by id that, when it hits no row, becomes an insert
  with ON CONFLICT on the id; that insert can fail on the unique code.
* Ids are drawn by PostgreSQL and never repeat. A client only asks for ids it was
  given, so `Start` offers FindByID, Update and Delete for born ids only.
  CodeOf fixes a device's code: `UpdateDeviceReq` has no code field.
* A page depends on every row (the filters and the cursor are not modelled), so
  any commit makes it stale; this is the worst case of `InvalidateAllLists`.
* PostgreSQL calls may fail at any time without effect, or never return
  (`PostgresCalls`). `Faults` adds: failing
  KeyDB calls ("cache"), commits whose answer is lost ("ack"), the process dying
  ("crash"). A KeyDB DEL that took effect but whose answer was lost is weaker than
  a failed one and is covered by it followed by an expiry.
* One process. With several, a flight per process would exist; the runs of
  concurrent List fills show what unshared fills do.
* A start with KeyDB down (`cache == nil`) skips all cache calls: no key exists
  then, and the module models a server that has its cache. The telemetry attached to a FindByID and the keys of other
  families that a Delete clears are in `Telemetry.tla`.

`spoiled`, `listSpoiled` and `floor` are history variables: no guard reads them.
`spoiled[d]` becomes true when a commit meets a fill that has already read the
row, when a commit's answer or a DEL is lost over a present key, or when the
process dies in a writer's window; it ends when the key is removed with no such
fill in flight, or when the last such fill ends with no key. `floor[r]` is the
commit count of the device when a FindByID began, if the device was quiet
(not spoiled, and no writer between commit and DEL).

`DeviceDirectory.tla` is the promise behind all this: a table of versioned rows to
which a request writes at most once, in one step, with unique codes. The service
implements it (`ImplementsDirectory`) under the mapping that keeps `row`, `op` and
`dev` and reads the phase of a request off its next call: lookups, waits, cache calls
and failures are steps of nothing, a commit is the one write, and what follows
it (reload, DEL, SCAN, sweep) is spent in the phase "written".

### Telemetry

`Telemetry.tla` models the telemetry of one device: the ingest pipeline of
`BatchInsert`, everything else that writes `telemetry:latest`, the alert events,
and the deletion of the device beside them. Again one action is one call.

| TLA+ | Code |
|---|---|
| `live`, `rule` | the device's row; of each alert rule its setting, or `None` if it is disabled |
| `Points`, `At` | the entries of the lists that requests send, and the `recorded_at` of each |
| `stored` | the points whose row is in `telemetry` |
| `events` | `alert_events` by primary key (rule, instant): a severity and a status, which is none, open, acknowledged, or bare: a row with only its key, from acknowledging nothing |
| `latest`, `online`, `copy`, `counted` | `telemetry:latest`, `device:online`, `device`, `alert:count` keys of the device |
| `left`, `batch`, `todo`, `alert`, `got` | loop state and locals of a request |
| `CheckDevice`, `WriteChunk`, `Heartbeat`, `ReadNewest`, `Publish`, `FindRules`, `RaiseAlert`, `CountAlert` | BatchInsert |
| `GetCopy`, `ReadRow`, `FillCopy`, `PeekLatest`, `ReadNewest`, `Publish` | FindByID with attachLatestTelemetry |
| `CheckDevice`, `WipeDay` | DeleteByRange |
| `CheckDevice`, `RemoveRow`, `ClearKeys` | Delete of the device |
| `Acknowledge`, `ChangeRule` | AcknowledgeAlertEvent; update and deletion of rules |
| `Expire...`, `Crash` | TTLs; death of the process |

Abstractions, and what they rest on:

* A point is an entry in the list of one request and has one metric. What a sender
  repeats, in a second request or in the same list, is a second point of the same
  `At`: it takes part in the loops on its own and shares the rows of the first.
* The setting of a rule is its severity and the points that breach it (metric, operator,
  threshold). `ChangeRule` changes it, enables and disables; it excuses the alerts of
  that rule for the points sent before. The entries of `todo` keep the setting the
  rule had when it was read, as the loop over `rules` does.
* `ReadNewest` is QueryLatest within its window of two days; the window is in
  `TelemetryBuckets`. The fault "skippedDay" is an unreadable day,
  whose error the code drops.
* ScyllaDB applies concurrent writes of one row in the order of their
  timestamps; the model applies them in the order of its steps. A deleted point
  is stored again only by an ingest that writes it later.
* Rows of ScyllaDB expire after 90 days (points) and a year (events); the model keeps
  them. A counter that missed its EXPIRE may outlive its event. The key of an event also
  has the month of its point, which the model leaves out: one instant written in two
  zones at a month's end has two events.
* A chunk of one batch that fails may be written in part: an unlogged batch
  spans partitions. The real chunk is 100 points; the model's is `ChunkSize`.
* The counters' numbers and TTLs are in `KeyCounters`; here a counter is present or
  not. They are the only keys for which no expiry is assumed: INCR and EXPIRE are two
  commands.
* A SET of `latest` that go-redis resends would write an older point once more;
  it is not modelled here (`DeviceService` has it for copies and pages). It lengthens the
  time until `LatestConverges` holds and does not affect what is there for good.
* Flights, updates of the row and the marker of a missing device, which matter to
  the copy, are in `DeviceService`; here `ReadRow` may join a flight.

`TelemetryBuckets.tla` has the arithmetic of the day buckets as operators: a row is
stored under the date its sender wrote, `Query` visits the midnights of the start's
zone up to the last midnight of the end's, `QueryLatest` today and yesterday of
the server. Instants are numbers and zones are offsets, which is what RFC 3339 carries;
the server's own zone is an offset too, so a change to daylight saving time under the
two-day window is not modelled. `TelemetryReads.tla` states when looking at the
stored points through them is right. Each point has a zone of its own there: with
senders of different zones an older point may lie in the later bucket, and
`QueryLatest`, which goes by buckets, prefers it. `LatestInWindow` says by how much.

`sent` and `excused` are history variables: the points that were sent, and the
alerts whose absence a failed call, a crash, a deletion or a rule change explains.

`AlertLog.tla` is what is left of an ingest without checks, heartbeats, cached points
and counters: a request holds a batch (`batch`) until none of it is `missing` from the
table, compares all of it with the enabled rules at one instant, and tries each alert
that was due once, with the setting its rule had then. It may be given up at any time, with what it stored and
raised in place. `Telemetry` implements it (`ImplementsLog`): `Unmatched` and `Unstored` are
the batch and what is left of it while the request is at the calls before `FindRules`
resp. before its last chunk, `due` is `todo`. A rule that changes, or is deleted with its
device, between `FindRules` and `RaiseAlert` does not stop an alert: the abstract `Raise`
does not look at `rule` again.

### AlertRuleService

`AlertRuleService.tla` models the rules of `alert_rules`: Create, Update and Delete
of the service, one action per repository call, beside the deletion of devices.

| TLA+ | Code |
|---|---|
| `live` | the rows of `devices` |
| `rules[x]` | the row of a rule: its device, its switch and its setting (metric, operator, threshold and severity together) |
| `pc`, `op`, `rule`, `device`, `changes` | a request's next call or outcome, operation and arguments; a field an update does not name is `None` |
| `loaded` | the row an update or delete has read |
| `CheckDevice`, `Insert` | Create |
| `Load`, `Save`, `Upsert` | Update |
| `Load`, `Remove` | Delete |
| `DeleteDevice`, `ReviveDevice` | a device's row goes, with ON DELETE CASCADE, or comes back as `DeletedComesBack.cfg` shows |

Abstractions, and what they rest on:

* `Save` and `Upsert` are GORM's Save: an UPDATE of every column by id, and when it
  hits no row a second statement, INSERT ... ON CONFLICT DO UPDATE. Other requests
  run between the two. The insert obeys the foreign key.
* `Inserted` is what GORM's Create does with a zero value of a column that has a
  default: it writes the default. Of the fields here only `is_enabled` has a valid
  zero value (the binding rejects the others').
* `Invalid` stands for an operator or severity outside the lists. The handler's
  binding already rejects them with the same lists; the service checks again, as
  `alert_rule_service_test.go` asks, and the model keeps the check for its callers.
* The outcome `notFound` is the service's; the handler answers 404 to a Delete and
  400 to a Create or an Update.
* `FindByDeviceID` only reads; how rules are evaluated is in `Telemetry`.

`born` holds the ids that PostgreSQL has drawn; it is read by `Start`, which asks only
for those. `said`, `stale`, `seen`, `lost` and `defaulted` are history variables: each row as
the committed requests asked for it (before GORM's default), whether another commit changed
the row since a request read it, whether the row existed while a request ran, the fields of
a row that a save wrote from an older copy, and whether a row that was to be inserted as
disabled has its switch from the default. `ChangesKept` has exactly these two exceptions; the
second is the bug that `DisabledRuleFires.cfg` shows for a create, and an upsert has it too.

### UserService

`UserService.tla` models the users: Create, Update and SoftDelete of the service, one
action per repository call.

| TLA+ | Code |
|---|---|
| `users[u]` | the row of a user: username, email, role, activity |
| `pc`, `op`, `user`, `changes`, `loaded` | a request's next call or outcome, operation, id, fields it names, row it has read |
| `CheckName`, `CheckEmail`, `Insert` | Create |
| `Load`, `CheckName`, `CheckEmail`, `Save` | Update; it looks up only the fields it names |
| `Load`, `Deactivate` | SoftDelete |
| `Conflicts` | the unique columns `username` and `email` |
| `Saved` | the row GORM's Save writes |

Abstractions, and what they rest on:

* `Saved` keeps the loaded role: the row was read with `Preload("Role.Permissions")`,
  and GORM saves a loaded belongs-to association before the row and sets the foreign
  key from it. The association's own insert conflicts with the existing role and
  does nothing. Users are never deleted, so Save always hits its row.
* Rows of `roles` are never changed by the program. A create that names an unknown
  role fails on the foreign key, which the model does not tell from a failing
  PostgreSQL; neither does it a password too long for bcrypt.
* The outcomes `duplicate` (a lookup found the name, 400) and `conflict` (a unique
  column refused the row, 500) are told apart.
* The reload after a write only shapes the answer, and its errors are ignored.
  FindByID only reads. Cached devices that embed a user are not part of this module.

The history variables are those of `AlertRuleService` without `defaulted`. `WritesBack`
compares what a save has loaded with the row: `InnocentSavesPass` allows a refusal only if
the username or the email it loaded is no longer its user's.

### KeyCounters, DevicePages and Dashboard

`KeyCounters.tla` models `SetOnlineStatus` (SET, SADD, EXPIRE) and `IncrAlertCount`
(INCR, EXPIRE of the device's counter, then of the global one) command by command:
go-redis pipelines are no transactions, so other clients and expiries come in
between. `pc[r]` is the next command; `Lose` breaks a pipeline off or lets go-redis
send all of it again. Time is discrete: `online`, `setLeft`, `countLeft`, `totalLeft`
are ticks left, 0 for a missing key, `Forever` for one without TTL; `AgeKeys` takes one
from each. `InvalidateDeviceAll` is what the deletion of a device clears, which is
neither its membership nor its share of the global counters.

`DevicePages.tla` models a client that follows `next_cursor` while devices come and go.
A row is its position in the order (created_at, id). `created_at` is the start of the
inserting transaction, so a row may appear anywhere. The rows are those that match the
filters of the walk, so an update that makes a row match is an insert.

`Dashboard.tla` composes both with `GetOverview`: get `dashboard:overview`, on a miss
read the set's size and `dashboard:device_total` in one round trip, count the rows
if that total is missing or zero, store both. Each of its calls may fail; none
of the device service's writes touches its keys.

| TLA+ | Code |
|---|---|
| `online`, `members`, `setLeft` | `device:online:{id}`, `dashboard:online_set` and its TTL |
| `count`, `total` | `alert:count:{id}:{severity}`, `alert:count:global:{severity}` |
| `rows`, `cursor`, `shown` | the rows that match; `next_cursor`; what a walk was given |
| `deviceTotal`, `overview` | `dashboard:device_total`, `dashboard:overview` |
| `call`, `seen` | the next call of a GetOverview, the numbers it holds |
| `traffic` | who does what in one behaviour, chosen once |

`torn`, `split` (pipelines that broke off or met an expiry), `quiet` and `settled` (ticks
since the last heartbeat and the last change of rows), `late` (a request has held
the number over a tick), `stayed` and `twice` (of a walk) are history. Abstractions:

* Counters of different severities are different keys that never meet; one is enough.
* The alert figures of an overview are read and cached with its online count and are
  left out of `Dashboard`; what they are worth is `GlobalCoversDevices`.
* Without KeyDB, GetOverview counts the rows for every request; nothing is cached and
  nothing can be stale.
* A page that comes from the list cache may be older than the walk; how old a cached
  page can be is `DeviceService`. A walk here reads each page from PostgreSQL.
* KeyDB in cluster mode, where a pipeline is split by slot, is not modelled.

### Server

`Server.tla` is main and the handlers as far as they share stores, connections and the
shutdown.

| TLA+ | Code |
|---|---|
| `up` | the stores that answer; they fail and recover at any time (`Flap`) |
| `phase`, `handles`, `closed` | how far main is; the stores it opened and closed |
| `kind`, `pc` | a handler: a device request, an ingest or GET /health, and its next call |
| `spent`, `ill` | the store whose ping used up the deadline of a health request; the stores it calls unhealthy |
| `StartProcess`, `InitPostgres`, `InitScylla`, `InitKeyDB` | the start; a store that is down then stays nil |
| `Connect`, `QueryPostgres`, `WriteScylla`, `UseKeyDB` | the calls of a device request and an ingest; the query takes and returns a pooled connection |
| `Connect`, `QueryRules`, `RaiseAlerts` | the second query of an ingest, for its rules, and the alerts |
| `PingPostgres`, `PingScylla`, `PingKeyDB` | GET /health |
| `Signal`, `ListenFails`, `Shutdown`, `ShutdownTimeout`, `CloseKeyDB`, ... | the end of main |

A handler that waits for a connection or a store may wait for ever: the request
contexts have no deadline. A ping takes any part of the shared two seconds: a slow one, whether
it fails or succeeds in the end, leaves the later ones none (`spent`), and the wait for a
connection counts as PostgreSQL's. `wasUp` and `wasIll` record which stores answered, and which
did not or, for PostgreSQL, had all connections lent to other requests, while a health
request ran and had not pinged them (`Observe`).

## 3. The runs

| Run | Instance | Shows |
|---|---|---|
| `DeviceRaces.cfg` | 1 device, 3 requests, 3 commits, all failures | `TypeOK`, `DeviceCoherent`, `OneFlightPerDevice`, `QuietReadsAreFresh`, `GoneForGood` |
| `ListRaces.cfg` | 2 ids with one code, 1 page, 2 requests, 3 commits, all failures | `ListCoherent`, `CodesUnique`, `ImplementsDirectory` |
| `DeviceLive.cfg` | 1 device, 1 page, 2 requests, 2 commits, all failures | `EveryRequestEnds`, `CachesConverge` |
| `DeletedComesBack.cfg` | 1 device, 2 requests, no failure | violated: `DeletedStaysDeleted` |
| `TelemetryRaces.cfg` | 2 requests that ingest or delete the device, 2 points of one instant in chunks of 1, 1 rule with 2 settings of 2 severities, all failures; days of 2 instants, 2 zones, 3 moments | `TypeOK`, `AlertsComplete`, `CountNeedsEvent`, `QueryMissesOnlyEnds`, `ReopenedOnlyByRedelivery`, `ImplementsLog` |
| `TelemetryLive.cfg` | 2 requests of every kind, 2 points of 2 days, failures of ScyllaDB and KeyDB, crashes; days of 2 instants, 2 zones (of each point, of the server), 3 moments | `LatestConverges`, `GoneKeysVanish`, `ForgottenForGood`, `LatestInWindow` |
| `RuleRaces.cfg` | 1 device, 1 rule, 2 settings, 2 requests, 4 commits, all failures | `TypeOK`, `RulesHaveDevices`, `ChangesKept`, `NoLateRevival` |
| `DisabledRuleFires.cfg` | 1 device, 1 rule, no failure | violated: `CreatedAsAsked` |
| `UserRaces.cfg` | 2 users, 2 names, 2 emails, 2 requests, 3 commits, all failures | `TypeOK`, `UniqueColumns`, `ChangesKept`, `InnocentSavesPass` |
| `RoleChangeLost.cfg` | 1 user, 2 roles, no failure | violated: `RoleChangeApplies` |
| `DashboardAges.cfg` | 2 devices, 2 pipelines, 2 viewers, 1 walk over 4 positions, TTLs of 1 to 3 ticks, lost connections | `TypeOK`, `OnlineIsCounted`, `NoLooseKeys`, `GlobalCoversDevices`, `ChangeShows`, `SilenceShows`, `WalkIsComplete`, `NoneTwice` |
| `ServerStops.cfg` | 2 handlers, a pool of 1 connection, stores that flap | `TypeOK`, `StoresOutliveHandlers`, `HealthIsTrue`, `SignalStops` |

Bounds. Three requests are a leader, a waiter and a writer, or a filler and two
writers: each race named by `spoiled` needs two, and the shared result of a
flight needs the third. Three commits are a birth, a change, and a deletion or a
re-insertion. Keys of different devices do not interact except through pages and
codes, which is why one device is enough for the first run and two ids are needed
for the second. `MaxCommits` only guards `Commit`: a writer at the bound fails as
on a database error. Requests are symmetric (safety runs only).

Fairness (`FairSpec`). Weak fairness of each request's next call outside of
PostgreSQL: goroutines are scheduled, and the clients of KeyDB and ScyllaDB give up on a
call after a time (go-redis' and gocql's default timeouts). None for a call to PostgreSQL:
main sets no server, request or statement timeout, and the wait for a pooled
connection has none, so such a call may never return. `EveryRequestEnds` therefore says
of each request that it ends, or is for ever in a call to PostgreSQL or waiting for
a flight whose leader is (`Hung`). Weak fairness of each key's expiry: every SET of these keys carries a TTL. No
fairness for arrivals, failures, resends or the crash. `CachesConverge` uses that
writes end at `MaxCommits`: it says that no further write, and no end of a hanging
call, is needed for agreement, which is the eventual consistency by TTL that
`.docs/architecture_report.md` claims for a partial delete.

The telemetry runs. In the safety run two points of one instant are what a sender
repeats, in one list or in two requests: this is what reopens an event, and what
overwrites its severity when the rule has changed in between. Each is a chunk, so that a batch
of both can fail between them. One of the settings is breached by both points, the
other by one only. In the liveness run the points are an older and a newer one of two
days, so that a range deletion can fail between its days. Two requests are enough for two writers of
`latest` in the wrong order, and a deletion under an ingest or a FindByID. The
safety run leaves out FindByID and range deletions, which touch no alert; the proofs
include them. Two chunks leave a batch
stored in part, and two alerts the loop over them with one to go. The liveness run has no
rule: alerts do not meet `latest`. Its fairness is that of `DeviceService`:
requests proceed outside of PostgreSQL and `SET` keys expire. Each point is sent once, so
ingests come to an end, while FindByIDs and deletions may come for ever: the convergence of `latest` needs no
quiet readers. "skippedDay" is left out of it because a client that keeps
asking during such failures makes FindByID cache older points for ever. A failed call to
PostgreSQL is left out too: before a write it ends a request as an unknown device does, and a
deletion whose answer is lost leaves what a crash between the row and its keys leaves.

The alert rule run. Rules do not interact, so one is enough; its fields do not
either, so a switch and one setting stand for them, and two values tell an old
from a new setting. Two requests are a saver and what overtakes it. Four commits are
a create, a change, a deletion and the save that revives the row.

The user run. Two users, names and emails let both columns collide, alone and
together. Three commits are two creates, or a create, a rename and a create that
takes the old name, before an overlapping save. `Updates` bounds what updates name: nothing, a
name, an activity, or both unique columns. It has one role, as a role never
changes; the other run has two. Requests, names and emails are symmetric.

The dashboard run. Heartbeats, alerts, walks and changes of the inventory share no
key, so each has behaviours of its own: the mixes of `MCDashboard` pair the viewers with
heartbeats and with changes. Two pipelines are one that is cut and one
that renews what it left, or two of one device. The TTLs keep the order of the real
ones where it matters (the set outlives the online keys, which is `SetTTL >= OnlineTTL`:
four and three minutes; the total outlives the overview: five minutes and 30 seconds), and
are long enough for every key to age between two commands. Counters go up to two
alerts, and to `MaxAlerts` plus the pipelines under way. Walks ask for one, two or the
default of three rows of four positions: several pages, a page that is just full, and
a limit of zero.

The server run. Two handlers on one connection are one that holds it and one that waits
or reports the pool as unhealthy; a pool that is never exhausted is the one handler
alone. The only fairness is main's own (`WF_vars(Main)`): its startup calls and closes
return or time out, and the five seconds of the shutdown pass. None is assumed of
handlers: `SignalStops` holds although they may hang for ever.

The zones of the telemetry runs. `QueryMissesOnlyEnds` speaks of one point at a time and is
checked in the safety run; `LatestInWindow` needs an older and a newer point and is checked
in the other. Zones 0 and 1 with days of two instants let the
senders', the start's, the end's and the server's date agree or differ by one,
in each direction; the proofs have all zones and lengths.

The three violated properties are findings. The first: the Save of an
Update that loaded the device before a Delete inserts it again.
The second: the insert of a rule created with `is_enabled: false` takes the column's
default, so the rule is stored, answered and evaluated as enabled.
The third: the Save of an Update with a new `role_id` writes the role it had loaded.
The second and third rest on what GORM v1.31 does, which is external to `src/`.

## 4. The proofs

`DeviceService_proofs.tla` proves, for every set of devices, queries and requests,
every assignment of codes, every subset of failures and every bound:

* `Typing`: `Spec => []TypeOK`
* `SingleFlight`: `Spec => []OneFlightPerDevice`
* `Coherence`: `Spec => []DeviceCoherent`
* `ListCoherence`: `Spec => []ListCoherent`
* `FreshReads`: `Spec => []QuietReadsAreFresh`
* `GoneStays`: `Spec => GoneForGood`
* `Advancing`: `Spec => RequestsAdvance`
* `OneByOne`: `Spec /\ []Serial => []CoherentAtRest`, if nothing fails

and `Telemetry_proofs.tla`, for every set of points, rules and requests:

* `Typing`: `Spec => []TypeOK`
* `CountedStored`: `Spec => []CountNeedsEvent`
* `Completeness`: `Spec => []AlertsComplete`
* `Reopening`: `Spec => ReopenedOnlyByRedelivery`
* `QueriesComplete`: `Spec => []QueryMissesOnlyEnds`, for all zones and day lengths
* `LatestRead`: `Spec => []LatestInWindow`, likewise
* `Forgetting`: `Spec => ForgottenForGood`
* `Advancing`: `Spec => RequestsAdvance`
* `NothingMissed`: `Spec /\ RulesStay => []AllRaised`, if nothing fails
* `Implements`: `Spec => ImplementsLog`, the refinement

and `AlertRuleService_proofs.tla`, for every set of devices, rules, settings and
requests, every subset of the failures and every bound:

* `Typing`: `Spec => []TypeOK`
* `NoOrphans`: `Spec => []RulesHaveDevices`
* `NothingLost`: `Spec => []ChangesKept`
* `NoRevival`: `Spec => NoLateRevival`
* `NoOverlapNoLoss`: `Spec /\ []NoOverlap /\ CalmDeletions => []RowsAsAsked`

and `UserService_proofs.tla`, for every set of users, names, emails, roles and
requests and every kind of update:

* `Typing`: `Spec => []TypeOK`
* `Uniqueness`: `Spec => []UniqueColumns`
* `NothingLost`: `Spec => []ChangesKept`
* `InnocentSaves`: `Spec => InnocentSavesPass`
* `NoOverlapNoLoss`: `Spec /\ []NoOverlap => []RowsAsAsked`

and `DeviceDirectory_proofs.tla`, under the same conditions as those of `DeviceService`:

* `Implements`: `Spec => ImplementsDirectory`, the refinement
* `UniqueCodes`: `Spec => []CodesUnique`

and `Dashboard_proofs.tla`, for every set of devices and traffics, all finite sets of clients
and positions and all TTLs:

* `Typing`: `Spec => []TypeOK`
* `Counted`: `Spec => []OnlineIsCounted`
* `Expiring`: `Spec => []NoLooseKeys`
* `Covering`: `Spec => []GlobalCoversDevices`
* `ChangesShow`: `Spec => []ChangeShows`
* `SilencesShow`: `Spec => []SilenceShows`
* `WalksAsPages`: `Spec => PagesSpec`, so that `CompleteWalks`
  (`PagesSpec => []WalkIsComplete`) and `NoRowTwice` (`PagesSpec => []NoneTwice`) of
  `DevicePages_proofs.tla` hold of the composition (`Walks`)

and `Server_proofs.tla`, for every finite set of handlers and size of the pool:

* `Typing`: `Spec => []TypeOK`
* `Outliving`: `Spec => []StoresOutliveHandlers`
* `TrueHealth`: `Spec => []HealthIsTrue`

They rest on the assumptions of their module on its constants only (instants, days and
zones are integers, the clients that count are finitely many, a setting has one severity, operations are those there are, `None` is no
value of another kind, the set's TTL is not below the online keys', a pool has a
connection), which TLC evaluates in every run.

Many invariants except what a race or a failure explains, through a history variable
(`spoiled`, `excused`, `stale`, `lost`). `OneByOne`, `NothingMissed` and the two
`NoOverlapNoLoss` show how far these exceptions go: where requests do not overlap (for
alerts: where nothing fails and no rule changes, though requests do overlap) the history
variables stay empty and the invariants hold without exception. One exception of
`ChangesKept` is no race: the switch of a rule inserted as disabled (`defaulted`), which
stays one of `NoOverlapNoLoss` too. The assumptions on behaviours are
named: `Serial` (one request at a time), `NoOverlap` (one request at a time for each user
or rule), `CalmDeletions` (no device is deleted under a request about one of its rules),
`RulesStay` (no rule changes and the device stays).

The inductive invariant of `DeviceService` is a conjunction of parts, proved in
layers so that each may use those before it:

1. `Typed`, the types of the variables, and `ShapeOK`: at each call the locals
   it relies on are set (`LocalsOK`), a request is only at calls of its own
   operation (`CallsOK`), and a flight is owned by a request that runs it
   (`FlightsOwned`). Types alone are not inductive: the page a `SetDeviceList`
   stores is typed because of its position.
2. `Born`: requests other than Create are about ids that have been committed once.
3. `HeldFresh`: a fill that has read the row holds the current version, or the
   device is spoiled. This is what makes `DeviceCoherent` inductive: without it a
   fill could store anything. `ListHeldFresh` is its counterpart for pages.
4. `FloorHeld`: a FindByID on its way still sees sources (cache, flight, row) no
   older than its floor; `QuietReadsAreFresh` is its end point.

Each layer has a lemma per part that goes through the actions one by one; what
writes to the cache or a row do to one entry is stated once (`CommitEffect`,
`WriteStep`) and cited.

`GoneStays` needs only types and positions: a live row is written by an insert,
which is for an id without commits, or by a save, and the load before it reads PostgreSQL,
where the row is gone. `Advancing` compares the calls left before and after each step
(`CallCounts`). It is the safety half of `EveryRequestEnds`: what TLAPS cannot add
is the step from the measure and weak fairness to "eventually".

For `Telemetry`, `Shape` adds to `TypeOK` that a request is at calls of its own
operation and writes only points of its batch. `CountHeld` adds to
`CountNeedsEvent` that the alert a request will count is stored with its severity, or was
and another point of its time came since. `AlertsComplete` is
inductive given `Shape`: a step makes an alert due only for an ingest that will come
to it, and drops only alerts it excuses. `Deliveries` says that a point is sent by
one request and raised by it once: an alert still to be raised is pending in one
request only, and an event that is there already had a point that is pending nowhere,
so an alert that opens it again is of a second point.
`RaisedStays` (no step removes an event) is cited for `CountHeld` and `AlertsComplete`.
`Forgetting` is the safety half of `GoneKeysVanish`: it goes through the calls that write a
key and finds that each comes after a look at the row, at a copy of it or at a flight that has
read it, none of which is left.
`Advancing` needs that a step of a loop takes something: a chunk is never empty
(`ChunkNotEmpty`, from `ChunkSize > 0`), and points left have a first day
(`FirstDay`, from the well-ordering of the naturals, so for infinite sets of points too).
For `Implements`, `TodoOK` says that alerts are due only at the calls that raise them, which
makes `FindRules` and a new request start from none. Then each step is mapped: the
chunks to `Store` or `StoreInPart`, `FindRules` to `Match`, `RaiseAlert` to `Raise`, early returns,
failures and the crash to `GiveUp`, a deletion to `ChangeRules`; a step at any other call leaves
the three mapped variables alone (`MapsQuiet`).

For `LatestRead`, the buckets of the two days are in the order of the senders' clocks, so the
answer, from the later bucket that has a point, showed a later time than what it passes over.

For `AlertRuleService`, `Shape` adds to `TypeOK` that a create has named every field.
`RulesHaveDevices` is not inductive: a Save could write a row of another device than
the one it finds. `Home` excludes it: an id belongs to one create, nobody reads it
before the insert, and the row and every copy of it name one device. `Marked`
carries the other two: `Fresh`, a copy about to be saved is the row unless the
request is marked stale, makes `ChangesKept` inductive (a save keeps what an insert
defaulted unless it names the switch); `SeenOK`, whoever holds a
copy saw the row, is what `NoLateRevival` needs of an upsert.

For `UserService`, `Shape` adds that a request is at calls of its own operation, has
nothing loaded when it ends, and that a row once read stays. `UniqueColumns` is
inductive given it, because every write goes through `Conflicts` or keeps both
columns. `Fresh` says again that a copy is the row unless the request is marked stale;
with it `ChangesKept` is inductive, and an unmarked save that names no unique column
writes the ones its user has, which `UniqueColumns` makes free.

For `DeviceDirectory`, `CodesUnique` is inductive by itself given `Shape`: every
commit of a live row goes through the unique column. The refinement then goes
through the actions: each one moves the phase of its request (`PhaseMove`) as a step
of the directory or stutters, and a commit finds its code free because it is unique.

For `DevicePages`, `WalkOK` says that a walk has shown only rows from its cursor upwards,
and of the rows that stayed all of those. A page is upward closed (`PageIsTop`), so its
cursor carries this over; a page with no row beyond it is everything below the
cursor (`LastPageIsAll`: the largest row left out would have been the extra one), which
closes the walk.

For `Dashboard`, `Covered` strengthens `OnlineIsCounted`: the set lives at least as long
as the online key of each of its members. `TornOK` lets a heartbeat that met the expiry
of the set be told apart. `GlobalCoversDevices` compares two sets by their sizes, so that no sum
over the devices is needed: an alert joins those shown when its pipeline joins those on their
way, and `total` takes over when it leaves. `CoverInv` adds why expiries do not break
this: the global counter is there when a pipeline renews it (`GlobalThere`) and
outlives the counter of every device that has no pipeline between its INCR and the
end (`GlobalLasts`), unless a pipeline was cut or met an expiry. `SetAges` bounds the age of the set by the last heartbeat, and
`CachedTotal`, `SeenTotal`, `ShownTotal` (`SeenOnline`, `ShownOnline`) hand an age bound
from the cached key to the numbers a request holds to the overview: at each stage
age plus ticks left stay within the TTLs (`Fits`), and a tick moves one to the other
(`Older`).

For `Server`, `LifeOK` ties handlers, open and closed stores to the phase of main;
`Reported` says after each ping what the stores already named, and the one that used up
the deadline, prove of the past of that request.

The properties of `TelemetryReads` need of a state only that the points are numbers: the
proofs are about days and midnights (`DaysInOrder`, `DayVisited`).

Only model-checked: liveness (`EveryRequestEnds`, `CachesConverge`, `LatestConverges`,
`GoneKeysVanish`, `SignalStops`), which TLAPS cannot do here. Every other property of
a passing run is a theorem. The two `RequestsAdvance` and the theorems under assumptions on
behaviours are proved and belong to no run.

## 5. Not modelled

* The columns of a device. `DeviceService` counts the commits of a row, so that two
  concurrent updates of different columns are two versions: that GORM's Save of the whole
  row loses one of them is listed as a hazard. `AlertRuleService` and `UserService`,
  which have the same pattern on rows with fewer relations, model it (`ChangesKept`).
* The users embedded in a cached device: no change of a user invalidates a device.
  `user_devices` is written through Create and Update of a device only.
* Points with several metrics, for which the limit of 100 rows a day may cut off the newest
  of one metric; daylight saving time in the server's zone; KeyDB in cluster mode.
* Cache administration: the middleware that would set the role it needs does not exist, so
  every request ends at 403 before any key is touched.
* `SyncAlertCount` of the cache service and `roles`, `permissions`: no code calls or
  changes them. QueryAlertEvents, FindByDeviceID, FindByID of users and the status
  endpoints only read; what they read is above.
* Routing, response envelopes, trace ids, logging, DTOs and configuration: formatting and
  parsing without shared state.
* The stress test is a client of the API and not part of the server.
