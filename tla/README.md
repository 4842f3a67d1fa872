# proxai in TLA+

TLA+ modules, TLC configurations and TLAPS proofs for **proxai**, a small proxy
in Rust that stands between OpenAI-compatible clients and several upstream
providers: it authenticates requests with API keys it issues, relays chat
completions, counts usage per key and model in SQLite, and shows it on a
dashboard.  Files named below are in the crate's source directory; the lines
each definition stands for are in `PROJECT.json`.

The models keep the control of the code (who does what in which order, under
which guard, and what fails) and abstract its data: keys, models, requests and
addresses are elements of small sets, days are numbers, a counter row of the
database is the *set of rows it has absorbed*, a byte of a stream is its
position, and the id of a model is the sequence of its parts.

## 1. Inventory

| Component | State | Operations | Interacts through |
|---|---|---|---|
| Usage storage (`storage.rs`, `metrics.rs`) | `usage.db`: tables `usage` (one raw row per request), `usage_totals` (per key and model), `deleted_usage` (per model); one `Mutex<Connection>` | `record`, `consolidate_aged`, `consolidate_deleted`, `snapshot`, `deleted_usage_rows`, `total_token_usage`, `timeline` | called by handlers, maintenance, dashboard, admin socket |
| Maintenance task (`server.rs`) | its place in a pass, and the active set it read | daily tick: read active keys, fold aged rows, fold deleted keys; every error is logged and the pass is over | reads the key store, writes the usage storage from a blocking thread |
| Key store (`key_manager.rs`) | `keys.db`: table `keys` (id, name, hash, last four); `keys.json` of older versions | open (rebuild of integer ids, import of `keys.json`), `generate`, `revoke`, `validate`, `lookup_name`, `active_hashes`, `list` | middleware, dashboard, admin socket, maintenance |
| Offline key tool (`main.rs`) | a process of its own on the same `keys.db` | `key generate`, `key list`, each opening the file first | the file only |
| Middleware and rate limiter (`auth.rs`) | per address, the instants of its failed attempts | `check`, `reset`, `require_api_key` | key store; passes `AuthInfo` to the handlers |
| Chat handler (`handlers.rs`, `error.rs`) | per request: upstream response, accounting window of 64 KiB, channel of 16 chunks | buffered and streamed relay, usage extraction, error mapping | routing table; usage storage |
| Discovery and routing (`server.rs`, `handlers.rs`) | map of advertised models, ids filtered out | per provider: fetch, filter, namespace; overlay of configured properties | read only once the server runs |
| Model metadata (`model_meta.rs`) | none | the entry of `/v1/models`: owned keys, overrides, context window | discovery, `/v1/models` |
| Dashboard API (`webui.rs`) | none | stats, models, timeline, keys | key store and usage storage, several reads per page |
| Admin socket and client (`admin.rs`, `client.rs`, `cli.rs`) | connections | one framed request and answer per connection | key store and usage storage |
| Configuration (`config.rs`) | none after start-up | parsing, defaults, the clamp of the retention, the timezone | all |
| Startup, assets; dashboard front end | none | router, embedded files; rendering | |

**What is hard here.**  Every operation is short and takes one lock, so the
hazards are between operations:

* maintenance decides with a set of active keys it read *before* it folds, and
  folds in two transactions that may each fail, with restarts in between;
* requests outlive the key they were authenticated with, and are recorded after
  the key was revoked or even folded;
* the middleware reads the key table twice, the dashboard three tables under
  three locks, while both change;
* the key store is repaired on open in steps of which only some are atomic, and
  two processes may open it at once; a revocation is two statements that commit
  separately, under a mutex of one process;
* the rate limiter forgets and counts in the same call, for requests that race;
* a stream ends in four ways, against a client that may leave at any point, and
  its usage is read from a window cut at arbitrary bytes;
* ids of models collide after namespacing, and configured properties meet
  reported ones under several spellings;
* the chart is computed once by SQL and once by chrono, in offsets they treat
  differently.

**What makes each component correct.**

* *Usage storage*: a request is counted once, and stays counted with its key,
  model and day; the chart's raw rows are complete; a key that exists is never
  counted as deleted; the raw table is bounded in the end; sums are exact while
  they fit.
* *Key store*: a key becomes valid once; a revocation removes one key, the one it
  reports, for good (unless another process gives the rows new ids between its two
  statements); opening loses and duplicates nothing, from two processes too.
* *Rate limiter, middleware*: a bound on the 401 answers per address and window (every
  key is validated before the limiter is asked, so it is no bound on the keys tried);
  refusals do not feed themselves; a valid key is never refused.
* *Chat handler*: the body is byte-transparent; every answered request is recorded
  once, under the id and key it came with, with the counts of the final event; a
  failed stream never looks complete.
* *Dashboard*: the models page misses no request of a model that is advertised; a row is
  shown under its local time, as far as SQL and chrono agree on it.
* *Discovery*: list, routing and advertised properties agree.
* *Admin socket*: what was confirmed is true; a silent client holds up no other.

## 2. Modules

| Module | Models | Relation to others |
|---|---|---|
| `UsageLedger` | abstract: a growing set of counted requests | |
| `UsageStorage` | the three tables, authentication and recording, the maintenance task, restarts | refines `UsageLedger` |
| `DashboardStats` | `stats_handler` and `models_handler`, read by read | composed with `UsageStorage` |
| `UsageStorageProofs` | theorems about the two | |
| `StorageCounters`, `StorageCountersProofs` | the integers behind the counters, and their overflow | the arithmetic `UsageStorage` abstracts |
| `Timeline`, `TimelineProofs` | the chart: SQL's and chrono's view of the timezone | the chart whose rows `ChartComplete` keeps |
| `KeyRegistry` | abstract: keys issued once, revoked once | |
| `KeyStore` | the `keys` table across restarts, import and rebuild | refines `KeyRegistry` |
| `OfflineTool` | a second process on `keys.db` | composed with `KeyStore` |
| `AdminSocket` | admin socket and the dashboard's key endpoints | composed with `KeyStore`; refines `KeyRegistry` |
| `KeyAccessProofs` | theorems about the three | |
| `RateLimiter` | the limiter with its sliding window | |
| `Gateway` | a chat request from the middleware to the recorded row | composed with `RateLimiter`, refines its `Spec` |
| `GatewayProofs` | theorems about the two | |
| `UsageCapture` | the accounting window and what is read from it | |
| `Streaming` | the streaming task, its channel and its client | composed with `UsageCapture` |
| `StreamingProofs` | theorems about the two | |
| `ModelMeta` | properties of one model | |
| `Discovery` | selection, overlay, list and route | composed with `ModelMeta` |
| `DiscoveryProofs` | theorems about the two | |
| `InductionLemmas` | least and greatest numbers, the existence of recursive functions | used by three of the proof modules |

`UsageStorage` needs from the keys exactly the two actions of `KeyRegistry`
(its `GenerateKey` and `RevokeKey`); that `KeyStore` implements `KeyRegistry`
when there is no `keys.json` is what links the two.  The `MC` modules hold model
values for TLC and nothing else.

### UsageStorage

| TLA+ | code |
|---|---|
| `usage`, `totals`, `rollup` | the tables `usage`, `usage_totals`, `deleted_usage` |
| `keys`, `revoked` | the rows of `keys`; the second is history |
| `inflight` | requests between `require_api_key` and `record` |
| `maint` | the maintenance task: next step, active set read, day of the read |
| `Record`, `Abandon` | `Storage::record`, and the paths that end without it |
| `MaintStart` | `ticker.tick()` and `active_hashes` |
| `ConsolidateAged`, `ConsolidateDeleted` | one transaction each |
| `MaintFails` | any error of either: rollback, and the rest of the pass skipped |
| `Restart` | the service manager restarts the process |

A counter as a set of rows makes the upsert `requests + excluded.requests` a
union; it is the sum exactly when the sets are disjoint, which
`EachRequestCountedOnce` states, so the abstraction is justified by the first
thing that is checked (and proved) about it.  A cutoff is computed before the
connection lock is taken, so a fold counts from any day between the start of the
pass and now.  The active set is read outside the blocking thread: keys come and go
between the read and the folds.  A pass may begin at any time, so every schedule
(and the immediate first tick after a restart) is included.

### DashboardStats

A page reads the active keys (`ReadActive`), the tables with a key (`ReadSnapshot`), the
rollup of deleted keys (`ReadRollup`) and the all-time total over the three tables
(`ReadTotal`), each in a step of its own, with every step of `UsageStorage`
except the change of day allowed in between (the handlers await nothing between
the reads).  The per-model sums keep only the models the process advertises (`Shown`), a set
chosen when the page is asked for: usage of a model that is no longer advertised is left
out of the list, as `metrics.rs:163` says, but is in the total.  `page` holds what was read,
and as history what was counted when the page was asked for.  `PageNeverUndercounts` speaks of
the advertised models, and of the total.

### StorageCounters

The same folds over a count and a sum per model, in integers with a largest one.  A
sum that overflows is an error of its row, and `filter_map` drops that group and the
ones after it while the `DELETE` takes all; a counter that overflows turns into a
float, which no longer reads as an integer; a reported count above `i64` makes the
insert fail, silently.  One token column stands for the two.  `counted` and `recorded` are
history: what was inserted, per model and in all, added up without a limit.

### Timeline

Quarter hours of UTC; `timezone` is the configured one, a sign, hours and minutes.  `Offset` is
what chrono is given, `SqlOffset` what the modifier `"-5 hours"` keeps of it: the
minutes are dropped (`config.rs`, `timezone_offset`; invariant 7 of `AGENT.md` calls it a known asymmetry
that shifts bucketing "imprecisely").  `SqlBucket` and `Selected` are the query, `Labels` the
buckets chrono names, `Charted` their join.

`ShownInItsBucket` says how far the two readings part: a request is under no label that its
local time misses by more than the timezone's minutes, and one that is not that close to the edge
of a bucket is under its own label, and there only.  Within those minutes of an edge it may be shown
under the neighbouring label, or under none until the next bucket begins.  `NothingStaleCharted` has the same
minutes: west of Greenwich a chart reaches back that much beyond its range.  In a timezone of whole
hours there is no such margin.  East of Greenwich the first property leaves out what the query's limit takes
from the window (`Lost`), which is the subject of `timeline_east`.  An offset of a day or more is left out (section 4).

### KeyStore, OfflineTool, AdminSocket

| TLA+ | code |
|---|---|
| `store` | the table `keys` in rowid order (revocation takes the first match) |
| `CheckSchema`, `Rebuild` | the type of the id column is read; a transaction gives all rows text ids |
| `IsEmpty`, `Import`, `EndImport`, `ImportFails` | the import of `keys.json` into an *empty* table, one committed row per step |
| `Find`, then `Delete` or `DeleteFails` | the `SELECT` and the `DELETE` of `revoke`, which commit separately |
| `selected`, `Unlocked` | the rows found and not yet deleted; the mutex the process holds meanwhile |
| `Crash` | the death of the process, also between the two statements or inside an import |

The row that was found is the one that is reported, whatever the `DELETE` removes.  A hash of 32
random bytes is never drawn twice, nor is it one of the file's, and a fresh id is none that the table or
a revocation under way holds (`Fresh`).

`OfflineTool` adds a process that does the same in its own steps: `ToolStart` finds
whether the ids are integers, `ToolRebuild` acts on what it found, which may be stale,
`ToolOpen` tests for an empty table, `ToolImport` imports from it, `ToolGenerate` inserts and
prints, `ToolEnds` stops it at any point.  The server's opening and its revocations interleave with
all of these, so that either process may rebuild what the other has rebuilt, and the tool's rebuild
may come between a `SELECT` and its `DELETE`.  `missed` is history, the keys to which that happened:
`RevokedUnlessRebuilt` makes it the one exception (section 4).

`AdminSocket` adds clients with one connection each: `Connect`, `Send`, `Leave` are theirs.  `Handle` is
`process_request` as far as its first statement, with the operation and its error path, `FinishRevoke` the
second statement of a revocation, `Answer` the writing of the answer, to a client that may be gone.
`DashboardGenerate`, `DashboardFind` and `DashboardDelete` are the HTTP endpoints on the same table.
`Die` is the death of the process with all connections, between any two of these (what was committed
and never answered stays done), and `Start` opens the table before the socket is bound.  A
request arrives whole, never, or is no request (`junk`).

### RateLimiter, Gateway

The vector of instants of an address is a set of numbered attempts.  `Succeed` is a
request with a valid key, `Fail` one without; a valid key clears the address even when it
is blocked, and an attempt refused with 429 is not remembered.

`Gateway` follows requests through `stage`: `Validate` reads the key table, `Accept` or `Reject`
then takes the limiter's asynchronous lock, a wait in which other requests come first and the
client may leave, and `LookupName` is the second read; `Ask`,
`Respond`, `UpstreamFails`, `FinishBuffered`, `FinishRelay` are the handler between its awaits.
`ClientLeaves` and `Cancel` drop a handler at an await, except that the relaying task is
spawned and goes on.  `Revoke` may come anywhere.

### UsageCapture, Streaming

`Push` appends a chunk and trims: when the buffer is longer than the cap, it keeps the tail
from the first line boundary inside the window, or the plain tail if there is none.
`Finish` reads the counts from the lines that are held, the last report winning per field; lines that
are blank, not JSON or cut off report nothing.  In `Streaming` the task reads a chunk (a stream may end properly without its last newline),
pushes it, sends it through the channel (waiting while it is full), and when the stream is over
records and only then drops the sender; the client reads, sees the end or the error, or
leaves.

### ModelMeta, Discovery

A JSON object is a function from paths to values, so that a search at any depth
(`FindInt`, `FindContextLength`) is a choice among paths.  `FromEntry`, `ApplyOverrides`, `Declared` and
`Entry` are the code's functions of those names (`sanitize_model_properties` is part of
`Declared`).  Names and values are what TOML and JSON can hold (`DiscoveryAssumption`,
`ModelMetaAssumption`): the table has every key once, and no path of an object goes through
another value (`IsObject`).  `Discover` takes one provider's answer or failure, `Serve` lays the table over the
models in the order of its keys, `List` and `Route` are the two requests.

## 3. Runs

| Run | Bounds | Checks |
|---|---|---|
| `usage_safety` | 2 keys, 1 model, 3 requests, 7 days, windows of 2 days, retention configured to 1 | `TypeOK`, `EachRequestCountedOnce`, `ChartComplete`, `ActiveKeyNeverFolded`, `ImplementsLedger` |
| `usage_pages` | 1 key, 1 model, advertised or not, 2 requests, 6 days, windows of 1 day | `PageNeverUndercounts`, `IdleRevokedKeysFolded`, `AgedRowsFolded` |
| `page_double_count` | 1 key, 1 request | *violates* `PageCountsOnce` |
| `admin_socket` | 2 clients beside the dashboard, 3 keys, 3 ids, a legacy table of two keys with one name, a name that equals an id | `AnnouncedKeyIsReal`, `ConfirmedRevocationHolds`, `ImplementsRegistry`, `SentIsAnswered` |
| `offline_tool` | 4 keys, 5 ids, 1 name, a legacy table, a file of four entries with a duplicate and a malformed one, 2 uses | `TypeOK`, `RevokedUnlessRebuilt`, `PrintedKeyIsValid`, `KeysLeaveByRevocation` |
| `keys_revival` | the same kind of file, 3 keys | *violates* `RevokedStaysRevoked` |
| `gateway` | 1 request followed among others of its address, 2 keys with one name, limit 2, window 2, 4 instants, 5 failures | `AtMostMaxFailures`, `BlockedByFailuresOnly`, `RecordedWhenAnswered`, `RecordedAsRequested`, `FallbackMeansRevoked`, `ValidKeyNotRefused`, `LeftStreamRecorded` |
| `streaming` | every stream of up to 3 lines and 7 bytes, window of 4, channel of 2 | `TypeOK`, `ByteTransparent`, `FinishedIsRecorded`, `TailHeld`, `MemoryBounded`, `FinalUsageCounted`, `RecordedOnce` |
| `discovery` | 2 providers with up to 2 of 4 colliding ids, allowlists, 3 tables; 1 provider with every mixture of 9 spellings of properties, 3 × 3 declarations | `AdvertisedAreTheKept`, `RoutedAsAdvertised`, `ConfigWins`, `ServedWindowFirst`, `ReservedVerbatim` |
| `timeline` | UTC-12:00, -05:30, -00:15, +05:45, +07:00; a row of any quarter hour of a day, followed for 8 days | `ShownInItsBucket`, `NothingStaleCharted` |
| `timeline_east` | UTC+7 | *violates* `ChartShowsFullRange` |
| `counters` | 2 models, 5 requests, tokens 0, 1, 3, 8, integers up to 7 | `CountersExact`, `TotalIsAllTime` |

**Why the bounds are enough.**  The windows (7 days, 60 s) are numbers that are
only added and compared; one or two units show every order of recorded, aged, stale
and charted, and the clock lets a row be recorded, fold by age, its key be revoked,
idle and fold, with a pass of the maximal length before or after each.  Two keys are
needed for one that is folded beside one that is kept; three requests for a key with
an aged, a raw and an open one at once.  The retention is configured *below* the
chart's range, so that the clamp acts.  Three keys let the admin socket generate one
beside a table of two; two of its clients race, and a third would be a client of a
state two already reach.  Two uses let the offline tool meet a server that is down,
importing and running, and one of them be stale when the other has rebuilt; a row, four keys to
import or draw, and one held by a revocation take five ids, under symmetry (no id is named in the
model values, and only safety is checked).  One model is enough for the pages: models meet only in the
filter, and it is advertised or not.  In `gateway` one request goes through all its stages while
`OtherRequest` fails and succeeds at its address and keys are revoked; requests meet only in the
limiter and the key table, and several addresses and requests are covered by the theorems
of section 5.  A stream of 7 bytes overflows a window of 4 in every way, with a line
that ends at, just before and just after each boundary; the channel of two is empty,
part full and full.  The ids of `discovery` are the ones that collide (`x` and `a/x` of
provider `a`, `x` of `a/b` and `b/x` of `a`).  The timeline's clock passes all quarter hours of a day
on both sides of UTC and the whole of the longer range, in timezones with and without minutes.  The numbers of `counters` make a row, a
group, a counter and the total overflow one by one; the properties speak of what fits.
`MaxDay`, `MaxNow`, `MaxAttempts`, `MaxUses`, `MaxTime`, `MaxRecorded`, `MaxLines` and
`MaxSize` bound TLC only; `MaxPass` is an assumption (section 5).

`CHECK_DEADLOCK FALSE` is said where the model really stops: a request or a connection
ends (`admin_socket`, `gateway`, `streaming`), the offline tool has been used
`MaxUses` times and the server may stay as it is (`offline_tool`), and clocks and counters reach
their bound (`timeline`, `counters`).  The usage runs and `discovery` are checked for deadlock.

**Fairness.**  In `UsageStorage`, weak fairness of `MaintStart`: the ticker fires
for ever.  Strong fairness of the two folds: a transaction may fail and the process
restart any number of times, but a fold tried again and again succeeds once; if
every attempt failed, as on a full disk, nothing would be folded.  In `Streaming`,
weak fairness of the task (the runtime polls it, and the upstream answers, ends or
runs into the HTTP client's 120 s timeout), and of the client, which is an assumption on
clients: the code waits without limit in `tx.send` for one that neither reads nor
leaves.  In `Gateway` that assumption is not needed: only the relay of a client that is gone is
fair, as its sends fail at once.  In `AdminSocket`, strong fairness of `Handle`: it waits for the connection's mutex, which
each revocation holds between its statements and then releases, and the runtime polls every task again; weak
fairness of the steps that wait for nothing (`FinishRevoke`, `Answer`) and of the dashboard's `DELETE`.  Clients are not fair,
and neither is anyone fair to `Send`.

## 4. Findings

Three runs end in a violation, each of a statement the repository makes:

* `page_double_count`: `metrics.rs` says that folded keys are *not* in the snapshot
  and their rollup is merged in.  The two are read under two locks; a fold in between
  puts a key into both, and the models page counts its requests twice until it is
  loaded again.  `PageNeverUndercounts` shows that the order of the reads at least
  loses nothing.
* `keys_revival`: `keys.json` is imported whenever the table is empty, also because
  every key was revoked.  The next start brings the keys of the file back, after the
  dashboard's "This cannot be undone."
* `timeline_east`: the query's limit is `datetime('now', '+7 hours', '-1 days')` although
  `created_at` is UTC: east of Greenwich the first buckets of the chart stay empty, where
  `storage.rs` says that it "always shows the full range".

**Known divergences** met while modelling and not given a run of their own:

* The stats page reads the active keys first (`webui.rs:93`): a key generated and used before the
  snapshot is listed with `deleted = true`, which `metrics.rs:23` reserves for revoked ones.
* An import of `keys.json` that stops after some entries (`key_manager.rs:137`; an insert error, "migration
  skipped", or a crash) has committed those and never resumes, as the table is no longer empty.
* `revoke` reports the key that its `SELECT` found, and does not ask how many rows its `DELETE` removed
  (`key_manager.rs:202`–`211`).  When the offline tool, started on a table with integer ids, rebuilds
  it between the two, the row has another id by then, nothing is deleted, and the key that is "revoked" stays
  valid.  `RevokedUnlessRebuilt` states it as its only exception.
* With an offset of a day or more, which `config.rs:131` accepts, `timeline` unwraps a `None` with the connection locked
  (`storage.rs:511`), and every later use of the connection panics on the poisoned mutex.  `Timeline` is about the
  offsets chrono accepts (`TimelineAssumption`).
* In a timezone with minutes, rows and labels of the chart part by those minutes (section 2, `Timeline`), which
  `AGENT.md:168` names without saying by how much.
* A provider `a` that lists `x` and `a/x` with the allowlist `[x]` (`server.rs:487`) has `a/x` both advertised and among the
  ids that are "discovered but not advertised".
* Two `[[providers]]` of one name are not refused, and a model of the second is sent to the
  first (`handlers.rs:62`); the pairs of the `discovery` run have different names.
* A value under `context_length` that the code itself takes for junk is advertised as it came
  (`model_meta.rs:143`): none is derived because the name is there.
* When a sum of tokens overflows, the group is dropped and its rows are deleted
  (`storage.rs:161`), where `storage.rs:84` says the totals are preserved; hence
  the condition of `CountersExact` that the whole fits.

## 5. Proofs

All with TLAPS, for every value of the constants under the named assumptions.  Every invariant
that a passing run checks has a theorem, and so have the action properties and the
refinements; what is left to TLC is in section 6.  Each proof rests on an inductive invariant
with one lemma per action (or kind of action), and the properties follow from it.

**`UsageStorageProofs`**: `Safety => []P` for `TypeOK`, `EachRequestCountedOnce`, `ChartComplete` and
`ActiveKeyNeverFolded`, `Safety => ImplementsLedger`, and `PageSpec => []PageNeverUndercounts`.

* *Assumptions.*  `WindowAssumption`: the window for revoked keys is no shorter than
  the chart's range (both are 7, constants in two files that nothing in the code
  ties together).  `PassAssumption`: a pass lasts no longer than that window.
* *Invariant.*  `ActiveKeyNeverFolded` is not inductive: a pass takes any key outside its old
  active set for revoked.  What saves a key generated since is that all its rows are
  younger than the start of the pass, and that the pass is too short for those to
  look idle: `PassKnowsOlderKeys`, a conjunct of `IInv` with the four properties.
* *Argument.*  `AgedEffect`, `DeletedEffect` and `RecordEffect` restate the steps
  that touch a table as moves between the sets `usage`, `Aged`, `Deleted`; every other
  step is quiet.  For the refinement, a recorded request is `UsageLedger!Count` and every other
  step keeps `Ledger`.  For the pages, `PInv` says at each step of a page where the rows
  it has to count are: still counted (before the snapshot), then read or in the rollup, for the advertised models; both only
  grow (`RowsStay`), and so does the whole that the total is read from.

**`StorageCountersProofs`**: `ExactCounters` and `AllTimeTotal`, for any models, token counts, limit and number of requests.

* *Invariant.*  `CInv` is `Typed` and, *while the whole fits*, `Exact` (a model's tally of raw rows and its
  two counters add up to what was recorded of it) and `ExactTotal` (so do the sums over all models).  `Typed` cannot say that no
  counter is a float, as one may well be once the whole does not fit; `Fits(recorded.tokens)` never
  becomes true again, so nothing is needed of such states.
* *Argument.*  Recording adds one row to a tally.  `ConsolidateAged` and `ConsolidateDeleted` move a
  tally into a counter: where the whole fits, each group and each counter fits too, being a part of it,
  so no group is dropped and no sum is a float.  `Tally` and `Sum` are recursive functions, and what a
  tally of a concatenation or a sum of updated counters is follows from `InductionLemmas`.

**`TimelineProofs`**: `NothingStale` and `ShownWhereItBelongs`, for every timezone chrono accepts, minutes included, and any
days and rows.

* The invariant is little more than types (`now` is not before any row); the content is arithmetic, on either side of
  Greenwich.  `Quotient` and `QuotientsOrdered` say what a division by a bucket's width means, `Offsets` that the two
  readings of the timezone differ by its minutes at most, `GroupIsNearby` that SQL's bucket of a row is then the local
  one of a moment no further away; `UnderALabel` turns membership in the labels into a bound on the age.

**`KeyAccessProofs`**, in three parts.

* *The table* (`KeyStore`): `TableIsSound`, `GeneratedKeysStayRevoked` (for one process on the table; with two it is
  `SharedKeysStayRevoked` below that holds), and `RegistryImplemented` under `Json = <<>>`.  Assumptions:
  `LegacyAssumption`, `JsonAssumption` (ids and hashes are unique in a legacy table, SQLite's
  constraints; a malformed hash is no key).  `Effect` sums up what any step does to the set of keys and is what
  the refinement and the other two parts use.
* *The offline tool*: `SharedTableIsSound`, `SharedKeysStayRevoked`, `PrintedKeysAreValid`, `KeysOnlyRevoked`.  What makes the second true is
  that a row a revocation has selected keeps its id until it is deleted, unless the tool renames it, and that no other row takes
  that id.  The tool's writes keep the table's
  invariant whatever it found before, since a second rebuild only changes ids and the
  import ignores what is there; `ToolInv` adds that past its rebuild the tool sees a table with text ids.
* *The admin socket*: `AnnouncedKeysAreReal`, `RevocationsAreTrue` (the key a client was told of is out of the table, and no
  other client was told of the same), and `SocketKeepsRegistry` under `Json = <<>>`, with
  `WantsAssumption` on what clients ask.

**`GatewayProofs`**, in two parts.

* *The limiter*: `FailuresBounded` (the 401 answers in any window, not the keys tried) and `BlockedJustly`, from `TypeOK` and `RecentRemembered` (an address
  remembers each 401 while it is recent, so the length of the vector bounds the history).
* *The handler*: `ImplementsLimiter` shows that every step of a request is a step or a stutter of
  `RateLimiter`, so its two theorems carry over to any number of requests and addresses
  (`GatewayFailuresBounded`, `GatewayBlocksJustly`).  `GInv` ties each `stage` to what must have happened before it: the
  name, the id asked for, the status, the rows.  From it `NoValidKeyIsRefused`,
  `AnsweredMeansRecorded`, `RowsMatchRequests`, `FallbackIsExplained`.

**`StreamingProofs`**, in two parts.

* *The accounting window*: `CaptureIsBounded`, `CaptureHoldsTheTail`, `CaptureCountsFinalUsage`.  `CInv`: what is held ends at the last byte pushed
  (`EndsAt`), and every line that begins within the last `CaptureMax` bytes begins in what is held
  (`LinesKept`); a trim keeps the second because it cuts at the first boundary inside the
  window.  Hence the last report of each count is found, if it is recent.
* *The task and its client*: `StreamIsBounded`, `StreamCountsFinalUsage` (the task's pushes are `UsageCapture`'s), `StreamTypes`, `StreamIsTransparent` and
  `FinishedMeansRecorded`, with or without a last newline.  `SInv` holds a list of cuts: the client's bytes, the channel's chunks and the chunk
  in hand are consecutive pieces of the stream, and an error comes last.

**`DiscoveryProofs`**: `AdvertisedKept`, `RoutedToTheSource`, `ConfigurationWins`, `ServedBeforeTrained`, `OwnedAndVerbatim`, for any providers,
payloads, tables and requests.

* *Invariant.*  `DInv` says of every entry of the map which provider and which position of its answer it comes from, and what
  the overlay has done to it so far; of the deactivated ids what they are; of the last list and the last route
  that they are what the map says.
* *Argument.*  `Discover` adds the entries of one provider, each from the first position that offers its
  id.  `Serve` applies the table key by key: after n keys (an induction over the recursive function of `Overlay`) a property is the one of
  the last key that declares it, or the reported one.  `ServedBeforeTrained` is a fact about `FindContextLength`: the served names stand before the
  trained ones in `WindowKeys`, and a plausible value for one of them is found before any of those.
* *Hypothesis.*  `RoutedToTheSource` assumes `NamesDiffer`, that the providers of a configuration have different names.  The code
  looks a provider up by name and does not refuse a second one of a name (section 4); without the
  hypothesis the statement is false.  The configurations of the `discovery` run satisfy it.  The other four need nothing
  but what TOML and JSON can hold.

**`InductionLemmas`**: the library's induction theorems take an operator and cannot be instantiated here.  The module
restates them over *sets*: `LeastNumber` and `UpTo` from well-foundedness, and `RunExists`, that a recursive function over `0 .. n`
whose steps are known exists, from which its defining equation follows in each use.  By it `Tally`, `Sum`, `Filtered` and `Overlay` are within
reach, as recursive functions; RECURSIVE operators would not be.

## 6. Model-checked only

* Liveness and fairness (ENABLED) are out of the prover's reach: `IdleRevokedKeysFolded`, `AgedRowsFolded`, `RecordedOnce`, `LeftStreamRecorded`,
  `SentIsAnswered`.  That a stream is recorded *at most* once is part of `StreamTypes`.
* The refinements of `KeyRegistry` are proved without a `keys.json`; with one they are false, as `keys_revival` shows.
* The three violations are shown by TLC's counterexamples only.

## 7. Not modelled, and the plan

Left out for good: HTTP, TOML and JSON parsing, terminal output, the comparison of the dashboard's
password, the browser part of the dashboard, the embedded assets, hashing and random generation.  None of
them keeps state.  Of the configuration only the clamp of the retention, the two readings of the timezone
and the sanitizing of windows decide anything the models speak of.

Not in the models either: the loss of the last committed transactions when the *machine* fails
(`synchronous = NORMAL`), the growth of the limiter's map of addresses, on which the
repository says nothing, and the display name of an aged counter.

Next, in this order: the safety part of the liveness properties as theorems (a finished task has recorded
exactly one row; a request that was sent is answered, open, or its connection is gone); and a power
failure in `KeyStore` as a loss of a suffix of the committed transactions.
