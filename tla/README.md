# NexProxy: specifications, model checks and proofs

NexProxy is a local manager of reverse-proxy routes: a React console over a Go API that
keeps desired routes in SQLite, owns DNS records at Cloudflare and observes Traefik. This
directory holds TLA+ modules for the parts whose correctness depends on the order of events,
the TLC configurations that check them on small instances, and TLAPS proofs of what matters
most for every instance. Paths below are relative to the repository.

    tlasany M.tla                          parse
    tlc -workers 2 -config X.cfg M         check
    tlapm MProofs.tla                      prove

`PROJECT.json` lists the runs, which definition models which lines, the mutants (a plausible
bug per property, under which the property fails), findings, hazards and theorems.

## 1. Inventory

| Component | State | Operations | What is hard |
|---|---|---|---|
| DNS lifecycle, `internal/dns/service.go` | table `managed_dns_records`; the provider's records | Ensure, DeleteManaged, Check, HasManaged, List | no transaction spans the table and the provider; compensation; crashes; lost answers; other writers |
| Cloudflare client, `internal/cloudflare/client.go` | none (reads its token per request) | List (paged), Create, Update, Delete, Get, ResolveZone | a page is a request; an error may hide an effect |
| Login throttle, `internal/auth/auth.go` | table of failures per address, bounded | Blocked, Failure, Success | check and count are apart; window, block and sweep times; a full table |
| Hashing, `internal/auth/auth.go` | none | Hash, Verify | not modelled |
| Traefik cache, `internal/traefik/cache.go` | last snapshot, mutex | Get | slow fetches under a mutex, partial failures, the clock, restarts |
| Traefik reader, `internal/traefik/traefik.go` | none | Status, Routers, Services, Middlewares, ValidateAPIURL | a snapshot made of four requests; normalisation; map order |
| Gate, `AuthenticatedApp` in `src/App.tsx` | loading / setup / login / authenticated, message | status, me, setup, login, logout, 401 handler | answers that arrive late |
| Console, `App`, `RouteModal`, `Confirm`, `Detail` in `src/App.tsx` | lists, dialogs, notices, load flags | load, retry, create, update, delete, recheck | answers in any order against a UI that moved on; patched lists |
| HTTP client, `src/api.ts` | the 401 handler | one function per endpoint | a 401 acts before its own promise rejects |
| Route pages, `PageView`, `Routes`, `RouteTable`, `DnsRecords`, `Detail` in `src/App.tsx` | selected page, filters | go, view, the buttons of a row, of Detail and of the form | several copies of a route: list, Detail, form, request |
| Health, services, validation, `src/model.ts` | none | deriveHealth, deriveServices, validateRoute, resolveBackend, publicURL | precedence, order independence |
| Settings and activity views, `src/App.tsx` | form values, a status line, an error line | load, enter, save, test | saving what was not loaded; three requests that share two lines; leaving the page |
| Handlers, orchestration, sessions, store | | | named by `README.md`, **not in the repository** |

Interactions. The (absent) route orchestration calls the DNS service, in one process one
mutation at a time (`README.md:5`); the service calls the Cloudflare client and SQLite. The
(absent) handlers call the throttle around password verification, and the cache with a
Traefik reader. The console reaches all of it through `src/api.ts`; a 401 to any private
request calls back into the gate, which unmounts the App.

What makes each correct: the DNS service never touches a record it did not create, never
leaves one without a row, and leaves row and record in agreement unless a named fault
happened. The throttle blocks exactly those who failed too often, for as long as it says,
in bounded memory. The cache returns complete observations no older than it says, or says
that they are stale. The console shows what the server has, unless something is under way or
went wrong, nothing it waits for hangs, and what an operator did not touch is neither sent back
in an older form nor erased, and what was told to be deleted stays away, unless for a cause that
can be named.

## 2. Modules

| Module | Models | Checked by | Proofs |
|---|---|---|---|
| `DnsLifecycle` (`MCDns`) | DNS service over the client and the provider | four runs | `DnsLifecycleProofs`, `DnsConsistencyProofs` |
| `LoginLimiter` (`MCLimiter`) | the throttle and the attempts that use it | two runs | `LoginLimiterProofs` |
| `SnapshotRegister` | what the cache promises (abstract) | through `Refines` | |
| `TraefikCache` | the cache | two runs | `TraefikCacheProofs` |
| `TraefikReader` (`MCReader`) | the reads of one fetch and what they make of Traefik's answers | one run | `TraefikReaderProofs` |
| `Console` | gate, App, dialogs, HTTP client | two runs | `ConsoleProofs` |
| `RouteModel` | the types and functions of `src/model.ts`, what the pages offer for a route | through `Pages` | `PagesProofs` |
| `RoutePages` | pages, loads, Detail, form fields and presets, dialogs, over late answers | through `Pages` | `PagesProofs` |
| `SettingsView` | the settings page and the server's partial update | through `Pages` | `SettingsViewProofs` |
| `Pages` (`MCPages`) | the three above in one console | one run | `PagesProofs` |

### DnsLifecycle

`mapping` is the table, `records` the provider, `creator` the history of who created an id,
`job[w]` the locals of the call a request goroutine runs, with the next statement in `pc`.
Each database statement and each provider request is one action, named after the call and
the step: `EnsureRow`, `EnsureGet`, `EnsureUpdate`, `EnsureSave`, `EnsureRestore` for the
update path of `Ensure`; `EnsureList` (once per page), `EnsureCreate`, `EnsureInsert`,
`EnsureUndo` for the create path; `DeleteRow`, `DeleteGet`, `DeleteRecord`, `DeleteForget`;
`CheckRow`, `CheckGet`; `HasManaged`; `ListPages`, `ListRows`. Everything else can happen
between two of them:

- *refused*: a request has no effect and fails (also: an unreadable secret, a rejected
  request);
- *timeout*: the client has given up (its own timeout, or a context that ended while the
  request was under way), the call sees an error, and the provider may still carry the
  request out at any later time (`wire`, `Arrive`);
- *db*: a statement fails, without effect;
- *cancel*: the context ends; every later statement and request of that call fails at once;
- *crash*: all calls vanish; table and provider survive;
- *edit*: the owner of the zone creates, changes or deletes a record.

Names are spellings with a canonical form (`same` ignores case and a trailing dot), which is
how the provider keeps them. Content and the proxied flag are one value. Record ids are
never reused. `Serialized` is the deployment rule of `README.md:5`.

### LoginLimiter

`entries` is the table (an absent key is `Zero`). Each method holds the mutex for its whole
body and is one action; an attempt is `Admit` (Blocked answered false), then `Failure` or
`Success` of the same worker, with other attempts and time in between. `Blocked` reads the
clock twice, so `Admit` may move it. `ledger` and `dropped` are history: the entries a table
without bound would hold, and the addresses with a failure that was not stored because the
table was full, until they next succeed. `SweepAfter >= Window + BlockFor` is an assumption (30 = 15 + 15 minutes) and is
what makes the sweep safe.

### SnapshotRegister and TraefikCache

`SnapshotRegister` has four kinds of answers: an observation made for the caller, the last
one while it is young, the last one marked stale with an error, or an error. `TraefikCache`
is `Get`: taking the mutex and reading the clock (`Hit`, `Miss`), each of the reads
(`ReadPart`, `FailPart`), installing the snapshot (`Install`). `clock` is real time and
`Wall` what `c.now().UTC()` shows: `UTC` strips Go's monotonic reading, so setting the host
clock back or forward (`StepBack`, `StepForward`) changes ages; `back` and `ahead` add up by how
much it was. The contents of a read are represented by the real time it was made at, so that the
age a snapshot tells (`ToldAge`: the wall clock less `ObservedAt`) can be compared with the age
it has (`RealAge`: real time less the time of its first read). The refinement maps `value` to the
register's `last`; the TTL promised is `Ttl + MaxStepBack`, which is the code's TTL where the
clock is never set back.

### TraefikReader

`TraefikCache` represents what a read returns by when it was made; `TraefikReader` looks into
it. Each of the four requests of a fetch is a step (`Read`) that sees the configuration in force,
and Traefik, which replaces its configuration as a whole, may do so in between
(`Reconfigure`). `past` holds the configurations since the fetch began, `draft` the parts read,
in the order of `cache.go:46-54` (`Order`). `Routers`, `Services`, `Middlewares`, `Hosts` and
`Qualified` are the normalisation of `traefik.go`, applied to resources written as
`name@provider`, with a provider field, or both (`Write`). The reference of a router to its
service is copied as it stands (`traefik.go:207`): in full, a bare name, empty, or of a service
that does not exist, since Traefik lists such routers too; `Refers` is how Traefik resolves it.
Nothing is assumed of the configurations. `at` is history, the instant each part was read at.
Properties are about complete
drafts, which `Get` installs and returns. Only one fetch is followed: the cache's mutex admits no
second.

### Console

JavaScript runs each handler to completion; every awaited request is a record in `wire` that
the server answers later, in any order. Continuations decide as React does: `Live` requests
belong to the mounted App; the state of what is unmounted is not written (`OnGone`); closures
keep the values they were made with (`r.id` in `OnRemoved`). An answer has a code (ok, error,
unauthorized) and, if ok, a result, a route or rows. An error may hide an effect. `form` is
RouteModal, `deleting` is Confirm, `detail`/`checking` are Detail. A route is its id and the
server time of its last write; field values are left out. `at`, `owed`, `sure` and `since`
are history.

### RouteModel, RoutePages, SettingsView and Pages

`Console` asks whether the list is right; these ask what becomes of the contents. A session
lasts and the first load is over (both are `Console`'s), and every field is there.

`RouteModel` has the types and functions of `src/model.ts` that decide something, and which
actions the tables and Detail offer for a route (`RowActions`, `DetailActions`). Lists are filtered
(`Where`) and services put together (`deriveServices`) by recursive functions, about which
`PagesProofs` proves what they return. Domains and hosts are opaque; `ValidDomains` and
`ValidHosts` stand for the patterns of `validateRoute`. In normal mode the services page shows a
list of its own, answered by the API (`src/App.tsx:119`, `:128`, `:382-392`), not `deriveServices`
of the routes: the page is not modelled and nothing relates the two lists.

`RoutePages` follows a route through its copies: the row in `app.rs`, the copy in `app.detail`
(set by a click, and by the answer of a recheck, never by a save), the fields in `app.form.v`,
the input in a request. `Offered` says which copy a button acts on. An update sends all fields
(`Save`), `Done` puts the answer's row at the end of the list, `OnRemoved` filters the DNS list
by name, `OnRechecked` replaces the row and opens Detail wherever the operator is. A load is one
request with an answer per section (`Sections`: the two lists modelled here), in any order; when
it has settled (`OnLoaded`) a section that failed keeps what it showed, and when all failed, the
ones left out too, the error panel with its Retry takes the place of every page (`loadError`).
The server stores the fields, gives an id once (`given`), and may fail, succeed in part, or succeed unheard.
Were an id used again, an old copy could pass for one of the new route, and `UndoneEditHasCause`
would need that as a cause. History: `touched` (fields
set in the form), `old` (the form began with a copy in Detail behind the list's), `lagging`
(routes whose row may be behind the server), `heard` (how many requests had been sent when the
deletion of a route was told).

`SettingsView` is the page in normal mode. `calls` are its requests, each with the visit that
sent it; `screen` its values, status line and error line; `Payload` sends every key, with the
blank for what the page does not have, and `Upsert` is the server's partial update
(`README.md:32`). An unset key, a blank field and a cleared box are one value, `NotSet`. History:
what a save had of the server and of the operator (`loaded`, `edited`), whether it or the load
under it `met` another save, and whether Save was pressed alone (`crossed`).

`Pages` selects one page: `Remount` opens and closes the settings page as React does, when it
is selected and neither the skeleton, the error panel nor Detail has its place.

## 3. Runs

Passing runs; `tlc` visits the whole state space of each.

| Run | Instance | States | Shows |
|---|---|---|---|
| `dns_serialized` | 2 routes, 1 worker, 3 ids (1 external), 1 zone, pages of 1 record, 4 calls, one of each fault | 1.6 M | which fault can cause which divergence of table and provider, and that nothing else does |
| `dns_two_instances` | 2 unserialised workers, 1 input, pages of 2, 4 calls, refused, timeout, db and edit faults | 0.36 M | the exact-id discipline protects external records even in the deployment the README forbids |
| `dns_returns` | all five calls, 2 workers, 2 zones, an unsupported type | 0.24 M | every call returns |
| `limiter` | 3 addresses in a table of 2, 2 workers, threshold 2, 6 attempts, time to 8 | 0.42 M | blocked exactly when an unbounded ledger says so, unless the full table dropped a failure; no block ends early; guesses per window are bounded |
| `cache` | 2 callers, 2 reads per fetch, TTL 2, time to 4, one step back and one forward, one restart | 0.13 M | the cache implements the register; ages told and real, spacing of fetches; every caller is answered |
| `reader` | 24 configurations of 4 routers (a service named in full, by its base name, not at all; missing in some of them), 3 services, 1 middleware; 2 changes per fetch | 1.7 M | what a torn snapshot still guarantees |
| `console` | 2 ids, the routes and one more section, 5 requests the user starts, 1 expiry | 0.18 M | late answers, reloads and dialogs leave the list truthful and nothing hanging |
| `pages` | 2 managed routes and an external one, 1 id to come, 2 records, 2 settings; up to 3 requests and fields outside the settings page, or 4 on it, or 2 in all | 0.80 M | by which causes, and by which alone, an edit is undone, a setting erased or a deleted route put back unseen; feedback is true |

Why the bounds suffice. DNS: an orphan, a dangling and a divergent row each need two calls
and two faults; four calls allow create, change, delete and one more of a second route, and
one fault of each kind allows every pair of kinds. Two ids beside the external one let two
routes each have a record and two creates of one route race. A page of one record makes the
list take several requests with two records in the zone. Limiter: two workers make attempts
overlap, which with a threshold of 2 reaches the bound of 5 guesses within 6 attempts; three
addresses are one more than the table holds; time to 8 covers a window, a block that starts at
its end, the sweep age and one tick beyond. Cache: two callers are the one that fetches and one that waits; two reads are one that
succeeds and one that fails or is later; time to 4 covers a TTL that ends during a second
fetch. With three or four reads the state space grows, no new order of events appears, and the
proofs hold for every number. Reader: three
configurations during a fetch let a resource come and go, or go and come, between any two
requests. Console: five requests are a load, an operation, its reload, a
recheck and a second operation; a second section is what distinguishes one failed section from
a failed load. Pages: `MaxSent`, `MaxEdits`, `MaxCalls`, `MaxVisits` and `MaxEntered` bound each kind of
work; `MaxRoutesWork` bounds it all outside the settings page, `MaxSettingsWork` on it, `MaxWork`
where the two mix. An edit undone by a later one takes two requests and a field; a deleted route
put back, a deletion and a save, load or check; an erased setting, a load, a field and a save; a
save crossed by that of an earlier visit, two loads and two saves. Where pages mix, 2 is a load of
the settings and one request left behind on another page. A reload after a partial deletion is
not counted against `MaxSent`, and a retry can follow as long as there is room. `Visited` leaves
out the pages that have no buttons of their own. Fewer than 3 recent rows (`Recent`) make the
dashboard's table shorter than the list. Every disjunct fires, and each excuse named in
`UndoneEditHasCause`, `ErasedHasCause`, `ToldDeletedStaysGone` and `FeedbackIsTrue` is needed:
without it TLC finds a trace. `ExternalReadOnly` excuses loads because external routes change
outside NexProxy; the instance leaves them as they are.

`CHECK_DEADLOCK FALSE` where a system may stop: the bounds on calls, attempts and requests use
up, and the gate really does stop when `/auth/status` fails. The cache and the reader are checked
for deadlock.

Symmetry (routes, workers, addresses) is used in safety runs only.

Runs that end in a violation, each a disagreement of the code with what the repository says:

| Run | Property | What happens |
|---|---|---|
| `dns_cancelled` | `PersistenceFailureNeverOrphans` | the request's context ends after the record was created: the INSERT fails, and so does the compensating delete, which uses the same context (`internal/dns/service.go:148`). The comment above it promises that no record is orphaned |
| `limiter_crowded` | `BlockedAtThreshold` | the table is full; the failure of an address that already has an entry is dropped too (`internal/auth/auth.go:146`), so its count stops below the threshold |
| `cache_clock_step` | `CachedForTtl` | the wall clock is set back; a snapshot older than the TTL is returned unmarked (`internal/traefik/cache.go:39`) |
| `console_mock` | `NeverFallsBack` | one section fails to load; the mock data the App started with stays on screen below the error (`src/App.tsx:113-121`), although `src/data.ts:5` says that normal mode never falls back |

Properties worth arguing about that hold only as stated:

- `DanglingIsForever`: a row whose record is gone can never be repaired through the API:
  `Ensure` and `DeleteManaged` both stop at `GetRecord`. It is checked as what the code does.
- `NoOrphan`, `DanglingHasCause`, `DivergentHasCause` name the faults that excuse a
  divergence. Dropping any named cause makes TLC find the trace.
- `BlockHolds` excepts an attempt of the same address that was let in before the block: if it
  fails after the window has passed, `Failure` starts a new entry and the block is gone.
- `GuessesBounded`: `Threshold - 1 + 2 * workers`, not `Threshold`, because attempts overlap
  and because window and block end at the same instant.
- `BlockedExactlyWhenDue` holds for an address as long as none of its failures
  fell to a full table; `limiter_crowded` shows that the exception is needed. It also depends on
  `Blocked` testing the block before it tidies the entry.
- `AgeToldShortByClockOnly`: ages are differences of the wall clock, so a clock set back makes a
  snapshot look younger than it is. By how much the clock was set back is all it can look younger
  by: `Get` reads the clock before the first request, so a slow fetch adds to the told age and
  never takes from it.
- `WholeRoutersStayWhole`: a router whose service was there when the routers were read has it in
  the snapshot, as long as no service went away during the fetch. Reading services before routers
  would break it whenever a service and its router are added together. Routers without a service,
  or whose service is missing or internal, are listed and not promised anything.
- `NothingLastingMissed` is about what the snapshot promises to hold: `Services` skips every
  service of the internal provider (`internal/traefik/traefik.go:227`), although `README.md:90`
  says the snapshot retains them.
- `UndoneEditHasCause`: an update sends all the fields of the form. It changes a field the
  operator did not touch only if the form was opened from a Detail that an edit had left behind
  (`src/App.tsx:198`), or if the row it was opened from was behind the server: the console did
  not hear the end of an update, closed the form before it did, or a slower load or recheck put
  the older row back.
- `ToldDeletedStaysGone`: after "deleted", the row comes back only by `Done` of a form on the
  route that had sent its save before, or by a load that was under way then; both put back what
  they were answered. A save, check or load sent later never does: the check of a Detail left
  open finds no row to replace, and an update of a deleted route fails.
- `ErasedHasCause`: a save of the settings changes a key nobody entered only in a page that has
  not loaded (the load failed, or has not answered since the page was opened again; then every
  other key is erased), that had read the settings before an earlier save was carried out, or
  when another save was sent before its answer.
- `FeedbackIsTrue`: "Settings saved" over values that are on the server, unless a field was
  entered since, or Save was pressed while the page's load or another save was under way, one of
  an earlier visit to the page included. A test announced as running has its answer to come:
  nothing but that answer, or another operation, takes the line away.
- `ExternalReadOnly`: no request names an external route, and no answer but a load changes an
  external row or record; a record of the same name as a deleted route stays.
- `QuietListIsCurrent` holds when no two requests overlapped and no answer was lost or
  dismissed since the last load. With overlap the list may be behind: a load answered before a
  save and delivered after it overwrites the saved row, `Done` after a deletion puts the row
  back.
- `NothingHangs` excepts the gate when `/auth/status` fails: it stays on the skeleton, and its
  message is never rendered in that state (`src/App.tsx:102-104`).

## 4. Fairness

Safety runs use `Spec`, without fairness. `dns_returns`: weak fairness of each worker's next
step, since statements and requests end (`client.go:80-86` gives the HTTP client a timeout);
nobody has to call and no fault has to happen. `cache`: weak fairness of a fetch's own steps
(the reader's HTTP client has a timeout), strong fairness of taking the mutex, because a Go
mutex in starvation mode goes to its oldest waiter. `console`: weak fairness of the network:
every request is answered or fails, and its continuation runs; nothing is assumed of the user.
`pages` has safety and action properties only and needs none.

## 5. Proofs

TLAPS checks these for every value of the constants, from the named assumptions on them:

- **DnsLifecycleProofs.** `TypeCorrect`: `Spec => []TypeOK`. `IdsAlwaysOwn`: every id in a row,
  in a running call's copy of a row, in a create to be undone or in a late request is the id of
  a record created for that route. `ExternalNeverWritten`: a record the service did not create
  only changes by the owner's hand. The inductive invariants: `TypeInv` adds to `TypeOK` what
  each step knows of its locals (past `EnsureRow` there is a row, past `EnsureCreate` an id),
  without which a request of a later step could be ill-formed; `OwnInv` adds `IdsAreOwn` to it
  and is preserved because `creator` never changes once set (`CreatorStays`) and ids move only
  from a row or an answered create to a job, from a job to a row or the wire. The external
  records follow: a PUT or DELETE names an own id. Nothing is assumed of `Serialized`, of the
  number of workers or of the faults.
- **DnsConsistencyProofs.** Every remaining safety and action property of the service.
  `NeverOrphan`, `DanglingAlwaysHasCause`, `DanglingRowsStay`, `DeletedIsGone` and
  `ListedAlwaysOwn` hold for any number of instances; `EnsuredIsServed`,
  `DivergentAlwaysHasCause` and `CreateNeverMeets` for serialised mutations, the first and the
  last without edits by the zone's owner and without lost answers, as the properties say. `StepKinds` brings every step of a worker into one of 21 kinds, so
  that an invariant is proved over what steps do and not over the code's branches. The
  invariants come in layers. `LocalInv`: a call in progress has not replied, what is on the wire
  or cancelled has been counted, what `GetRecord` returned matched the row. `SerialInv`:
  serialised mutations exclude one another, so a create runs for a route without a row.
  `MadeInv`: a created record is in no row and no other call until its own call inserts it.
  `ForgetInv`: a call about to remove a row has removed its record, it alone does, and its row
  is still there; this is where a second instance could have hurt `DeletedIsGone`, and does not,
  because ids are not used again. `CalmInv`: as long as no edit and no lost answer came in,
  the row read, the record checked and the record written are still what they were. `CoverInv`: the
  pages read so far hold every live record up to where they end; with the counting lemma
  `ShortPageIsLast` (positions in a zone are a bijection with 1, 2, ... up to the number of its
  records) the last page then proves the name free. Assumed beyond the type assumptions: no
  value is no reply (`NoReplyAssumption`), and normalising a name twice changes nothing more
  (`CanonAssumption`).
- **LoginLimiterProofs.** `TypeCorrect`, `TableAlwaysBounded`, `BlockAlwaysWithinReach`,
  `BlockAlwaysShort`, `BlockAlwaysHolds`, `AlwaysBlockedExactlyWhenDue`,
  `GuessesAlwaysBounded`. `LimiterInv` says of each entry that it started in the past and that a
  block ends at most a window and a block after its first failure. With
  `SweepAfter >= Window + BlockFor` a swept entry cannot be blocking, and with `Blocked`'s own
  test neither can a tidied one. The bound on the table needs that storing one entry adds at
  most one to the cardinality of a finite set. `Agree` relates the table to the ledger without
  bound: the entries are equal, or the table has none where the ledger's counts and blocks no
  more; one more failure makes both equal again (`CountedAgrees`), so the blocks agree.
  `GuessesBounded` counts failures only; inductive is what it leaves out, the attempts that
  were let in and have not ended (`GuessesInv`): below the threshold every worker may have one,
  a block lets no more in, and a second round of them is possible only where the block and the
  window end at the same instant. Assumed for it alone: there are finitely many workers, and a
  block lasts at least as long as the window (`BlockAssumption`; both are 15 minutes in the code,
  and after a shorter block one window could hold any number of rounds).
- **SettingsViewProofs.** `TypeCorrect`, `FeedbackIsAlwaysTrue`, `ErasureHasCause`: for any keys
  and values, any number of requests, visits and fields. The properties are about what a page
  shows and what a save changes; the invariant that carries them is about the requests in
  between. `StatusInv`: a save pressed alone stays the only one under way, has what is on the
  screen, and once carried out the server has it. `LoadInv`, `PageInv`, `SaveInv`: a setting
  nobody entered is the server's in an answered load that met no save, in the page built on it
  and in the saves sent from there, which all agree on it. It is inductive only with the
  uniqueness of request numbers and with the types of `calls`, which `SettingsTypeOK` has. What
  the theorems excuse is what the properties name: pages that had not loaded, and saves that met
  the load or another save, of an earlier visit too.
- **TraefikCacheProofs.** `TypeCorrect`, `AgesToldShortByClockOnly`, `CacheMovesForward`,
  `FetchesAreSpaced`, and `CacheImplementsRegister`: `Spec => Refines`. `CacheInv` says that
  only the holder of the mutex has a fetch under way (`LockInv`), that a fetch's reads lie
  between its start and now, in order, and after the cached snapshot (`FetchInv`), and how far
  the wall clock may be from real time (`ClockInv`, `FetchInv`: by what it was set back and set
  forward so far); each is needed because a snapshot is dated and compared by the wall clock and
  promised in real time. The told age falls short by no more than
  `back` because no date is later than its real time by more than the clock was set forward. Each action maps
  to the register's step of the same meaning (`HitServes`, `InstallObserves`,
  `FailPartReplies`, `CallAsks`, `RestartForgets`) or to a stutter.
- **TraefikReaderProofs.** `TypeCorrect`, `SnapshotAlwaysWasThere`, `NothingLastingEverMissed`,
  `WholeRoutersAlwaysStayWhole`: for any configurations, providers and names, and any number
  of changes during a fetch. That something lasted throughout a fetch is a statement about all
  configurations since its start; the invariant carries it from one change to the next: each
  part is what the configuration of its instant answers (`Dated`), services are read no earlier
  than routers (`ServicesLater`), and, unless a service went away, each configuration has the
  services of the earlier ones (`GrewThroughout`). Assumed of the constants: the internal provider has a name
  (`InternalAssumption`).
- **ConsoleProofs.** `TypeCorrect`, `NeverTwoOperations`, `PartialDeletesReconciled`,
  `RowsLeaveOnlyIfGone`, `QuietListAlwaysCurrent`: for any routes, sections, sessions and number of
  requests, answered in any order. `Typed` and `Opening` say that requests are told apart by
  their number, but for the sections of one load, and that the first request is the gate's, alone;
  `Waiting`, that of all sent since the form opened only its own operation writes; `Loaded`,
  that a load of the mounted App whose answer is to come has the skeleton on screen or was a
  retry, that no answer is of the future, and that the load owed after a deletion is answered
  after it; `RemovedIsGone`, that a deletion answered as done is done; `Current`, that in a quiet
  time the list, completed by what the one operation on its way or its answer says (`Known`),
  is the server's. The steps of gate, App and dialogs are many and their effects few: `StepKinds`
  and the shape lemmas reduce each invariant to about eleven kinds of step. Assumed: `None`
  is no record (`NoRecordAssumption`).
- **PagesProofs.** `UndoneEditsHaveCause`, `ExternalStaysReadOnly`, `ToldDeletedRoutesStayGone`
  and `ConsoleTypeCorrect`: for any routes, fields, observed states and number of requests, answered
  in any order or never. The inductive invariant is `RoutesInv`, in four layers.
  `CopiesInv`: every route in the list, in Detail, in the form or its result, in the dialog, in
  a request or an answer is a copy of a row the server has or had (`Copies`): no newer than the
  row, with its fields if it is as new, with an id that was given, and external only if that
  route always was; a removal answered as done is done; request numbers are unique. It carries the
  type invariant; with `LoadKnown` (an owed load keeps the skeleton) it carries
  `ExternalReadOnly`.
  `Views`: a copy on a page is current, or the open form is busy with its route (`Busy`), or the
  route is in `lagging` (`Known`); Detail and answered checks may be behind a newer row of the
  list instead (`Behind`). The load owed needs the most: it may put an old row back, so each
  row of its answer must be known or behind the list, and the answer must contain every route
  that Detail shows and the server still has, or removing the newer row would hide that Detail is
  old.
  `Edits`: an update under way is the one request of the open form, or its route lags; the form
  and that request differ from the server's row only in touched fields, unless the form was
  opened old or the route lags; the result a form shows is current or lags.
  `ToldGone`: a route told to be deleted is gone at the server for good, whose ids are given once;
  no request sent since is answered with it and no form that sent its save since shows it. It
  carries `ToldDeletedStaysGone`. Each step disturbs
  few of these, so `ViewsQuiet`, `ViewsStay`, `ViewsMove`, `EditsStay`, `EditsMove` and
  `AnswerEdits` say once what a kind of step keeps and each action is brought to one of them.
  The lists: what `Where`, `Saved`, `Patched` and `Merge` return is proved of their recursive
  functions (`WhereSet`, `WhereSplits`), and of `deriveServices` that each address of a managed
  route has exactly one service, with the worst health there, in whatever order the routes are
  (`DerivedServicesList`; only the mock scenarios show it). The library's induction
  takes an operator as a parameter; instead, a set of numbers that contains 0 and each next one
  up to a bound contains all up to it (`UpTo`), since numbers are well ordered (`LeastNat`).
  Assumed: the first rows are routes, each id once, of time 0, the managed ones with inputs as
  the form has them (`ServerAssumption`); ports, schemes and boxes are entered as such
  (`TypedAssumption`); `None` is no id, route or answer (`NoneAssumption`); the sidebar has only
  its pages (`VisitedAssumption`). Nothing is assumed of the bounds.
  `ConsoleImplementsSettings`: the composed console implements `SettingsSpec`,
  its `Remount` being the settings page's own opening and closing; therefore
  `ConsoleFeedbackIsTrue` and `ConsoleErasureHasCause` hold of the whole console, by the
  theorems of `SettingsViewProofs` and with the causes these name: leaving the page and opening it
  again is one way to meet a save or to have nothing loaded, and what is done on the other pages
  adds no other.

Every invariant and every action property of the passing runs is the property of a theorem. Only
model-checked are the liveness properties (`CallsReturn`, `CallersAnswered`, `NothingHangs`):
liveness under fairness and `ENABLED` are beyond the prover. `BlockAlwaysWithinReach`,
`BlockAlwaysShort`, `CacheMovesForward`, `ConsoleImplementsSettings`, `DerivedServicesList` and the
type correctness of `SettingsView` are theorems no run lists as a property: what the runs check
implies what a run would add. No module has a `RECURSIVE` operator.

## 6. Not modelled

Password hashing, `RemoteIP`, `ResolveZone`, `ValidateAPIURL`, the entry points, TLS, states and
servers of a snapshot, wording and layout, the certificates page and the services page (answers of
their own, desired and observed), counters, the connection diagram of Detail (`resolveBackend`,
`publicURL`): stateless, or shown as it comes. Search and filters only narrow the list of which
`RoutePages` offers every row. `ActivityView` is one fetch shown as it comes. Handlers, sessions, orchestration and the store are not in the repository: they
appear as callers (`Call*`, `Admit`), as the server of `Console`, as `Serialized`. Statements
fail without effect; a commit whose answer is lost is not modelled. HTTP bodies, JSON and
size limits are the single outcome "error". Development scenarios (`?scenario=`) are left out;
`README.md:42` excludes them from production. `PROJECT.json` lists, under hazards, what the code
is exposed to and no property covers, with the reason.

## 7. What could follow

1. The DNS service as a refinement of an abstract ownership register: a route is unowned,
   owned, or in doubt.
2. The handlers and the route orchestration, when their source joins the repository: the
   serialisation of `README.md:5`, and which Reader the cache is given after the Traefik address
   changes, are assumptions until then.
