# A verification project for browser-broker

browser-broker lends tabs of a few shared browsers to callers that each run as a
process of their own. There is no daemon: every call opens one SQLite store, decides
inside one `BEGIN IMMEDIATE` transaction, commits, and only then touches a browser.
What can go wrong is therefore mostly what several short-lived processes do to one
store, and to a browser beside it, in an order nobody chose.

This directory holds TLA+ models of that system, TLC configurations that check them on
small instances, and theorems TLAPS proves for every size. Paths below are relative to
the repository; `service/`, `browser/`, `cli/`, `store/` and so on stand for
`src/service/`, `src/browser/`, `src/cli/`, `src/store/`.

## 1. Inventory

| Component | State it keeps | Operations | Interacts through |
|---|---|---|---|
| Arbitration (`service/arbitration.ts`, `operations/claim.ts`, `status.ts`, `give-back.ts`, `queue.ts`, `leases.ts`, `capacity.ts`, `tabs.ts`) | `claims`, `claim_arrival`, `tabs` | claim, status, the page calls, tab_replace, release, the sweep, promotion, the tab results | one transaction per call; results written after the commit |
| Status reads (`service/operations/pool-status.ts`, `src/operations/status.ts`, `derive.ts`) | none | status of the pool, the operators' overview | SELECTs without a lock or a sweep |
| Sign-in (`operations/sign-in.ts`, `signin-recovery.ts`, `cli/login-command.ts`) | the sign-in columns of `browsers` | begin/end (a person's `broker login`), request/finish (a caller's `browser_sign_in`), lapse | same transactions; liveness of a pid |
| Adoption (`browser/adoption.ts`, `browser-session.ts`, `discovery.ts`, `launch.ts`, `profile-marker.ts`) | `browsers.state`, `pid`, `endpoint`; the profile's files | observe, decide, attach, wait, launch, record, probe | own transactions without a sweep; the profile directory |
| Page work (`operations/pages.ts`, `runtime.ts`, `pending-seeds.ts`) | pages of the browser; seeds waiting in memory | open or find the page, drive it, close given-up pages | after the commit; writes single statements |
| Reconcile (`reconcile.ts`, `cli/reconcile-command.ts`) | none | read rows, list pages, decide, write, close | autocommit writes beside everybody else |
| Store (`store/*`, `config/environment.ts`) | schema version, agreed budget | read settings, open, upgrade, agree, or refuse | file locks of SQLite |
| Doctor (`doctor/*`) | none | the checks, the exit code | reads the store without stepping it |
| Calls (`tool/session.ts`, `tool/tools.ts`, `cli/index.ts`, `cli/adapter.ts`, `service/bridge.ts`, `service/pages.ts`) | none beyond the line being answered | parse, complete and judge arguments, look up a tab, dispatch, answer | one service call each |
| The driver's session (`browser/real.ts`) | references, armed answers to dialogs, the keeper page | attach, open, find, list, close, read, act | one connection per process to one browser |
| Secrets (`service/secrets.ts`, `secrets/*`) | which secrets a lease has used, in the ledger | resolve, bind, type, scrub | an operator's command; the page |
| Captures, comparisons (`capture/*`, `diff/*`, `service/comparison*.ts`, `cli/image.ts`) | image files, `captures`, `comparisons` | scale, take, record, warn; mask, regions, crops; serve a file | files and rows, written one after another |
| Records read back (`service/events.ts`, `src/operations/ledger.ts`, `telemetry.ts`, `feedback/*`) | `events`, `feedback` | append, page on and back, add up, rate a call | append-only; read by no decision but of secrets |

What makes each correct, and hard:

- **Arbitration** - never more active leases than the budget; one live tab row per active
  lease and none elsewhere; first come first served; nothing that ended comes back. Hard
  because expiry is *derived*: a lapsed lease still reads `active` until some call sweeps,
  and what is read without a sweep has to foretell what the sweep will do.
- **Sign-in** - one holder at a time; never underneath a caller's pages; a person keeps
  the browser while their process lives; an unanswered request ends. Hard because two
  protocols and adoption write the same row.
- **Adoption** - one launch at a time, no launch beside a running browser, no row stuck in
  `starting`. Hard because the observation precedes the transaction that acts on it.
- **Page work, reconcile** - no page left that no row names, no row that names no page for
  ever, nothing closed that belongs to somebody. Hard because every step may be the last
  one its process takes.
- **Store** - processes agree on the schema and on the budget or do not start, and a
  person can find out why. Hard because two builds may upgrade one file at once.
- **Calls** - one lease keeps one tab however many processes hold its key; a seed is
  written once; either surface reaches every action and means the same by it. Hard because
  a tab is looked up before the transaction, and one surface sends texts only.
- **Driver's session** - a reference acts on what was read or on nothing; one order to
  accept answers one dialog. Hard because no connection hears of the others.
- **Secrets** - typed only where they are bound to, and not given back. Hard because a page
  moves between any two awaits, and who scrubs is not who typed.
- **Captures** - no row without its file, figures that are of the files. Hard because
  nothing ties four writes together.
- **Records** - whoever follows misses nothing, sums agree, feedback names its call. Hard
  because a reading is several statements and a refusal's row arrives late.

`PROJECT.json` lists the hazards one by one, each at its line with the properties about it.

## 2. Modules

| Module | What it is |
|---|---|
| `LeasePool` | What a caller is promised: places, a line and the order it is served in, without keys, clocks or tabs |
| `Leases`, `PoolView`, `Reads` | The lease tables, one action per arbitration call; the tables seen as a `LeasePool`; what is read of them without a sweep |
| `Arbitration` | `Leases` (by INSTANCE) beside the browser rows, the login processes and the adoption writes |
| `Pages` | `Leases` (by INSTANCE) beside the pages of one browser: what each process does after its commit, and `broker reconcile` |
| `Adoption` | One browser, its row and its profile: observation, decision, launch, record, probe, login |
| `Settings`, `Schema`, `Doctor`, `StoreOpen` | Reading the environment; the eleven schema steps; the doctor's checks; processes of several builds opening one store |
| `Arguments`, `Rules`, `Surfaces`, `Calls` | What a surface and the bridge make of arguments; the rules they are held to; the two surfaces; a call from its line to its page and back |
| `Session`, `Secrets` | Connections over one running browser; secrets typed into one tab |
| `Pictures`, `Captures`, `Images` | Arithmetic of pictures and regions; taking and comparing them; fetching files back |
| `Queries`, `Readers` | Command lines that read records; the records and their readers |
| `MC*` | Small instances |
| `*Proofs` | The theorems |

### Leases, PoolView, Reads

`claimState`, `left`, `ttl`, `arrival` are columns of `claims` (state, the time until
`expires_at`, `ttl_seconds`, `arrival`), `nextArrival` is `claim_arrival.next`, and
`tabState[c][n]` the state of the n-th tab row of claim c. A call is one action because
its transaction is serialised by `BEGIN IMMEDIATE`; it begins with the sweep (`Swept`,
`SweptTabs`), whose result and the decision commit together. A refusal throws and rolls
the sweep back, so a refused call is a stutter. `PageOpened` and `PageClosed` are the
writes made after a commit, without a sweep. Time is `Tick`: every deadline comes one
closer; `left = 0` is "the expiry has passed".

`ReleaseEnded` deserves a word: releasing a lease that has ended answers without a
refusal, so a call that does nothing else still commits the sweep.

`PoolView` maps the tables onto `LeasePool`: whoever is active holds a place, and the line
is each waiting claim's position, the number of those who came before it.

`Reads` has the two derivations of `operations/derive.ts` and the queries around them.
They are made without a transaction, over rows whose stored state may be past; the
property is that they agree with what the next sweep makes of the rows. The overview
orders the queue by creation time and id, the service by arrival. `Timings` are the
instants the claims in line may have been made at, in the order of arrival but not
distinct, and `IdOrders` the orders their random ids may have; the place that is shown is
judged for all of them.

### Arbitration

Adds `claims.browser_id`, `browsers.state`, whether `pid` is null, the three sign-in
columns, and outside the store which login processes hold a window, which have exited,
and how many launches are in flight. Each action of a caller is the `Leases` action of
the same name conjoined with the lapse of unanswered sign-in requests (or with the
hand-over that replaces it). `begin_sign_in` and `end_sign_in` run the sweep and touch no
lease of their own. Adoption writes are their own transactions and sweep nothing.
A process is known by its identity; the reuse of a pid by the operating system is not
modelled.

### Pages

`driverTabId` is the column `tabs.driver_tab_id`; `opened` and `minted` are the pages the
browser has and ever had (`NoPage` is null). A *worker* is a caller's process with one call
in hand. `Call` is the `Leases` action of that call together with what its commit leaves
to do: `toClose` the rows the sweep or the release moved to `closing`, `toShut` the page
`tab_replace` gave up, `toOpen` the row a page has to be opened for. After that every
round trip to the browser and every write that records its answer is a step of its own:

| Code | Steps |
|---|---|
| `closeOrphanedTabs`, the closes of `release` | `AskClose` or `CloseFails`, then `RecordClosed`, then `ListPages` and `Drain`, or `SkipDrain` |
| `tab_replace` (`pages.ts`) | `Shut`, whose answer nobody writes down, then `Open` |
| `pageFor` | `Open` or `OpenFails`, then `RecordOpened`, which leaves a row that is no longer `opening` as it is |
| `reconcile.ts`, `reconcile-command.ts` | `ReadRecordedTabs`, `ListTabs`, `SettleTabs`, `Revoke`, `SettleStrandedTabs`, `CloseUnowned` for each page, `EndReconcile` |

`news` is the answer a worker holds between the browser's word and its own write. `Crash`
ends a worker with whatever it owed undone, at any step; `EndReconcile` is also the kill
of a reconcile run. `ClosedByHand` stands for a person, and for a browser that dies.
A page's name is given once: the browser never uses one again. Whoever lists the pages has
attached for it, and attaching takes the first blank page for the session's keeper, which a
listing leaves out. A tab's page is blank until it is navigated, so the keeper may be any
open page of `MayBeBlank`, or none of the tabs' (`MayBeKeeper`); `kept[r]` is the one a
reconcile run has taken. The time gate of the drain
(the age of a row that waits in `closing`) is a choice between `ListPages` and `SkipDrain`;
`close_attempts` and `close_failed_at` are not modelled, for no decision here reads them.

### Adoption

One browser: its row (`rowState`, `rowPid`, `rowUuid`), the discovery record in its profile
(`portFile`), the operating system processes started against that profile (`life`: a second
one stands by because the first holds the lock), and for each process of the service where
it is in `acquire` (`at`) and what it carries: the verified record it saw, the record that
was there before its launch, the process it spawned, and its settled session (`memo`,
`connected`). Observation, decision, attach, wait, launch, the watch for readiness and each
write are separate steps; a process may be killed at any of them and the store may refuse
a write (`unrecorded`). A process makes one call at a time. `Login` processes are
`broker login`, which starts a browser outside that race, after the handshake with the
profile's lock.

### Settings, Schema, Doctor, StoreOpen

`Settings` is `readEnvironment` as a predicate and the values it answers with, the checks
of the store's location, and the numbers of comparisons, which are read later. `Schema`
has the eleven steps (`Stepped`): what each does to rows, and what the tables of each
version accept (`Legal`). `Doctor` has the checks and the exit code. In `StoreOpen`
processes of different builds open a file: the journal mode, the first look at the version
outside a transaction and the second inside, step by step up to the process's build into a
`draft` that commits whole or not at all, then the agreement on the budget. `Exit` is a
kill at any point, and another start of it is another open with other settings.
`broker doctor` changes nothing: `Report` is what it would say at that point. A store not
yet in write-ahead-log mode counts as absent for it.

### Arguments, Rules, Surfaces, Calls

`Arguments` is what the bridge reads out of a call's values, `Rules` the rules in the order
they are applied and the action that is then handed to the driver, `Surfaces` the tools and
the command line. They are functions of a line; `Calls` evaluates them where the code does.

A process of `Calls` is a tool server or a shell with one line in hand (`call[p]`): lookup
of the tab of its key (`LookUp`), then the decision, then the page, then the answer.
`waiting[p]` is the seed that waits in memory, `storage[g]` what a page got of it, `applied`
the ledger's rows about seeds. A key is the claim it opens; capacity, lifetimes and order
are abstracted to promotions and lapses at any time. Left out of the rules: echoes of bad
values in refusals, and files that change while they are read. Texts are looked for four
levels deep (`TextsWithin`); no argument nests deeper, and the code's limit is eight.

### Session, Secrets

`Session` is the driver: each connection has its own keeper, pages it has met, names it
gave to elements, and orders for dialogs; `opened` and the elements are the browser's, which
a person uses too. `told` is the last snapshot handed out: by which connection, whether
it was the first of that connection and the page has stayed as it was, and whether another
document has been loaded since, for its references outlive the document in a caller's hands.

`Secrets` follows one tab and the processes with its key. A secret is known by its name, in
whatever spelling it comes. A call is decided (`prior` are the secrets the ledger says the
lease has used by then), resolves what it must, works field by field, each with an element
taken, checked and typed into in three steps, and returns what the page then shows, less
what it knows. An act and a read also return the name of the file they wrote, which is made
from the page's address as it is: whatever the page was given may stand in it (`WriteText`).
Documents come and go between any two steps.

### Pictures, Captures, Images

`Pictures` has scaling, masks, components, merging, the size filter and crops, on small
grids of grey. A call of `Captures` goes through `Decide`, `TakeCapture`, `RecordCapture`,
`Draw`, `RecordComparison` and `Finish`, and may fail at each; `files[i]` is what the file
of a capture shows, or that it was cleared away, and `cleared` the crops and overlays that
were. `Images` is `broker image`: a line names a lease's key and an artifact, and is served a
file, or told that it cannot be read.

### Queries, Readers

`Queries` parses the lines of `broker events`, `broker captures` and `broker diffs`.
`Readers` has the tables they read, callers that add rows (a refusal's row after its
rollback, a capture's row after its instant), and a reader that pages on with the printed
cursor, pages back, or adds up one SELECT at a time over two windows that meet. A caller is
answered in a step after its row is written (`LeavesRow`, then `Answer`), so two answers may
come in another order than their rows; a refusal whose row is lost is answered all the same
(`LoseRefusal`), and one for its arguments never had a row (`RefuseArguments`). `heard[c]` is
what a claim was last told, and the row of the last answered call of it that left one. Byte
and token estimates, sorting of groups and rendering are left out.

The three subjects (`about`) are followed apart: what is read of one depends on no row of
the others.

## 3. Runs

| Run | Question | Bounds |
|---|---|---|
| `leases` | Do the tables implement the pool and its line, keep one live tab per lease, idle only where the code says, and do reads foretell decisions? Is everybody who waits served? | 4 claims, budget 2, lifetimes 2, two tab rows per lease, of which one claim makes use: two promotions in one release, a queue of two, lapses of a lease and of a place in one sweep |
| `arbitration` | Who may hold a browser, what ends a sign-in, does the store implement `Leases`? | 3 claims, budget 2, one browser, 2 login processes, one launch in flight |
| `pages` | Does work that is done late, twice or not at all close somebody's page, name a page twice, or close a row on no evidence? | 2 claims, budget 2, 2 workers, 2 pages, either of which may be blank, 2 rows per claim |
| `reconcile` | Is every leaked page closed and every given-up row settled, whoever died, and is a lease taken away only for a page that is gone, or was taken for the keeper? | 1 claim, 1 worker, 1 reconcile run at a time, 2 pages, of which one may be blank, 2 rows |
| `reconcile_closes_live_page` | What a comment says of reconcile and the code does not do | the smallest instance that shows it |
| `adoption` | Does a row that says `starting` always have a launcher, and is the browser that serves spared? | 2 processes, a login, 2 browser processes |
| `adoption_live` | Is every launch recorded, and a dead session dropped? | 2 processes, 2 browser processes |
| `store_open` | Is the file whole, do servers agree, does the queue keep its order, does the doctor name the cause? | 4 processes: two of the newest build with budgets 4 and 8, one of build 6, one whose settings are wrong in one of five ways; stores at versions 0, 2 and 8 with two queued claims; two machines |
| `session` | Do references hit what was read, do orders to accept answer one dialog; and, followed apart, do secrets stay home and out of what comes back? | 2 connections, 2 pages, 2 elements, one load, order and event each; 2 processes, one with a resolver, 2 secrets, 4 documents, 3 forms |
| `captures` | Do rows describe files, is the warning late by others at most, are regions the changes, is the file served the one asked for, or said to be gone when it is? | 2 processes, 2 leases, 2 pages, 2 captures, one file of any kind cleared, threshold 1, one region reported |
| `calls` | Does a lease keep one tab and its seed land once; is every action reachable, and do the surfaces agree? | a server and a shell, 1 claim, 3 pages, 3 rows, one line of each kind; 538 calls, 60 of them with a value that by itself reads as an option or a question, and 41 actions for the last two |
| `readers` | Does a follower miss nothing, do sums agree, does feedback name its call? | 2 callers between row and answer at once where feedback is concerned, one elsewhere; 2 claims, 3 rows of the ledger and feedback, 3 captures and comparisons, one reason listed |

Why these are enough. A lifetime of one tick would make every lease lapse at the first tick,
so in `leases` they are two. Its four claims fill the pool and a queue of two, so one call
can release a lease, sweep another and promote both who wait. `OneClaimBrowses` lets one
claim open its page and replace its tab; tab rows of different claims do not meet in any
action, and the theorems cover the rest. In the page runs both lifetimes are one tick, so
that a lease may lapse between any two steps of the process that holds it. Two workers are
enough for one to sweep up or to release what the other is still opening, two rows for a
replacement, and two pages for two openings of one row, of which one is leaked. The
reconciler meets one worker: its hazards are a listing or a reading that is old when used,
which one other process shows; one page that may be blank is enough for a lease lost to the
keeper, and leaves one that is never mistaken. `store_open` has two processes that may both
upgrade, one that may upgrade less far, and one that never gets to; version 2 is the last
without arrival numbers, 8 the last without kinds. In `captures` the edges of the tiers (6
and 12) lie between the sizes of the pages, so one is scaled and one is not, and one region
more changes than is reported. One file cleared is enough, for a request is for one file. In
`readers` the two callers of the feedback part may be answered in either order. In `calls`
two claims or three processes are out of reach; `CallsProofs` covers any number. Claims,
processes, pages and connections that no action compares are interchangeable, so symmetry is
sound where a run uses it; runs with liveness use none. `CHECK_DEADLOCK FALSE` stands in the
adoption runs, where every process may be dead.

**Fairness.** The code schedules nothing: there is no timer and no daemon.

- `Leases`: weak fairness of "some holder releases", nothing else. `QueueServed` says that,
  unless somebody lapses, whoever waits is served. It is followed for one claim, all being
  alike. That holders release is the protocol the tool descriptions ask of callers; without
  it nobody is served, and no property here says otherwise.
- `Pages`: a worker goes on with its call unless it dies (weak fairness of `Continue`; a
  failure and a crash are always possible instead), callers give their leases back, and
  somebody runs `broker reconcile` until a run gets through and the browser has closed a
  page when it was asked to often enough. Nothing in the code makes the last happen. Its
  documents ask for it: reconcile is the repair for what a dead process leaves. A leaked page
  that is blank, and that every run takes for its keeper, is never closed:
  `LeakedPageCloses` excuses it.
- `Adoption`: a process goes on with its call unless it dies (every loop has a deadline), a
  connection notices that its browser is gone, and callers go on asking for the browser,
  however often its liveness is probed in between (strong fairness of `Acquire`).

### Disagreements found

One is shown by a run: **reconcile closes a page a live lease owns**
(`reconcile_closes_live_page`), one opened after it read the rows and before it listed the
pages, by a worker that has named it since; `cli/reconcile-command.ts:48` says it proves no
live lease owns what it closes. The others came up while modelling. They are part of the
models, and the properties above are what holds beside them.

Leases, sign-in, reconcile:

- `SCHEMA.md` has the sweep promote the front of the queue; the sweep promotes nobody, a
  release does. So capacity idles beside a queue after a lapse, and a newcomer may be
  granted a lease past callers who wait. `CapacityIdlesOnlyAfterLapse` says how far it goes.
- Promotion does not look at the browser, so it grants a tab on one a person is signing in
  to. Adoption records `running` over `signing-in`; a second login may then begin while the
  first holds the window. `PersonKeepsSignIn` names adoption as the one write over a person's
  sign-in.
- A page a tab was opened for and not navigated is blank, and a process that attaches may take
  it for its keeper (`real.ts:1187`), which it then does not list (`:1146`). So reconcile takes
  a lease away whose page is open, and it and the drain settle rows whose pages are
  (`RevokedForAPageNotSeen`, `ClosedOnEvidence` say when).
- Reconcile revokes a claim and ends its row in two statements (`reconcile.ts:484`, `:500`).
  A tab replaced meanwhile stays live under a lease that ended, and a death in between
  leaves an active lease without a tab; nothing settles either.
- The liveness probe looks at the browser first and reads the row after, so it says `gone`
  of a browser another process started and recorded in between (`browser-session.ts:391`,
  `:399`).

Adoption, the driver's session:

- A login's launch outside the race lets a launch record the pid of the process that lost
  the profile, and a late `recordLaunchFailed` writes `stopped` over another's `starting`.
- The readiness deadline of a launch ends a browser others have adopted by then
  (`launch.ts:603`, against `:93`).
- The login's handshake refuses while a browser holds the profile's lock on Unix, although
  the code behind it hands a running browser over. A profile of a newer browser version is
  never refused: the version is never passed (`real.ts:2773`).
- A keeper may be a leased blank page, or be closed by its own session (`real.ts:1284`,
  against `SCHEMA.md:2549`).
- A reference may resolve after a navigation, on a page it was not read from: a connection
  that has not looked one up in the page takes a snapshot for the purpose (`real.ts:2007`), and
  acts on what bears the number now. `RefHitsWhatWasRead` follows a snapshot over loads, says
  that a connection which had looked one up refuses it, and leaves this case open.
- When two captures of one tab overlap, the clean-up of one removes the masks of the other
  (`real.ts:2522`). `real.ts:1911` has a `dispose` commented out.

Secrets:

- An attempt to type a secret that fails because its element is stale leaves no
  `secret_filled` row, though `SCHEMA.md` section 3.8a has every attempt append one; the
  row of an attempt that was allowed follows the typing and can be lost.
- A call decided before an act's row is committed may give back what that act types after;
  `OutputsAreScrubbed` speaks of what was decided earlier.
- A secret is to be kept "out of everything that comes back" (`SCHEMA.md:2089`). The name of the
  file an act or a read writes is made from the page's address, which nothing scrubs
  (`real.ts:2254`; only a query is cut off, `artifacts/names.ts:46`): a page that has put
  the secret in its path gives it back there. `OutputsAreScrubbed` excuses that name alone.

Calls, keys and seeds:

- A second process with the key may open the tab's page first, navigate before the seed is
  written, or leave the seed on a page that is not recorded, under an `applied` row that
  names the tab (`pending-seeds.ts:8`: "to the first page that tab ever has"). A page opened
  by `tab_replace` never takes the seed; after it failed the seed goes to the replacement.
  A queued claim's seed is dropped without a row. A seed written in part, or a death before
  its row, leaves no row though the storage has values.
- The second of two openers drives a page no row names and answers `pageDriven: true`.
- A refusal of arguments before the transaction leaves no row, although `pages.ts:1674`
  says a call "leaves nothing behind but its own ledger entry". Feedback given next names the
  call before it, with that call's rule or none, though it is to name "what was actually
  attempted" (`feedback/record.ts:167`).
- The tool's schema requires `action` of browser_act although `request` is sent instead
  (`tools.ts:485`, `:566`); `compare_to_key` is read and not declared.
- A bare `--selector`, or a selector, target or browser that is no text, is dropped
  silently (`bridge.ts:381`); so is a bare `--prompt-text`. A bare `--request-seconds` asks
  for one second, and half a second becomes zero. Unknown options are ignored on the
  command line and refused by the tools; `storage_seed` cannot be given on the command line.
- A value that looks like an option is one, as a word by itself: `--value --help` prints help
  (`cli/index.ts:308`), `--expression --i` is refused, `--selector --i` is left out and the
  viewport pictured, `--browser --i` asks for any browser (`cli/adapter.ts:141`). The tools do
  what was asked, and so does the command line when an equals sign joins the two.
  `SurfacesAgree` has both spellings, and excuses the first for such values only.

Captures and comparisons:

- A thin line is kept whatever its area (`regions.ts:38`), but merging comes first (`:283`):
  merged with a speck beside it, it is small and no line any more, and dropped. What is
  longer after scaling is not compared (`geometry.ts:101`).
- A capture's row and its comparison's are two writes (`comparison.ts:153`); the warning is
  late by one for each other process, not by one (`capture-store.ts:93`).
- A picture that cannot be read back fails the capture, under a comment that says nothing
  there can (`pages.ts:1968`).

Store, doctor, records:

- `broker doctor` ends in an error on a store below version 2, and its opening converts the
  journal mode (`report.ts:134`). Unreadable `BROKER_DIFF_*` end a process after it recorded
  its budget, and the doctor does not say why. An older build goes on serving when a newer
  one upgrades under it.
- The status reads show the oldest row that is not closed, which after `tab_replace` is the
  one being closed (`pool-status.ts:144`); `budget.used` of the overview counts the queue too
  (`src/operations/status.ts:426`), which it orders by creation and a random id, not by arrival
  (`:349`; `queue.ts:46` says why that is not enough): of two callers of one millisecond it
  may show the one second in line that will be served first.
- `broker events --since` with no number reads the oldest page. `EVENT_KINDS` lists 22 of
  26 kinds. The four SELECTs of a rollup are of four moments, and a capture's instant
  precedes its row (`telemetry.ts:88`: "partition the rows"). The `--rating` of reading
  feedback is unreachable (`cli/index.ts:1069`). A denial of an unknown key carries no
  claim, so feedback cannot name it.

## 4. Proofs

Every safety property of a run but two (the last paragraphs say which and why) is also a
theorem, for any value of the constants that the named assumptions allow. They ask for what
the code makes true: positive budgets and lifetimes (`config/environment.ts`), finitely many
claims, processes and connections, command lines that are sequences of words, and a null
that is not a name of something else. Below, per module: the inductive invariant, and why it
is needed.

**LeasesProofs.** `IInv` is `TypeOK`, `BudgetRespected` and `TtlFitsState` with two
strengthenings. `TabShape`: the live row of an active lease is the last one written, and a
claim that waits has none; without it a replacement could overwrite a closed row and a
promotion could add a second live one. `ArrivalOrder`: arrivals are distinct and below the
counter; without it two queued claims could share a position, and a release promote more
than fits.

The heart is what a release promotes. `Promotable` takes the claim at position p exactly
when p more leases fit, and three lemmas say what that set is: `PromotionFits` (positions
are an injection into the free places, so no more than fit), `PromotionFills` (the
earliest claim left behind has at least as many ahead of it as there are free places, and
all of them promoted, so nobody is left while one more fits) and `PromotionInOrder`. From
the invariant and these follow the action properties: first in first out, positions that
only improve, ends that stay, the sweep before the decision, and where capacity may idle;
then that what the status reads derive is what the next sweep makes of the rows
(`ReadsForetell`: those listed ahead and those who came before differ by some of the same
millisecond, and no more); and the refinement of the pool (`PoolIsImplemented`): a step of the
tables reclaims places of silent clients, and lets one arrive or one leave and the front of
the line in, or leaves the pool as it was.

**ArbitrationProofs.** `StoreImplementsLeases`: a step of the whole store is a step of the
lease tables or leaves them alone; the delicate case is the sweep of a sign-in call, which
is what releasing an already ended lease does. So what is proved of `Leases` holds of the
store. The invariant of the browser rows gives `SignInHasOneHolder`, the table's checks,
`PersonKeepsSignIn` (needs that a process holds at most one sign-in and none once it exited,
and that an owned sign-in has no deadline, so that no sweep ends it), `SignInStartsAlone`
(needs that an active lease has a live tab row) and `UnansweredRequestLapses`.

**PagesProofs.** For any number of workers and reconcile runs. The invariant `PInv` says
what a process may still hold when others have gone on. `ClosesAreDue`: the rows it has to
close, and the row whose page `tab_replace` shuts, are given up for good. `NewPagesAreOwn`:
a page it has opened and not yet named is named by no row and known to no other process.
`NamesAreOwn`: no two rows name one page. `RowsWritten`: the row after a live one, and the
first row of a claim that waits, are unwritten, so a reserved row has no page yet. (The
`TabShape` of `LeasesProofs` does not hold here, reconcile breaks it; this weaker form does.)
A call touches rows only as `Moves` says, and with the invariant that gives `OneRowPerPage`,
`CallsSpareOwnedPages` and ends that stay. For `RevokedForAPageNotSeen` one more invariant,
`MissingIsGone`: what a reconcile run read and does not find in its listing is its session's
keeper, or is gone and stays gone, because it reads the rows before it lists the pages and no
page opens twice.
`ClosesHaveEvidence` rests on `ClosedIsGone`: a worker that was told its page is closed
closed it, and no page opens twice; so a row is closed under an open page only on a listing
that is older than the page, or whose session had the page for its keeper.

**AdoptionProofs.** The type invariant says what a process carries at each place of its
call. Beside it `StartingNamesItsLauncher` is inductive as it stands: its second disjunct,
the launchers that will never write again, is what a death or a refused write leaves behind.
That the holder of a profile is spared is a property of every single step.

**StoreProofs**, of StoreOpen. `StoreInv`: the rows are `Sound` for the stamped version, and
the writer's draft is the steps up to some k, on rows sound at k that kept the queue.
`StepSound` and `StepKeeps` are about each of the eleven steps; numbering by creation in
step three respects the order of creation because the sets of earlier claims are nested. For
the doctor (`DoctorNamesTheCause`) two facts: a failed check of the store has the lowest
code there is, and whoever got past opening the file left it converted (`Converted`), so the
doctor reads the version and the budget the process was refused for.

**SessionProofs.** For any number of connections, pages, processes, secrets, documents and
forms. `NamesInv`: names on a connection are distinct and numbered from one, and the last
snapshot agrees with its connection's names while its document stays, and while fresh with
the page. `DialogsInv`:
the orders pending for a page are no more than the accepts it has left. `SecretsInv`: what
the page was given is among what the ledger says of it or of a call under way, a call knows
what was there before it, and a handle that passed its check is of an element the secret may
go to, for as long as it is the document's. What is shown is less both; the name of a file is
not, and only acts and reads give one.

**StoreProofs**, of Readers. For any lines, callers, rows and limits, and whatever is
written between two SELECTs. First what a SELECT with an order answers: `ListingExists` (a
finite set has a listing in any strict order, so the choice in `Sorted` is one of those
there are), `AscendingIsUnique`, and what the first rows of such a listing leave out. Then
what a line asks for when words are put behind it: the cursor asks for the same rows after
it, the oldest first (`ReadOnParsed`), the first row for those before it (`ReadBackParsed`).
`ReaderFollows` is the invariant: what was printed rises, and has every row that matches
between its ends (`Follows`), and the cursor is its end. A further page, an earlier page and
a new row each keep it (`NextPage`, `EarlierPage`, `RowAppended`). It needs that pages after
a point begin at the oldest row: from the newest back a full page would leave rows out. For
the feedback `HeardIsWritten`: the last row a claim was answered with is a row of that
claim, with the rule it was told when that answer left it, and so is the row of a call about
to be answered; and no row has a rule about arguments. Sums: groups numbered one by one are
as many as their rows (`CountedByGroups`), two windows that meet part the captures of a
claim (`FoundSplits`), and `ReaderSums` keeps each sum between what there was when the
reader began and what there is. That comparisons have distinct identifiers (`DistinctIds`)
makes their order one order, and captures (`DistinctShots`) that of the reasons:
`ReaderReasons` keeps those that were listed the newest of some rows between what there was
and what there is.

**CallsProofs.** For any number of processes, claims and pages, and any lines. `RowsInv`: an
active lease has one live row, the others none, and a claim that waits has no rows at all.
`WorkInv`: a call at work is about a row of its claim, and has a page that was opened for it.
`SeedsInv`: a seed is in one place, of the answer to the grant, the memory of one process,
or its hand at a page; so it is written once, from wherever it was.

**CapturesProofs.** For any pages, tiers, settings and requests. `Underway` is what a call
in the middle knows (its file is of its shot or has been cleared, its row and drawings are
there), and with it the rows of pictures and comparisons are legal and tell of their files.
That a scaled picture keeps at least one pixel, and that no more pixels change than there
are, are lemmas. The warning is a count: rows and calls without one are no more than the
threshold when a call is decided, apart from those of the other processes, which have one
call each; recording moves one from calls to rows. `FiguresAreOfTheFiles` says that a row's
figures are those of the two files.

`RegionsAreChanges` is about what those figures are, for any two pictures. The code finds
regions by three recursions (`Absorb`, `Pass`, `Merged`), and the property says without them
which regions there should be: the pieces of the mask put into groups that are not near, no
pieces together that need not be. The recursions are unfolded by the number of regions, one
fewer with each merge: so they define functions (`RecursionExists`, `TailRecursionExists`),
and what holds whenever it does for fewer regions holds (`BySize`). What goes through them
is `Stands`: the regions are boxes of lots of pixels that share none and leave none out, and
each lot lies in one group of every grouping that is apart. Joining two near regions keeps it
(`TakenStands`), because a box that is near a part of a group is near the group. It has to
say every grouping: what is merged late was often not near when the pass began. A pass leaves
no two of the regions it went through near (`PassStands`), so the passes end in a grouping
that is apart, and by `Stands` in the finest; two finest ones are one. Then the filter takes
some of them and the listing puts the larger first, each once (`ListingIsInOrder`,
`ReportedInOrder`); it needs that regions which are not near have distinct corners, or the
order would not be strict.

`ImagesShowChanges` needs of the steps that a comparison has an identifier of its own, was
drawn from the two pictures it has figures of, and is not drawn again (`DrawnInv`, over what
calls in the middle may still draw or record). The rest is of the pictures: every region
kept has a crop, because a region lies within the rows compared (`AllAreShown`), so the n-th
file there is is that of the n-th region of the row; its two sides differ in each pixel that
was counted (`CropShows`); and what the overlay marks is in a region. A line is read word by
word (`LinesAreRead`): a place asked for is a natural number, a side one of the two.

**Only model-checked.**

- Liveness: `QueueServed`, `LeakedPageCloses`, `GivenUpRowSettles`, `LaunchSettles`,
  `DeadSessionIsDropped`. The prover has no rule for fairness or ENABLED that these need.
- `VerbsAreReachable`, `SurfacesAgree`: they speak of the lines and actions of the instance,
  and with any other lines they are another claim. `MCCalls` has one of each kind the two
  surfaces tell apart, values that look like options among them.
  They also rest on names of options joined out of their words (`NormaliseKey`), and the
  provers know nothing of joining strings.

The prover cannot use the library's rules of induction, which take an operator. Where a proof
needs one (a listing of a finite set, the words of a line one by one, regions merged) it takes
a smallest counterexample instead: the first number (`Least`) or the smallest set
(`SmallestPart`) for which the fact fails.

Proved and not run, because the theorem says all a run would: the type invariants,
`BudgetRespected`, `TtlFitsState`, `ProcessFitsState`, `EndedStaysEnded`,
`PromotionIsFifo`, `PositionOnlyImproves`.

## 5. What is not modelled

- What a document, a picture, a cookie or a log holds; the wording and layout of any
  answer; exit codes but the doctor's; the names of artifacts, but for what they show of an
  address. They tell no two states of another component apart.
- Masks of captures over fields that are no password fields, smoothed edges in
  comparisons, and colour: pictures are grey.
- Values a page shows changed, or in a frame of another origin: no scrubbing covers them.
- `scripts/*.mjs` (static checks of the source), the conformance harness and the fake
  driver, which are tests; `capture/legibility.ts`, `operations/addresses.ts` and
  `readSince` of `service/events.ts`, which nothing in the program uses.
- Reuse of a pid by the operating system, and clocks that go backwards.
