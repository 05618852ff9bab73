# Solverr: models, checks and proofs

Solverr answers "get me this page, past its challenge" over HTTP. It keeps browsers
open between requests, runs two different engines against a site, and divides one
request's time between them. This directory models that in TLA+: the modules are
translated from the source, TLC checks them on small instances, and TLAPS proves for
every instance each safety property and action property the passing runs check.

Source paths below are relative to the repository's Python sources (`sessions.py` is
`src/sessions.py`).

## The system

| Component | State | Operations | Hard behaviour |
|---|---|---|---|
| Session store (`sessions.py`), one per engine | id -> session, the in-use counts, one lock per session, the module-wide memory of proxies by id | `create`, `get`, `end_use`, `destroy`, `discard`, `sweep_idle`, `enforce_cap` | browsers are launched and closed outside the store's lock, so every operation is two or three critical sections with anything in between |
| Session reaper (`session_reaper.py`) | a thread, the store it is on | idle sweep and cap of each store in turn | decides under the lock, closes outside it, while requests come and go |
| Controller (`flaresolverr_service.py`) | host -> engine memory | `request.get/post`, `sessions.create/destroy/list` | fallback between engines on one budget; two pools looked at one after the other; concurrent learning |
| Passthrough server (`passthrough.py`) | cache with a byte total, in-flight slots | one GET handler | concurrent misses coalesce on one solve; results are published field by field; expiry, eviction, clients that stop reading |
| Engines (`engines/chrome_engine.py`, `engines/stealth_engine.py`) | the browser's document, the press loop's own clocks | one solve | the document changes under every read; presses, looks and waits against two deadlines |
| Kernels (`pipeline.py`, `assembly.py`, `detection.py`, `budget.py`) | none between calls | generators that yield what to do next | the order of the effects, and the arithmetic of the time |
| Stealth runtime (`async_runtime.py`) | one event loop thread | run a coroutine for a request thread | a timed-out run is cancelled, and ends later than its request |
| Browser timezone and language (`geo.py`, settings in `config.py`) | one bounded cache of (zone, language) pairs by proxy and account | the two halves of a browser's identity, for a launch or a solve | lookups run outside the lock, fail by halves and land late; settings fix one half, both or none |
| Starting Chrome (`utils.py`, `undetected_chromedriver/`) | the X display, the path of the patched driver, driver files, the proxy extension on disk | `get_webdriver`, `get_user_agent`, the driver's download and patch | nothing is locked; every step can fail; files outlive a crash |
| Entry point, plugins (`flaresolverr.py`, `bottle_plugins/`, `metrics.py`) | counters, label values | start-up, JSON, metrics | what must be done before requests are taken |
| Types and configuration (`dtos.py`, `config.py`) | none | parsing, defaults | the settings' precedence |
| Redaction and forms (`redact.py`, `postform.py`) | none | text in, text out | none with state |

How they interact. A request thread of the HTTP server enters the controller, which
asks both pools where the session is, makes a plan and calls one engine after the
other. An engine claims its session in its own store (the mark), takes the session's
lock, launches a browser if there is none and solves; the kernels tell it what to do
and the site answers. The mark is what keeps the cleanup away. A launch asks `geo.py`
what the browser should claim to be, and on Chrome goes through `utils.py` and the
vendored driver. The passthrough server is a second HTTP server that goes through the
same controller. Shared state is guarded by one lock for each store, one for the memory
of proxies, one for the memory of hosts, one for the passthrough's cache, one for the
cache of exits and one for each session; what launches share has none. No code path
holds two of them at once, but for a session's lock, under which a timed-out solve
takes its store's.

What makes each part correct:

- Session store: marks are counted exactly; a browser is driven by one request at a
  time; it is closed by one party, after it left the pool, and never lost; the cap
  and the proxy memory keep their bounds; what clients abandon is collected. Together:
  to its users it is the simple pool of `SessionPool`.
- Passthrough: one solve per path, none for a page at hand, nobody left waiting, a
  waiter gets exactly what its own owner's solve gave, the byte total is exact.
- Controller: in time, the second engine reached, the better of two answers given, the
  memory learns no failing engine that the controller could have told.
- Engines: within their share, the caller's cookies used, the answer's cookies as new
  as its body, presses that do not undo one another, a guard told from its page as far
  as silence can tell them.
- Timezone and language: what is set is what is told; what is left open is the browser's
  own exit, never another account's; a failed lookup never undoes a known answer.
- Starting Chrome: no request's launch makes what others are using; no browser
  is handed out without its proxy's password, and no step of a launch leaves that password
  on the disk unless its removal fails.

`PROJECT.json` lists the single hazards at their lines, with the properties aimed at
them; those without a property say why.

## The modules

| Module | Models | Composed or used with |
|---|---|---|
| `SessionStore` | `sessions.py`, `session_reaper.py`, the claiming and releasing around both engines' `solve` | instances in `MCSessionStore`; implements `SessionPool` |
| `SessionPool` | nothing of the code: what the registry promises | instantiated by `SessionStore` under the refinement mapping |
| `SessionStoreTyping`, `SessionStoreProofs`, `SessionPoolRefinement` | proofs about `SessionStore` | extend it |
| `Passthrough` | `passthrough.py` | `MCPassthrough`, `PassthroughProofs` |
| `Routing` | `flaresolverr_service.py` over the two pools, each a set of ids | `MCRouting`, `RoutingProofs` |
| `EngineSolve` | one solve: both engines, `pipeline.py`, `assembly.py`, `budget.py`, and what `detection.py` tells apart | `MCEngineSolve`, `EngineSolveProofs` |
| `Geo` | `geo.py`, the settings of `config.py` it reads, the calls of it in both engines | `MCGeo`, `GeoProofs` |
| `ChromeLaunch` | `get_webdriver` and `get_user_agent` of `utils.py`, the start-up of `flaresolverr.py`, what of the vendored driver a launch uses | `MCChromeLaunch`, `ChromeLaunchProofs` |

`Routing` sees a pool as the set of ids it holds and an engine as something that
takes time and gives a page, a challenge or an error; `SessionStore` sees a launch and a
solve as one step each that ends, fails or times out; `EngineSolve` sees one solve and no
other request; `Geo` and `ChromeLaunch` are what happens inside the launch, between
requests that launch at once. Together they cover a request from the controller down.

A definition marked `(variant)` is the one below it with a plausible bug. Nothing
refers to it: it is there to show that a property fails when the code is wrong, one
for each property of each passing run.

### SessionStore

A `Handle` is the identity of a `Session` object, hence of a browser. `pool[st][sid]` is
`SessionStore.sessions`, `inUse` the counter, `claim[t]` the session a request has
marked, `mine[t]` a session it has taken out of the pool and must close, `live[h]`
whether the browser's process runs, `lock[h]` `Session.lock`, `stray` the browsers
that a timed-out solve may still be talking to, `memory` and `older` the ordered
dictionary of proxies. `since` is history: which ids were used since an id last was.

An action is one critical section of the store's lock, or one thing done outside it.
`get` with a lifetime is therefore `LookupFinds` (find, mark), `Expire` or `StillFresh`
(second acquisition: count the mark, pop), `CloseExpired` (outside); a miss is
`LookupMisses` (recall the proxy), `Publish` (launched; re-check, store), `Remember`
(the proxy, after the lock was let go), or `CloseExtra` for a race lost. `Acquire` and
`Enter` are the session's lock and whatever else a solve waits for; the ways out
(`SolveEnds`, `SolveTimesOut`, `AcquireTimesOut`, `EnterTimesOut`, `BuildFails`) end in
`EndUse`. On Chrome a timed-out solve goes through `Discard` and `ClosePopped`; on the
stealth engine it leaves a `stray` until `StrayStops`. The cleanup is `ReapIdle`,
`EnforceCap`, `ReaperCloses`, `ReaperMovesOn`.

Time is the age of a session and the time since its last use, each of which stops one
tick past its limit, since no comparison sees the difference after that. The cap's
order of eviction is by idle time, and among equals any.

### SessionPool, and why SessionStore implements it

`SessionPool` has no locks, counters, stamps or intermediate steps: ids that name
sessions, sessions that are used, driven, dropped and closed. Its promises are in the
guards: an id passes from one session to another only through being free, a session
that left the pool never comes back, the cleanup takes out only what nobody uses, only
what nobody can find is closed, and of the users of a session one drives.

The mapping is `uses <- claim` and `driving <- {t : pc[t] = "solve"}`; `pool` and `live`
are the same variables. A step of the code is one step of the pool or none: `Publish` is `Open` or
`LoseRace`, `LookupFinds` is `Use`, `Enter` is `Drive`, the ends of a solve are `Stop`,
`EndUse` is `Leave`, the pops by id are `Drop`, the two pops of the cleanup are `Evict`,
the closings are `Close`. `Evict` asks that nobody uses the session, and the code looks
at a counter; that they agree is the invariant `Counted`.

### Passthrough

One action per stretch of `_handle` no other thread can come between: the lookup that
expires, hits, joins or takes the slot is one action for each outcome
(`AnswerFromCache`, `Join`, `Own`; `Refuse` before it); then `SolveReturns` or
`SolveFails`, `Store` with its evictions, `Fill` once for each of the three assignments
to the shared object, `SendOwn`, `Release` and `Wake`. A waiter leaves by `Woken` or,
at any moment, by `WaitTimesOut`: the wait's timeout is 30 s beyond the request's, but
the owner may be in its client's write by then, so the model does not let it count on
order. `Answer` is the ladder of `_handle` by which a waiter reads the shared object, torn
ones included. `gave` is history: the document the solve of a slot gave.

### Routing

`Probe` and `MakePlan` are `_engine_plan` (a forced engine, the pool that holds the
session, the remembered host, the default); `StartEngine` or `GiveUp` the loop's budget
check with the share `remaining / engines to come`; `LaunchFails`, `EngineFails`,
`EngineReturns` what an engine gives; `Remember` the memory. An engine that returns a page
may have got past the challenge or not. If not, the page shows a title or marker of
`detection.py` or it does not: the hosts of `Unmarked` are those whose refusals may show
none, such as a denial in the site's own markup. The controller sees a refusal only if it
is marked and the request asked for the HTML (`LooksChallenged`), and remembers the engine
otherwise. `unread[h]` is history: the engines that refused host `h` to a request that did
not ask for the HTML.
`Launch` and `DestroyIn` are the rest of create and destroy. `Reap` stands for the
cleanup of `SessionStore`. `spent[t]` is the time that has passed since the request
arrived, all of it spent in attempts.

### EngineSolve

The site is the environment: `Moves` replaces the document (a guard, the page, a gate,
a gap between two rounds, a denial), `WidgetAnswers` ends a verification, and the engine
reads what is there at that moment. Kernels are a queue (`todo`) of what they have
still to yield. Every step of the engine sets the time it is due at (`wake`), so the
order of looks, sleeps and the two deadlines is that of the code; `Tick` is time.

What the model assumes of the environment, all as constants or guards:

- `SettleOutlastsGuard`: a guard that a site shows of its own is over within the settle
  after a clean first look (`chrome_engine.py:57`), if nothing ends the settle early. What
  does is silence, whatever the document is: half a second without a change on Chrome,
  `networkidle` on the stealth engine (`Silent`, `WentQuiet`). A guard may load something as
  long as it lasts or be silent (`doc.loads`), and a silent one that lasts longer than
  `Quiet` is taken for the page. `GuardIsNotThePage` says that no other is;
- `ConfirmOutlastsGap`: a gap between two rounds is shorter than the second look's pause, and
  a round shows for longer ("a single clear reading does not mean the challenge is over",
  `stealth_engine.py:88`);
- `CooldownCoversVerifying`: a verification ends within the click's cooldown ("Verifying
  takes a few seconds after a press, and pressing again over the top of it restarts the
  verification", `stealth_engine.py:72`);
- `PressesAreAlike`: one press takes Chrome one of `PassTimes`, whose members differ by no more
  than `Margin`: a press that takes longer than the last one by more than the margin is
  cut off, and the code cannot tell;
- the cut-off of `func_timeout` and `wait_for` comes on time. The time it takes to tear
  a browser down afterwards is not counted, which `Overrun` of `Routing` allows for.

### Geo

`settings` are the environment variables and the system's timezone tables, fixed when the
server starts; what they fix (`PinnedZone`, `BrowserLocale`, `ContainerTimezone`) is
worked out by operators of the settings that follow `_zone_table`, `_zone_for_region`,
`browser_timezone` and `browser_locale`. `cache` is `_cache`: entries keyed by server and account, oldest first,
each with what is left of its lifetime and whether both halves were found.

A thread launches a browser (`Launch`; Chrome asks for its language, the stealth
engine for its zone and then its language) or starts a Chrome solve, which asks for the
zone again (`BeginSolve`). The question is `AnswerFromSettings`, `AnswerFromCache` or
`LookUp`, which read the cache under the lock; a lookup is `Prepare` and `Locale`, the two
library calls, outside the lock and each able to fail by halves; `StoreAnswer` is the
second critical section, where a failure that lands late yields to a known answer.
`Rotate` moves a proxy's exit at any moment, `Tick` ages the entries. A country stands for
the language tag that names it; tags without a country and text that is no tag are kept
apart from it, since the code treats each in its own way.

### ChromeLaunch

One action per step of `get_webdriver` whose effect another thread can see: the proxy
extension written (`MakeExtension`), the display's global assigned and then started
(`MakeDisplay`, `StartDisplay`), the driver chosen (`ChoosePath`), `Patcher.auto` and
`patch_exe` (`PatcherAuto`, `Fetch`, `OpenDriver`, `Rewrite`), Chrome and then its driver
started (`StartBrowser`, `Connect`), the wait for the extension (`AwaitWorker`), the
`finally` (`EraseExtension`), the driver's path remembered and then copied to (`Save`,
`Copy`). Each of them that can raise may, and `Raise` and `Failed` are where the exception
goes. `Boot`, the main thread's launch and `Probe` are the start of the process; `End`, by
`NoChrome`, a failure there or `Crash` at any moment, clears the memory and keeps the
files. `stray` records why browsers were left running with nothing that refers to them, and
`remains` why an extension with a password was left on the disk: its removal failed, which
the code logs (`removal`), the process ended while it was there (`end`), or a launch was over
without erasing it (`launch`, which `CredentialsLeaveDisk` excludes). What is left is never
cleared, neither by a later launch nor by a restart.

No lock orders launches. What keeps requests apart is that `flaresolverr.py` launches a
browser to read its user agent before it serves: by then the display is up and the driver
patched, so that a request's launch writes nothing that is shared.

## The runs

Four runs are violations: each shows a place where the code does other than its docs
or comments say (see Findings). Deadlock is checked in `geo_identity` and
`chrome_launch`, where there is always something that can happen next; elsewhere a server
without requests rests, and a solve ends.

| Run | Instance | Shows |
|---|---|---|
| `store_stealth` | 3 threads, 1 id, 3 browsers, lifetimes in every request, idle sweep on | with creates, expiry and sweep racing: marks exact, one driver, none lost, none in use closed |
| `store_chrome` | 2 threads, 3 ids, 2 browsers, cap of 1, 2 proxies remembered, solves time out, destroys | lookups find only live browsers, the cap keeps its bound, no proxy is forgotten before one less recently used, and the store implements `SessionPool` |
| `store_abandoned` | 2 threads, 1 id, 2 browsers, fairness | a session nobody is on does not stay |
| `store_leak` | as `store_stealth`, with destroy | finding 1 |
| `store_queued_timeout` | Chrome, a queue on one session | finding 2 |
| `passthrough` | 2 threads, 2 pages and an asset, every kind of result, bodies around a cap of 3 bytes, fairness | coalescing, nobody stranded or given another solve's answer or a torn one, the byte total, and that slots are released |
| `routing_fallback` | 2 threads, 2 hosts (one that only the stealth engine clears, one that only Chrome clears, whose denials are unmarked), 1 session, with and without HTML, a budget of 2 with a minimum of 1 for each engine, memory of 1 host | time, fallback, best answer, memory |
| `engine_solve` | five requests: each engine with a share as short as a launch and with a long one; Chrome with presses | the ten properties of one solve |
| `engine_denied` | both engines, short launch | finding 4 |
| `geo_identity` | 2 threads, 2 accounts on one server, a direct connection with a rotating exit, every kind of setting, all tables of two rows on two countries, cache of 1 | browsers are told what is set or their own exit, and guesses yield to answers |
| `geo_contradicts` | the same with nothing set | finding 3 |
| `chrome_launch` | 2 requests and the main thread, with and without the image's driver, headless or not, a driver that can be patched or not, every failure, a removal's too, crashes | what launches share is ready before they come, credentials are taken, and no step of a launch leaves them on the disk |

Why these bounds are enough to meet the cases. A race in the store is between a
request in the middle of an operation, another that changes the slot and the cleanup:
two threads and the reaper show all pairs, the third thread lets a claim, a create and an
expiry meet on one session. Three handles are what one id can have at once (pooled, being
built in vain, being closed); `store_chrome` has three ids and two browsers instead, two
being enough to exceed a cap of one, to be built for one id at once, or for one to be closed
while another is handed out, and three of both more than TLC gets through. The cap of one
finds two sessions and must choose;
with a memory of two proxies three ids can be used in every order before one is dropped. In
the passthrough two threads are an owner and a waiter that leaves in either way, and two pages and the sizes 1, 2 and 4
around a cap of 3 are a pair that fits, a pair that does not and a body that never does;
more threads change nothing the safety properties could see, which are proved for any
number. The budget of `routing_fallback` is one number, the least with which two engines can
both start, whatever the request asks: there a wrong share shows at once, and other budgets
are left to the proofs. With room for one host its memory evicts at every second one, and
that no host has two entries is then no more than its bound; for larger ones the theorem
says it. In `engine_solve` the waits keep the order of the code's (confirm 2 < poll 3 <
cooldown 5, as 1.0 < 1.5 < 4), a press takes 4 or 5 and so longer than the margin of 3, as
the code's nine seconds or so do, and the shares lie under and over the floors of
`budget.py`, Chrome's longest with room for a second press, the stealth engine's for both of
its solvers. In `geo_identity`
a cache of one makes every account evict the other's entry, a failure's window is
shorter than an answer's, and a row may be led by one country and shared by another, so
that the order in which a country is credited matters. The settings include a mistyped
zone, alone and next to a BROWSER_GEO that the tables know. In `chrome_launch` two requests and
the main thread show every pair of launches, and the main thread's with none.

Symmetry is over threads, ids and handles, in safety runs only; the
action properties checked under it are symmetric themselves. The views drop what is
never read again: what a collected handle was, an idle time no sweep will look at, the
proxy of a request whose browser is built, an attempt's details once it is over, and of a
history variable what its property does not ask (the uses since an id without a proxy was
used, the refusals of a host whose refusals show nothing). No property of a run with a view
reads any of it.

### Fairness

- Request threads keep running (`WF` of `Serve`); nothing makes a client send a request.
- The reaper's loop has no way out: its exceptions are caught and logged. It is weakly
  fair as a thread; that it looks at every store in each round is the strong fairness of
  `ReapIdle(st)`, since the model does not keep the order of the stores. Time passes.
- In the passthrough the server's steps are fair, a solve ends by its own timeout. That a
  client reads its answer or hangs up (`WF` of `Write`) is the one assumption about
  clients, and `SlotIsFreed` needs it: see the findings without a run. A waiter's timeout
  is never counted on.
- In a solve the engine's thread runs, time passes and what cannot last longer ends.
  Nothing makes a site let anyone past: `EverySolveEnds` holds because of the deadlines.

`Geo`, `Routing` and `ChromeLaunch` are checked for safety only and assume no fairness.

## Proofs

| Theorem | Statement | Property of a run |
|---|---|---|
| `SessionStoreTyping.TypesCorrect` | `Spec => []TypeOK` | yes |
| `InUseIsExact` | `Spec => []ClaimsCounted` | yes |
| `PooledRuns` | `Spec => []PoolServesLive` | yes |
| `InUseIsSpared` | `Spec => SparesSessionsInUse` | yes, an action property |
| `MemoryIsLru` | `Spec => ProxyMemoryIsLru` | yes, an action property |
| `CapRestores` | `Spec => CapIsRestored` | yes, an action property |
| `OneDriverAtATime` | `Spec => []OneDriver`, the first half of `SoleDriver` | |
| `NoBrowserIsLost` | where `LifetimesAreSafe`, `Spec => []NoLostBrowser` | yes |
| `OnlyOneDrives` | where `LifetimesAreSafe`, `Spec => []SoleDriver` | yes, on the stealth engine; for Chrome's timed-out command only the theorem says it |
| `PoolIsImplemented` | `Spec => Pool!Spec` | yes, the refinement |
| `PassthroughProofs.TypesHold` | `Spec => []TypeOK` | yes |
| `TotalIsExact` | `Spec => []BytesAccounted` | yes |
| `NobodyIsStranded` | `Spec => []NobodyStranded` | yes |
| `OneSolveAtATime` | `Spec => []OneSolvePerPath` | yes |
| `NoWastedSolve` | `Spec => []SolvesOnlyUncached` | yes |
| `WokenGetsWholeAnswer` | `Spec => WokenGetsTheSolve` | yes, an action property |
| `RoutingProofs.TypesHold` | `Spec => []TypeOK` | yes |
| `HostMemoryIsKept` | `Spec => []HostMemoryKept` | yes |
| `ClearersAreLearnt` | `Spec => []RemembersOnlyClearers` | yes |
| `AnswersInTime` | `Spec => []AnsweredInTime` | yes |
| `FallbackReached` | `Spec => []FallbackIsReached` | yes |
| `BestPageIsGiven` | `Spec => []PageBeatsError` | yes |
| `EngineSolveProofs.TypesHold` | `Spec => []TypeOK` | yes |
| `ShareIsKept` | `Spec => []EngineKeepsItsShare` | yes |
| `CookiesAreUsed` | `Spec => []CallerCookiesAreUsed` | yes |
| `CookiesAreComplete` | `Spec => []CookiesCoverBody` | yes |
| `PaidSolverHasItsTime` | `Spec => []ReserveIsKept` | yes |
| `PressSpares` | where `CooldownCoversVerifying`, `Spec => []PressSparesVerification` | yes |
| `SecondLookIsNoGap` | where `ConfirmOutlastsGap`, `Spec => ConfirmedIsNoGap` | yes, an action property |
| `LaterPressesFit` | where `PressesAreAlike`, `Spec => PressesAreNotCutOff` | yes, an action property |
| `SettleTellsGuards` | where `SettleOutlastsGuard`, `Spec => GuardIsNotThePage` | yes, an action property |
| `GeoProofs.TablesRead` | `TablesAreRead`: what reading the system's timezone tables finds for a country | an assumption `MCGeo` has TLC evaluate |
| `GeoProofs.TypesHold` | `Spec => []TypeOK` | yes |
| `IdentityHolds` | `Spec => []IdentityIsAsSet` | yes |
| `KnownIsKept` | `Spec => NoGuessOverKnown` | yes, an action property |
| `ChromeLaunchProofs.TypesCorrect` | `Spec => []TypeOK` | yes |
| `SharedPartsReady` | `Spec => []SharedPartsAreReady` | yes |
| `CredentialsTaken` | `Spec => []CredentialsAreTaken` | yes |
| `CredentialsLeave` | `Spec => []CredentialsLeaveDisk` | yes |

Each holds for every value of the constants that the module's named assumptions allow:
any threads (finite in `SessionStore`, since a counter counts them), ids, paths, hosts,
budgets and limits. None of the properties is inductive; each module's invariant has
layers, every one kept by every step given those below it.

**SessionStore.** `NoBrowserIsLost` and `OnlyOneDrives` need `LifetimesAreSafe`: no request
names a lifetime, or clients send no destroy and no engine discards the session of a solve
it cut off. Not for convenience: `store_leak` shows the first of them false without it.
Together they say that a browser of this model is lost only where lifetimes and removals by
id come together. The second half of the condition is that of
`store_stealth`.

1. `Typed`: types; a pooled session is filed under its own store and id, so in one slot
   only; and what each program counter says about the request's mark (`Roles`). Without
   the first a destroy might leave a second entry behind, without the second an `EndUse`
   might count down a mark that is not there.
2. `Counted`: the counter is never below the marks, and equals them while pooled. Exactness
   alone is not preserved: a request whose session expired drops its mark without giving
   it back (`Loose`), so outside the pool only the bound holds; and the third part, that
   such a session is never pooled again, keeps that from mattering.
3. `Visiting`: between its passes the cleanup holds nothing.
4. `Apart`: what is pooled runs and is not about to be closed; what was popped by the
   cleanup has no mark; what expired has at most the mark of the request that will close
   it. It uses `Counted`, since the code decides by the counter.
5. `Locked`: who drives a browser holds its lock.
6. `Located` and `Strays`: a running browser is in its own slot or condemned; a browser with
   a stray solve is on its way out or driven by nobody else. What they need of lifetimes is
   `OwnSlot`, that an expiring session is still the one in its slot. It follows from
   `NoLifetime`, or from `Undisturbed`: a session that a request has found stays in its slot
   until that request has read its age, since the mark keeps the cleanup off, and two
   marks keep either request from expiring it.
7. `Used` and `Recorded`, beside them: there is a time of last use, another for each
   remembered id, that `older` follows; and of two remembered ids one is before the other in
   `older` exactly when the other is in its `since`. The first is what makes exactly one id go when the memory is over
   its bound: that one is older than all the others needs an order without cycles, and the
   times give it (`DropsTheOldest`). The second turns "older in the dictionary" into "the
   others were used since", which does not mention the dictionary: it fails if a read does
   not move its id to the end, or another than the first is dropped.
8. `Finite`: every pool is finite, so that what the cap takes out can be counted. What is
   left is then within the limit or, by `Counted`, marked (`CapLeaves`).

`PoolIsImplemented` takes the first five and shows, action by action, which step of the
pool a step of the code is.

**Passthrough.** `Typed`; `Owned`, that a slot and the thread that will release it belong
to each other and that waiters share an object only with its owner; `Finished`, how
far the fields of the shared object are assigned at each step of its owner; `Told`, that
what its owner holds and has assigned is what the solve of that very slot gave; `Accounted`,
that the cached octets are finite in number and the running total is theirs. The total is
stated as the number of pairs of a path and an octet of its page (`Octets`), so that a
store splits it into what stays, what goes and what comes.
`WokenGetsTheSolve` is then a fact about a set event: the owner sets it after the last
field, and nobody assigns to the object afterwards, a later solve of the path having one of
its own. That one solve runs per path is a consequence of `Owned`: two solvers of one path
would hold the same slot.

**Routing.** A request's answer depends on its own attempts only, so the invariant has a
part for each request: `Typed`, and `Kept`, which says of a request that still has an
engine to try that an attempt which kept to its share left half the budget
(`OnTime`), and of one that is answered what the properties ask. The arithmetic of the
shares is one lemma (`ShareFits`), what an attempt leaves another (`AfterAttempt`). A third
part, `Learned`, is about what requests leave behind: one entry to a host, no more than fit,
and every engine in the memory one that clears that host, unless the host's refusals may be
unmarked or the engine refused it unread. That what was unread stays so (`HiddenStays`) is
why the property outlasts the request that taught the memory.

**EngineSolve.** Types, `Clocked` (nothing runs on past the cut-off) and `Planned` (what a kernel has
still to yield, and that the caller's cookies are planted by then) come first; `Answered`,
`Lasting` and `Reserving` rest on them: what has been read for the answer, how old a guard, a
gap or a verification gets, and how far past its deadline a step of the stealth loop may be
due. These five theorems hold for any times. The other four compare a wait of the engine
with something of the site's that the code does not measure, each under the one condition
that compares them (above, under EngineSolve), and each has a layer of its own: `Sparing`,
`Confirming`, `Fitting`, `Settling`. The last says that at the second look a guard is silent or
the time is up: as long as it loads, the settle lasts longer than it. `MCEngineSolve` has TLC evaluate all four conditions on its
instances.

**Geo.** `Types`; `Cached`, that the cache has one entry to a key, within its bound, and that
an entry's halves are ones the accounts of that key may be told; `Honest`, the same of what a
call carries and a browser was told, and which halves a lookup was started for. Where a
mistyped zone meets a BROWSER_GEO the property does not say which zone is right
(`ZoneIsDisputed`; see Findings). An
account's halves are those of its own exits because the key has the whole account in it:
`CacheKey` is one-to-one on accounts, and with the server alone for a key `IdentityIsAsSet`
fails. `NoGuessOverKnown` is about the lookups of one exit: when the cache is full, the entry
of another account, a guess too, pushes out the oldest. `TablesRead` says of the operators that read the timezone tables what they find: a
country's zone is the population's choice if the system knows it, else the first row the
country leads, else the first row that names it. A table is read by a recursive function of
the number of rows read. That the function exists is shown by giving it (`RowsAreRead`, step
`<1>3`), and what it holds after n rows by the least n for which it would not be so: no
induction theorem of the library is needed, only that a set of numbers has a least one.

**ChromeLaunch.** `Typed`; `Progress`, what a launch has and finds ready at each of its
steps; `Shared`, what the launch at start-up leaves to those of requests. `Shared` is why
no lock is needed: while the main thread changes it there are no other launches, and
a request's launch keeps it. `CredentialsLeave` rests on the steps at which a launch can have
an extension on disk being those inside the `try` (`Guarded`): every exception there passes
the `finally`, and none outside has anything to erase.

What stays with TLC:

- liveness (`AbandonedAreReaped`, `SlotIsFreed`, `EverySolveEnds`), whose fairness the
  provers at hand do not reach;
- that lifetimes and removals by id together lose browsers, and what else the violations
  show.

## Findings

With a run:

1. `store_leak`: the lifetime check of `get` pops by id. If the session it has looked at was
   destroyed and another created under the id meanwhile, it takes the new one out of
   the pool, and nothing closes that browser any more.
2. `store_queued_timeout`: requests queued on a session's lock behind a solve that times
   out are handed the browser the timeout has closed.
3. `geo_contradicts`: a lookup that finds the exit's zone and not its language is
   completed with the default language, so that a browser is told Europe/Berlin and en-US,
   although two comments say that the two cannot contradict each other.
4. `engine_denied`: once an engine waits for a challenge to go, a denied page counts as
   gone, and is answered as solved.

Without a run of their own, each seen in the behaviour of a model:

- `create` remembers the proxy after it let go of the lock (`sessions.py:152`). A destroy in
  between forgets nothing, and the id is remembered without a session.
- The passthrough's owner writes to its client before it releases the slot
  (`passthrough.py:363`), so a client that stops reading keeps everyone else of that path
  waiting. Without fairness of `SendOwn`, `SlotIsFreed` fails.
- The docstring at `utils.py:311` promises a closed browser when the extension does not run.
  A CDP command that fails during the wait raises past the `quit`, and so does a driver
  that does not start once Chrome runs: both leave a browser that nothing refers to (the
  causes `cdp` and `connect` of `stray`).
- Whether `patch_exe` found the block it replaces is not looked at: with a driver of another
  build every launch goes on unpatched. `SharedPartsAreReady` speaks of drivers that can
  be patched.
- The host memory learns a failing engine in two ways (`flaresolverr_service.py:525`): with
  `returnOnlyCookies` the controller has no page to look at, and a refusal without the titles
  and markers of `detection.py:66-109` looks like the page, a denied one that finding 4 lets
  through among them. `RemembersOnlyClearers` says that there is no third.
- `docs/language-and-timezone.md:55` has a mistyped `BROWSER_TIMEZONE` go back to `auto`, which
  by line 22 means the address, "ignoring any `BROWSER_GEO`"; the docstring at `config.py:125`
  and the warning at `config.py:154` ("following the exit IP instead") say the same. The code
  (`geo.py:159-166`) gets `None` for the mistyped name, as if none were set, and takes the
  zone of `BROWSER_GEO`'s country. `IdentityIsAsSet` leaves this case open (`ZoneIsDisputed`),
  so it takes neither side; the settings of `geo_identity` contain it.
- A site's guard that is silent for half a second (Chrome) or as long as `networkidle` takes
  (stealth engine) is looked at a second time while it is still there and answered as the
  page, although `pipeline.py` has the settle keep the two apart. `GuardIsNotThePage` is about
  the others.
- The comment at `utils.py:235` says that the extension with the password must not be left
  behind whichever step raises. A removal that fails is swallowed (`utils.py:288-291`) and the
  browser handed out, and a process that is killed never comes to it; either leaves the
  password in the temporary folder for good (`remains`). `CredentialsLeaveDisk` says that
  nothing else does.

## Not modelled

- Types and request objects (`dtos.py`): data without behaviour; their fields are the
  records of the modules.
- Redaction and forms (`redact.py`, `postform.py`): text in, text out.
- Plugins and metrics: JSON and counting. Their one piece of state, the bound on the label
  values, is checked and changed in one critical section, so nothing can come between.
- The engine interface (`engines/base.py`) and the tests' stand-ins (`engine_fakes.py`).
- Of the vendored driver: the CDP, reactor and element helpers, which nothing here calls,
  the modes that are never asked for, and the command line of Chrome.
- Inside the modelled components: request validation beyond the clamp of the timeout,
  `sessions.list` (it only reads), logging, headers of the passthrough's answers, blocked
  media, screenshots and PDFs, the coordinates of a press, `extend_lookup_urls` (it
  changes a list inside a library once, at start-up), the reading of versions on Windows,
  the lazy start of the loop thread.
- The page the paid solver works on, and the identity of the document a token belongs to:
  hazards with a note.

## Plan

Done: the six modules above, the abstract pool with its refinement, and the proofs of
all six. What would come next, the most valuable first:

1. The document a token belongs to in `EngineSolve`: a token read from one document and
   given to another (`chrome_engine.py:233`, `stealth_engine.py:711`).
2. `Routing` over `SessionPool` instead of sets of ids, so that the race of two creates of
   one id on two engines, and a session lost to a timeout, are seen with their browsers.
3. An abstract cache for the passthrough, that solves a path at most once per miss, and
   the step-by-step proof that `Passthrough` implements it.
