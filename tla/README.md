# A TLA+ model of aarv

aarv is a web framework for Go on top of `net/http` (package `aarv` at the root of the
repository, plugins under `plugins/`). This directory models the parts of it in which
several goroutines, requests or processes meet, and the path that a request takes
through the framework. TLC checks the models on small instances, TLAPS proves most of
the safety results for all instances.

    tlc -workers 2 -config idem_memory.cfg MCIdempotencyMemory     # a run (see "Runs")
    tlapm LimitsProofs.tla                                         # a proof module

`PROJECT.json` lists components, runs, hazards and theorems, and for every definition
the source lines that it models.

## 1. The system

| part | state | operations | who calls it |
|---|---|---|---|
| `App.ServeHTTP` and dispatch (`dispatch.go`, `aarv.go`) | pool of `*Context`, route tables, prebuilt chains | serve a request on one of five paths: native chain, stdlib chain, direct, direct with marker, direct through the mux | `net/http`, one goroutine per request |
| context registry (`router.go`) | sharded map from `*http.Request` to `*Context` | store, delete, look up | dispatch, `Context.SetContext`, every plugin through `FromRequest` |
| `Context` (`context.go`) | `req`, `res`, `written`, caches, store | `SetContext`, `SetContextValue`, `BindRequest`, `SetResponse`, response helpers | handlers, middleware, hooks |
| middleware (`middleware.go`, `recorder.go`) | none of its own, pooled writers in plugins | wrap `w`, replace `r`, return errors (native) or answer (stdlib), recover panics | dispatch |
| hooks, buffered writer (`hooks.go`, `response.go`) | hook lists; buffered status and body | run a phase; buffer, bypass, flush | `ServeHTTP` |
| server lifecycle (`server.go`) | registered server, error channel, quit channel | `ListenServer`, `App.Shutdown`, signals, OnShutdown hooks, cleanup | the program, the operating system |
| certificate reloader (`cert_reload.go`) | served pair, recorded file signatures, start/stop state | construct, start, poll, reload, stop | server lifecycle, TLS handshakes |
| idempotency (`plugins/idempotency`) | per key a lock, a response, waiters | get, lock, wait, run, save, flush, unlock | requests that carry a key |
| idempotency on Redis (`plugins/idempotency-redis`) | lock key, response key, pub/sub channel | the same `Store` interface, over commands that can fail | several processes |
| throttle (`plugins/throttle`) | two token channels | acquire, release | requests |
| timeout (`plugins/timeout`) | pooled writer, panic and done channels | run the handler in a goroutine, race it with the deadline | requests |
| session (`plugins/session`) | entries of a store by id; per request a `Session` loaded from it | load, `Set` ... `Destroy`, one commit by the first write or the return, expiry | requests of a browser, several at a time |
| rate limiter (`plugins/ratelimit`, `plugins/ratelimit-redis`) | per key a bucket or a ring of sub-windows, in a sharded map or a Redis hash | read the clock, decide, sweep | requests, janitor |
| HMAC authentication (`plugins/hmacauth`, `plugins/hmacauth-redis`) | nonces with their expiry, bounded in number | verify, `SetNX`, evict, sweep, stop | requests, janitor |
| binding, validation, codecs, static files, OpenAPI, CORS, headers, cookies ... | none across requests | functions of one request | handlers, dispatch |

How they interact: a request enters `ServeHTTP`, takes a `*Context`, runs hooks, goes
down a chain of middleware that hand each other a writer and a request, and comes back
up. The `*Context` is found again from the request pointer or from `r.Context()`. The
plugins keep their shared state behind a mutex, a channel or Redis and are called once
on the way down and once on the way up; some of them start goroutines that outlive the
call (timeout handler, certificate poller, janitors).

What is hard: objects from pools that are still referenced when they are put back;
writers and requests that replace each other so that a level writes to, or reads from,
the wrong one; locks that expire; signals, timers and completions that arrive together;
files that change between two reads; failures between two commands. The hazards are
listed with their lines in `PROJECT.json`.

What makes each part correct:

- *lifecycle of a request*: a `*Context` serves one request at a time; the registry holds
  exactly what is being served; handlers see the values of the middleware before them;
  every client gets the response that is due to it and nothing else; OnSend hooks run
  before the first byte; observers report what was sent.
- *idempotency*: one run per key at a time, no second run while a response is cached,
  replays of the right response only, nobody waits for ever.
- *server*: every exit runs hooks and cleanup once, nil means drained, a signal ends it.
- *certificates*: no replacement is missed, broken pairs are not served, Stop waits for
  the poller and returns.
- *throttle*: bounds hold, no token is lost, nobody waits beside a free slot.
- *timeout*: the deadline is enforced, no late write to the client, panics surface.
- *session*: an id that the server did not mint is never adopted; what is stored together
  with a `Regenerate` is out of reach of the old id; a session that ended stays ended;
  the response tells the browser what the commit did; requests that come in turn see one
  session.
- *rate limiter*: what is admitted in any span is bounded by burst and refill, a denial is
  deserved, and dropping an idle entry changes neither while its TTL covers the refill.
- *HMAC authentication*: a signed message is accepted once, however often and however late
  it is delivered.

## 2. Modules

| module | models | actions |
|---|---|---|
| `RequestLifecycle` | `ServeHTTP`, registry, context, chains, Recovery, and one plugin for each way to treat `r` and `w` | `Begin` ... `Finish`, one per step of a request |
| `IdempotencyTypes` | keys, bodies, responses | |
| `IdempotencyFlow` | the middleware of `plugins/idempotency`, apart from its calls on the store | parameterised steps |
| `MemoryStore`, `RedisStore` | the two stores: one operator per method | |
| `IdempotencyMemory`, `IdempotencyRedis` | flow composed with a store | one per phase of a request, plus sweep, clock, failures, crashes |
| `IdempotentKey` | abstract specification: what the package promises for a key | `Begin`, `Publish`, `End`, ... |
| `ServerLifecycle` | `listenServerWithCleanup` and `App.Shutdown` | main goroutine, serve goroutine, signal, connections, clock |
| `CertReload` | `CertReloader` | constructor, poller, operator's writes, Start, Stop, cancel |
| `Throttle` | `throttle.acquire`, `release` | each select of `acquire`, time-out, release |
| `TimeoutMiddleware` | `timeout.New` inside `ServeHTTP` | serving goroutine and handler goroutine, step by step |
| `Session` | `plugins/session` over a server-side store | `Send`, `Receive` (the browser, external), `LoadFound`, `LoadFresh`, `LoadStop`, one per method of `Session`, `Write`, `Return`, `Panic`, `DeleteOld`, `DeleteID`, `Save`, `Expire` |
| `RateLimit` | one key of the limiters: token bucket and sliding window in memory, token bucket on Redis | `ReadClock`, `tokenBucketDecide`, `slidingWindowDecide`, `tokenBucketLua`, `RedisError`, `Sweep`, `Tick` |
| `HmacAuth` | `verify` and the two nonce stores | `Arrive`, `Check`, `Record`, `Refuse`, `Sweep`, `Stop`, `Tick` |
| `*Proofs` | theorems about the module of that name; `ServerProofs` is about `ServerLifecycle` and `CertReload`, `LimitsProofs` about `Throttle` and `TimeoutMiddleware` | |
| `MC*` | symmetry sets and model definitions | |

Correspondence to the code, where it is not one to one:

- A step ends where the code can be interrupted by something that it shares with others:
  a mutex section, a channel operation or a Redis command is one step. `GetStep` and
  `LockStep` are two steps because `handleNative` makes two calls.
- Responses are abstracted to whose response it is and how it came about; status codes
  to the classes that the code tells apart.
- `RequestLifecycle` fixes an application in the initial state: bridge on or off,
  `RedirectTrailingSlash`, the phases with hooks, the global chain and the chain of the
  route or group. The kinds of middleware are those of the repository that differ in what
  they do to `r`, `w`, `c.req` and `c.res`: requestid (`value`), bearer (`bind`),
  `WrapMiddleware` around a function that calls `SetContext` (`wrap`), logger (`log`),
  prometheus (`metrics`), etag, Recovery, and two stdlib middleware of the kind an
  application brings along (`plain`, `clone`). `*http.Request` pointers are numbered per
  request; for each the model keeps the `*Context` in its `Context()` and the middleware
  whose values it carries. A writer is the client's, the buffer or a pooled wrapper; the
  variable `log` collects what the properties talk about. A handler writes with the helpers
  of `*Context`, which set `c.written`, or past it: adapted and mounted `http.Handler`s, and
  whoever writes to `c.Response()`, leave `c.written` FALSE, and may fail or panic after a
  partial write (`log.raw`).
- In `TimeoutMiddleware` what runs below the middleware writes to the writer it is given
  or to `c.res` as it is at that moment. `timeout.New` does not redirect `c.res`; a route
  handler does (`Bind`), the 404 and 405 handlers and middleware do not, so the handler
  goroutine may write or end without ever binding.
- In `ServerLifecycle` the serve function may end with an error at any time, also after
  `srv.Shutdown` has begun. `signalAt` is the time of the signal.
- A `sync.Pool` hands out any object that was put back, or a new one.
- In `Throttle` a released slot goes to a blocked sender at once, as with a Go channel.
- In `CertReload` a file has a signature that changes with every change of the file: a
  replacement with the same size within the resolution of mtime is invisible to the code
  and not considered.
- In `Session` every request runs once, so that a value, a flash message or a token is
  named after the request that issued it. The commit is not one step: the delete of the
  old id, the delete of the current one and the save are calls of the store of their own,
  each of which may fail with or without effect. `sync.Once` is the flag `committed`;
  calls of the handler after it change a `Session` that nobody saves any more. The
  history variables record which requests hold an entry that changed under them
  (`behind`), whether such a request has committed (`stale`), which sessions ended
  undisturbed (`dead`), and what the session would be if the handlers ran in turn
  (`want`, `serial`).
- In `RateLimit` time is counted in ticks of which `Cost` refill one token, and a bucket
  is kept in ticks, so that the refill is exact. Reading the clock and deciding are two
  steps, because both limiters read the clock before they take the lock of the shard or
  send the script. `forgiven` counts what a bucket lacked that was dropped before it was full,
  `slack` adds how far the clock ran backwards on Redis. Keys share nothing but the sweep, so one key is modelled, and when its
  shard is swept is a nondeterministic choice.
- In `HmacAuth` a message is a signed request with a class (genuine, malformed, of an
  unknown client, forged), a timestamp and a nonce key. The skew check and `SetNX` are two
  steps at most `MaxDelay` apart: the validator and the HMAC run in between.

Names of properties, actions and variables keep the names of the source where possible.
An operator whose comment begins with "Mutant:" is a wrong variant of the definition
that follows; the property named in `PROJECT.json` fails with it.

## 3. Runs

"States" are distinct states; the runs that pass explore the whole reachable state space.

| run | instance | states | shows |
|---|---|---|---|
| `lifecycle` | 2 requests, 2 contexts, 4 wrappers, 128 applications | 1.1 M (with symmetry) | `RegistryExact`, `ContextKept`, `ValuesReachHandler`, `ResponseFaithful` (with OnSend before the first byte), `MetricsTrue` |
| `idem_memory` | 3 requests, 1 key, 2 bodies, all outcomes, TTL 1, clock up to 3 | 365 K | `MutualExclusion`, `NoSecondRun`, `NoLostWaiter`, `ReplayFaithful`; implements `IdempotentKey` (`KeepsPromise`); `EveryRequestAnswered` |
| `idem_redis` | 3 requests, 1 key, 2 bodies, failures, crashes, clock up to 4 | 624 K (with symmetry) | `MutualExclusion`, `NoMissedSave`, `NoStrayLock`, `ReplayFaithful` |
| `server` | 2 connections, timeout 2, clock up to 4, serve may fail | 21 K | `EveryExitCleansUp`, `NilMeansDrained`, `SignalEndsListen` |
| `server_drain` | 1 connection | | refutes `DrainGetsTimeout` |
| `cert_reload` | 2 versions, each file replaced twice, 2 callers of Stop | 840 K | `NoMissedChange`, `StopWaits`, `EventuallyServed`, `StopReturns` |
| `throttle` | 5 requests that come back, 2 slots, 2 queue places | 9.9 K | `NoTokenLeak`, `NoIdleSlot`, `EveryoneDecided` |
| `timeout` | 2 requests, 2 writers, 2 contexts | 2.0 M | `NoWriteAfterReturn`, `PanicSurfaces`, `WriterExclusive`, `DeadlineEnforced` |
| `timeout_foreign` | the same | | refutes `LateWritesBlocked` |
| `session` | 3 requests, 2 in flight, 3 ids, 3 calls, 1 fault | 2.5 M (with symmetry) | `NoFixation`, `ElevationFresh`, `LogoutSticks`, `ResponseTells`, `FlashOnce`, `SerialSession` |
| `ratelimit` | 2 goroutines, limit 2, burst 3, window 4 ticks, TTL 4, clock up to 9, 6 decisions | 7.0 M (with symmetry) | `RateBound`, `DenialEarned`, `SlidingExact` |
| `hmac` | 2 deliveries, 6 messages, 3 nonces, room for 2, clock up to 7 | 1.6 M (with symmetry) | `NoReplay`, `ReplayNeedsFlood` |

Type invariants are proved (section 4) and not repeated in the runs. The inductive
invariants that are state predicates of a model (`IInv`) hold on the same instances when
they are added to the configuration.

Why the bounds are enough for the cases in question:

- *lifecycle*: interference between requests goes through pooled objects, and an object
  has at most one previous and one present user. Chains have up to three middleware,
  since each kind only acts on what the one above hands to it; the chosen chains contain
  the pairs in which one replaces what the other holds (a writer under Recovery, a
  request above or below a `SetContextValue`, a recorder above a capture). They occur as
  global chains with and without hooks, on routes, on dynamic routes and on groups, and,
  for a few, in both a global and a group chain, each with the bridge on and off.
- *idempotency*: three requests are a holder, a waiter and a later one that meets the
  entry after it was replaced; keys do not interact, so one is enough. The clock covers
  save, expiry and a second run.
- *server*: the clock passes the timeout before and after the signal. In `server_drain` the
  signal arrives after serving started and before the context that was created then expires.
- *certificates*: two replacements per file give every order of the two files around a
  poll, including a broken pair in between.
- *throttle*: five requests fill both slots and both queue places and leave one to be
  turned away.
- *timeout*: a late handler, bound or not, and the next user of its `*Context`.
- *session*: two requests in flight are one that changes an entry under the other, and the
  third comes after both and sees what they left. Three ids are the one of the first
  request, a second of a request without a valid cookie, and one of `Regenerate`. One
  fault is enough for every single failing call of a commit. The instance with 4 calls
  and no faults passes as well.
- *ratelimit*: the clock runs over two windows and beyond the TTL, so that an entry is
  swept and comes back; six decisions exhaust a bucket, refill it and exhaust it again;
  two goroutines decide in the opposite order of their clocks. With a TTL of one window the
  bucket of the limiter in memory is dropped before it is full, on Redis it is not.
- *hmac*: the clock passes the acceptance window of every message and the expiry of its
  nonce; three genuine messages overflow a store for two.

Deadlock checking is off in the runs whose systems end (all requests served, the server
returned). `throttle` never ends and is checked for deadlock.

### Fairness

Only what the Go scheduler and timers guarantee: a goroutine that can go on does so.
Nothing is assumed about clients, operators, signals and, except in `idem_memory`, about
handlers.

- `IdempotencyMemory`: weak fairness of each step of a request. It includes
  `HandlerStep`, that is, a handler returns or panics: without that a waiter without
  `WaitTimeout` waits for ever by design. Cancellation and the janitor are not fair.
- `ServerLifecycle`: the main goroutine, the start of the serve goroutine, the clock. Not
  the handlers and not the serve function: `SignalEndsListen` holds although neither ever
  returns.
- `CertReload`: constructor, poller and callers of Stop are weakly fair; leaving the
  poll loop is strongly fair, since `select` chooses at random among a ready tick and a
  closed channel. The files are written at most `MaxWrites` times.
- `Throttle`: steps of `acquire` and the queue timer. Handlers need not return.
- `TimeoutMiddleware`: the serving goroutine and the deadline. Handlers need not return.
- `Session`, `RateLimit` and `HmacAuth` state safety only and assume no fairness: no step
  of theirs waits for another.

## 4. Proofs

TLAPS checks these for every value of the constants that satisfies the named assumptions.

`IdempotencyMemoryProofs`: `TypeCorrect`, `Exclusion`, `OneRun`, `NobodyForgotten`,
`FaithfulReplay`, `Implements`. The invariants are not inductive by themselves. `IInv`
says which entry a holder owns (`HeldOK`: the one under its key, not released, not
expired), where entries come from (`MapOK`), what a saved response is and that it stays
in the map while it is live (`SavedOK`, `UnsavedOK`), that a sleeping waiter sleeps on an
entry whose owner has yet to unlock it (`WaitersOK`), and what replays refer to
(`RepliesOK`). Exclusion follows because two holders of a key would own the same entry.
`Implements` shows that each step is a step of `IdempotentKey` or changes nothing there;
the refinement mapping reads the executing requests from the phases and the live response
from the map. All but `TypeCorrect` assume `~SlowFlush`: that a response does not expire
between its Save and its Unlock. `Lock` evicts an expired entry even if it is held
(`store.go:142`), and with `SlowFlush = TRUE` TLC finds two holders.

`IdempotencyRedisProofs`: `TypeCorrect`, `Exclusion`, `NothingMissed`, `LocksReturned`,
`FaithfulReplay`, for any number of processes, with failing commands, lost messages and
crashes. `IInv` says that, while locks outlive their handlers, the lock of a holder is in
Redis and a key has one holder (`HeldOK`), at which phases a request has a result
(`ResultOK`), and that a response in Redis is of a cacheable run for its key and body
(`SavedOK`); with these the three properties are inductive. `Exclusion` has the hypothesis
`LockOutlives`; the others hold without it. `NoMissedSave` and `NoStrayLock` speak of the
time before the first fault, after which a lost message or a stray lock is what the code
accepts.

`ServerProofs`: `TypeCorrect`, `ExitsCleanUp`, `NilIsDrained`, `CleanupWaits` for
`ServerLifecycle`. `IInv` follows the main goroutine and tells its returns before serving
started (`Early`) and after it (`Over`) apart: the shutdown deadline against the clock
(`ClockOK`), how often hooks and cleanup ran (`CountOK`), what the serve goroutine has
reported (`ServeOK`), and what `srv.Shutdown` found (`DrainOK`). The one fact that needs
more than a step is that no connection is accepted after `srv.Shutdown`, so that what the
drain found is still true at cleanup. `ReloadTypeCorrect`, `ChangeSeen`, `StopIsFinal` for
`CertReload`: `ReloadIInv` relates the signatures in the poller's variables to those of
the files (never ahead, `SigsOK`), the bytes it has read to the signature it took before
(`ReadOK`), and the recorded signatures to what is served (`FreshOK`). The order stat,
read, record is what makes it inductive.

`LimitsProofs`: `ThrottleTypeCorrect`, `TokensReturned`, `WorkConserving`, `Bounds` for
`Throttle`. The inductive invariant is the conjunction of token accounting (`NoTokenLeak`)
and `NoIdleSlot`; the argument counts finite sets and uses the finiteness of `Request`.
`TypeCorrect`, `NoLateWrite`, `PanicIsRaised`, `WritersExclusive` for `TimeoutMiddleware`:
`IInv` relates the two goroutines of a request (`FlowOK`), the panic channel to how the
handler ended (`PanicOK`), the owner of a pooled writer to the request that uses it
(`PoolOK`), and the deadline flag to what a late handler may still write (`LateOK`): its
writer was marked while it had it, and the `*Context` of a route handler no longer leads
to the client directly. `NoLateWrite` says nothing of answers through a `*Context` that no
route handler has bound, which are not guarded (section 5).

`RequestLifecycleProofs`: `TypeCorrect`, `ContextOwned`, `RegistryIsExact`,
`ContextIsKept`, `ValuesReach`, for every application, every chain of middleware and any
number of requests, contexts and wrappers. A `*Context` belongs to one request from the
pool until it is put back (`Ownership`). Of each request, `IInv` says what is true before
the dispatch and which pointers exist (`StageOK`), that only the pointer that came in is
ever registered and, except on the mux, only until `c.req` is replaced (`RegOK`), that the
request at hand leads to the `*Context` until a middleware forwards another one
(`FoundOK`), and which values are in the request at hand and in `c.req` (`ValuesOK`). The
last needs both: `SetContextValue` starts from `c.req` and forwards it, so what it
forwards holds the values before it only because `c.req` does.

The theorems about responses in the same module, `ResponsesApart`, `ResponseIsFaithful` and
`MetricsAreTrue`, rest on a second invariant, `RInv`, that is inductive relative to `IInv`.
The properties speak of requests that are done; before that a response may be in any of
the wrappers between a handler and the client, so `RInv` has to say:

- where writers lead (`WritersOK`, with `FramesOK` over the stack of middleware): the
  wrapper of a frame is in use by nobody else (`Apart`), and writes to it end in the
  request's outermost writer or in a capture outside of it, past recorders outside of it;
- that nothing is written on the way down (`EarlyOK`), that on the way up every piece of a
  body is of this request and, unless the handler failed after a raw write, only one place
  has one, and that an error or a panic that is yet to be answered then finds nothing
  written unless `c.written` is set (`AnswerOK`);
- that what is due is at the front, or in a capture that will send it on, or is the empty
  200 that net/http makes of silence (`FaithfulOK`);
- that the recorders of metrics see a write exactly if it reaches the front, so that they
  have its status, and keep it (`MeterOK`).

`Alone` reduces each step to the request that takes it: a step changes its own goroutine,
`*Context`, response and wrappers. `WriteEffect` says what a write does: it reaches the
front, or one capture catches it. `Takes` and `Pushes` split the frames of a stack into
the top and the rest, which is the induction over the chain. `ResponseIsFaithful` has a
hypothesis on the applications: no chain has two etags (`ETagOnce`), which all
applications of the run satisfy. It is needed. With metrics between two etags, on the
stdlib path, a 404 that is answered through `c.res` goes past the inner capture, which then
sends its own empty 200 over the status that the outer one has captured
(`captureWriter.WriteHeader` keeps the last status), and the client gets the body of the
404 under a 200. `ResponsesApart` and `MetricsAreTrue` hold for every chain. Both theorems
about responses leave open what is due to a request whose handler fails after it has begun
a response, and allow it a second body if it had begun it past `c.written`; that the body
is appended is a finding (`OneBody`).

`RateLimitProofs`: `TypeCorrect`, `RateIsBounded`, `DenialsAreEarned`, `SlidingIsExact`.
The argument for the buckets is a potential: what was admitted since an earlier decision
and what the bucket still holds never exceed the capacity and the refill since then; the
lower bound is its mirror image. For Redis the backward steps of the stored clock are added.
A sweep keeps the potential up to what the dropped bucket lacked when the next request finds
a full one, which is added as well (`Forgiven`): the theorem holds for every `Burst` and
every TTL. Its first half is that nothing is ever added if an idle bucket is full before it
is dropped (`CoversRefill`). The argument for the sliding window, for any number of
sub-windows, has two halves. `Remembers`: for every earlier decision, either a span of the
ring has passed since, or some of the samples in the ring cover everything admitted from
it on, each of a sub-window that was not over long before it; a slot is only cleared for a
sub-window that is a whole ring later, when the decision is out of the span
(`ClearedIsExpired`). `Forgets`: for every sub-window there is a decision in it or later
since which everything was admitted that the ring holds in the slots used from then on;
with the sub-window one ring ago these are all slots (`SlotsCovered`), which makes a
denial deserved (`FullIsRecent`). The theorem has the hypothesis `Window <= EntryTTL`: a
sweep must find every decision out of the span. The sum of the ring is a recursive
function; its lemmas (`TotalMonotone`, `TotalCounts`) rest on induction over a set of
naturals, from the well-foundedness of their order.

`HmacAuthProofs`: `TypeCorrect`, `ReplayRefused`, `FloodNeeded`, `NoncesAreEarned`,
`CapacityKept`.
`Remembered` says that a recorded nonce is in the store until `NonceTTL` after its
insertion unless it was evicted live, and `TimelyOK` carries what `verify` established
over the delay to `SetNX`. A second delivery that reaches `SetNX` does so within
`2*SkewSeconds + MaxDelay` of the first (`OnlyGenuineRecorded`), when by
`TTLCoversWindow` the nonce is still there. `FloodNeeded` counts: `evictLocked` gives up a
live nonce only when the store is full of nonces that were recorded no earlier.

`SessionProofs`: `TypeCorrect`, `NothingPlanted`, `PrivilegesMove`, `EndIsFinal`,
`ResponseIsTrue`, `OneSession`, `FlashOncePerMessage`, for any number of requests, calls
and faults. `IInv` relates the phase of a request to its flags (`FlowOK`), says that ids
in sessions, entries and cookies were minted (`IdsOK`), where the content of a request
that regenerated can be (`RaiseOK`), that nobody who may still write holds a session that
ended (`LogoutOK`), and what the response says at each phase (`ResponseOK`). Two further
invariants are inductive relative to it: `SerialOK`, that store, cookie and the one active
session agree with `want` while requests come in turn, and `IssuedOK` with `FlashOK`, that
a flash message is in one place only, counting the entry, its holders and who consumed
it, while no commit has gone over a changed entry. The actions are summarised by what
they have in common (`Edited`, `Committing`, `Loading`, `Ending`), which keeps the number
of cases of the three inductions small.

Only model-checked: the liveness properties, since the prover has no rules for fairness
and ENABLED. Every invariant of the passing runs is proved.

## 5. Where the code disagrees with what it says

`PROJECT.json` quotes the texts. The first ten are properties that TLC refutes with a
behaviour of the code: 3 and 4 have runs of their own; for the others add the property to
the configuration of the run that is named. The rest is about properties that hold and
that a text contradicts.

1. `ErrorNeverReplayed` (`idem_memory`): a handler that returns an error without writing is
   cached as an empty 200 and replayed (`idempotency.go:399` looks at the status alone).
2. `NoSecondRun` (`idem_redis`): on Redis the handler runs again although a response is
   cached, if the holder saves and unlocks between the Get and the Lock of another request.
3. `server_drain`: the shutdown deadline is counted from the start of serving
   (`server.go:332`), so that requests are cut off less than `ShutdownTimeout` after the
   signal, and with no time at all if serving has lasted that long before it.
4. `timeout_foreign`: a handler that outlives its deadline writes, through its recycled
   `*Context`, to the client of another request.
5. `StatusObserved` (`lifecycle`): on the native path logger and prometheus record 200 for
   requests that are answered with an error, which is written after they have looked. (On
   the stdlib path logger misses 404 and 405, which are written through `c.res`;
   prometheus redirects `c.res` and is right there, which is `MetricsTrue`.)
6. `LateAnswersBlocked` (`timeout`): `timeout.New` does not point `c.res` at its writer, so
   a 404, a 405 or a middleware below it that answers through the `*Context` writes to the
   client around the guard, also after the 504.
7. `OneAnswer` (`timeout`): a complete response is followed by a 504, if it went around the
   guard or if the deadline is taken after the handler goroutine has released the writer.
8. `OneBody` (`lifecycle`): an adapted or mounted `http.Handler` that panics after a partial
   write, or a handler that returns an error after a write to `c.Response()`, leaves
   `c.written` FALSE, and Recovery or the error handler appends a second body.
9. `BridgeKeepsContext` (`lifecycle`): a dynamic route with middleware of its own that
   `serveDirect` gives to the mux registers only the original pointer (`dispatch.go:530`),
   so a middleware that forwards `r.WithContext` loses the `*Context` although the bridge is
   on, which README, options and the guide to middleware exclude. `ContextKept` says that
   this is the only such path.
10. `NoEarlyDrop` (`ratelimit`): with the default `EntryTTL`, and always on Redis, a bucket
    is dropped after `2*Window`; one of more than `2*Limit` tokens is not full by then, and
    the next one is.
11. With a `NonceTTL` of `2*SkewSeconds`, which the change log suggests, a nonce expires
    before its message does, and `NoReplay` fails once `TTLCoversWindow` is dropped.
12. The CSRF token of a session survives `Regenerate`, which its comment excludes.
13. A flash message that is not consumed persists over any number of requests; the comment
    of `Flash` says exactly one. `SerialSession` describes what the code does.
14. A consumed flash message reappears when a request that loaded the session before saves
    it afterwards. `FlashOnce` names exactly this exception (`stale`).
15. The script of `ratelimit-redis` is atomic but stores the clock of its caller even if it
    is earlier than the stored one, and then refills the same interval twice. `RateBound`
    carries this as slack; the limiter in memory moves its mark forwards only.
16. The guide to middleware says that an upstream `r.WithContext` is invisible through
    `c.Context()`. The handler of every route sets `c.req` to the request that reaches it,
    so it is visible unless a `SetContextValue` comes after it (`ValuesReachHandler`).

Observations that the models make precise without a run of their own:

- With the bridge off, the stdlib form of `WrapMiddleware` forwards the request whose
  registry entry `SetContext` has just deleted; the route handler answers 500.
- With the bridge off, a `SetContextValue` below Recovery deletes the entry under which
  Recovery looks for the `*Context`: a panic is then answered by a bare 500.
- `SetContextValue` starts from `c.req`: requestid discards what a stdlib middleware
  above it had put into its copy of the request. `ValuesReachHandler` says exactly what
  survives; bearer calls `BindRequest` first and has no such exception.
- `Context.JSON` sets `written` before it encodes, so an encoding error, or a panic after
  a captured response, leaves the client with an empty 200 instead of the error. In the
  model `log.exact` is false for a handler that fails after it has begun a response.
- logger and etag (stdlib) return their writer to its pool while `c.res` still points at
  it; OnResponse and OnSend hooks run after that.
- A panic in an OnSend hook skips flush, registry and pool; the entry stays, but its
  `*Context` is never handed out again (`RegistryExact`).
- `App.Shutdown` before the server is registered has no effect.
- A `Destroy` raced by another request of the session is undone when that request saves;
  `LogoutSticks` is about sessions that nobody else held when they ended. In the same way
  a save brings back an entry that expired after it was loaded.
- Requests that `FailOpenOnRedisError` lets through take no token: `RateBound` is about
  tokens and not about handler runs while Redis fails.
- The sliding window counts the sub-window of the present instant as a whole one, so the
  span in which `Limit` is guaranteed is one sub-window shorter than `Window`.
- The nonce key is client and nonce joined by a colon: a client whose name holds one can
  share keys with another, which makes a genuine message look used but never the reverse.
- The stop function of the nonce janitor checks and closes its channel without a lock.
  The hooks that call it run one after another.

## 6. Assumptions and abstractions

- `SlowFlush = FALSE`: the TTL of a response outlasts the flush of its first copy.
- `LockOutlives = TRUE` (Redis): the lock outlives the handler, as the package asks for;
  otherwise `DEL` deletes a lock of somebody else.
- Redis: commands are atomic, may fail with or without effect, messages may be lost. An
  entry that does not decode is not modelled.
- The script of the rate limiter floors its TTL at 1000 ms; the model has `2*Window`. This
  only lengthens the TTL.
- `TTLCoversWindow` (rate limiter, hypothesis of `SlidingIsExact` only): `Window` is at most
  `EntryTTL`, as with the default of `2*Window`.
- `TTLCoversWindow` (HMAC): `NonceTTL > 2*SkewSeconds + MaxDelay`. The default leaves a
  minute for `MaxDelay`.
- `MaxDelay` bounds the time from reading the clock to the decision; with several replicas
  it stands for the difference of their clocks as well.
- Tokens are exact: the rounding of floating-point tokens, and of the seconds in headers,
  is left out.
- Stores of sessions are correct apart from errors: a call that reports success has taken
  effect, one that reports an error may have.
- Hooks return, fail or panic; their own writes are not modelled. OnError hooks and a
  custom error handler stand behind `HandleError`, which always answers through `c.res`.
- A 405 is a 404 in the model: both handlers are called in the same way.
- Which route a path belongs to is a nondeterministic choice in `Begin`.
- After a panic that nobody recovers `net/http` closes the connection; no property speaks
  of what that client sees.

## 7. What is not modelled, and why

Per-request functions without state over time (binding, validation, codecs, CORS, secure
headers, cookies, IP filters, problem details), document generation and file serving, TLS
and HTTP/2 set-up, cryptographic checks of JWT, HMAC, CSRF and secure cookies. They are
listed in `PROJECT.json` with the reason. Of the modelled plugins are left out: the cookie
back end of sessions (it keeps nothing on the server), HMAC verification without a nonce
store (it promises no replay protection), the client-side signer and the observer of
`hmacauth`, and the start and stop of the janitors, apart from the one of the nonce store.

## 8. Plan

Done: idempotency with both stores, throttle, timeout, server lifecycle, certificate
reload, request lifecycle, sessions, rate limiters, HMAC authentication; proofs about all
of them. Next, in this order:

1. Routing: pattern compilation and matching, method tracking and trailing slashes as
   operators, checked against a reference definition over small paths; route groups and
   plugin registration.
2. compress, encrypt, verboselog, otel and static as further kinds of middleware of the
   request lifecycle; SSE streams against a client that goes away.
3. Binding and validation: order of sources, error paths.
