# Verification of ruprogress-mcp

ruprogress-mcp is a Model Context Protocol server for Redmine: an HTTP (or
stdio) server that authenticates callers, turns MCP tool calls into requests to
Redmine's REST API, and in `oauth-proxy` mode is itself an OAuth authorization
server in front of Redmine's Doorkeeper. It has two crates: `ruprogress-mcp`
(the server) and `redmine-client` (the HTTP client it uses).

This directory holds TLA+ models of it, TLC configurations that check them on
small instances, and TLAPS proofs for instances of any size. `PROJECT.json` is the
index: components, runs, the map from definitions to source lines, findings,
hazards and theorems.

## 1. Inventory

| Component | State | Operations | What is hard | What makes it correct |
|---|---|---|---|---|
| Proxy sessions (`oauth/proxy/store.rs`, `endpoints.rs`, `auth/proxy.rs`) | `UpstreamStore`, `TokenStore`, `RefreshStore` (`current`, `retired`), each behind its own Mutex | the tail of the authorization_code grant, the refresh_token grant, `/revoke`, bearer checks, sweeps | operations of one handler span several locks and awaits on Redmine; a future can be dropped at an await; every store has a cap and lifetimes | one redemption of a refresh token at a time, one usable token per session, removed sessions stay removed, replays are contained |
| Authorization codes (same files) | `TransactionStore`, `CodeStore` (`pending`, `upstream`, `consumed`) | `/authorize`, `/auth/callback`, redemption, replay containment | redemption is four locks, the record of it is written only at the end | a code yields one session; a replay takes that session down |
| Client registry (same files) | registered clients, last use | register, lookup and touch in `/authorize` and both grants | live clients are collected from two stores before the registry is locked | a client in use is not evicted; abandoned ones are |
| Token verifier (`auth/oauth.rs`, `transport/http.rs`) | introspection cache | verify, purge after `/revoke` | lookup, call and insertion are separate; `exp` is on another clock than the cache | staleness after a revocation is bounded; outages are not remembered |
| Rate limiter (`ratelimit.rs`, `transport/http.rs`) | token buckets in shards | `check`, pristine sweep, eviction | the clock is read before the lock | a key never gets more than burst, refill and what late clock readings refill again; Retry-After suffices |
| Retries (`redmine-client`: `client.rs`, `retry.rs`, `error.rs`) | one request's attempt count and deadline | `send_with_retry` | lost and late answers, timeouts | writes happen at most once; every request ends in time |
| Pagination (`redmine-client`: `client.rs`, `page.rs`) | the walk's cursor and items | `fetch_all` | the collection changes between pages; servers misbehave | nothing is hidden silently; `truncated` is honest; the walk ends |
| Attachment store (`attachments.rs`, `tools/files.rs`) | files on disk, the map of them, reserved quota | reserve, extend, commit, abort, get, sweep, restart | a background sweeper races downloads; a download's future can be dropped anywhere; a restart leaves directories | quota is exact; a file is kept as long as its download and its link need it |
| MCP tools (`tools/*.rs`, `tools/plugins/*.rs`) | none of their own | some fifty tools with actions and optional arguments | several requests per call, each of which may fail or lose its answer | a refused call changed nothing, a successful one did everything, a write is performed once but for one known repetition, partial success is told |
| Scope and read-only gates (`auth/scope.rs`, `oauth/scopes.rs`, `readonly.rs`, `server.rs`) | none | list_tools and call_tool filters, the handlers' own refusals | one tool table judged in four places | a read-only server only reads; a tool is listed iff some call of it is allowed; the advertised scopes suffice |
| Configuration (`config.rs`) | none | `Config::from_vars` | some sixty variables with defaults and checks across them | what it accepts is what the rest of the server assumes |
| HTTP edge (`transport/http.rs`, `auth/legacy.rs`, `auth/per_user.rs`, `oauth/metadata.rs`) | none | routes, layers, credentials, discovery documents | layers are stacked inside out over several functions | a call acts as whom the operator meant; documents and links are true |
| Health (`health.rs`) | cached probe | `/readyz` | an async lock held across a call to Redmine | every check is answered; a timeout has a cause |
| Process (`main.rs`, `transport/stdio.rs`) | phase, requests in flight, sweeper | start, print, serve, signal, drain, exit | requests and the sweeper are in flight at the signal | requests get the drain timeout, and the process ends |
| PKCE and redirect policy, rendering, logging, JSON models | none | pure translation | - | unit tests reach them |

How they interact: every HTTP request passes the rate limiter, then (on `/mcp`)
the bearer middleware, which in proxy mode resolves a proxy token in
`TokenStore`, reads the session in `UpstreamStore` and hands the upstream token
to the token verifier; a tool then calls Redmine through `redmine-client`. The
OAuth endpoints are the writers of the proxy stores; they share nothing but
those stores and never hold two of their locks at once. `/revoke` and the
containment paths purge the verifier's cache. `get_redmine_attachment` fills the
attachment store, `/files/{uuid}` serves it, a background task sweeps it.

## 2. Modules

| Module | Models | Extends |
|---|---|---|
| `ProxySession` | the session stores and all their handlers | - |
| `RefreshLedger` | abstract: what is promised about refresh tokens | - |
| `AuthCode` | `/authorize`, the callback and code redemption, composed with `ProxySession` | `ProxySession` |
| `ClientRegistry` | the registry and the handlers that use it | - |
| `TokenVerifier` | introspection cache, bearer middleware and `/revoke` of oauth mode | - |
| `RateLimiter` | one shard of the limiter and its middleware | - |
| `RequestRetry` | one logical request with its retries | - |
| `Pagination` | one walk over a collection | - |
| `Attachments` | the attachment store, the download that fills it, the sweeper, restarts | - |
| `QuotaAccount` | abstract: what is promised about the store's quota | - |
| `ToolSteps`, `RedmineApi` | the vocabulary of tool handlers, and the client's methods as requests | each the one before |
| `CustomFieldSteps`, `FileTools`, `IssueTools`, `ProjectTools`, `TimeWikiTools`, `PluginTools` | one operator per tool: the steps its handler takes for a call | `RedmineApi` |
| `ToolGates` | plugin, read-only and admin filters, the scope table | - |
| `ToolTable` | all tools with their actions, arguments and handlers | the tool modules, `ToolGates` |
| `ToolCall` | a server answering calls against a Redmine that fails | `ToolTable` |
| `Discovery` | advertised scopes and the two discovery documents | `ToolGates` |
| `Config` | an environment to a configuration or an error | `Discovery` |
| `HttpEdge` | routes, layers, host check, credentials | `Config` |
| `Health` | `/readyz` and its probe | - |
| `Server` | the process: configuration, edge, health, shutdown | `HttpEdge`, `Health` |
| `Totals` | sums as counts of units, in which `Attachments` adds up its quota | - |
| `TokenVerifierProofs`, `RateLimiterProofs`, `ClientRegistryProofs`, `AttachmentsProofs`, `ServerProofs`, `ToolCallProofs` | theorems about the module they name | that module |
| `ProxyProofs` | theorems about `ProxySession` and `AuthCode` | `AuthCode` |
| `RedmineClientProofs` | theorems about `RequestRetry` and `Pagination` | both |
| `MC*` | instances and symmetry sets for TLC | the module they name |

**Concurrency.** Every store is a map behind a `Mutex` held for one operation
and never across an await. So one lock acquisition is one action, and handlers
interleave freely between two of them. A handler is a slot: its `pc` is its next
lock or await, its record its locals. A slot that has answered takes another
request; only the number of concurrent requests is bounded.

**ProxySession.** `upstream`, `tokens`, `current`, `retired` are the four maps;
`rows` is Doorkeeper's table (external). A grant goes `sweep` → `purge` /
`purge_rt` (one session at a time) → `insert` → `mint_at` → `mint_rt` → `mark`;
a refresh `RedeemRefresh` → `secret` → `scopes` → `await_refresh` → `replace` →
`mint_*` → `retire` → `remember`. `take*` is `take_session`, shared by
revocation, reuse containment and failure paths. `RefreshCancelled` and
`RevokeCancelled` are the client leaving at an await: the drop guard runs, the
rest of the handler does not, and Redmine may or may not have acted. `minted`,
`sent` and `rotated` are histories: what the random generator returned, what
clients have seen, what a rotation retired. Clients present only tokens a
response sent them.

**RefreshLedger** knows only tokens that are unissued, usable, lent or gone, and
their sessions. `ProxySession!RefinesLedger` maps `minted` and `current` onto it:
a session never has two usable tokens nor two redemptions under way, and a token
that is gone never works again.

**AuthCode** adds the transaction and code maps (`half` is `CodeStore.upstream`)
and replaces the abstract start of a grant (`RedeemedCode`) by the real one.

**ClientRegistry** keeps, for each client, how long it has been idle and how long
its access token, refresh token and authorization still last; times are relative,
so the model has no horizon. A registration is three steps (live access tokens,
live refresh tokens, the registry), `/authorize` two (lookup, touch).

**TokenVerifier** has two clocks, as the code has: `now` for cache deadlines,
`wall` for `exp`. Introspection is a step at which Doorkeeper decides and a
later one at which the answer is judged and cached.

**RateLimiter** counts a token in parts so that sub-second refills are exact;
`ReadClock` and the check are separate steps, because `Instant::now()` is
evaluated before `check` locks the shard. `admitted`, `since`, `clock` and `back`
are histories: what a key was allowed, since when, how far its bucket was brought,
and by how much readings that came late set it back. Float rounding is not
modelled.

**RequestRetry** lets Redmine perform an attempt at any time after it was sent,
also after the client gave up on it.

**Pagination** lets other users insert (newest first) and delete between pages,
and a server answer empty pages and offsets it was not asked for.

**Attachments.** `entries` is the map, `dirs` the directories on disk with their
age, `in_flight` the reserved quota. A download reserves, makes its directory,
connects, extends its reservation chunk by chunk and commits or aborts; it can be
dropped at any of these. A sweep, by the background task, by
`cleanup_attachment_files` or by a download that found the store full, judges and
removes the directories one by one and forgets the entries in a last lock; a tool
call can be dropped anywhere in it, and the file operation under way at that
moment may still take place (`DroppedOnDisk`). `Restart` empties the
map and keeps the directories. Ages stop at `EXPIRES`. **QuotaAccount** is what
remains without disk and maps: holders take room, keep at most what they hold and
give the rest back, and used plus held never exceeds the cap.

**Tools.** A handler is a straight line of argument checks, refusals and requests,
so a tool is a sequence of steps, built from the client's methods in `RedmineApi`;
a request carries what the handler does when it fails (`error`, `skip`, `recover`,
...). The recovery of required fields is attached to the PUT of an update
(`recover`) and to its read-back (`reread`), since the handler matches on the error
of both together: after a rejected read-back it sends the performed PUT again,
numbered `AGAIN`. `ToolCall` takes a call through the scope gate, the router and its steps.
A request may succeed, fail with each class of error of `to_tool_error`, or be
performed and lose its answer. `apply_caps` cuts the list that a finished import
answers at `MAX_RESPONSE_ITEMS`, or below it for the byte cap. The copy of an issue's subtree is the one loop: a queue of levels
with its two caps. An argument is present or absent, and well-formed or the one
that is not; its value matters nowhere else. One call at a time: calls share no
state of this server. A call's requests use `send_with_retry` (RequestRetry) and
`fetch_all` (Pagination), which are one step here.

**Config** is an operator from an environment to the first variable it is refused
for or a configuration. A value is what its parser tells apart: a number, a URL
as scheme, userinfo and query, a host with its port, a list.

**Server** composes `Config`, `HttpEdge` and `Health`: launch, print or serve,
one request on its way through the layers, readiness checks, sweeps, a signal,
the drain, the exit. `Health` has a queue for the async lock (tokio's is fair)
and drops a check whose client leaves or whose request times out.

## 3. Runs

| Run | Module | Result | Shows |
|---|---|---|---|
| Session | ProxySession | pass | all request kinds, failing mints, full stores and expiry: types, an exclusive in-flight lock, scopes kept across refreshes, removed sessions never return, a locked token is eventually released, and the stores implement `RefreshLedger` |
| Flow | AuthCode | pass | authorization to revocation in three slots: one session per code, a replay after the answer is caught, late requests are denied |
| Registry | ClientRegistry | pass | a client with a live token, an authorization or a grant under way is known to the registry; only clients idle for the whole lifetime, without a token, make room, and only in a full registry |
| Verifier | TokenVerifier | pass | no remembered outages, `exp` always honoured, staleness at most TTL plus one round trip |
| Limiter | RateLimiter | pass | two requests whose clock readings may reach the lock out of order: no tokens beyond burst, refill and the time set back, a sufficient Retry-After |
| Retry | RequestRetry | pass | writes at most once, an answer within twice the timeout, and always an answer |
| Walk | Pagination | pass | nothing hidden by concurrent inserts, honest `truncated` at either cap, misbehaving servers end the walk |
| Files | Attachments | pass | quota is exactly what downloads hold and fits the cap with what is stored; no download under way and no link with more than a timeout to live loses its directory; the store implements `QuotaAccount` |
| Tools | ToolCall | pass | a read-only server only reads; a refused call wrote nothing; a call the scope gate cannot judge sends nothing; listed iff callable; no write twice but for the update repeated after a rejected read-back, once and only if acknowledged; success means done; partial success is told |
| Server | Server | pass | accepted configurations satisfy what the other modules assume; calls act as intended; links, documents and scopes are true; readiness checks are answered and time out only for a cause; a shutdown keeps its times |
| Replay | ProxySession | violation | section 6 |
| CodeLeak | AuthCode | violation | section 6 |

**Bounds.** Two or three request slots: every race in these modules is between
two handlers, the third slot lets a request arrive while two are under way. One
session is enough for properties of a session, two where they must not mix
(`Flow`). Three refresh tokens allow two rotations, which is what a replay of an
old token needs. Lifetimes of one or two ticks make everything expire within
the run. `MAX_ENTRIES` of 2 and a registry of 1 make the caps bite; the registry's
lifetimes keep the order they have in the code (transaction and code below
the idle lifetime, tokens above it). The limiter run uses three ticks per second
so that a bucket is partly refilled, and two requests so that one can hold an old
reading while the other takes the lock; its bound on tokens is reached with equality; rate, burst and cap satisfy what `config.rs`
validates, which `Server!TypeOK` checks. Five items and pages of two need three
pages, with changes before each; `Walk` chooses the client's `Limits` and whether
the server is honest in its initial states, so that one run has each cap in and
out of the way. `Files` has room for three bytes and downloads of up to two, so
that two downloads fit only if one is short; a directory lives longer than twice
the request timeout, as it does with the defaults, which is the case that
`FilesKeptInTime` is about.
`Tools` has every tool, up to `MaxKeys` = 3 optional arguments, at most one
malformed, subtrees two wide and deeper than `COPY_MAX_DEPTH` = 2, and
`COPY_MAX_TOTAL` = 4; a batch of three entries and `MAX_RESPONSE_ITEMS` = 2 make the
item cap cut an answer. `Server` takes seven deployments, one per auth mode and
transport with and without the options that change what is served; up to two
further variables come from `MCSettings`, which has each variable at, below and
beyond its bounds. Every counter that could grow (clocks, inserts, deletes)
stops at a named constant (`MaxTime`, `Inserts`, `Deletes`) or is an age that
saturates. Requests, keys, items, clients, files and handlers are symmetric where
no action or property names one; the runs with a liveness property (`Session`,
`Retry`, `Server`) use no symmetry. Ids are taken in a fixed order in
`ProxySession`, since a random id tells nothing.

**Deadlock.** Runs whose clock and id supply end (`Session`, `Flow`, ...), and the
retry and pagination runs, which model one call that returns, disable the
deadlock check; the other runs keep it.

**Fairness.** `ProxySession!FairSpec` has weak fairness on the steps of accepted
requests only: the runtime polls an accepted future until it completes, a
`Mutex` here is held for one short operation, and awaited calls end by the
client's timeout. Arrivals, disconnects, revocations in the background and the
clock get none. `RequestRetry!FairSpec` has weak fairness on the call's own
steps, its timers and time while it waits; Redmine's acting gets none, and
the failure that ends a silent attempt is the reqwest timeout. `Server!Fairness`
has weak fairness on what the runtime and its timers do: handing on the async
lock, ending a probe (at its timeout at the latest), a request's timeout, the
drain, the exit and the clock. Clients, tool handlers and the sweeper's file
system owe nothing.

**Type invariants.** Every module with variables states its `TypeOK`. Those of
`ProxySession` and `Server` (which holds the bounds other modules assume) are
properties of runs; the others document the variables, and those of the modules
with proofs are part of the inductive invariants proved there, except in `ToolCall`,
whose proofs need more of a handler than its type and use `RunInv` instead.

## 4. Proofs

The theorems hold for any number of requests, clients, sessions, tokens, keys,
files and items, for every configuration and call, and for any caps and lifetimes.
Time, insertions, the keys of a call and the subtasks of an issue are bounded by
`MaxTime`, `Inserts`, `Deletes`, `MaxKeys` and `MaxChildren`, which may be any
naturals.

**Assumptions** on constants are named and stated where the constants are declared,
and TLC evaluates them in every run. `BoundsAssumption`, `CodeBoundsAssumption`,
`RetryAssumption`, `VerifierAssumption`, `LimiterAssumption`, `StoreAssumption`, `MaxKeysAssumption`,
`CopyAssumption` and `CapsAssumption` say that caps, lifetimes and timeouts are naturals, with what
`config.rs` validates.
`RegistryAssumption` adds the order of the code's lifetimes (an authorization fits
into the idle lifetime), `PaginationAssumption` that caps are not 0 and the items are finitely
many. `HealthAssumption` and `ServerAssumption` say that the probe and drain timeouts
fall on ticks of the model's clock and that an environment holds, for each numeric
variable, an integer: what the number parser makes of the text, -1 where it makes
nothing of it (`IsEnvironment`). `IdsAssumption` says that ids of different kinds differ (the code's prefixes);
`NoneAssumption`, `NoEntryAssumption` and `NoRecordAssumption` that an absent entry
is none of the entries, which TLA+ does not know by itself.

**Sessions** (`ProxyProofs`).
- `TypeCorrect`: `TypeOK` is not inductive: what a step stores comes from a handler's
  locals, and their type depends on how far the handler has got. `LocalsOK` says so
  for every label, and `TypeInv == TypeOK /\ LocalsOK` is inductive. It is split into
  slots and stores (`SlotTypes`, `StoreTypes`), with one lemma per group of actions.
- `NoResurrectionEver`: `UpstreamEffect` reduces every step to what it can do to
  `upstream`: remove entries, insert under an id never minted before, or overwrite an
  entry that is there.
- `OneHolder`: `LockEffect` reduces every step to acquire, hold, release or none of
  them; `BoundInv` adds that tokens and held tokens were minted, so a fresh mint
  never collides with a held one.
- `LateIsDenied`: `LateInv` lists the labels a request can be at whose session was
  gone when it arrived; at the two where it reads a session, that session is a
  minted one that is absent, so by `NoResurrection` it stays absent.
- `ScopesAreKept`: a refresh may carry default scopes, but only for a session that was
  dead when it read them. `ScopesInv` remembers that, time does not go back
  (`ClockGrows`), and `replace` stores nothing for a dead session.
- `ProxyRefinesLedger`: `Spec => RefinesLedger`, by step simulation. The ledger knows
  one usable token per session; the stores have two for a moment, between the mint
  of the new one and the retirement of the old. `ChainInv` says that this is the only
  way to have two: a minted token is known to one request until it is sent
  (`UnsentInv`), one request at a time works on a session (`WorkerInv`), and two
  tokens of a session are the ends of its rotation (`PairInv`).

**Authorization codes** (`ProxyProofs`, over the composition of both modules).
- `OneSessionPerCode`: a token set is behind a code, behind a session, or carried by
  a handler from one to the other. `RowInv` says that each row Doorkeeper issued is
  in one of these places at most and an unissued one in none.
- `ReplaysAreCaught`: under the hypothesis that the table of used codes has room for
  the codes there are (in the code, `MAX_ENTRIES` is 10000; a full table refuses new
  records, and then a replay is only refused, not contained). `ReplayInv` says that
  an answered code has its record until `CODE_TTL` is over.

**HTTP client** (`RedmineClientProofs`).
- `WriteSafety` and `BoundedWait`: `RetryInv` counts attempts (`Delivered`), says that
  a write never gets to a second one (`WritesGoOnce`) and relates the clock to the
  attempt or sleep under way (`OnTime`).
- `NothingIsHidden`, `TruncationIsHonest`, `PagesAreBounded`: `WalkInv` says what the
  offset means during the walk. What was there at the start and lies before it has
  been collected (`Collected`; an insertion only moves items back over the offset);
  in an unchanged collection the items collected are exactly those before it
  (`InOrder`); every page moved it, and it never passes the number of items
  (`Counted`, from `DistinctIsShort`); a walk that goes on knows of more (`Begun`),
  so running out of pages is always reported.

**Token verifier** (`TokenVerifierProofs`): `RejectionsAreTrue`, `ExpIsRespected`,
`RevocationTakesEffect`. `SlotOK` says what an answer still implies when it is
cached, after others moved between the steps of a verification: a rejection is
still true, an acceptance was asked for before the revocation it missed. `EntryOK`
says the same of cached entries, with their deadlines.

**Rate limiter** (`RateLimiterProofs`).
- `WaitingIsEnough`: a denied caller's bucket is a second older than its hint
  (`HintOK`), and a second refills a token.
- `TokensAreBounded`: `NoExtraTokens` for any number of concurrent requests, in
  whatever order their readings reach the lock. The invariant (`AccountsOK`) is a
  balance per key: what was admitted and what is in the bucket is at most the
  burst, the refill up to the bucket's reading, and the refill of the time by which
  late readings set it back.

**Client registry** (`ClientRegistryProofs`): `ClientsInUseAreKnown`,
`OnlyTheIdleAreEvicted`. A registration decides with a live set that is already old.
`RegistryInv` says why that is safe: a client whose token was minted after the live
set was read was touched so recently that the sweep keeps it, and an
authorization under way was touched within the lifetimes of its stages.

**Attachments** (`AttachmentsProofs`): `QuotaIsExact`, `FilesAreKept`,
`StoreRefinesAccount`. Only a task with a guard holds bytes and it never writes more
than it holds (`TaskOK`); a download owns its directory (`OwnOK`) and, if two
timeouts are less than the expiry, keeps it too young for any sweep (`YoungOK`);
a sweep removes only what is old (`SweepOK`), and the age of an entry is at most a
timeout behind that of its directory (`AgeOK`), so a directory that is gone, its
sweep finished or dropped, belongs to an entry near its end. Sums over tasks and files are the
cardinality of a set of units (`Totals`), because a fold is out of the provers'
reach. Each step changes the sums by what `QuotaStep` allows, which is a step of
`QuotaAccount` or leaves it alone.

**Server** (`ServerProofs`), for every set of deployments, settings, hosts and checks.
- `ServerTypes`, `CallsActAsIntended`, `LinksWork`, `DocumentsAreTrue`: `LifeInv` says
  that a process past its start runs with what `from_map` made of an environment it
  accepted. `ConfigAccepted` reads off what acceptance implies: an error of a parser is
  an error of the whole sequence, so each condition a parser rejects is absent. To
  that `RequestInv` adds what is known of a request by the layers it still has
  before it: one past the bearer layer was verified, whichever layers are left.
  `LinksWork` excepts the port the scheme implies, whether `PUBLIC_PORT` or
  `PUBLIC_HOST` itself carries it (section 6); the run's settings include both.
- `ChecksAreExplained`: `QueueInv` ties the queue to who waits, `LockInv` says that
  one check probes at a time where there is a cache. `AgeInv` is the argument: nobody
  waits longer than the probe ahead of him has taken, unless a probe was dropped;
  and when a probe ends, those behind it find its result while it is valid.
- `ShutdownIsTimely`: `ShutdownInv` relates the ticks since the signal to the phase, and
  what was cut to the whole drain timeout having passed (`CutsOnlyFlights`).
- `AdvertisingSuffices`: the table of `auth/scope.rs` and the catalogue of
  `oauth/scopes.rs` are written independently of each other. The proof goes through
  the table: each fixed scope (`FixedInCatalogue`), each scope of an action
  (`ActionsInCatalogue`) and what the special cases of `create_` and
  `update_redmine_issue` add is in the catalogue, and the write scopes that a read-only
  server leaves out belong to tools it does not route or to actions it refuses.

**Tools** (`ToolCallProofs`), for every configuration, tool, action and set of
arguments, whatever Redmine answers.
- Steps and shapes. A handler is a sequence over `ReadStep` (reads, checks, refusals,
  and branches of those), `LateStep` (what follows the first write, with the fork that
  sends a rejected write again) and `LoopStep` (the loop of `copy_issue`). `Parts` says
  that steps of one kind come before those of another, `Quiet` that nothing is written
  before the handler ends, `Once` that no two steps have the same write, `Delivers`
  that a write cannot be passed by, `Backed` that an update is repeated only behind the
  update itself. The lemmas on these shapes say what appending,
  choosing and taking the head do to them.
- Handlers. One lemma per tool composes these; `HandlerReady` and `HandlerQuiet` collect
  them for the whole of `ToolTable`, the second for read-only servers, where a tool of
  `write_tools::ALL` is not routed and every other writing action starts with its refusal.
- Calls. `RunInv` says of the rest of the handler what these shapes say of the whole,
  in relation to what was sent, performed and acknowledged: where the call is
  (`CallInv`), refusals before writes (`OrderInv`), silence (`QuietInv`), performed
  writes not to come again, and no repetition of an update that was not acknowledged
  (`OnceInv`), promised ones acknowledged or still to come
  (`DoneInv`). None of the properties is inductive without the shape of what is
  left to do. Each outcome of a request, the recovery and the two steps of the loop
  preserve it (`CallsKeepTheirShape`). `ReadOnlyServersOnlyRead`, `RefusalsComeFirst`,
  `NoWriteTwice` and `SuccessIsEarned` follow.
- `UncheckedCallsEndAtTheRouter` and `ShownIffUsable` need only the tables: the actions a
  tool has and those with scopes are the same (`ActionTables`), and for each kind of
  rule `visible_for` asks for what some call requires (`RequiredByKind`,
  `VisibleMeansCallable`).
- `NoSilentLoss`: `PartialInv` adds to `RunInv` that subtasks missed are reported, that
  the entries of an import sent so far are numbered and counted and the others are
  still to do (`ImportInv`; of how many entries the answer lists it says nothing), and that the agile half of an update follows its core
  half and tells of it (`UpdateInv`).

The inductive invariants were invariants of TLC runs before they were proved, except
`RunInv`, whose shapes range over infinite sets: TLC has only its consequences.

**Only model-checked.** Liveness (`InFlightIsReleased`, `Answers`, `ChecksAnswered`):
fairness and ENABLED are out of the provers' reach. Every other property of a passing
run is the statement of a theorem, `ReplaysAreCaught` under the hypothesis named
there.

## 5. Not modelled

Tokens, ids and digests are atomic values: collisions of random ids or of SHA-256
are excluded. Strings, JSON, HTTP parsing, PKCE hashing and redirect matching are
reduced to whether they succeed. A crash loses all proxy state by design (nothing
is persisted), so a restart is the initial state there; only the attachment
directories outlive a process. The wall clock and the monotonic clock advance but
never go back. Of the transport, CORS, body limits, response headers and the
`--healthcheck` client are left out; of the tools, what answers contain (but for how much of an import they list), and the
values of arguments beyond well-formed or not. File contents and partial files of
dropped downloads are not modelled. Rendering, logging and the serde models
are formatting without state.

## 6. Findings

Each is a run whose one property states what a comment or a document says, and
which TLC violates with what the code does.

1. `Replay`: `RefreshStore::retire` forgets a token in one lock and remembers it
   as retired in the next; a replay in between is answered as unknown and the
   session lives on.
2. `CodeLeak`: the token sets of codes that expire unredeemed are never removed.

Observations met while modelling, without a run of their own.

Proxy and tokens:
- `UpstreamStore::insert` (`store.rs:394`) sweeps by itself and drops sessions that
  expired since the grant's `sweep_expired_sessions`: nobody purges their tokens
  or revokes them upstream, which the comment at `store.rs:404` asks for.
- An introspection in flight during `/revoke` is cached after the purge
  (`auth/oauth.rs:335`), so the token is accepted until that entry expires; the
  comment at `:189` says "immediately". `StalenessBounded` is the bound that holds.
- `Bucket::take` (`ratelimit.rs:62`) sets `updated_at` back for a request that read
  the clock earlier and locks later, so the next call refills the same time once
  more. The test at `:305` says that a `now` that moves backwards does not "grant
  extra tokens", which is true of the stale call itself and not of the one after it.
  `NoExtraTokens` bounds the extra tokens by the refill of the time set back.
- A client can be forgotten between the lookup and the touch of `/authorize`
  (`endpoints.rs:388`), although the comment at `store.rs:43` says a registration
  mid-authorization is never at risk; `LiveAreKnown` excepts it by name.
- A code is recorded as consumed only after its pair was minted, so a replay
  inside that window gets `invalid_grant` without containment.
- A failed insert or mint drops the token set just obtained without revoking it;
  a client that leaves during `/revoke` leaves the session revoked here only.

Requests and tools:
- The last attempt of a request may start just before the deadline and has the
  whole reqwest timeout: the bound is twice the timeout, not the budget
  `client.rs:452` names. `max_items` can be exceeded by the page that reaches it;
  an item deleted between two pages hides another; `Page::offset` of a walk is
  the end of what was collected. `list_subtasks` (`client.rs:1110`) drops `truncated`.
- `update_redmine_issue` answers a plain error when reading the issue or its
  attachments back fails after the update was performed (`issues.rs:2320`, `:2352`),
  unlike its agile half, whose failure says that the update holds.
- Its recovery of required fields handles the error of the PUT and of the read-back
  behind it alike (`issues.rs:2322`, `client.rs:1220`): a 422 on the read-back sends
  a performed update again, which adds its note a second time. The comment at
  `issues.rs:2316` says that only this branch can be rejected for a required field
  and has the PUT in mind. `WriteOnce` excepts that one repetition by name, and says
  that it follows an acknowledged update and happens once.
- `import_time_entries` "reports every outcome" (`time.rs:522`), but `apply_caps`
  (`output.rs:138`) cuts its `results` at `REDMINE_MCP_MAX_RESPONSE_ITEMS` (200, for
  batches of up to 500) or at the byte cap. Its answer has no `pagination` object, so
  nothing marks the cut, where `docs/configuration.md:38` promises "a hint rather than
  a silent cut"; only `total` against the length of `results` tells.
  `PartialSuccessIsTold` is about the counters.
- `UNREACHABLE` is marked retryable (`output.rs:326`) also after a write Redmine may
  have performed; a time entry reported as failed may exist.
- Agile data (`issues.rs:2359`) and a renamed wiki page (`search_wiki.rs:491`) are
  read, changed and written back without a condition; the counts a deletion asks
  confirmation for are read before it (`issues.rs:2452`).
- A call dropped in its sweep between `remove_dir_all` and the lock
  (`attachments.rs:457-472`) leaves entries without their files: a link answers 404
  although it has not expired, by no more than a timeout, and the entry's bytes count
  against the store until its link is used after its expiry or the process restarts.
- `config.rs` accepts an expiry of at most two download timeouts (1 minute and 30
  seconds); a sweep can then take the directory of a download under way, which ends
  in an error or in an entry without its file.
- A failed flush of a download is logged and the file committed (`files.rs:428`),
  though the function's doc says any failure aborts.
- `docs/tool-contract.md:202` says an unresolvable custom field name is rejected
  "before any request reaches Redmine"; resolving a name is itself a request.
- `subtasks_truncated` of `copy_issue` is also set after failures, not only at caps.

Configuration, edge and shutdown:
- `PUBLIC_PORT` equal to the scheme's default port, or a `PUBLIC_HOST` that carries
  that port (`mcp:80`), yields links whose `Host`, which clients send without the
  port, fails the allowlist derived from it; so do `SERVER_HOST` 127.0.0.2 and ::1,
  for which `docs/configuration.md:104` promises a correct link, and an explicit
  allowlist need not contain `PUBLIC_HOST`. `LinksAreServed` is stated for the rest.
- `REDMINE_MCP_SCOPES` of blanks and an empty `REDMINE_API_KEY_FILE` are accepted.
- `/mcp`'s Host check is rmcp's own and runs inside the bearer layer, so a foreign
  host with a token costs an introspection.
- A shutdown may take the drain timeout twice, once for requests and once for the
  sweeper; a second signal is ignored meanwhile, and a signal to the stdio
  transport skips the sweeper's stop. The comment at `main.rs:264` says in-flight
  MCP work ends with the same edge; the service has a token of its own.
- `/readyz` answers 504 only to checks that queued behind a probe that was dropped
  (`TimeoutsExplained`).

## 7. Plan

Done: the modules above, the two refinements as runs and as theorems, and a theorem
for every safety property of every passing run.

Open:
1. Liveness stays with TLC, under the fairness of section 3.
2. PKCE and redirect matching are pure functions over strings; they would be operators
   with a reference definition over short strings, and no part of the proofs.
3. Of the transport, CORS and body limits.
