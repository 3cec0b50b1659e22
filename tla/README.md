# AstreoGateway: models, checks and proofs

AstreoGateway is an HTTP gateway in Go that accepts OpenAI-style requests and forwards them to
upstream LLM providers (OpenAI, Anthropic and Gemini protocols). A request names a model directly
(`provider:model`) or through an *alias*, a list of targets with a routing strategy and failover.
This directory holds TLA+ modules of its core, TLC configurations that check them on small
instances, and proofs that TLAPS checks for every instance. Paths below are relative to the
repository's root; modules are in this directory.

## 1. The system

| part | code | state it keeps | operations | who else touches it |
|---|---|---|---|---|
| SQLite | `internal/store` | providers, api keys, aliases and their targets, gateway keys, admins, settings | CRUD, one statement or one transaction each; `Migrate` and the slug backfill at start | everything |
| key pool | `internal/keypool` | per provider, its enabled keys in priority order and until when each cools down; one lock | `Load`, `Get`, `MarkCooldown` | requests read and mark it, key administration reloads it, discovery reads it |
| discovery cache | `internal/discovery` | per provider, the models last seen and when; the *runtime-stale* models (answered 404); one lock | `refreshAll` on a ticker, `Refresh`, `Remove`, `MarkRuntimeStale`, `StaleTargets`, `Models` | requests mark and read it, the admin refreshes and removes |
| routing | `internal/routing` | the round-robin counters | `Resolve`, `NextFailoverTarget`, `LookupAlias` | requests; reads SQLite, cache and pool |
| proxy | `internal/proxy` | nothing shared; per request the `tried` set, the last result and the outcome | `ChatCompletions`, `Embeddings` | requests; writes pool and cache |
| translators | `internal/protocol` | per stream, the local variables of `TranslateStream` | translate requests, whole answers and streams of Anthropic and Gemini | the proxy |
| request log | `internal/metrics` | a circular buffer; one lock | `Append`, `Clear`, `List`, `Stats` | the access-log middleware appends, the admin reads and clears |
| process | `cmd/aigw` | the secret of the session cookies | migrate, backfill, read or make the secret, load the pool, listen; drain on SIGTERM | its supervisor restarts it (`docker-compose.yml`) |
| admin API | `internal/api/admin` | sessions are signed cookies | CRUD, bootstrap, refresh, log queries | writes SQLite, pool and cache |
| public API | `internal/api/public` | nothing | key check, `/v1/chat/completions`, `/v1/embeddings`, `/v1/models` | starts requests |

One request: the public API checks the gateway key, the middleware opens a log entry, `Resolve`
reads the alias, the stale targets, the providers and a key, the proxy reads the alias again and
tries targets until one answers for good, and the middleware appends the entry. Nothing holds a
lock over more than one of these reads. Meanwhile other requests cool keys down and mark models
stale, the ticker and the admin refresh the cache, and the admin edits SQLite and reloads the pool.

What is hard in this code, and what the properties are about (each hazard is in `PROJECT.json` with
its line):

- **Decisions on data read earlier.** The alias is read twice, each time in two queries; the stale
  set is that of the alias SQLite holds *now*, applied to the request's old copy; a key is chosen
  after the target; a refresh writes what it fetched some time ago.
- **Concurrent requests** share cooldowns, stale marks and the round-robin counter.
- **Partial failure.** An attempt can fail without a status, with a status and an error, before or
  after bytes reached the client; the reply, the outcome and the log each derive a status from it.
- **Termination**: the failover loop, with its `continue`s; a round of refreshes behind a
  semaphore.
- **Boundaries** of the circular buffer, whose entries are stamped when a request begins and
  appended when it ends.
- **Long conversations.** Tool calls are numbered by three protocols in three ways, and results
  must find their call again in a conversation that went through several of them; streams are cut
  or ended at any event, and any event may be unreadable and skipped.
- **Restarts.** A migration drops a table that others refer to, the backfill runs outside any
  transaction, and the process may die between any two statements.

What makes each part correct:

- *proxy and routing*: each target at most once; nothing after a final answer; retries in order;
  a failure only when nothing is left; every request answered; a failure logged as one.
- *key pool*: a key that was refused rests; once a change of a key is answered, requests get what
  it wrote, whichever reloads overlap. *Discovery*: stale exactly when the upstream lacks the
  model, in the long run, and never on failures alone; a deleted provider is forgotten; rounds end.
- *request log*: what is listed is the most recent entries in order, a missing entry is flagged
  unless requests overlapped, and the dashboard agrees with the list.
- *translators*: a client always gets the beginning of a well-formed stream; what it hears is what
  the readable events said; nothing of a conversation is lost or reordered on its way to another protocol, and
  every result arrives under its call.
- *storage and start-up*: a routing prefix names one provider and is stable; an upgrade loses
  nothing wherever it is interrupted; sessions outlive the process; it always serves again.

## 2. Modules

| module | what it is | extends |
|---|---|---|
| `Ids` | identifiers, `Target` | |
| `KeyPool` | state and operations of the pool | `Ids` |
| `ModelCache` | state and critical sections of the discovery cache | `Ids` |
| `Gateway` | requests: routing, proxy, and what changes under them | `KeyPool`, `ModelCache` |
| `Discovery` | the cache at work: rounds, refreshes, the admin | `ModelCache` |
| `KeyAdmin` | the key handlers, SQLite's keys and the reload of the pool, step by step | `Ids` |
| `RecentLog` | abstract: the log of the most recent entries | |
| `LogRing` | the circular buffer; implements `RecentLog` | |
| `AccessLog` | requests around the ring, `List` and `Stats` | `LogRing` |
| `ChatFormat` | OpenAI messages, requests and stream chunks, and how a client assembles them | |
| `AnthropicFormat`, `GeminiFormat` | the translators of each protocol, as operators | `ChatFormat` |
| `Translation` | a conversation through the translators | `ChatFormat` |
| `Storage` | SQLite over restarts: migrations, slugs, provider handlers, sessions | |
| `AccessLogProofs` | proofs about the ring and the requests around it | `AccessLog` |
| `GatewayProofs`, `DiscoveryProofs`, `KeyAdminProofs`, `StorageProofs` | proofs | the module in their name |
| `StreamProofs` | proofs: what a stream tells a client, and what each action writes | `Translation` |
| `AnswerProofs` | proofs: what a client hears of an answer | `StreamProofs` |
| `RequestProofs` | proofs: what a provider gets of a conversation | `AnswerProofs` |
| `MCGateway`, `MCDiscovery`, `MCKeyAdmin`, `MCAccessLog`, `MCTranslation`, `MCStorage` | instances for TLC | the module in their name |

`KeyPool` and `ModelCache` have no behaviour of their own: an operation of the code that runs under
the lock is an operator there, and a step of the modules that use it. The same holds for the three
format modules, whose operators are the translators' functions. `Gateway` composes pool and cache
with the requests; `Discovery` composes the cache with the refreshes. In `Gateway` a refresh is only its
last step (`RefreshSucceeds`), in `Discovery` a request is only its mark (`RequestMisses`): each
module treats the other's process as environment that may act at any time, which is more than the
other module lets it do.

### Gateway

| variable | in the code |
|---|---|
| `pool` | `Pool.keys`; `cooling` stands for `now < cooldown` |
| `entries`, `soft` | `Cache.entries`, `Cache.runtimeStale` |
| `alias`, `enabled` | rows of `aliases`/`alias_targets` and `providers.enabled` in SQLite |
| `rr` | `Selector.rrPositions` of the alias |
| `pc`, `call`, `gone` | where the handler is, its kind and directive, whether its context is cancelled |
| `snap`, `staleSet` | the handler's copy of the alias, and the last `buildStaleSet` |
| `at` | the target and key in use; `era` is how many releases (below) had happened when the key was taken |
| `tried`, `tries` | the `tried` map; the outcome's attempts, each with its `forwardResult` |
| `reply` | the status written to the client |
| `used` | how much of each bound was spent |

| action | code |
|---|---|
| `ResolveDirect` | `resolveDirect` and the embeddings check after it |
| `ReadAlias`, `ReadTargets` | `GetAliasByName` in `resolveAlias`: its two queries |
| `ReadStale` | `buildStaleSet` |
| `SelectTarget` | the rest of `resolveAlias`: providers, `selectTarget`, the key; the embeddings check |
| `LookupAlias`, `LookupTargets` | `LookupAlias` in `forwardWithRetry`, again two queries |
| `Upstream` | an attempt up to its classification: `forward` or `forwardOpenAIEmbeddings`, the cooldown, and the answer or the soft-stale mark |
| `NextFailoverStale`, `PickTarget` | `NextFailoverTarget` and the head of the failover loop up to the next attempt |
| `Cancel` | the client goes away |
| `UpdateAlias`, `DeleteAlias`, `ToggleProvider` | the admin |
| `RefreshSucceeds`, `KeyRests`, `ReloadPool` | discovery; a cooldown runs out; `Load` |

*Size of the steps.* Each read of SQLite or of the cache that a later decision depends on is a step
of its own, with these exceptions. `SelectTarget`, `PickTarget` and `ResolveDirect` read the
providers, then the counter or the key pool, in one step: different objects, so the step can be
placed at its last read, unless one administrator disables the provider and changes a key, in that
order, within the gap. `Upstream` joins the upstream's answer with the cooldown and the
soft-stale mark: what happens between the answer and the mark could happen before the answer.
`StaleTargets` reads the cache, then the aliases; `ReadStale` does both at once, so a cache read
slightly older than the alias is not represented. SQLite errors are not modelled. The pool is read and marked at the
granularity of its lock. A deleted provider, which also loses its targets in every alias, is only
represented by its two effects apart: `ToggleProvider` and `UpdateAlias`.

*Data.* A body is nothing but what can go wrong with it (`Faults`): it may have no translation
(`request`), the network may fail before an answer (`network`), the answer may be cut (`body`) or
be untranslatable (`translation`). `Results` is the set of `forwardResult`s one attempt can end
with; `status` 0 is Go's zero value, as in the code. Time is absent: a cooldown may end whenever
the bound allows (`KeyRests`).

### Discovery

`row`, `deleting` are the providers in SQLite and the deletions between SQLite and the cache;
`round`, `sem` the running `refreshAll` and the semaphore it makes (a fresh one each time: `Tick`
empties it); a *job* is one call of
`refreshProvider` (job `p` is the round's for provider `p`, the others are the admin's), with its
stage in `job`, its provider in `about`, and the fetched list in `answer`. `upstream` is what the
providers would answer. `proven` and `raced` are history variables: which providers ever answered a
list or a 404, and which were removed from the cache while a refresh of them was in flight. The
steps of a refresh are: look at the provider (`NotRefreshed`, `AskUpstream`, `NoReadyKey`), the
upstream's answer, and the write of the cache (`KeepModels` after a failure, `PublishModels`).
Which key is used does not matter here, so that none is ready is a choice. `Tick` is not enabled
without an enabled provider: such a round does nothing.

### KeyAdmin

`providers` and `row` are SQLite, `pool` is `Pool.keys` without the cooldowns, which `Load` forgets.
A handler writes in one statement (`CreateAPIKey`, `DeleteAPIKey`; `ReadAPIKey`, then `UpdateAPIKey`
or `UpdateFails`), then reloads: `ListProviders` before the lock, `TakeLock`, for each provider
`ReadKeys` and `Publish`, `Unlock`. `ListFails` and `ReadFails` are the errors that are only logged.
Around them `DeleteProvider` takes its keys along in SQLite but not in the pool, `CreateProvider`
may bring an id back, and `Restart` ends every handler where it is and loads the pool afresh.
`writer` and `unsure` are history: whose write of a key is not answered yet, and which keys of which
provider the pool may lack a reload for because a query failed or the provider was deleted. Labels
order keys of equal priority: that order is left open. `Gateway` has all of a reload in one step
(`ReloadPool`), which is right because requests cannot look between `TakeLock` and `Unlock`.

### LogRing

`buf`, `head`, `size` are the fields of `LogStore`; `AppendEntry` and `Clear` its operations, each
under the write lock; `Snapshot` what a reader gets. `RecentLog` is what the log promises, a
sequence of at most `Cap` entries that forgets the oldest; `Abs == INSTANCE RecentLog WITH log <-
Snapshot` is the refinement mapping. Identifiers and time stamps that `Append` fills in are part of
the entry.

### AccessLog

`LogRing` with the requests around it. `Arrive` is `RequireGatewayKey` and the head of the
middleware: it checks the key against `accepted` (the gateway keys in SQLite, edited by
`CreateGatewayKey` and `DeleteGatewayKey`) and stamps the entry in `request`. `Finish` decides the
status from what the recorder saw and what the outcome says (`LoggedStatus`) and appends; `Panic`
leaves before the append, so the request is never logged. An element of `Ending` is one way a
handler can end. `List`, `Truncated`, `InWindow` and `Stats` are the queries of `logs.go`; a provider or
key that is not set is `Unset` (the empty string), in an entry as in a filter, and a bound that is not
set is 0. So a listing cannot ask for the entries without a provider, those of requests refused
before a target was picked; `Stats` counts them in a row of its own, "(unresolved)" (`CountedUnder`),
a name that no entry has and under which a listing finds nothing. `DashboardMatchesList` says both:
the row of a provider is what a listing of it selects, and that row is what no listing by a provider
selects. The filter by directive, an equality like the one by provider, is left out. `appended` is history: everything
appended since the last `ClearLog`.

### ChatFormat, AnthropicFormat, GeminiFormat, Translation

A text is a sequence of pieces, each different from all others, so that loss, repetition and order
can be told; arguments are a sequence of pieces that is JSON once it ends in `Closing` (or is
`EmptyObject`). The operators carry the names of the functions (`OpenAIToAnthropic`,
`FlushToolResults`, `GeminiToOpenAI`, ...) and take and return what these do; `None` is a refusal.
`TranslateStream` becomes one operator per event, which maps its local variables to their next
values and the chunks written.

| variable of `Translation` | in the code |
|---|---|
| `conv`, `params` | the body of the client's next request |
| `phase`, `asked`, `outcome` | where the request is, the provider's protocol and whether it streams, how the handler returned |
| `said` | what the model has said in events that could be read: parts, stop reason, whether it began; and `missed`, the kinds of the events that could not |
| `tr` | the local variables of `TranslateStream` |
| `out` | the chunks the client got |
| `used` | how much of each bound was spent |

A conversation goes on (`GoOn`) when the client could assemble a complete answer: it appends that
answer and the results of its calls, in any order, with or without names, with or without a reminder
between them, and may be sent (`Send`) to a provider of another protocol next time. What the model
does is environment: `Begin`, `SayText`, `SayCall`, `SayArguments`, `SayReason` for Anthropic and
OpenAI, `GeminiSays` for the chunks of Gemini, which carry whole parts. It calls only tools that the
choice it was sent allows. Any event of an Anthropic stream
and any chunk of a Gemini stream may fail to be JSON; the code skips it whole and goes on
(`stream.go:65-70` of both). `SkipEvent(kind)` does that, and `SayCall` with `readable = FALSE`, after
which arguments still arrive for the block. A skipped text or piece of arguments is gone without a
trace, a skipped `message_start` leaves the stream without its role chunk, a skipped `message_delta`
without its finish chunk; `WellFormedStream` and `HeardIsSaid` say what holds in spite of it, and
name what depends on the event that was missed. `ErrorEvent`, `EndsEarly` and `Breaks` are the ends
that go wrong. A Gemini stream that ends early, or whose chunk reports an error, is finished with
`stop` and `[DONE]`, unlike what `docs/translation-gaps.md:91-93` has of errors in the middle of a
stream; `HeardIsSaid` therefore says of Anthropic's and OpenAI's streams only that a client does not
take one for complete before the model stopped. The properties of the streams hold at every event, so an end anywhere is
covered by them.

### Storage

`schema`, `provider`, `child` (rows of `api_keys` and `alias_targets`), `indexed`
(`idx_providers_slug`), `saved` (`cookie_hmac_secret`) and `admin` are in SQLite and survive
everything; `phase`, `need` (the rows the backfill still has to do), `secret` and `job` (what each
handler is doing) are in the process and end with it; `cookie` is in browsers. `Init` is any database
an earlier version left. The start is `Start`, `ApplyMigration` (one transaction each),
`AllApplied`, `ListNeedingSlug`, `BackfillSlug` (one row each), `CreateIndex`, `EnsureSecret`,
`Listen`, in the order of `main.go`; a step that fails ends the process (`Exit`). `Crash` may
happen at any of them. Then `CreateProvider` and `UpdateProvider` search a slug query by query
(`ProbeSlug`) and write it in a later statement (`WriteProvider`), so that two handlers can find the
same one free; `DeleteProvider` takes its rows along; `CountAdmins` and `CreateAdmin` are the two
halves of the bootstrap. `Slugify`, `Numbered` and `Valid` are constants: what the code computes
from characters is a function given to the model.

An id of the model comes back when no row and no request has it, where the code's are never used
again; `ServesAgain` and the proofs do not depend on that. The columns of a provider other than its
slug and name, and the rows of `settings` other than the secret, are left out.

## 3. What TLC checks

| run | configuration | shows |
|---|---|---|
| `request_log` | 2 slots, 2 clients, 4 requests, 3 ticks; every ending; cleared at any time | `TypeOK`, `LiveWindow`, `UnflaggedGapsAreOverlaps`, `DashboardMatchesList`; the ring implements `RecentLog` |
| `gateway_pair` | 2 chats on one alias of up to 3 targets, 2 of them on one provider, any routing; 1 disturbance of any sort | `TypeOK`, `EachTargetOnce`, `CooledKeyRests`, `RetriesInOrder`, `GivesUpOnlyWhenExhausted`, `RoundRobinSpreads` |
| `gateway_faults` | 1 request of any kind, direct or by alias; every class of answer but 429, every fault; 2 disturbances; 4 alias definitions, all routings but round robin; fairness | `NothingAfterFinal`, `EveryRequestAnswered`, `ChatFailureLogged` |
| `discovery` | 2 providers of 1 model on 1 slot, 1 admin refresh, 1 edit, 1 missing model, 1 change upstream; fairness of the round | `TypeOK`, `StaleNeedsEvidence`, `GoneUnlessRaced`, `EveryRoundEnds` |
| `discovery_settles` | 1 provider of 2 models, 1 slot, 1 admin refresh, 2 edits, 2 missing, 1 change; fairness | `SettlesOnUpstream` |
| `key_admin` | 2 handlers, 2 keys, 2 providers, 2 secrets, 2 priorities; 3 requests, 1 event (a failed query, a provider deleted or created, a restart) | `TypeOK`, `AnsweredWritesAreServed`, `ServedByPriority` |
| `translation` | 3 protocols, 2 tools, 2 answered requests and the next one; 3 parts in all, 1 unreadable event of any kind; 6 refused first requests and 4 with a choice of tools (none, required, either function) | `TypeOK`, `WellFormedStream`, `HeardIsSaid`, `NothingLost`, `ResultsFollowCalls`, `RefusedAlike`, `OnlyChosenTools` |
| `storage` | 2 handlers, 3 providers, names that collide, 3 suffixes; 1 crash or shutdown, 2 edits, 1 user; fairness | `TypeOK`, `PrefixNamesOne`, `SlugsAreStable`, `UpgradeLosesNothing`, `SessionsSurvive`, `ServesAgain` |
| `key_admin_rotation` | as `key_admin`, without events | violates `OmittedSecretIsKept` |
| `gateway_exhausted` | 1 chat, network errors | violates `ExhaustedRepliesError` |
| `discovery_overbroad` | 1 provider, 2 models | violates `OnlyTheMissingIsStale` |
| `translation_finish` | Gemini only | violates `FinishTellsCalls` |

The last four are disagreements between the code and its documents or tests, explained under
"findings" in `PROJECT.json`: an update of a key that leaves its secret out undoes a rotation that
overlaps it; failover that runs out after a network error writes status 0 (and the handler
panics); one 404 makes every target of an undiscovered provider stale; a Gemini stream whose call
and finish reason come in different chunks ends with `stop`.

*Bounds.* `MaxAdmin`, `MaxRefresh`, `MaxRelease` bound the admin's edits, the refreshes, and the
ends of cooldowns and reloads (`used.release` counts both); `MaxEvents` bounds all of them and the
cancellations together. `MaxEdits`, `MaxAsked`, `MaxMissing`, `MaxChanges` do the same in
`Discovery`, `MaxWrites` (requests that change a key) and `MaxEvents` in `KeyAdmin`: three requests
are a creation and two changes that overlap. Two requests are enough for one to act between any two steps of the other, three
targets for a first choice in the middle and for a second target on the cooled provider, two
providers on one slot for a refresh of a round to wait for another's, which the code's four slots do from
five providers on. A streamed chat whose bytes were written and answers of 400, 403 and 500 are in
`gateway_faults`, so that run has `NothingAfterFinal`; two requests add nothing to it. Four requests fill a ring of two slots, wrap it and
overwrite what was written after the wrap, and two clients let one request span several others; the
ring itself is proved for every capacity. In `translation` two answers are enough for an id of the
first to come back in the second, and three parts for a call between texts or two calls in parallel;
`MaxLost` bounds unreadable events. In `storage` three rows with two spellings of one slug, and a
name that is the slug the second spelling gets, make the suffix search collide with itself;
`LastNumber` is 998 in the code; one end of the process can fall into the migrations, the backfill
or between two handlers' statements, and `MaxStops` and `MaxEdits` bound ends and edits. Requests,
clients and tools are symmetric where the run says so, and liveness is checked without symmetry.
Deadlock is checked except in `discovery_settles`, whose system stops when its only provider is
disabled for good, and in the two runs of `Translation`, where a conversation ends.

*Fairness.* `Gateway`: a request whose handler can take a step takes one. Goroutines are scheduled,
and an upstream call ends because `proxy.New` gives its client a timeout that covers the body. No
fairness is assumed of clients, admin, refreshes or cooldowns. `Discovery`: weak fairness of the
ticker, of the goroutines of a round and of the handler that deletes; `EveryRoundEnds` needs only
that of the round (`RoundFairness`); strong fairness of a
round's refresh reaching the upstream and being answered, that is, a provider that is asked again
and again does not fail every time. Without it the stale marks of a 404 need never be undone, and the documents do
not claim it. `Storage`: weak fairness of the steps of the start, since the supervisor's
`restart: unless-stopped` starts a process that ended and nothing in the start waits for anyone;
and of the end of draining, which `Shutdown`'s ten seconds bound. No fairness of handlers.

Every property has a mutant in `PROJECT.json`: a plausible slip in the code (for instance `tried`
recorded only when the target is used) under which TLC finds the property violated. The mutated
operators stand beside the ones they replace (`TriedWhenUsed` before `TriedNow`); no specification
uses them.

## 4. What is proved

TLAPS checks these for every value of the constants that meets the assumptions named in the
modules (`IdsAssumption`, `AbsentAssumption`, `GatewayAssumption`, `DiscoveryAssumption`,
`KeyAdminAssumption`, `CapAssumption`, `EntryAssumption`, `AccessLogAssumption`,
`StorageAssumption`, `TranslationAssumption`): any number of requests, providers, models, keys,
alias definitions, handlers, crashes, events and slots, and conversations of any length. Most say
what sort of value a constant is. Those with content: no alias has a target twice and no key belongs
to two providers, which the schema's primary keys give
(`internal/store/migrations/001_init.sql:16-42`); there are finitely many keys to sort; the slug of
a name is not empty; a filter that is not set is told from every value to filter by; and an absent
or unknown field of a message from one that is there.

**`GatewayProofs`.** The safety properties are not inductive: that no target is tried twice says
nothing about the target a request is about to use. `Inv` adds what the code relies on without
saying:

- `Place(r)`: what the request holds at each point (a copy of the alias unless direct, a key and a
  target before it sends, an attempt before it looks for the next target);
- `Covered(r)`: every attempt's target, and the one about to be used, is in `tried`, once there is a
  copy to fail over with;
- `Once(r)`, `Final(r)`, `Rests(r)`: the three properties for one request, extended to the
  attempt it is about to make;
- `Era(r)`: the counts of releases stored with attempts never exceed the present one;
- `Pools` and `Cooled`: a key is in the pool of one provider only, and a key that was cooled stays so
  in the pool until a release.

From `Inv` follow `TypeCorrect`, `TargetsAreTriedOnce`, `FinalAnswersAreFinal` and `CooledKeysRest`;
`FailureMeansExhausted` is an action property, proved from `Inv` for each action. The proof that a step keeps `Inv` has a
lemma per action; a request other than the one that moves is untouched except for `Cooled` and
`Era`, which have lemmas of their own. `Inv` was checked by TLC on the instance of `gateway_pair`
before it was proved.

Two properties speak of a finished request. `ChatFailureLogged` needs to know which attempt a reply
was made from (`Replied`); `RetriesInOrder` needs, while nobody edits the alias, that the request's
copy is the alias it began with (`Undisturbed`) and that what lies before the current target was
tried, stale or disabled (`Sequenced`).

`RoundRobinSpreads` counts the selections of all requests. The counter says how many turns were
taken, but not by whom: a request that found no target took none, and one that failed over moved
away from the target its turn gave it. So the invariant (`Numbers`) says that there *is* a numbering: the
requests that took a turn are numbered from 0 to `rr - 1`, each once, and each was given the target its
number falls on, modulo the targets of the alias. A step that takes a turn extends the numbering by
its own request, every other keeps it. That two targets then differ by at most one is a lemma about counting (`TurnsAreEven`): shifting a
number by the distance of the targets maps the turns of one into those of the other, all but the
last.

**`AccessLogProofs`.** Of the ring alone, `LiveWindow` says which slots hold entries: those below `size`, with
`head = size` until the ring is full. With the types it is inductive (`RingInvariant`). Under it a
step of the ring is a step of `RecentLog`: below capacity an append extends the snapshot; at
capacity it overwrites the oldest entry and the snapshot's start moves by one, which is `Tail` and
`Append`; the arithmetic modulo `Cap` is in lemmas of its own (`RingImplementsRecentLog`).

Every step of `AccessLog` is a step of `LogRing` or leaves the ring alone, so
that its invariant carries over and `RecentLog` is implemented. `UnflaggedGapsAreOverlaps` needs the
ring to be the *end* of what was appended (`Suffix`): then an entry that is gone was appended before
the oldest that is kept, whose stamp is the one the flag compares.

`DashboardMatchesList` compares counts with the sizes of listings. By class, provider and key both
are cardinalities of the same selection of entries, but for the row "(unresolved)": its entries are
those that the filter by provider, whatever it asks for, leaves out. The buckets are another matter: that every entry
of the window falls into one bucket, and that tokens drawn for each bucket, one per entry of it, are
as many as the entries (`SharedOut`), is a bijection built from one per bucket.

**`StorageProofs`.** `PrefixNamesOne` speaks of a serving process only. The invariant follows the
process through its start: what a schema version says of the rows (`Schema`: no slugs before the
column, unique ones under the index), what the place of the process says of the database
(`Progress`: the migrations are done, a row without a slug is still to be done, the index exists),
and where the secret is (`Secrets`). A crash at any step keeps it because everything it says of a
process that is down holds of the database alone.

**`DiscoveryProofs`.** `Tokens` says what the semaphore counts (the refreshes of the round that hold
one), which the type of `sem` rests on; `Answers` what an answer under way may hold; `Evidence` and
`Gone` extend the two properties over the refreshes in flight, whose last step is what could break
them.

**`KeyAdminProofs`.** Between `ReadKeys` and `Publish` the pool is behind SQLite, so the invariant
speaks of what the pool is *about to hold* (`Coming`): for each key it is what the table holds,
unless the reload of the key's last writer has still to read that provider, or a failed query
excuses it (`Synced`). `Locks` says whose the lock is, `Writers` that a writer that has not answered
is on its way to its own reload.

**`StreamProofs`, `AnswerProofs`.** `WellFormedStream` and `HeardIsSaid` speak of the chunks alone,
and the latter only of answers that are complete. What makes them true is that the chunks and what
the model said agree at every moment (`StreamInv`): `Told` says that the stream is well formed and
that its text is the text said, its calls the calls said, by their numbers, and its indexes an
interval from zero. All of it is relative to the kinds of events missed: with more of them missed it
says less (`MissedTold`), which is all a skipped event needs, as it changes nothing else. Without
`message_start` no role is promised (`Headless`). If the beginning of a call was missed (`Garbled`) the
calls are no longer those that were said, but their rules and the interval hold: arguments that
arrive for a block whose start was missed open an index of their own. `OpenInv` is what an open answer adds: before it begins nothing is written, until
it stops neither `finish` nor `[DONE]` is, and Anthropic's map of blocks to indexes numbers the
block of every call (`Numbers`). The lemmas go by kind of chunk (a role, a text, a call, arguments,
the end) so that the same ones serve Anthropic's events, Gemini's parts and OpenAI's own chunks.
`IdsInv` (ids carry the turn and the part that made them; Gemini's are made up from positions) makes
the ids of a message differ. `ChosenInv` extends `OnlyChosenTools` to what the choice became as it was
sent. `TextSaid`, `CallsOf` and what a client assembles are flattened sequences: that flattening one more
element appends it is proved first, from the definition of `FlattenSeq` and the least element of a
set of numbers.

**`RequestProofs`.** A request translator folds over the messages. `Adds(acc, m, more)` says what the
fold's step does for a message, once for both protocols: it leaves the pending results waiting,
or turns them into a turn of the user before a turn of its own. The invariant of the fold is then
that the text of the turns, the pending results and the system prompt is the text of the messages so
far (`Tells`), and that Anthropic's accumulator and Gemini's have turns or none, and results
waiting or none, together (`Alike`). `NothingIsLost` and `TargetsRefuseAlike` are what it says at the end of the
fold. The latter is about these two translators: an OpenAI target has none, refuses nothing
(`Refuses` of `Translation`), and leaves it to its upstream, so an alias that mixes it with others can
still answer an image by the one target and refuse it by the other.

`ResultsFollowCalls` needs an invariant of the conversation and one of the fold. `ConvInv`: a result
that comes after an answer, with only results and system messages between, is of a call of that answer,
by its id, and says the call's name or none. A client appends results only for calls it has an id of; that such
a call also has a name, in a stream that missed events too, is `NamedInv`. `Placed` is the invariant of
the fold: there are as many answers as turns of the model, and paired by rank each turn has as many calls
as its answer; the results of an answer wait as long as more may come, and are in the next turn
otherwise, in their order and each under its call. For Gemini the fold also remembers (`Known`) a
name for every id of the answer that is open: ids repeat from answer to answer, and the later
answer takes them over. It needs no uniqueness: two calls of one answer with the same id may be named either way.

The parts of the invariant of an answer that TLC can evaluate (all but the sets of types), and
`NamedInv` and `ConvInv`, were checked on the instance of `translation`.

`IInv` of `AccessLogProofs`, `StorageProofs`, `DiscoveryProofs` and `KeyAdminProofs` was checked by
TLC on the instances of `request_log`, `storage`, `discovery` and `key_admin`.

**Only model-checked**: liveness (`EveryRequestAnswered`, `SettlesOnUpstream`, `EveryRoundEnds`,
`ServesAgain`), which needs fairness and `ENABLED`. Every other property of a passing run is a theorem.

## 5. Not modelled

- *Health check, embedded files, browser UI*: pure I/O, or outside the gateway's state.
- *Configuration* and wiring; *password hashes*, the *expiry of a cookie* and the hash of a gateway
  key: computed or compared, they change nothing.
- *Model listing* of the public API: one stateless read of SQLite and the cache.
- *Alias validation* (`validateTargets`): it only adds warnings to the reply.
- In modelled parts: token counts, headers, sampling parameters and tool declarations of requests;
  token sums, percentiles, the order of a listing and its pages; line splitting of streams; the
  lazy refresh of `ModelsFor`, which only tests call; database errors in `Gateway` (`KeyAdmin` has
  failed queries, `Storage` violated constraints).

## 6. Plan

Done: `LogRing`, `KeyPool`, `ModelCache`, `Gateway`, `Discovery`, `KeyAdmin`, `AccessLog`,
`Translation`, `Storage`, and proofs about each. What is left, in order of weight:

1. An abstract pool in which an answered write takes effect at once, with `KeyAdmin` shown to
   implement it; `Gateway` composed with `KeyAdmin`'s reload instead of its single step.
2. Database errors in `Gateway`, at each of its reads.
