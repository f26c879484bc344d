# KiNg AI assistant: a TLA+ model of the backend

This directory holds TLA+ modules that model the state and the concurrency of the backend in
`src/backend/app` and of its backup tool, TLC configurations that check them on small
instances, and proofs that TLAPS checks for every value of the constants. Paths below are
relative to `src/backend/app` unless they start with `src/`.

The backend is one FastAPI process with one worker: an asyncio event loop, its
threadpool, and threads the features start themselves. Its answers are streams of
server-sent events that take minutes; clients leave in the middle; the history of a
session is read, extended and written back. What is hard here is not the individual
function but who may still be running when the next request comes.

## 1. Inventory

| Component | State it keeps | Operations | What is hard | What makes it correct |
|---|---|---|---|---|
| Session leases, `shared/session_locks.py` | `_held` (holders, since, generation per session), `_generations`, the lease objects | `try_acquire`, `share`, `release` | Leases are released several times, late, after expiry and takeover | The count is that of the unreleased leases of the generation; only expiry takes a session away |
| Streaming responses, `shared/sse.py`, `shared/latency.py` | the lease a response owns | `__call__`, `with_keepalive`, `timed` | The client leaves before the first byte, or in the middle of a wait | The session is freed on every path |
| History store, `shared/conversation_store.py` | rows of turns per session, a revision | load, `add_turn(s)`, redo, clear | Read-modify-write on threads; cut at 20 messages; redo | Whole exchanges, in order, none lost |
| Guest store, `shared/guest_store.py` | sessions in memory with times | load, save, delete, expire | Age and size limits; a load does not renew | A guest's conversation goes only for its age or for want of room, oldest first |
| Guest access and limits, `core/auth.py`, `core/csrf.py`, `core/rate_limit.py` | cookie and secret, turns per guest per day, hits per address and tier | middleware, `consume`, `check`, sweep, login, logout | Edges of sliding windows, sweep, turn spent before a refusal, restart | The windows are exact and a refusal says when a call will pass |
| Database breaker, `shared/db_health.py` | `_retry_at`, `_probing` | `guard` around every call | Overlapping, late and cancelled calls | The probe flag never stays behind; it closes again |
| Chat, `features/chat` | session lease, history | stream, redo, clear | A save that outlives its request | as the store |
| Coding stream, `features/coding/service.py` | queue, `cancel_event`, worker thread | stream, cancel, time out, clear | The thread outlives the request; a late answer | One writer; abandoned runs leave no trace |
| Coding sandbox, `features/coding/execution.py`, `state_runner.py`, `session_state.py` | container, `state.pkl`, `state.json`, status cache | run, time out, kill, save, clear, upload | Kill between two files; clear during a save; cancellation in the loop | Description and variables agree; attempts start alike; the loop ends |
| PDF chat, `features/pdf/service.py` | queue, `cancelled`, worker thread | stream, time out, cancel | as coding, with other timeouts | as coding |
| PDF documents, `features/pdf/router.py`, `service.py` | files, `_doc_cache`, `_suggestions` | upload, delete, read, suggest, summarize | Parse or model call overlaps a replacement; failed replacement | What is derived from a file is derived from the present file |
| Research and deep dive, `features/research/service.py` | worker thread, lease, history | stream, save, cancel | Saves after the last event | as chat |
| Research agent, `features/research/agent.py`, `synthesizer.py`, `grounding.py` | sources, rounds, what is handed to the store; claims of an answer | gate, judge, top-up, search, synthesize, extra rounds, persist; audit of claims | Cancel between steps, writes beside the answer, judge or scorer that fails | What was fetched is stored; an answer goes out with the sources it was written from; clear claims are judged rightly |
| Outside sources, `knowledge_store.py`, `search/academic.py`, `router.py` | client and pause of the store; arXiv's gate and rest; trending cache | connect, query, insert; search; open the page | Calls admitted before a failure; sleeps that end late; slow fetches | The pause is bounded; arXiv is asked at its pace; one fetch at a time |
| News, `features/news` | `_inflight`, `_last_completed_at`, table of articles | background loop, refresh, done callback | Shared run, callers that leave, cooldown | Single flight; nothing paid twice; cooldown |
| HMER, `features/hmer` | model, GPU lock, guests' images | recognize, explain, prune | Two services, one GPU; prunings on threads overlap | One recognition at a time; the newest images stay |
| Model choice, model list, assistant bubble, `core/llm.py`, `shared/model_guard.py` | settings; one pair per request | list, guard, resolve twice, call | The guard and the call work the model out separately | Nobody gets a model the operator did not choose or list |
| Capabilities, `core/capabilities.py` | one state per capability | `ok`, `failed` | Order of reports | - |
| Start and shutdown, `core/lifespan.py`, the stores' pools | pool, pool lock, tasks | open on first use, startup clean-up, close | Threads and a shielded pipeline that outlive the shutdown | No open pool is forgotten |
| Backups, `src/tools/db_backup.py` | dumps and manifests in a directory | backup, verify, prune, restore | Runs that overlap or die at any step | Every file under a final name restores |
| Frontend, `src/frontend/src` | browser state | pages, hooks | it is the client that leaves and retries | - |
| Deployment, migrations, tools, tests, docs | - | - | - | read as evidence of intent |

**Interactions.** A router asks its service for a lease of the session (409 if it is
busy) and hands it to `LeasedStreamingResponse`, which gives it back when the response
is over. Coding and PDF chat start a worker thread that takes a *share* of the lease,
calls the model, puts events into a queue the coroutine reads, and saves the exchange
itself. Chat, research and deep dive save from the request's coroutine through
`asyncio.to_thread`. Every store call goes through the breaker. DELETE on a session
takes no lease, so it may come between any two steps. The coding agent in the worker
thread starts containers that read and write the session's sandbox. The news scheduler
is a task of its own, joined by whoever asks for a refresh. Before any of this a request
passes the CSRF check, the guests' allowance, the limiter and the model guard; research
and news depend on services outside, each spared in its own way after a failure.

Every hazard found is in `PROJECT.json`, at its line, with the properties that would
catch it going wrong or the reason none does.

## 2. Modules

| Module | Models | Uses |
|---|---|---|
| `SessionMutex` | abstract: per session the set of owners and the time of the hold | |
| `SessionLocks` | `KeyedLockRegistry` and `SessionLease` | refines `SessionMutex` |
| `ConversationStore`, `ConversationStoreProofs` | operators: cut, extend, redo, exchanges | |
| `AgentStream`, `MCAgentStream`, `AgentStreamProofs` | coding stream, PDF chat, PDF summaries: coroutine, worker, queue, leases, history, client | `SessionLocks` (INSTANCE), `ConversationStore` |
| `ChatStream`, `MCChatStream`, `ChatStreamProofs` | chat, research, deep dive: coroutine, save thread, leases, history, client | the same two |
| `CodingRun`, `MCCodingRun`, `CodingRunProofs` | the agent's loop, its containers, the kept variables, clearing | |
| `DbBreaker`, `DbBreakerProofs` | `DbCircuitBreaker`, its callers, a database that goes and returns | |
| `Admission` | CSRF header, owner or guest, allowances, limiter, login routes, restart | |
| `ModelChoice` | guard, resolution and call of a model | |
| `PdfDocs` | files, cache and suggestions of one document name | |
| `GuestStore` | the guests' sessions in memory | |
| `Hmer` | recognizer, GPU queue, guests' images | |
| `Lifespan` | a store's connection pool between startup and shutdown | |
| `Backups` | runs of the backup tool | |
| `NewsRefresh` | scheduler, pipeline, cooldown, callers | |
| `KnowledgeStore` | client, deadlines and pause of the knowledge store | |
| `Searchers` | arXiv's gate and rest, the trending cache | |
| `ResearchRun` | one run of the research agent | |
| `Grounding` | the audit of an answer's claims | |
| `Sandbox` | the cached status of Docker and the runs that rely on it | |
| `MCRequests`, `RequestsProofs` | for TLC, and theorems: `SessionLocks`, `Admission`, `ModelChoice` | |
| `MCStorage`, `StorageProofs` | for TLC, and theorems: `PdfDocs`, `GuestStore`, `Hmer`, `Lifespan`, `Backups` | |
| `MCOutside`, `OutsideProofs` | for TLC, and theorems: `NewsRefresh`, `KnowledgeStore`, `Searchers`, `ResearchRun`, `Grounding`, `Sandbox` | |

The last three `MC` modules put components of one layer beside each other. These share no state, so
an interleaving of their steps shows nothing that one of them alone does not: `part`,
chosen at the start, says which one moves, the others rest at one fixed initial value.
Components that do share state are composed for real: `AgentStream` and `ChatStream`
hold the leases of `SessionLocks` and a history of `ConversationStore`.

How state and actions correspond to the code (the `map` of `PROJECT.json` has the lines):

- **SessionLocks.** `held` is `_held` (`NotHeld` where the dict has no entry), `lease` the
  `SessionLease` objects, `clock` the injected clock. `TryAcquire`, `Share` and `Release`
  are the three methods; `Release` acts on released leases too (`ReleaseAgain`), since the
  dependency, the router's `finally` and the response all call it. A lease object nobody
  refers to any more may be named anew.
- **ConversationStore.** `LastN` is the cut at `MAX_HISTORY`, `Extended` is append-then-cut
  (`add_turns`), `WithoutLastExchange` what a redo removes. A turn is its role and the
  request it belongs to; text is not modelled.
- **AgentStream.** `request[r]` is where the coroutine is, `worker[r]` where the thread is.
  `Begin` takes the lease; `LeaveBeforeStart` is the response that never runs its body;
  `Start` starts the thread with its share, `StartSummary` the summary's, which takes no
  share, saves nothing and may outlive the lease; `Produce`, `FinishAnswer`, `DecideToSave`,
  `ReadTurns`, `WriteTurns`, `EmitDone`, `StopWorker` are the thread, with the two turns
  saved by two calls; `Deliver`, `DeliverLast`, `TimeOut`, `Disconnect` the coroutine.
  `SetCancelled` may come before or after `EndSession`: the inner generator of a response
  that is abandoned is closed later than its outer one. Events emitted after the loop has
  ended are never read. `RefuseInput` is PDF chat's refusal of pinned images. `ClearSession`
  is DELETE.
- **ChatStream.** `saver[r]` is the thread of `asyncio.to_thread`: `LeaveDuringSave` cancels
  the await and not the thread. Requests in `Redo` replace the last exchange of the history
  they read before they called the model.
- **CodingRun.** `agent` is where `CodingAgent.run` is, `container[k]` where `state_runner.main`
  is inside container `k`. `state` and `manifest` are the two files it renames into place one
  after the other. `TimeOut` kills the container wherever it is; in `TimeOutUnkilled`
  `docker kill` fails and the container goes on as an orphan. `ClearState`, `ClearManifest` and
  `ClearStops` are DELETE. Requests of one session follow one another, because their worker
  thread holds the lease (`AgentStream` shows it). The settings are chosen once, at start.
- **DbBreaker.** `tripped` and `wait` are `_retry_at` relative to the clock. `call[c]` is what a
  caller inside `guard` was let through as; `met[c]` what the database was during the call,
  which bounds how it can end: a call fails if it met the database down or, when it began, as many
  calls under way as the pool has connections (`Crowd`, `PoolSize`). `Interrupt` is cancellation or an error that says nothing of
  the database. `reset()` is a hook for tests and left out; a refusal changes nothing.
- **Admission.** `hits` and the spent turns are the limiter's and the quota's lists of times.
  `Enter` is the middleware up to who the caller is, `SpendTurn`/`RefuseTurn` the allowance taken
  there, `HitAccepted`/`HitRefused`/`Unlimited` the limiter, which runs later, once the body is
  read: a turn can be spent for a call that is then refused. `Pass` is time, `Restart` forgets
  every list and, if the secret is random, every cookie. `LookAtTurns` is `_me`, with which `Me`, `Login`
  and `Logout` end: to say what remains it drops the client's turns that are a day old.
- **ModelChoice.** `deployment` is the settings. `Ask` fixes the pair, for guests the route's own;
  `Guard` is `shared/model_guard.py`, `Build` what `get_llm` later makes of the same pair,
  `Invoke` and `Stream` the call, of which only the first reports to the capability registry.
- **PdfDocs.** A content is a model value; `cache` and `suggestions` name the content they
  were derived from. Readers go through `_get_doc` in its two steps (check, then read), askers
  through the model call and store their questions afterwards. An upload whose file cannot be parsed
  ends in two steps: `FailParse` on the thread, then `FailUpload`, which unlinks whatever file has the name
  by then. `delete_pdf` takes no lease.
  Guests' uploads have names of their own and replace nothing, so one name is enough.
- **GuestStore.** `data` is the ordered dict, oldest use first; `Loaded` expires and reads, `Saved`
  expires, writes at the end and drops what no longer fits. A turn is a load, the model's
  answer, and a save; one that fails saves nothing.
- **Hmer.** `waiting` is the queue of the one GPU lock that owner and guests share. `Recognize`
  and `Explain` join it; `LoadFails` is a model that cannot be loaded; a guest's reading then lists,
  sorts and unlinks images in three steps on a thread. When another pruning has removed a listed
  image, the sort fails and the successful recognition ends as a 500.
- **Lifespan.** `thread[t]` is where a caller is in the double-checked `_get_pool`; `Close` and
  `ForgetPool` are `close()`. Workers call while the process is up and, as threads, may go on
  after; the news pipeline is shielded from the cancellation at shutdown and may call after the
  close, which opens a pool again.
- **Backups.** `partial[p]` is the dump a run is writing, `dumps` the files under final names,
  `manifests` their descriptions, `live` what the database holds. `TestRestore` is the
  restore drill, `NameDump` the rename, `RemoveOld` and `UnlinkManifest` the two unlinks of each pruned
  backup, `EndRun` the end of a
  run wherever it is. A restore takes a safety dump first.
- **NewsRefresh.** A task is one run of `_run_refresh_pipeline`: fetch, check against the store,
  summarize, store. Between its end (`finished`) and `over` lies the done callback `OnDone`,
  which the event loop runs before the awaiters. `Refresh` starts or joins; `RefreshNow` is the
  endpoint with its cooldown; `Leave` a client that goes. Names of tasks are recycled. The
  background loop wakes at any time: its interval is not modelled.
- **KnowledgeStore.** `pause` is the time left of `_retry_at`, `asker[a]` the thread inside a call.
  Threads that wait for `_client_lock` connect without looking at the pause again. A refusal
  does not prolong the pause, an insert that fails does not start one, a success does not end it.
- **Searchers.** `EnterGate`, `Stamp`, `LeaveGate` are arXiv's lock, sleep and time stamp;
  `RateLimited` and `RetryLater` the rest after a 429. `OpenPage` and what follows is the trending
  cache, whose next fetch is claimed before the fetch begins.
- **ResearchRun.** `at` is the place in `_run_core`. Sources are bags, since one may be fetched
  twice: `newly` was fetched, `dispatched` given to the writer beside the answer, `handed` to the
  store. An extra round keeps what it has merged to itself (`merged`, from `FillGap`): only when its new
  answer is written does the run adopt both (`Iterate`), and a round that fails is dropped whole
  (`IterateFails`). `output` is the answer with the sources it was written from. `Judge` covers a judge that answers, answers nonsense or does not answer. `RaiseCancel`
  may come at any time; the code reads the flag where `GotoUnlessCancelled` stands.
- **Grounding.** A claim is what each test would say of it. `CheckQuotes`, `CheckRelatedness`,
  `FallBack`, `Downgrade`, `Attach` are the stages in their order; the scorer of two of them may
  give nothing.
- **Sandbox.** `docker` is the truth, the cache and its age are what the code believes.
  `BeginProbe` takes `_status_lock`; daemon and image are asked one after the other, and Docker
  may change in between. A run goes by the cache and may meet another Docker.

Variables that are commented *history variable* record the past for a property and are read
by no guard.

## 3. Runs

Passing runs. States are distinct states found.

| Run | Properties | Bounds, and why they are enough |
|---|---|---|
| `Requests` (118 000 states) | leases: `HoldersMatchShares`, `OnlyExpiryTakesAway`, `ImplementsMutex`; admission: `WindowsHold`, `RetryHonest`; models: `ModelGuard` | 2 sessions, 3 lease objects, age 2, clock to 4: a hold can expire, be taken over and expire again while its first holder still has its lease. 1 client, a window of 2, a day of 3, a sweep every 3rd call, 1 restart: limits are met, and hits leave the window before and after a sweep. 6 settings, 5 deployments: with and without auth and guests, default model listed or not |
| `AgentStream` (100 000) | `OneWriter`, `HistoryIsCommitted`, `AbandonedNeverSaved`, `HeldByTheLiving`, `SessionFreed` | 2 requests on one session, history of 2, queue timeout 1 and lease age 2 of a clock to 2: a worker can outlive its request, time out, be taken over and meet the other's save; a second exchange displaces the first |
| `ChatStream` | `HistoryPaired`, `HistoryIsCommitted`, `SessionFreed` | 2 questions and a redo on one session, history of 4: a redo can overlap both, the cut drops an exchange |
| `DbBreaker` | `ProbingIsJustified`, `Recovers` | 3 callers, one interruptible: a probe, a call from before the outage, and one more; 2 connections, so a third call meets a full pool |
| `Storage` (3.5 million) | PDF: `FreshUnlessExposed`, `AnswersAreCurrent`; guests: `GuestMemory`; HMER: `OneOnGpu`, `NewestImagesStay`; pools: `NoPoolLost`; backups: `GoodBackups` | 3 uploads, one unreadable, a delete, a reader, two askers: every pair overlaps. 3 guests for 2 places, life of 2. 3 readings, listings of 2, keep 1: two prunings overlap. 2 threads and the pipeline, 3 pools. 2 operators, keep 1, 2 seconds: a dump, its prune and a restore overlap |
| `Outside` (776 000) | news: `OneRun`, `EachPaidOnce`, `CooldownHolds`, `PaidIsKept`; knowledge: `PauseIsBounded`; sources: `ArxivSpaced`, `OneFetch`; research: `FetchedIsStored`, `AnswerHasItsSources`, `OneRoundAfterCancel`; audit: `ClearCasesStand`; sandbox: `StatusIsRecent` | 3 articles, cap 2, 2 task names, 2 clients: feeds that repeat a url, exceed the cap, or are empty. 3 threads at the store, pause 5, a call lasts 1: two are inside when one fails. 2 arXiv queries, spacing 2, a sleep 1 late. 2 sources, 2 searches, 2 extra rounds: a source is fetched again. 3 claims, the fewest the fallback looks at. 2 threads at the sandbox, times to 3 |
| `CodingRun` | `ManifestDescribesState`, `OneMoreAfterCancel`, `DebugStartsAlike`, `RunsAreBounded`, `RequestEnds` | one debug round, 2 containers alive at once, 5 contents: an orphan saves while its successor runs and DELETE is under way |

Bounds that the code maintains (length of the history, cap of a run, number of debug rounds) need
no property of their own. Deadlock is checked in `Requests`, `DbBreaker`, `Outside` and
`CodingRun`; in `Outside` a research run or an audit that is over may rest. In `AgentStream`,
`ChatStream` and `Storage` every request is made once, so they stop.

Runs that are expected to fail, each stating what a comment or document of the repository says
and the code does not do:

- `SlowStream` (`StreamKeepsSession`): a stream that keeps sending outlives `MAX_LEASE_SECONDS`.
  The timeouts it is compared with in `session_locks.py:28-30` bound one wait, not a stream.
- `LostTurn` (`NoLostTurn`): a client leaves while its exchange is being saved; the lease goes
  back, the thread goes on, and the next request's exchange is overwritten.
- `DbBreakerProbes` (`SingleProbe`): a late failure of a call from before the outage clears the
  probe flag of another call, and a second probe goes through.
- `PdfStale` (`DerivedIsCurrent`): a replacement that cannot be parsed removes the file and leaves
  what was parsed from its predecessor.
- `ResearchTwice` (`StoredOnce`): a source that came from the store is ranked out of the top-up,
  fetched again by the extra round, and handed to the store as new. It needs 3 sources and the
  shipped `RESEARCH_MAX_ITERATIONS=1`.

What the passing properties excuse is written in their comments: a failed write, a DELETE inside a
save, a takeover, a save that outlives its request (`HistoryIsCommitted`); overlapping operations
and failed replacements (`FreshUnlessExposed`, `AnswersAreCurrent`: the two races of `pdf/service.py:88-89`
are in the model, and what the properties show is that nothing else leaves or uses what is stale, and that an
upload or a delete on its own ends it); the instant between the end of a task and its
callback (`CooldownHolds`); a kill between two files or an overlapping DELETE, until the next
complete save or clear (`ManifestDescribesState`); timeouts and clears (`DebugStartsAlike`, where
`state_runner.py:13-14` makes no exception: a timeout may catch a script that has already saved);
the oversleep (`ArxivSpaced`: the spacing counts from the intended wake-up, so two requests may be
closer than 3 s by as much as the first sleep was late); a pool opened again after the shutdown's
close, which is the store's but is closed by nobody (`NoPoolLost`).

Seen while modelling, and not contradicted by a text of the repository or outside its properties:

- With a `GUEST_MODEL` that is neither listed nor the default, each guest call is a 400 after its
  turn was spent. With nothing available, GET /api/models announces a pair the guard may refuse.
- A knowledge-store client whose schema call fails is dropped without being closed.
- The recognizer reports `disabled` for a missing checkpoint, which `capabilities.py:91-94` words
  as "Switched off by configuration".
- A run begun on an outdated "available" ends as a failed script and not as `unavailable`, against
  the docstring at `execution.py:265-271`; "image missing" may be told of a daemon that stopped
  between the two questions.
- The 20 s deadline of `_enrich_web_results` lies inside a `with ThreadPoolExecutor`, whose exit
  waits for the stragglers.
- A cancel that comes while the stored knowledge is being used, or in the last round, still ends
  in `done`. A claim refused because its true quote is beside the point may be taken back by
  the fallback.
- What is written to the database between the safety dump of a restore and the swap is lost.

## 4. Fairness

- Event loop and threads run: an enabled step of a coroutine, a worker, a save thread or a task
  is eventually taken. Model, pip, docker, feed and store calls have timeouts, so their step
  ends one way or the other. This is weak fairness per request and process, never on the choice
  of an outcome.
- A connected client reads what is sent (`Deliver`); otherwise its connection breaks, which is
  `Disconnect`.
- No fairness on what nobody owes: departures, cancellation, DELETE, new requests, time (except
  in `DbBreaker`, whose clock is needed for the cooldown to pass), containers of `CodingRun`,
  whose wait ends by itself or by the timeout.
- `DbBreaker` assumes callers keep coming (weak fairness of admission) and strong fairness of
  `Answer`: a call on a database that is up is not interrupted for ever. `Recovers` is
  conditional on the database coming back for good and on the pool being crowded no more: as long as
  calls time out on a full pool, the breaker trips again, rightly.
- In `AgentStream` and `ChatStream`, time does not pass a due timeout, an event ready to send, or
  a response that has its lease and has not begun: these take milliseconds and the clock counts
  minutes. `KnowledgeStore`, `Searchers` and `Sandbox` bound time in the same way by the deadlines
  of the calls in progress.
- `MCOutside` states weak fairness of each news task, where the news are what moves. The other
  components of the three joint runs claim safety only and state no fairness.

## 5. Proofs

All constants are arbitrary within the named assumptions of the modules, which say no more than that
sets are finite where they are counted and that limits and times are numbers. Each theorem below is
`Spec => []Inv` (or `Spec => [][A]_vars`) for the property in brackets, which a run checks too, except
for the types (`TypeOK`) of the leases and the breaker, `AwaitedIsAnswered` and `ChatStream`'s `HeldByTheLiving`:
these stand on their proofs alone.

**`RequestsProofs`.**

- *Leases.* `TypeCorrect`, `HoldersCounted` (`HoldersMatchShares`). The count alone is not inductive: a
  release of an old generation could hit a new entry with the same number. `Stamped` says that every
  unreleased lease and every entry carries a generation that has been drawn already, and that only an
  absent entry has generation 0, so a new hold shares its generation with no older lease; the
  cardinalities change by one per share or release. `NothingElseTakesAway` (`OnlyExpiryTakesAway`)
  follows from the same invariant. `RegistryImplementsMutex`: under `owners = the unreleased leases of
  the present generation`, the initial state maps to the initial state of `SessionMutex` and every step
  to one of its steps or a stutter.
- *Admission.* `LimitsHold` (`WindowsHold`) and `PromisesKept` (`RetryHonest`). What a limiter or a purse
  counts is the end of the log of what it let through; what it has forgotten is a window or a day old, and
  the log is in order (`Ledger`). So a full window in the log would be a full count. A refusal's time
  is not before the oldest counted one is old enough (`Kept`). A sweep and the exact edge of
  the window rest on one lemma about dropping what is old (`LedgerPruned`).
- *Models.* `ModelsGuarded` (`ModelGuard`): the guard and the call resolve the same pair alike, in each
  stage of a request.

**`ConversationStoreProofs`** holds no property of a run but what the two stream proofs rest on: a cut
of a cut is the shorter cut (`LastN`), and saving an exchange, by one call or by two with a cut after
each, gives the cut of one more exchange. None of it needs induction: exchanges are a function of the
position, two turns each.

**`ChatStreamProofs`.**

- `CommittedIsStored` (`HistoryIsCommitted`): while a session is neither cleared, taken over nor entered
  under a save, at most one of its requests can still write (`OneActive`, from leases whose
  generations are never drawn twice), what that one has read is what is there (`SeenIsThere`), and
  what is there is the cut of what was committed, redo included.
- `BusyMeansLeased` (`HeldByTheLiving`): the hold of a session is that of a request still on its way. A
  request that is done has given its lease back, and the only request that could leave a hold of its
  generation behind is itself, since a generation is one lease's for ever. So nothing leaks a lease;
  that the request then moves on, which makes it `SessionFreed`, is left to fairness.
- `PairsStayTogether` (`HistoryPaired`): every history, and whatever a request will add to, is whole
  exchanges, with no exception for takeovers or DELETE. It assumes that `MAX_HISTORY` is even, as the
  default 20 is; with an odd setting the cut keeps an answer without its question, and the property
  is false.

**`AgentStreamProofs`.**

- `WritersTakeTurns` (`OneWriter`): two workers are never both between deciding to save and having saved on
  one session, unless one was taken over. A generation belongs to one request for ever and a worker's
  share has that of its own request (`Stamped`), a worker at work has not given its share back
  (`Staged`), and, what makes the second of these inductive, a response that has not begun still holds
  its session, since no time passes between its lease and its first byte (`Holding`). Two workers at
  work that were not taken over would both have the session's present generation, which is one
  request's.
- `AbandonedLeaveNoTrace` (`AbandonedNeverSaved`). Histories alone are not enough: another worker may have
  read a turn and write it back later. Every turn in a history or in what a worker has read is of a
  worker that has come to its first write and was not abandoned (`Traceless`), and an abandoned one
  never comes to it (`AbandonedStops`).
- `SavedInTurn` (`HistoryIsCommitted`): an exchange is saved by two calls, each of which reads, cuts and
  writes. The holders of a session are the unreleased shares of its generation (`HoldersCounted`), a
  session that was not spoiled has been taken over from nobody who works (`NotTakenOver`), so one worker
  at a time has it. Then the history is the cut of the saved exchanges, or that and the question of the
  one request between its two calls (`Stored`), and what was read is still there (`SnapshotsThere`).
- `BusyMeansAlive` (`HeldByTheLiving`): the same as in `ChatStream`, for two kinds of holders. The request or the
  worker may be the last to give its share back, so the count must be right for the entry to go with it
  (`HoldersCounted`). `HeldIInv` adds that an entry counts at least one, that its generation is one request's,
  and that a share a request has not given back is that of one on its way (`OnItsWay`). So one of the
  entry's shares is not given back, and that one has a living owner.

**`CodingRunProofs`** over one invariant: where the agent and its containers are, what a cancel leaves
it to start (`LastContainer`), that an undisturbed request has no container but its current one
(`OwnOnly`) and has saved nothing before the attempt that succeeds (`Alike`). `ManifestDescribed`
(`ManifestDescribesState`), `CancelledRunStops` (`OneMoreAfterCancel`), `AttemptsStartAlike`
(`DebugStartsAlike`).

`RunsBounded` (`RunsAreBounded`) is the measure by which `RequestEnds` holds: `RunsLeft` is the number of
containers a request may still start; a start takes one, nothing gives one back, and it is between 0 and
`MAX_DEBUG_ITER + 3`. It is such a number because no round begins at the limit (`Budgeted`); an installation
that works runs the code again without a round, and is paid for by `auto_installed`.

**`DbBreakerProofs`.** `TypeCorrect` and `ProbingAlwaysJustified` (`ProbingIsJustified`): the flag is only
set with the breaker tripped and by a caller that is a probe until it clears the flag itself; any
other outcome clears it for everybody. The property is inductive together with the types.

**`StorageProofs`.**

- *PDF documents.* `DerivedStaysFresh` (`FreshUnlessExposed`) and `RequestsGetTheFile`
  (`AnswersAreCurrent`). `exposed` marks a history in which operations overlapped or a replacement
  failed. As long as it is not set, an operation under way is alone, and `Sheltered` says what each
  may then hold: the content of the file it found.
- *Recognizer.* `GpuIsShared` (`OneOnGpu`): the queue holds exactly the calls that wait for the GPU or are
  on it, each once, and only its first is on it. `GuestImagesKept` (`NewestImagesStay`): an image a
  thread is about to remove had `KeepImages` newer ones when it was listed, and newer ones only come.
- *Pools.* `PoolsAreKept` (`NoPoolLost`): the lock admits one creator, a creator opens only while none is
  published, and a pool is closed before it is forgotten.
- *Backups.* `BackupsGood` (`GoodBackups`): runs under way differ in command or second (`JobsDiffer`), a name
  is given once (`NamesNew`), what has a name is whole (`Whole`) and as its manifest says, which is
  written before the name is given (`Described`), and only what has a newer one is removed (`Kept`).
- *Guests.* `GuestsRemembered` (`GuestMemory`): the table has each guest once and in the order of use
  (`Table`), so the entries `_expire` drops, the first ones up to the first that may stay, are just
  those too old and the oldest of too many. The number it drops is a least number; that every set of
  numbers has one is taken from the library's theorem about well-founded sets.

**`OutsideProofs`.**

- *News.* `SingleFlight` (`OneRun`), `PaidOnce` (`EachPaidOnce`), `AwaitersAnswered` (`AwaitedIsAnswered`) and
  `ClientsKeepCooldown` (`CooldownHolds`). `OneRun` is not inductive: a running task that `_inflight` does
  not name could be joined by a second. The invariant adds that every task that is running is the one in
  `_inflight`, and that `since` is at most the time since the last end unless a callback is due. On it
  rest the other two. What deduplication and the check against the store leave is `Picked` at some
  positions of the list: that it has each of those elements once and no other (`PickedChooses`,
  `PickedOnce`) is shown by induction over its length, on the least number for which it is not so, from
  the library's theorem about well-founded sets. So a batch has no article twice (`Paid`), and it stays new,
  since the one run is the only one that stores. A task that is over has an outcome until its name is used
  again, which nobody does who sees it awaited (`Informed`).
- *Knowledge store.* `PauseBounded` (`PauseIsBounded`). In a pause, whoever may still fail has a budget:
  the time refused so far and what is left of the call fit into the bound; while the client is not open,
  those queued for it take theirs one after the other (`Budgeted`).
- *Sources.* `ArxivIsSpared` (`ArxivSpaced`): one query is in the gate and what it sleeps covers what is
  missing of the distance. `TrendingFetchedOnce` (`OneFetch`): a fetch is not older than its time limit and
  the claim it made outlasts that limit.
- *Research run.* `FetchedGoesToStore` (`FetchedIsStored`): the invariant keeps, stage by stage, that
  nothing is handed before the search (`NothingYet`), that a run answered from the store fetched nothing
  (`StoreSuffices`), and that what is handed is what was dispatched (`Handing`, `Handed`).
  `CancelStopsSearching` (`OneRoundAfterCancel`): a round in progress is the only one that ends after a
  cancel. `AnswersRestOnTheirSources` (`AnswerHasItsSources`): from the first answer on, the answer's sources
  are the run's, whatever a round under way has merged, and each was stored before or is counted as fetched
  (`Sourced`); at the end what was fetched has been handed over (`Handed`).
- *Audit.* `ClaimsShownRightly` (`ClearCasesStand`): after each stage the grounded claims are those the
  tests so far have left, and what is shown is those.
- *Sandbox.* `StatusTold` (`StatusIsRecent`): what a probe has seen was so no longer ago than its command
  runs (`ProbeRecent`), what the cache holds no longer ago than its age and one command (`CacheRecent`).

Model-checked only:

- liveness (`SessionFreed`, `Recovers`, `PaidIsKept`, `RequestEnds`), which the prover cannot do;
- the types of `AgentStream`, `CodingRun` and the others have no theorem of their own where the
  invariant of a proof contains them (`Typed`, `StreamTyped`, `RunTyped`, ...).

## 6. Plan

The order of the work was: leases and streams; breaker, PDF documents, news and the coding loop;
the research run with its store, sources and audit; the bounded resources of memory (limits, guests,
GPU, pools); the backup tool; proofs along the way. What would come next:

1. `Capabilities`: the order of reports of several threads against what /health shows.
2. Two sessions in `CodingRun`, whose containers can get one name (`execution.py:308,325`).
3. The remaining search clients and the deadline and grace of the parallel gathering, as a
   module that `ResearchRun` refines.
4. Proofs: the measures of the other liveness properties. An abstract history (append, cut, clear)
   that the two streams refine while nothing is taken over would say no more than
   `HistoryIsCommitted`, which names the cut that is there.

## 7. Not modelled

- The limitations and the cap on the confidence that `agent.py:708-719` adds to an answer: one assignment on
  the way to `done`, which no order of steps can miss.
- Prompts, parsing of model output, ranking, citation and text matching, scores, table previews,
  path validation, docker arguments: functions of their input, without state. The language models,
  docker, feeds, PostgreSQL's own commands and the database engine are external and appear as what
  they may answer.
- Keep-alive comments, latency logs, the revision counter (increased with every write of the history,
  returned with it and compared by nobody), SQL, schema, and clean-up at boot.
- `RATE_LIMIT_ENABLED=false` and `RESEARCH_SUFFICIENCY_ENABLED=false`: the checks they switch off
  are what the models are about. Cookie signatures are reduced to whether a token verifies.
- Other search clients than arXiv keep no state between calls that a property is about; the
  capability registry is modelled only where the recognizer and the model call report to it; the
  guests' old uploads are removed by age, like the images of `Hmer`; the owner's gallery of images,
  uploads and the listing of artifacts write and list files and have no order to keep.
- Names of containers: two sessions that run the same code in the same second collide, which needs
  two sessions and the clock. Two backups of one kind in one second share their file names.
- More than one process: leases and breaker are per process, and the code says it runs one worker.
- Frontend, deployment, migrations and tests.
