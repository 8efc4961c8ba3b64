# Objective: formal models

TLA+ models of the Objective daemon (`src/crates/*`, a Rust workspace): modules
translated from the code, TLC configurations that check them on small
instances, and theorems about them that TLAPS checks for every value of the
constants. `PROJECT.json` lists the components, the runs, the mutants that show
each property can fail, the source lines behind each definition, the findings
and the hazards.

## 1. The system

One process (`objective/src/app.rs`, `serve`) runs a set of tokio tasks that
share an in-memory message bus and a data directory:

| component | state | operations | interacts with |
|---|---|---|---|
| message bus (`message-bus`) | an append-only log | `publish`, `events` | every reader polls it with an index of its own |
| pipeline worker (`objective/pipeline.rs`) | `last_index` into the log | a cycle every 5 s: retry due jobs, dispatch new events | bus, retry queue, archive, event engine, monitoring |
| retry queue (`store/retry_queue.rs`) | files in `queue/retry`, `queue/dead-letter` | `enqueue`, `ready_jobs`, `complete`, `re_enqueue`, `move_to_dead_letter` | called by the pipeline worker |
| model slot (`model-runtime` queue, state, local) | semaphore, two atomic counters, a locked state | `infer`: acquire, call, release | extraction calls it, with a timeout of its own |
| event correlation (`correlation`) | the engine's cache; a map and `events.json` | `ingest`, `run_maintenance`, `save_event`, `replace_all` | pipeline worker; the API's resolve route writes the same repository |
| scheduler (`scheduler`) | per job: enabled, last and next trigger, count; a state file | `start`, `stop`, tick, `set_job_enabled`, `trigger_job` | publishes on the bus |
| recovery, monitoring (`store`) | health status and metrics, two files | periodic and forced checks, counters | reads what the pipeline worker records |
| plugin host (`plugin-host`) | plugin status, a cursor | route, dispatch, health tick, restart | bus |
| broadcast, audio (`broadcast`, `audio`) | a cursor each, stores of results | generate on trigger, render on broadcast | bus, external speech programs |
| WebSocket hub (`api-gateway/ws.rs`) | clients, subscriptions, a cursor | subscribe, deliver | bus |
| source registry, ingestion (`ingestion`) | map of sources, a file, adapter tasks | add, update, remove, reload, poll | archive, API |
| archive, runtime store (`store/lib.rs`) | documents, claims, entities as files | save, list, replace | pipeline, API |
| API routes (`api-gateway/routes`) | none | merge entities, resolve events, reload the runtime | the stores above |
| snapshots (`store/snapshot.rs`) | directories of copies | create, list, restore | pipeline worker |

What is hard here is less parallel computation than durability and staleness:
files are removed before they are rewritten, caches and copies are written back
after others have changed the original, locks are dropped between a read and
the write that depends on it, cursors move before the work is done, and the
process may be killed at any of these steps. The correctness properties are, per
component: an event handed to the worker is finished, given up after a known
number of tries, or lost only to a fault; permits and counters of a slot are
conserved whichever way a call ends; what the event engine acknowledged is kept
and no event vanishes; a scheduled slot fires once, and a due job does fire; the
recovery's history is a chain and a stall is noticed; each reader of the bus sees
every event once and in order; what is announced as saved is on disk; the
registry's file follows the registry; the runtime that is shown is the one that
answers; a list that is rewritten loses nothing but what the rewriting raced
with; and the builds with and without the external databases answer alike.
The hazards, each at its line, are in `PROJECT.json`.

## 2. Modules

| module | models | composed with |
|---|---|---|
| `RetryQueue` | the two directories and the queue's methods as operators | extended by `PipelineWorker` |
| `PipelineWorker` | the worker's task, the bus, crashes | implements `JobLifecycle` |
| `JobLifecycle` | abstract: what becomes of one event | refined by `PipelineWorker` |
| `SlotQueue` | one model slot and its callers | - |
| `EventRepository` | map, `events.json`, the shared temporary file | extended by `EventEngine` |
| `EventEngine` | the engine, its cache, the clients that resolve events | - |
| `Scheduler` | the loop(s), the state file, the interface, restarts | - |
| `Monitoring` | the two counters the recovery judges by | extended by `Recovery` |
| `Recovery` | the loop, clients that force checks, the state and its file | - |
| `MessageBus` | the log and what an index into it reads | extended by the readers below |
| `Broadcasting` | the broadcast and the audio service and their repositories | `BusReaders` |
| `WebSocketHub` | the poller, the bounded channel, the connections | `BusReaders` |
| `BusReaders` | both on one bus | - |
| `PluginHost` | routing, starts, health, restarts, the state file | - |
| `Options` | optional values, tables by key (`Put`), filter (`Filtered`) | `Normalizer`, `Extraction`, `RuntimeMetrics`, the two stores |
| `SourceRegistry` | the map of sources, its file, the requests that change it | `Ingestion`, `Gateway` |
| `Normalizer`, `FeedAdapters`, `ApiAdapters` | pure: what a poll makes of a response | `Ingestion` |
| `Ingestion` | the worker's and triggered polls, the document archive | - |
| `Extraction`, `Inference`, `RuntimeMetrics` | pure: the heuristic, the answers of the runtime, its table of latencies | `RuntimeExtraction` |
| `ModelRuntimeHandle` | the view and the live instance, a reload in steps | `RuntimeExtraction` |
| `RuntimeExtraction` | the worker's extraction cycle, the store's list | `Gateway` |
| `EntityReads` | pure: search, export, entities, claims | `Gateway` |
| `Gateway` | the requests that change something, beside the worker | - |
| `GraphStore`, `VectorStore` | the stub and the database build of each, side by side | `Stores` |
| `Stores` | the startup seed and the callers | - |
| `MC*` | constants for TLC, and mutants that need them | |
| `*Proofs` | theorems and their lemmas | |

Definitions named `X_Something` directly before a definition `X` are mutants:
plausible bugs of that definition, used to show that a property can fail.
Variables under "history" are not in the code; properties and bounds use them.

### RetryQueue, PipelineWorker, JobLifecycle

A directory is a set of jobs; a job's file name is its id `<<ms, attempt>>`, so
two jobs with one id cannot both be in a directory and `Written` replaces. The
clock `now` counts milliseconds; it ticks only while a file bears the present
time or is not due, which loses nothing because no guard looks at it otherwise.
`ev` gives the bus event a job stems from, which the program forgets.

The worker's `pc` marks every await: `StartCycle` takes the snapshot of due
jobs, `TakeRetry` .. `RequeueWrites` retry them one by one, `ReadBus` moves the
cursor, `DispatchReturns` and `EnqueueFailed` go through the new events. The
handlers of events (`run_ingestion`, `run_extraction`, ...) are their outcome,
and `DispatchPublishes` for the events extraction publishes while it runs;
other handlers' publications are covered by `Publish`. Only extraction and
maintenance can return an error, the others log theirs. `Crash` empties the bus
and may leave the file being written torn.

`JobLifecycle` says that an event is submitted, attempted, and finally done,
dead or lost, and given up only after `MaxRetries + 1` attempts. It allows an
attempt of a finished event, since a crash between success and the removal of
the job file repeats it. `ImplementsLifecycle` maps `status` to where the event
is now and `attempts` to the dispatches that returned.

### SlotQueue

A caller's `pc` names its next load, store, lock or await in
`LocalModelRuntime::infer`, `SlotQueue::acquire`, `SlotGuard::release`/`drop`
and the `record_*` methods; `ret` is where `refresh_busy` or `record_released`
returns to. Every atomic operation and every taking of the lock is a step.
Atomics are taken as sequentially consistent. A grant may still be followed by a
drop of the guard by `infer_kind`'s timeout (`InferReturns`, third disjunct),
and the wait itself may be dropped (`CancelWait`). `mark_draining`,
`mark_loading`, `mark_unloading` and `reset` have no caller outside tests, so
the states they set do not occur.

### EventRepository, EventEngine

The repository is a map behind a lock and a file. A flush is four steps
(`Serialize`, `OpenTmp`, `WriteTmp`, `Rename`), because the lock is dropped after
the first and `fs::write` opens, truncates and writes. Writers share the
temporary path: `open` records what an open file has become after another
writer's rename, and a write over other text may leave its end behind (`Torn`).
`FlushFails` is an error of the file system at any of these steps.

`Ingest` reads the cache anew unless that was done within the last second
(`fresh`; `CacheExpires` ends it), `Match` is the body under the cache's lock,
`SaveEvent` inserts and then flushes, `CallReturns` returns what the flush
returned. `Maintain`, `TransitionCache` and `ReplaceAll` are `run_maintenance`.
Similarity is computed with the code's weights in hundredths; how many of a
claim's words are in an event's title and description is a constant (`Words`),
and so is which entity's name is part of another's (`Within`). Ties between
candidates are broken in any order. One task calls the engine, the pipeline
worker; `ingests` gives each created event its id, as a ULID does. Nothing in
the code assigns the statuses Evolving, Archived and Merged. A read error of
`events.json` at the start, which the code treats as an empty file, is not
modelled apart from the torn file.

The clients are calls of `resolve_event`: `GetEvent` copies the event,
`SaveResolved` writes the copy back.

### Scheduler

Time is in minutes. A job's schedule is the set of minutes it matches (`Slots`),
so `NextTriggerAfter` is the search of `cron.rs` with its horizon (366 days in
the code) and its fallback of an hour. `Wake` takes the time before `Lock` takes
the lock; `SkipJob` and `TriggerDue` go through the jobs, in any order, and
`Persist` writes the file in one place, so a crash may tear it. The lock is held
from `Lock` to `Persist`. A publication that fails ends the slot all the same.
Two loops exist after a `Stop` that a `Start` follows before the first loop's
next tick. The daemon itself calls only `start`; `stop`, `set_job_enabled`,
`trigger_job` and `save_state` are public methods and are modelled as such. The
clock is taken not to go backwards.

### Monitoring, Recovery

`Monitoring` keeps the minutes since the pipeline was last active and the errors
it has counted, both capped (`Horizon`, `ErrorCap`) beyond what any comparison
tells apart. A check evaluates the metrics before it takes the lock (`BeginCheck`),
changes the state and writes its file under the lock (`ApplyCheck`: one step,
nobody else sees the lock taken; the write may fail or, with the process, be
torn), and publishes after it (`PublishTransition`, which the bus may refuse). So
a check may be applied after one that began later, by the loop or by `POST
/recovery/check`. The window is one of `ErrorWindows`, chosen at the start: configuration
does not change while the process runs.

### MessageBus, Broadcasting, WebSocketHub, BusReaders

A reader of the bus is an index into an append-only log. A service polls a batch
(`Poll`), goes through it (`Take`), and inserts (`Insert`), writes (`Persist`) and
announces (`Announce`) what it makes; the trigger route makes one at once. The
index moves before the batch is handled, so nothing is repeated, and a failure
skips one event. An insertion that cannot be written stays in memory without an
announcement; a failed publication ends the service's loop. `Delete` is the audio
repository's, which takes its lock twice and never returns. A restart clears log
and indices and loads the files; a torn file is an empty repository.

`PollBus` sends what is new, one message at a time, into a channel of `Capacity`
places; a connection that is overtaken by the ring skips to its oldest place
(`Lag`). `Forward` filters by the connection's channels. Control messages are read
by another task than the one that forwards (`reading`, `open`), which is why a close
is noticed by the forwarding task only at its next write.

### PluginHost

`route_once` reads the bus (`ReadBus`) before it moves the index under its lock
(`TakeBatch`). Each plugin has its turn with the event at the head: `Pass`, when it
does not subscribe by the event's type or the type of its entity, or `Handle`, which
succeeds, fails or exceeds its time; outputs are published before the next turn
(`ActOnOutputs`). `NextEvent` goes on when all have had theirs. Health, starts,
restarts, reloads and repeated registrations interleave with it. `Routers` are the
callers of `route_once`: the daemon has one.

### SourceRegistry, Normalizer, FeedAdapters, ApiAdapters, Ingestion

A change of the registry is four steps: the map changes under its lock, a snapshot
is taken under the lock again, the file is opened and thereby emptied, and filled;
requests interleave between them. Sources are added enabled or not, and an update
changes any of its fields at once. Adapters are functions from what a feed or an API
shows to documents: which entries are dropped or fail the poll, where the URL, the
date and the hash come from. A text is its value and its length (`Size`); hashes are
equal when what is hashed is. `PollAt` is a whole poll; `Outcomes` tabulates it for
all that may have been published, so that it is worked out once, and `PollOf` looks
it up. A poller then saves its documents one by one, each in two steps
(`save_document` looks, then writes), and announces them. The archive is the files
in the order of their writing; `listed` are those `list_documents` gives, the first
of each content hash by path, and as paths end in an id made when the document was
fetched, a new file may come before or behind one with its hash (`NewFile`). A write
may fail and end the poll, or fail while the encoder is dropped, where nobody learns
of it: the file is cut short, renamed and announced (`WriteDocument`), and from then
on the archive cannot be read (`Broken`). The named assumptions only say that lists
are lists and that the types of sources are those of the code.

### Extraction, Inference, RuntimeMetrics, ModelRuntimeHandle, RuntimeExtraction, EntityReads, Gateway

The heuristic gets a document as what the regular expressions capture in it,
sentence by sentence, and does what the code does with the captures: which names
are dropped, merged and typed, which claims and relationships follow. `Inference`
has the answers of the deterministic runtime by kind; `RuntimeMetrics` the table of
a runtime (bounded histogram, counters, percentiles). `Work` is one document of
the extraction cycle: heuristic, a call per kind with its timeouts, the answers
appended, then `Save`. A reload builds an instance, replaces the live one and then
the view, each under its own lock. A merge reads the list, edits the copy and
replaces the list. `EntityReads` are the routes that only read, as functions of
the lists; `ReadersAgree` compares what the list of entities, the summary, the
export, an entity's page and a search for it say of one list: the entities, where
each is first mentioned, how often, and the sums. `ExtractionAssumption` has the
ids of the archived documents distinct, as ULIDs are, and `MetricsAssumption` the
bounds of the histogram in ascending order, as the constant of the code is.

### GraphStore, VectorStore, Stores

Each store exists twice in the code, as a stub in memory and over a database. Both
get the same calls and the properties compare the answers. The seed saves what the
processor finds in each document and goes on when a save fails, be it of an entity,
a claim or a relationship; a restart empties the stubs only. The history says
where the builds may differ: `lostEntities` and `lostClaims` are those the last save of
which failed in Kuzu, `missed` the relationships whose save failed or found an end
missing. A call of `store_vectors` looks for the table (`LookForTable`) before it
creates it or appends (`AddOrCreate`), so two first callers may both find none. Each
call of LanceDB may fail and then leaves the table as it was (`LanceFails`):
connecting, opening the table, which `OpenTable` takes for its absence as the code
does, adding, creating, deleting. `failed` are the ids LanceDB refused or failed to
store last, `left` those of rows from an earlier start or that a deletion did not
delete, `again` those stored while a row of theirs was there. `VectorsAgree` asks of
the first nothing while they are stored, of the second nothing once they are deleted,
and of the third only that they are found. The handle each store keeps (`opened`) is
taken to read the newest version of the table, so all callers share one.

## 3. Runs

| run | instance | shows |
|---|---|---|
| `pipeline` | 3 events, 1 fault, 2 retries, fair | no silent loss, fresh snapshots, one file per event, counted retries, kept dead letters, refinement of `JobLifecycle`, every event settles |
| `slot` | 2 callers, 1 permit, 1 dropped wait, fair | permits and counters are conserved, no counter wraps (`TypeOK`), every call returns |
| `events_durable` | engine alone, 3 ingestions, 1 hour, 2 faults | acknowledged claims are kept, the file is the map and is never torn |
| `events_shared` | engine and 1 client, 2 claims, 2 ingestions | no event leaves the repository |
| `scheduler` | 1 job, 2 loops, 1 manual trigger, 1 fault, 3 minutes, fair | slots fire once, counts are exact, a due job fires |
| `recovery` | 1 loop, 1 client, horizon 3, windows 0 and 2, threshold 1, history of 2, 1 fault, fair | the history chains, a silent pipeline is reported as stalled, one that stays active with few errors as healthy |
| `readers` | 1 trigger, 1 delete, 1 client, capacity 2, 2 control messages, 1 fault, fair | services read in order and once, what is announced is on disk and, without faults, spoken, clients miss nothing they need not |
| `plugins` | an audit log and a re-emitter, 1 router, 1 request, 2 events, 2 faults, fair | events are given once, starts end, errors heal |
| `ingest` | a feed of 4 entries seen through a window of 2, 1 registered name, 1 client with 1 change, 1 trigger, 2 faults, fair | what is announced can be read or was cut short, a poller writes nothing again that is listed, news is archived unless a file is unreadable |
| `gateway` | 2 clients with 2 requests, 2 documents in one cycle, 1 fault | the file holds the registry, the view is the live instance, saved extractions stay and keep what the heuristic relates, merged names are gone, readers agree |
| `stores` | 2 documents seeded, 3 vector stores or deletions by 2 writers (symmetric), 2 failures of the graph's or LanceDB's calls | both builds agree, but for what the properties name |
| `runtime_view` | as `gateway`, no request, no fault | *violation*: see below |

Why these bounds: three events let two fail in one millisecond while a third is
published during a dispatch, and the fault may fall on any step of them. With one
permit a second caller must queue, may time out or be dropped, and may be granted
between the steps of the first one's release; what more callers and permits could do
to the counters is covered by the theorems. Two ingestions and a client are enough
for each order of copy, merge, flush and write-back; a third ingestion makes an
event Active, and two faults let a crash follow a failed write. With slots in two of
three minutes and a horizon of two, the scheduler's run holds a search that finds a
slot and one that falls back, the overlap of two loops and a restart between slots.
In `recovery` a window on either side of the threshold exists, a pipeline can be
idle within the threshold and beyond it, a client's check can overlap the loop's,
and a history of two is truncated. A trigger puts a broadcast's announcement on the
bus, which makes the audio service announce in turn: three events, one more than the
channel's capacity, so a connection can lag. Two plugins share one of two types of
event, one subscribing by event types and one by the type of the entity, and the
latter publishes a third type for what it handles, so a batch may hold two events
and its handling publishes into the next. The feed's second entry is too short, its
third has the first one's text and another link, and its fourth the first one's link
and another text: so polls fail, polls give several documents, duplicates occur by
hash and by URL, a file is hidden behind one with its hash, and the worker and the
trigger overlap in `save_document`. Two faults let a file be cut short and the
process start again over it. Two requests of two clients are each pair of source
change, reload and merge, overlapping or not, around the save of either document.
Two documents with common names, one of them without a relationship's second end,
make the graph builds differ where they can. The batches of vectors hold a repeated
id, two vectors for one id, and two dimensions; two failures let a deletion fail and
what is stored next too.

`MaxEvents`, `MaxFaults`, `MaxFailures`, `MaxCancels`, `MaxIngests`, `MaxHours`, `MaxTime`,
`MaxManual`, `MaxTriggers`, `MaxControls`, `MaxChanges`, `MaxCycles`, `MaxSeeds`,
`MaxStores`, `Horizon`, `ErrorCap`, `CountCap` and `FailureCap` bound nothing but
the instance (the caps are saturations beyond which the code's comparisons no
longer differ). `events_durable` has no client: a client's stale copy may
overwrite a merged claim, which no text in the repository excludes, and two
writers may leave the older of two texts, or a torn one, as the last.

Deadlock is checked for the pipeline, the slot, the engine, the scheduler and the
recovery, which can always begin another step. It is not for the others
(`CHECK_DEADLOCK FALSE`): their instances come to rest when triggers, changes,
documents or seeds are used up, and a plugin host whose state file is torn at the
start does not come up at all.

`runtime_view` refutes `objective/src/app.rs:468`: the publisher "polls the live
`LocalModelRuntime`", but the start builds one instance for the view and another
that answers, so the published table stays empty until somebody reloads.

### Fairness

Liveness assumes what tokio gives: a task that can go on is polled, and timers
fire. These are `WF(Worker)` and `WF(Tick)` of the pipeline, `WF(Continue(c))` of
a caller of the slot (its timeouts are disjuncts), `WF(Loop(l))` of the
scheduler, the recovery's clock and the steps of its checks, each service's
`ServiceStep`, the hub's poller and each connection's forwarding, the plugin
host's router, starts and requests, and the worker's polls. Nobody is obliged to
publish, to call, to cancel, to connect, to change anything or to fail. Weak
fairness suffices but for `SF(TickHealth(p))`: the host's loop alternates between
routing and a health tick when its interval has passed, so the tick is enabled
again and again, between routings, and taken. Faults are bounded; the liveness
properties are about what happens after the last, or name the faults that excuse
it.

## 4. Proofs

For any values of the constants within the named assumptions:

* `PipelineWorkerProofs`: `TypeCorrect`; `SnapshotAlwaysFresh`, by an invariant
  that says where the cursor and the job in hand are and that only the worker
  removes files, of which it writes none that it has yet to retry: a new file
  bears the present time and a due one an earlier time; `DeadLettersAlwaysKept`,
  because a job in hand has a file whose id no dead letter has;
  `AlwaysOneFilePerEvent`, because an event waits on the bus, or has one file, or
  is in hand, and never two of these; `NothingEverLostSilently`, which adds
  that every event that is none of these was finished, buried, or lost to a crash
  or a clobbered name; `RetriesAlwaysCounted`, because the attempt in a file's
  name plus one is at most the tries that were made, which exceed it by at most
  the faults; and `WorkerImplementsLifecycle`, the refinement of `JobLifecycle`:
  what still waits, has a file or is in hand has not been dropped or clobbered,
  so every action is a step of the lifecycle or a stutter.
* `SlotQueueProofs`: `TypeCorrect`, `PermitsAlwaysConserved`,
  `CountersAlwaysExact`, `ConcurrencyAlwaysBounded`, `ActiveAlwaysBounded`. The
  inductive invariant says of each label whether its caller has a permit, and
  that the counters are the cardinalities of two sets of callers; so a load
  before a subtraction never finds 0, and the type invariant (no wrap below
  zero) follows from it rather than the other way round.
* `EventEngineProofs`: `TypeCorrect`; `EventsAlwaysKept`. The invariant says that
  while the cache is in use it has the id of every event in the map, that a batch
  about to be written is covered by it, and that a client's copy is of an event
  that is in the map. With `Alone` (no client, and the marks for an absent and a
  torn file are no stores): `ReplaceAlwaysAtomic`, `AlwaysFlushedAfterWrite`, by
  an invariant that says at each label of a flush what the temporary file and the
  serialised text are, and `AckedAlwaysKept`, which adds that an acknowledged
  claim is in the map, in the cache while that is in use, and in the file.
* `SchedulerProofs`: `TypeCorrect`; `SlotsAlwaysFireOnce`. The invariant says that
  triggered slots are before their job's next trigger and not after the clock,
  and that no loop's time is after the clock. A restart may forget everything,
  but gives each job a next trigger after the clock. The least element of the
  search's finite set comes from the well-foundedness of finite sets.
  `CountsAlwaysExact` adds that the counts in the file are below the history too,
  because the file holds what memory held and the history only grows.
* `RecoveryProofs`: `TypeCorrect`; `HistoryAlwaysChains`, where prepending and
  truncating preserve the chain and the file is an earlier state.
* `BusReadersProofs`: `ServicesReadInOrder`; `AnnouncedStaysOnDisk`, by what each
  label of a service says of its record, its repository and its file;
  `HubSkipsNothing`, by an invariant that ties a connection's position to what it
  was sent and filtered; `NoClientRewinds`, which says of every client, those that
  filter or lag too, that what it was sent are messages of its own time in
  ascending order (`ReceivedInOrder`, no property of the run); and with these and
  what they say of the positions, `TypeCorrect`.
* `PluginHostProofs`: `TypeCorrect`; `GivenAlwaysOnce`, for at most one caller of
  `route_once`. The invariant gives each plugin a cut, the event up to which it has
  been served, which follows from the index, the batch and whether it still waits;
  what it has been given lists exactly the events it subscribes to up to that cut.
  Taking a batch and going on to the next event move nobody's cut; a plugin's turn
  moves its own by one event.

* `DataProofs`, about the modules that work on lists and tables of data: the
  registry, the polls, the gateway and the two stores, for any sources, items,
  documents, answers, extractions, batches and callers.
  * `IngestionTypeCorrect`, `AnnouncedIsArchivedHolds`, `OneCopyPerPollerHolds`. The
    invariant (`IngestionInv`) contains that of the registry, `RegistryInv`: a request
    that runs alone carries what the map holds. It says what a poller in each step
    has in hand: one about to write, that no file of its own has the body, and none
    that is listed the URL, because nobody else writes in its name and a listed
    file is hidden only by one with its hash; one about to announce, that the archive
    has the document, one that `save_document` took for it, or its file cut short. Of
    the files with one hash one is always listed, so what the list does not show has
    no body that is there.
  * `GatewayTypeCorrect`, `FileHoldsRegistryHolds`, `SavedIsKeptHolds`,
    `MergedIsGoneHolds`, `ViewIsLiveHolds` (`GatewayInv`). A reload that is alone has
    swapped in what it is about to show, and every table of latencies adds up
    (`AddsUp`), whatever is observed, because a row is a sum over its buckets.
    Every copy a merge has in hand is a list as the store's is, without the names
    that were gone when it was read, and as long as what had been saved, but for
    what earlier merges overwrote. Every entry keeps the heuristic's
    relationships, and claims if the heuristic found any, as the runtime's are added to
    them and a merge rewrites names and drops only repeated entities.
  * `ReadersAgreeHolds`: on every list the store can hold, the routes' different
    ways of going through it (`Filtered`, concatenations, first mentions) find
    the same entities, each with the same first mention, counts and sums.
  * `GraphsAgreeHolds`, `RelatedAgreeHolds`, by an invariant (`GraphInv`) that relates the
    tables: a row of Kuzu is the stub's as it is stored, unless its last save was
    lost, and Kuzu's edges are exactly the newest relationships in time, until a
    restart adds those of earlier starts; `VectorsAgreeHolds`, by `VectorInv`: what was
    neither refused nor failed is in the table, an id that was not stored again has only
    rows with the stub's vector, and the table has nothing the stub has not but
    what was left there by a restart or a deletion.

  The lists need what induction would give, and the library's induction theorems are
  out of reach (they take an operator). For the prefixes or subsets of one given
  list the least counterexample does: it exists, because the subsets of a finite set
  are well-founded under inclusion (`LeastOfFinite`). `Induction` says that a *set*
  with 0 and the successors of its members has all numbers up to one given, and
  `Recursion` that a step repeated over an interval has a function of its results,
  which is what makes a recursive definition mean something to the provers. From
  these follow, once each, what a filter, a concatenation, a sum and a first
  occurrence are (`FilterUpTo` .. `FilterDistinct`, `FlattenGives`, `SumIs`).

Trying to prove showed three flaws of the models, which were mended. `PollOf` chose
by a `CASE` whose guards overlapped, where the code has an order; the stores' set of
what failed to be saved mixed the names of entities with the texts of claims, so
that a lost claim could excuse an entity of the same text; and a relationship's
save was taken never to fail, which its code can do.

Every invariant that a run checks is a theorem. What stays with TLC is liveness
(`EveryEventSettles`, `EveryCallReturns`, `DueFires`, `StallIsNoticed`, `HealthIsNoticed`,
`AnnouncedIsSpoken`, `EventsReachClients`, `StartsEnd`, `ErrorsHeal`, `NewsIsArchived`):
fairness and `ENABLED` are out of the prover's reach. `RECURSIVE` operators are
too; the modules that theorems are about declare none.

The type invariants are theorems in all eight proof modules, of which the slot's is
also a property of its run; the others are stated (`TypeOK`) and were checked while
the models were built, but are no property of a run. What the two stores' variables
hold is part of `GraphInv` and `VectorInv`.

## 5. Divergences

Where the code does something else than its comments or documents say, or than a
reader would expect, seen while modelling. Only the first is a run of its own
(`runtime_view`); the models contain the others, and the properties are stated so
as to hold beside them.

Pipeline and retry queue

* Two failures in one millisecond share a file (`retry_queue.rs:54`; `:23` "persisted
  as individual JSON files"). A crash between the removal and the write of
  `re_enqueue` forgets the job (`:180`; `:21` "durable").

Model slot

* An idle slot can stay Busy (`state.rs:217`; `:147`), a dropped wait stays counted
  as queued (`queue.rs:111`; `:10`). `record_released` tests for Error on a snapshot
  and writes Ready under a later lock (`state.rs:161`; `:149` "Does not clear
  `Error`"), and `record_acquired` writes Busy over Error (`state.rs:114`; `:108`).

Event correlation

* A resolved event is merged into and is Forming again (`engine.rs:100`;
  `event_correlation.rs:27`). Two writers share a temporary file, which can leave
  `events.json` torn (`store.rs:150`; `:149` "for atomicity"), and may serialise in one
  order and rename in the other (`:147`; `:90` "flushed after every write").
* An ingestion brings the statuses of the cache up to date and saves one event; a
  maintenance within the same second sees no change and writes nothing
  (`engine.rs:175`). A claim that is ingested again is counted again (`:287`);
  without an object it may score below the threshold against its own event and
  found a second one (`:242`).

Scheduler

* A run missed by less than `max_drift` is skipped at the restart
  (`service.rs:107`; `job.rs:18`). A `start` whose announcement the bus refuses
  leaves the running flag set without a loop (`service.rs:138`). `catch_up`
  compares the time since the last trigger with `max_drift` (`:197`) and is read by
  nobody. A crash before the write forgets counts (`:233`; `job.rs:52`). A date that
  does not occur within 366 days is triggered hourly (`cron.rs:66`).

Recovery

* With the defaults (window 60 s, threshold 300 s) a crash cannot be detected, which
  the module's comment describes (`recovery.rs:8`–`17`): it takes errors that count,
  so an activity within the window, and a stall, so none within the threshold.
  Crashed is found only where the window is longer than the threshold. A recovery is
  announced when a stalled or degraded pipeline is well again, although nothing
  crashed (`:11`). Checks that overlap may publish in the other order than they were
  applied, and count one crash twice. The error counter is never reset.

Broadcast, audio, WebSocket

* A text `ping` is ignored (`ws.rs:27`–`28` promises a pong); a welcome and a pong
  go to every client; the channel `system` lets only types that begin with "system"
  through, and no channel has `audio.broadcast.ready`; leaving the last channel
  means receiving everything; a closed connection is forwarded to until the next
  write fails.
* A torn repository file is silently an empty repository. A record that cannot be
  written stays in memory and is never announced. A refused publication ends the
  service's loop for good. The generate request's title and focus are ignored.
  The audio repository's delete waits for a lock it holds; nothing calls it.

Plugin host

* There is no restart with backoff and no crash threshold (`host.rs:4`–`6`,
  `traits.rs:115`). Concurrent calls of `route_once` may take the index back and
  deliver again. Running does not mean that `on_start` succeeded, a plugin in Error
  is still given events, one registered while the host runs stays Validated.

Sources, ingestion, archive

* One entry that is too short fails the whole poll until it has scrolled out. A
  duplicate (equal hash or equal URL, also two absent ones) is reported as saved
  and announced with an id no file has. All events of a GitHub repository share
  its URL, SEC filings of one form theirs: only the first is archived; so is only
  the first document of all sources without URL. Polls that overlap write copies.
* A document's encoder and buffer are finished when they are dropped, where errors
  are ignored (`store/lib.rs:106`–`113`): the file may be cut short, is renamed and
  announced all the same, and every later list, save and extraction fails on it
  (`:134`). `list_documents` hides all but one of the files with one hash
  (`:130`–`142`), so `save_document` does not compare with a hidden copy's URL.
* `persist` may write the older of two snapshots last, or a mixture; a file that
  does not parse is an empty registry at the next start. The daemon passes no
  cursor, and calls neither the schedule nor the rate limits, `health` or
  `fetch_one`. A source that is disabled or removed during its poll is still
  ingested. An update cannot clear a field. The list's `extraction_count` compares
  a source's id with its type. `github_repo`'s `name` is not read. Removed default
  sources are seeded again.

Model runtime, extraction

* The start builds one runtime for the view and another that answers
  (`app.rs:284`; `:468`; run `runtime_view`). Overlapping reloads can leave the two
  different for good, and during a reload old and new instances together allow
  twice the concurrency. `model_runtime.rs:9`–`16` describes an older design;
  `LocalModelRuntime::reload` has no caller.
* The runtime's claims are appended to the heuristic's
  (`runtime_extractor.rs:18`–`20` says they replace them), and so are its entities
  and relationships; `document_count` counts mentions. A call dropped by the outer
  timeout is recorded nowhere, nor is a kind without a strategy; `record_fallback`
  is never called. The deterministic llama handler answers `{}` to kinds its comment
  says are unsupported. An embedding dimension of 0 panics and ends the worker; the
  dimension mismatch `core/types/index.rs` speaks of is never reported.
* A merge of entities loses extractions saved while it ran and may undo a merge
  beside it; merging into a name that does not exist leaves it dangling. Search and
  export read documents and extractions one after the other. A search snippet
  slices the text's bytes at positions of its lowercase form. Resolving a
  contradiction sets `resolved_at` whatever the status; nothing inserts
  contradictions or narratives. `/config` always answers 503. The script parser
  takes a line that begins with a link for a speaker's.

Graph and vector stores

* The stubs are said to preserve the contract (`kuzu/mod.rs:6`, `store/Cargo.toml:17`).
  A relationship saved before its entities stays in the stub and is silently dropped
  by Kuzu, so a failed `save_entity` drops relationships. The stub keeps duplicates
  and returns the first, Kuzu has the newest. Empty texts come back as absent from
  Kuzu. `find_related_entities` may name an entity twice in the stub.
* LanceDB appends where the stub replaces, so `get_vector` may return an older row.
  Two first callers may both create the table, and one's vectors are refused; so
  are vectors of a second dimension, which the stub accepts. An error in opening
  the table is taken for its absence (`lancedb.rs:79`): a deletion then returns `Ok` and
  deletes nothing, a store tries to create what is there. In the daemon only
  the startup seed writes the graph, and nobody writes vectors. The query timeout
  is set on a connection that is dropped at once.

Snapshots

* `scheduler.jobstate` is copied while it may be half written; two snapshots within
  a second share a directory; a failure of the `system.snapshot` handler is only
  logged. `restore` and `list_snapshots` have no caller.

## 6. Plan

Done: retry queue and worker, slot, event engine, scheduler, recovery, the readers
of the bus, plugin host, ingestion, registry, extraction, model runtime, merges,
the two stores, and a theorem for every invariant of the runs. Left, in order of
importance:

1. theorems about the pure modules that no property uses so far: the adapters keep
   order and never make a document of what is too short, the answers of the
   runtime by kind;
2. the cron expressions as functions against a reference calendar, composed with
   `Scheduler`;
3. the worker with the extraction cycle of `RuntimeExtraction` in the place of the
   outcome of a dispatch;
4. a run of `PluginHost` with two routers, for what redelivery then still promises.

## 7. Not modelled

Fetching and parsing of feeds and HTML, prompts, regular expressions, speech
synthesis and recognition, the external model libraries and the NATS client: input
and output, or external programs, with no state of their own that the rest depends
on; models take their results as inputs. Snapshots: a copy of files while others
write them, with no promise of consistency in code or documents. `search_similar`:
ordered by different distances in the two builds, and called by nobody. Types,
defaults and configuration: constants of the models. The dashboard: a view of the
routes. The eight hazards without a property are
divergences above: the models do what the code does there, and nothing weaker that
still says something about them is promised anywhere.
