# Verification of graphrag: models, checks and proofs

graphrag answers questions over a user's documents with an agent that retrieves
from a vector store and a graph. This directory holds TLA+ models of it, the
TLC configurations that check them and TLAPS proofs of what matters most.
Paths below are relative to the repository; `graphrag/` abbreviates
`src/graphrag/`.

Contents: [inventory](#inventory), [modules](#modules), [runs](#runs),
[fairness](#fairness), [proofs](#proofs),
[disagreements](#disagreements-between-text-and-code),
[what the models also show](#what-the-models-also-show),
[not modelled](#what-is-not-modelled), [plan](#plan).

## Inventory

Two kinds of process share Postgres, Redis, a graph store (Neo4j), a vector
store (DuckDB files, Neo4j, or a local file) and a directory of uploads: the
API (one event loop with a thread pool) and, when configured, the Arq worker.
Two companion services, the guard and llmlens, are reached over HTTP.

| Part | State it keeps | Operations | What is hard | Module |
|---|---|---|---|---|
| Ingestion (`api/routers/ingest.py`, `pipelines/ingest.py`, `ingestion/status.py`, `worker.py`) | files rows, stored files, jobs, chunks in two stores | upload, URL, reserve a slot, run, stamp, delete | count-then-insert by two requests; a budget used long after it was read; deletions beside a running job; time-outs and restarts | `Ingest` |
| Chunking, embedding cache (`ingestion/chunking/`, `embeddings/cache.py`) | chunks of one document, cached vectors | route, cut, embed | the last window and the sentence that no longer fits; strategies that could not be built; a batch half from the cache | `Chunking` |
| Graph store, extraction, enrichment (`storage/graph/`, `ingestion/extraction/`, `ingestion/enrich.py`) | chunks, sequence, entities, edges, mentions, summaries | write, merge, delete, replace communities | every query is its own transaction, beside other jobs and deletions | `Knowledge` |
| Shelves, conversations, tenants, purge (`shelves.py`, `api/routers/shelves.py`, `threads.py`, `container.py`, `accounts/purge.py`) | shelf and thread rows, corpora, open files, LRU of tenants | resolve, create, delete, evict, purge | slugs freed and given again; three names for the default shelf; rows and stores in separate steps | `Library` |
| Asking (`api/routers/query.py`, `trace.py`, `api/streaming.py`) | one request; transcript, bill | /query (whole, streamed), /compare, /trace/query | four exits that must each send, keep and charge the same thing; a stream cannot be recalled | `Asking` |
| Agent runner, tools, meter (`agent/graph.py`, `agent/tools.py`, `usage/meter.py`) | compiled agents, collectors, token counts | session, tool calls, totals | tools in threads; agents shared, evicted, with and without memory; two views of one call's tokens | `AgentRun` |
| Review loop (`agent/review/`) | one graph state per question | research, check, widen, revise, finalize | a cycle with a budget; a report that must follow a text that changes | `ReviewLoop` |
| Retrieval (`retrieval/`) | a search; the stamp on its passages | legs, fusion, rerank, gate | scores of different scales; dictionaries shared by searches | `Retrieval` |
| Failover (`llm/`) | failure counts and cooldowns of each chain | order, call, stream, note a failure | counters read and written by threads; a stream that must not be replayed | `Failover` |
| Accounts, keys (`accounts/service.py`, `keys.py`, `api/routers/auth.py`, `admin.py`, `api/deps.py`) | users, one-time codes, sessions, keys, their copies in Redis | sign-up, verify, login, reset, change, revoke | checks repeated in a second transaction without a lock; a cache filled after a revocation | `Accounts` |
| Limits and booking (`limits/`, `usage/recorder.py`) | limit rows, their copy in Redis, window counters, usage rows | effective, check, charge, edit | limits awaited at different moments; tokens known after the answer; half of a charge failing | `Admission` |
| Inspector (`trace/`, `api/routers/trace.py`) | steps, a drain cursor, records in memory and Redis | step, drain, save, read | threads open and close steps while the loop drains; two levels that disagree | `Tracing` |
| Guard service and its client (`integrations/guardrails`, `safety/guardrails.py`) | a verdict cache, a judge chain with permits and a breaker | screen input, screen output | rules, judge, cache and failure mode in one decision; ways out of a chain that hold a permit | `Guard` |
| llmlens (`integrations/llmlens`) | a bounded queue, a Redis stream, two tables | emit, post, consume, claim | retries, lost answers, shutdown, workers that die between two inserts | `Spans` |
| Job store (`jobs.py`) | memory LRU and Redis | set, get | two levels | part of `Ingest` |
| Loaders, OCR, embedding clients | none | conversions | none beyond failing | |
| Application, configuration, CLI, UIs, migrations | none that changes | wiring | | |

The parts meet as follows. A request is let in (`Accounts`), admitted and
charged (`Admission`), names a shelf and a conversation (`Library`), passes the
guard (`Guard`) and the gate (`Retrieval`), runs an agent once or, reviewed,
several times (`AgentRun`, `ReviewLoop`) over a chain of models (`Failover`),
and is sent, kept and booked (`Asking`), traced beside it (`Tracing`, `Spans`).
What it searches was stored by a job (`Ingest`), as chunks (`Chunking`) and as a
graph (`Knowledge`).

`PROJECT.json` lists every part with its status and, under `hazards`, the places
where they could go wrong first, each with the properties that would notice.
Hazards for which there is no property, with the reason:

* `api/routers/ingest.py:186`: a background task dies with the process and its
  row stays at `uploaded`; the code accepts it, the user uploads again.
* `api/routers/shelves.py:296`: the purge of a shelf may fail after or before
  the row that names it is gone; afterwards nothing names the chunks.
* `shelves.py:225`: three names of the default shelf that do not agree (see
  below); nothing true can be stated until that is settled.
* `storage/vector/local_store.py:98`: the file is rewritten from memory, so the
  API and the worker would overwrite each other's chunks. The module says
  "Single-writer by design: the ingest worker writes, the API reloads on file
  change"; `Ingest` keeps one store for both, and deletions by the API, which
  also write, are outside that design.
* `agent/review/graph.py:140`: a second pass fails after the first was drafted
  and paid for; no text promises the first draft.
* `agent/review/graph.py:144`: one passage reaches the evidence by retrieval and
  by the window; no text promises it is listed once.
* `api/streaming.py:171`: an exception, or a client that leaves, skips the
  booking; no text promises the tokens of a failed run.
* `api/routers/trace.py:201`: a traced refusal records its billing step and books
  nothing; `BillCoversCalls` leaves the case out.
* `accounts/service.py:343`: concurrent logins lose an increment of
  `failed_logins`; the lockout comes late, and no text says by how much.
* `accounts/purge.py:134`: Redis is not told of a deleted account;
  `CacheCatchesUp` bounds the answer by the life of the entry.

## Modules

Every module names its state after the code's and has one action per handler,
transaction or step; the `map` of `PROJECT.json` gives the lines. A module's
actions are cut where another actor can run: at an `await`, a commit, a call to
a store, or a return from a thread.

### Ingest (with FileLedger, MCIngest, IngestProofs)

One account. A member of `Docs` is one request and, if it is accepted, one
files row, one stored file and one job: ids and paths carry a fresh uuid, so
the identification loses nothing. The chunks and the storage units of a
document are sets, and every count or sum in the code is a cardinality, so a
document stored or charged twice is counted as the code counts it.

| State | Code |
|---|---|
| `rows`, `shelfOf`, `status`, `charged` | table files: presence, `shelf_id`, `status`, `chunks` |
| `shelves` | table shelves: the slug of each row |
| `lock` | `pg_advisory_xact_lock(hashtext(owner))` |
| `disk` | files under the upload directory |
| `vec`, `graph` | chunks per corpus in the vector and the graph store |
| `jobs` | the status in `JobStore` |
| `reqAt`, `runAt`, `delAt`, `sdelAt` | the await a request, job or deletion is at |
| `budget`, `used`, `stored`, `paths`, `doomed` | locals of a handler that outlive an await |
| `zombies` | jobs whose coroutine Arq cancelled while their thread runs |

One action is what happens between two points where another request, job or
process can run: a transaction, a store call, a file operation. A DELETE that
has not committed keeps others from its rows (`Locked`). The three vector
providers differ in what a deletion removes and whether they can count. A
restart of the API loses its requests, its background tasks and its open
transactions; a restart of the worker runs interrupted jobs again. A stamp may
fail (`StampFails`): `finalize_file` swallows that and the job ends, so the row
keeps what it said; `unstamped` remembers for which jobs that happened.

### ReviewLoop (with MCReviewLoop, ReviewProofs)

One question through the LangGraph state graph: one action per node and
outcome. A text is what the checks can tell of it: the names it cites, whether
it refuses, a length in three classes, whether it is nothing but tags. The
evidence sink, the merge with the window's chunks and the deduplication are
sets of chunks with the way they were found. The agent, the critic and the
reviser may return anything of their type, or fail.

### FileLedger

The promise of the quota: documents are taken one at a time, each only if it
fits. `Ingest` implements it under `rows <- rows`.

### Asking (with MCAsking, AskingProofs)

One request through one of four doors; `at` is the await the handler is at.
`answer` and `sources` are the handler's locals, `reply` what the client has,
`saved` the transcript, `booked` the bill, `events` the stream. An answer is its
kind: the model's text or refusal, the gate's, the guard's, a redaction. Each
model call may or may not report its usage. A traced run has a second coroutine,
`Tick`. Anything before the output guard may raise; a client may leave an open
stream. A traced question blocked at input cannot be answered (`Unsendable`):
its result holds an object that `json.dumps` refuses. Requests of one account
meet only in its counters, which belong to `Admission`, and in the agent runner,
which belongs to `AgentRun`; so one request is enough here.

### AgentRun (composed with Asking in MCAsking; AskingProofs)

The sessions of one runner. `compiled` is the LRU of compiled agents, `KeyOf`
its key, `history` the conversations an agent with memory has written to;
`sink` and `given` are a session's collector and what its tools returned,
`meter` the two views of its tokens and `spent` what the models really used. A
review's two passes share one request. The tools of a turn run in threads, so
their steps interleave; a session may break off anywhere, and its sources are
read at that moment, while the threads that were searching go on and add to the
collector and the meter they were started with.

### Chunking (with EngineProofs)

A document is its length and two sets of tokens: where a sentence ends, and after
which of these the meaning drifts. Its text is the tokens `1 .. Total`, a chunk
an interval of them. Then
"every token is in a chunk" and "no chunk repeats what another holds" are
statements about sets, for the windows of `TokenChunker`, the sentences of
`SemanticChunker` and the pieces of `RecursiveChunker` alike. The splitter
behind the latter is a library's: it may return any pieces in order, one of them
`Excess` tokens too long. `Route` picks a strategy among those that could be
built. `Embed` fills the vectors from the cache and one batch.

### Knowledge (with EngineProofs)

One corpus in Neo4j: `chunk`, `next`, `entity`, `mentions`, `related`,
`summaries`, each query of `neo4j_store.py` a step, an ingest as the pipeline
runs it (delete, upsert, link, extract, add, resolve, merge, communities) beside
a deletion. `alone` and `sound` record whether the last ingest had the corpus to
itself. Names are folded as `enrich.py` folds them: by a union-find over pairs
that contain each other (`Contained`) and, when the embedder answered
(`embedded`), over pairs that are alike (`Alike`); in a graph of more than
`MaxEntities`, 2000 in the code, nothing is compared.

### Library (with MCLibrary, LibraryProofs)

One account's shelves and conversations over the corpora their slugs name, the
tenants and DuckDB handles the process keeps for them, and the two deletions, of
a shelf and of the account. `stored` remembers for which shelf row a thing was
put into a store. `tainted` marks the corpora for which nothing is claimed: a
request was at work on them while they were being deleted, or their purge
failed.

### Accounts and Admission (composed in MCAccounts; AccountsProofs)

`Accounts` is one address: its row, the codes mailed to it, sessions and keys,
and what Redis says of them. A call stops at every transaction boundary and
Redis call; a transaction that writes what it read is two steps (READ COMMITTED)
unless the code locks the row. Time is a choice: whatever has a time to live may
expire at any moment. `Admission` is the same account's limits: global row,
override, the copy in Redis, window counters, usage rows, requests between
`effective()` and their booking, an administrator's edit and its invalidation.
A call to Redis or a row may be lost. Windows roll at any moment: counters start
at zero, and a request that has charged and not yet written its row may have it
dated on either side of the roll (`Rolls`), since `created_at` is the time at
which the row's transaction began.

### Retrieval, Failover, Tracing, Guard (composed with Chunking and Knowledge in MCEngine; EngineProofs)

`Retrieval`: searches of one corpus, legs that fail, fusion by reciprocal ranks
computed as the code does, a chain of rerankers, the stamp on the passages'
metadata and the gate that reads it; with the file store (`SharesMetadata`) the
stamp is shared. `Failover`: a chain of models for each leading model, counters
read in one step and written in another, streams, cooldowns that end, the
administrator's list. `Tracing`: threads that open and close steps while the
event loop drains them, the record in memory and in Redis, the recent index,
the expiry of each, and traced ingests; a run that fails ends while threads of
it have open steps, and `before` is what the steps were then. `Guard`: a
question or an answer through rules, cache, judge chain and failure mode, with
the client in graphrag that may give up earlier; risk is one category, in
hundredths. The cache is looked up by `Key`, which texts may share, while rules
are applied to the text. A link that fails with a `JudgeError` hands on to the
next; any other exception leaves the service as a 500 (`LinkRaises`), which the
client takes for an outage (`ReceiveError`).

### Spans (with SpansProofs)

Spans from the SDK's queue through batches and retries to the endpoint, the
Redis stream, the consumer group and two inserts. Requests and answers get lost,
the program exits, workers die and come back under another name. A span that is
`Malformed` is dropped and acknowledged; of one that is `Poison` no row can be
made, and it fails the batch it is in each time (`Unwritable`).

### Keeping (with KeepingProofs)

`Keep(s, S)` is the list `[x for x in s if x in S]`: a cache without an evicted
entry, a batch's misses, a chain without the members that cool. The community
modules' filters are recursive operators, which no proof can reach; this one is
a recursive function.

## Runs

| Run | Instance | Shows |
|---|---|---|
| `IngestQuota` | 3 documents, one from a request and two from URLs, room for 2; failures, one deletion, one restart | `QuotaRespected`, `RefusedLeavesNothing`, and that `Ingest` implements `FileLedger` (`Reserves`) |
| `IngestWorker` | 2 documents, the worker with 2 slots on Neo4j; time-outs, failures, one restart of either process | `IngestedIsStored`, `StampAgrees` |
| `IngestLive` | 2 documents in process on DuckDB, a shelf deleted under them; failures; fairness | `CorpusCeiling`, `AcceptedRowHasFile`, `EveryUploadSettles` |
| `ReviewLoop` | 3 chunks of 2 documents, a graph label, an invented name; 2 extra passes | `WorstCase`, `ReportDescribesAnswer`, `RevisedIsHonest`, `CitableNeverShrinks` |
| `Asking` | every door with up to 3 model calls; or the two passes of a review beside another question, 2 tool calls in a turn, a cache of one agent | `SavedIsSent`, `RefusalShipsNothing`, `GuardDecides`, `EventOrder`, `BillCoversCalls`; `EvidenceIsOwn`, `AgentFits`, `EveryCallIsMetered` |
| `Accounts` | any two calls of an account's life; or two questions beside one edit of its limits, with windows that roll; or the same with one fault | `CodesHold`, `SweptStayOut`, `CacheCatchesUp`; `CountersHold`, `LimitsCatchUp` |
| `Library` | two requests, the default shelf and one named one at a time, whose name is freed and given again, one conversation, one failing purge | `MemoryFollowsShelf`, `NothingStranded` |
| `Engine` | one of: texts of up to 6 tokens, cut into sentences in every way, by every strategy; an ingest and a deletion of 2 documents with 4 entities, where 4 are too many to compare; 2 calls on 2 chains; 2 searches of 2 passages; 2 tracing threads; 2 checks sharing one judge, of a question and two answers with one key | `ChunksAreTheText`, `FitsEmbedder`; `GraphFollowsDocuments`, `IngestAloneRepairs`; `CallersAreNotMisled`, `DeadIsProbedOnce`; `GateJudgesRelevance`; `ClientSeesEveryEnd`, `TracesStayPrivate`; `RiskOnlyRises`, `UnjudgedNeverPasses` |
| `Spans` | 3 events, one malformed and one that cannot be written, 2 workers, a queue of one, 2 faults; fairness | `NothingVanishes`, `AcceptedArrives` |
| `IngestAccountCeiling`, `AskingTraced`, `RetrievalGate` | small instances | one disagreement each, see below |

`Engine`, `Asking` and `Accounts` put independent components side by side: a
variable `part` chooses which of them a behaviour is about, and the others rest.
Nothing is composed by it; the state spaces add up. `INIT`/`NEXT` are given
where every property is about states or steps.

Why the bounds are enough:

* A reservation race needs two requests; the third document makes the table
  full for one of them while another deletes. Sizes are 2, 2 and 1 units
  against 3, so storage and count bind in different runs of the same instance.
  Chunks are empty there (scans without text), since the quota does not read
  them, and the job's branch for such a document is taken.
* A ceiling race needs two jobs of one corpus, or two shelves; a corpus with
  room for one document refuses the second.
* One restart reaches every state a restart can leave behind; a second one
  repeats the first's effect from such a state. `MaxCrashes` is the bound.
* Two extra passes are the first number for which a window is overwritten and
  evidence of two earlier passes must survive; the theorems cover any number.
* Three calls are a probe, a turn that picks a tool and a turn that answers
  (`MaxCalls`; the theorems cover any number). `MaxSpent` bounds the calls of a
  review and of a question, `MaxIterations` the turns of a session.
* Calls of an account share rows and Redis entries pairwise; the first state is
  any a call can leave, so two calls stand for a long life (`MaxCodes` bounds
  codes ever mailed, `Threshold` and `MaxAttempts` are 1: the boundary is met at
  once). Two questions overrun a limit of one; one edit and one fault
  (`MaxEdits`, `MaxFaults`) are the first numbers at which a stale copy exists.
  `MCAccounts` has three parts: the account's life, its limits under a clock
  that turns days and months, and its limits under a fault. Rolling and failing
  are kept apart because `CountersHold` speaks of behaviours without faults only
  and `LimitsCatchUp` reads nothing a roll changes; the theorem has both at once.
* Two shelves of the account's own at a time (`MaxShelves` counts the default
  one) have more states than a run can visit; they are left to the theorems.
* Four names of which three may be compared (`MaxEntities`) put the graph on
  both sides of the cap: both documents are above it, either one below.
* Windows of 2 tokens with an overlap of 1, texts of up to six tokens
  (`MaxLength`) with sentences of every length: some that fit, one that does not,
  and a tail shorter than the overlap. The theorems cover any text.
* Two failures open a breaker (`MaxFailures`); two callers lose an increment.
  A stream of two tokens (`MaxStreamed`) can mix two members. Two steps
  (`MaxSteps`) put one behind another that is still open. One permit
  (`MaxJudge`) is the case in which a lost one stops the judge. One question that
  the rules stop, and two answers with one key of which they flag one, are the
  ways a text can meet the cache; `Verdicts` has a score below and one above the
  block.
* Two workers and two faults: one dies, its replacement meets a failed insert.
  One event of each kind is enough for a good one to share its batch with each.

`CHECK_DEADLOCK FALSE` stands where the system rests when its requests and jobs
have ended: everywhere but in `ReviewLoop`. `SYMMETRY` exchanges values the
configuration does not tell apart (in `Engine` only the two checks, since the
other values are strings or differ); the runs with a liveness property use none.

## Fairness

`IngestLive`: weak fairness of each request, of each job, and of each deletion,
once started. The event loop and the thread pool run every ready coroutine and
thread, Postgres grants a lock to every waiter in the end, and the ingest
semaphore is first come, first served. Two documents share one slot, so weak
fairness is enough: the holder leaves it and the other's step stays enabled. New
requests, deletions, time-outs and restarts are never assumed to happen. The run
allows no restart: after one, an in-process job is gone and its row stays at
`uploaded`, which the code accepts.

`Accounts`: a call that began is run to its end; Redis drops an entry whose time
to live is over; an administrator's request gets to its invalidation. Nobody has
to call, so the copies must become true without help. Expiry is assumed of each
entry; the mutants that refresh entries instead break the property.

`Spans`: a worker that has read goes on, and one that died is started again
(`restart: unless-stopped`): weak fairness of its writes, its acknowledgement
and its restart; failing a batch with a `Poison` event counts as its write. Its
loop reads and claims by turns, so that neither keeps the other from happening;
each is disabled while a batch is in hand, hence strong fairness of both.
Nothing is assumed of the program, its exporter or the endpoint, and faults are
bounded, so they end.

The other runs state safety only. That the review loop ends follows from its
budget: it has no step that does not count.

## Proofs

Every safety property that a passing run checks is also a theorem about the
module's specification, for every value of the constants the module's assumptions
allow. The proofs are in eight modules. A property is seldom inductive as it
stands; the paragraphs below name the invariant that is, and why it is needed.

The assumptions state what the code guarantees:

| Assumption | Says |
|---|---|
| `SetsAssumption`, `SizesAssumption`, `DeploymentAssumption` | documents are finitely many, share no chunk and no bytes, null values are no ids, limits are natural numbers; the worker refuses DuckDB, and a process without it has one ingest slot |
| `TextsAssumption`, `BoundsAssumption`, `MaxCallsAssumption` | a text is what the checks can tell of it; budgets are natural numbers |
| `SessionAssumption` | a session has one request; a turn and a cached agent are allowed at least |
| `AttemptsAssumption`, `RegistrationAssumption`, `IdsAssumption` | a code allows one guess at least; sign-up is open or not; sessions are named apart |
| `DefaultsAssumption`, `PatchesAssumption`, `AdmissionAssumption` | limits are natural numbers, set or inherited; slots are finitely many; a question costs a token at least |
| `ChunkingAssumption` | the overlap is below the window, the least size within the largest |
| `SaysAssumption`, `PiecesAssumption`, `NamesAssumption` | a relation is between entities of its chunk; chunks of documents are apart and in order; entities are finitely many |
| `FailoverAssumption` | the default model is usable, callers are finitely many, a breaker needs a failure |
| `RetrievalAssumption`, `TracingAssumption`, `GuardAssumption` | sizes are positive, modes are those the settings admit, every trace has an owner, the judge chain has a link, a question and an answer never share a verdict |
| `LibraryAssumption`, `SpansAssumption` | slugs are apart and none is the default corpus; queues and batches hold one at least; an event that cannot be decoded is not one that cannot be written |

**KeepingProofs** has what the others share. `SetInduction` is induction over the
natural numbers, stated of a set instead of an operator: a set that holds 0 and
the successor of whatever it holds. With it `Keep` is shown to exist and to
select in order (`KeepsUpToExists`, `KeepLeaves`); `KeepRange`, `KeepInjective`
and `KeepParts` say what a filtered list holds, that it repeats nothing its list
does not, and what two of them hold one after the other.

**IngestProofs.** `TypeCorrect` is by cases on the actions. `QuotaHolds`: the
quota is not inductive alone, since a request inserts on figures it read a step
earlier. `CountedUnderLock` says that whoever is about to insert holds the lock
and that its figures bound the table from above; only the holder inserts and
everybody else can only delete. `LedgerRefined` takes the same invariant: the
only step that adds a row is `ReserveFileSlot`, whose figures make FileLedger's
guard true of the real table. `CeilingHolds` (DuckDB, in process): `CeilingInv`
adds that no request past the budget step carries a zero budget (`Budgeted`),
jobs belong to accepted requests (`JobsAccepted`), at most one job is in the
pipeline (`OneInPipeline`), and a job past the check still fits
(`CheckedHasRoom`).
`RefusalIsClean` and `RowsKeepFiles` are from `FilesInv`: where a request is
decides what it may have. A row means the insertion is behind it
(`RowsArePast`), a file that the fetch is (`DiskAfterFetch`, `Fetched`), and a row
handed to a job has its file (`Written`); the two deletions come to a file only
when its row is gone or goes with them (`Leaving`, `Listed`), which is what a
path read long before needs. `StampsHold`: `Stamped` ties a row's status and
charge to the job's record and to where its run is, a second run after a restart
included; zombies are left out, nobody records what they did, and so are the
jobs whose stamp was lost (`unstamped`). `StoredHolds`
(no shelf is deleted, `Removable = {}`, as in `IngestWorker`): `Kept` says at each
place of a run which of the two stores has the chunks of a document that still
has its row, in the corpus its request resolved; what other documents' jobs and
deletions drop is never its own (`OthersPieces`, from chunks being disjoint).

**ReviewProofs.** `BudgetHolds`: `Budget` ties supersteps, critics and revisions
to the node and to `rounds`. `ReportHolds` and `RevisedHolds`: `ReportFresh`
says at each node whose report the report is. `EvidenceHolds`: the sink only
grows by id, and what a widening found is of a document already in the sink.

**AskingProofs.** `SavedHolds`, `RefusalHolds`, `GuardHolds`: `SentInv` says that
the client's copy and the transcript equal the handler's locals from the moment
they exist (`Copies`), that a refusal has no sources (`Refused`), and that a
whole draft past the guard was let pass (`Passed`). `BillHolds`: `BillInv` says
the stream has no more tokens than calls, nothing is charged before the booking
and the booking charges everything. `OrderHolds` (`EventOrder`): `OrderInv` says
of each await which events the client has already, and which come once; the
lemmas `Emit...` say what appending an event does to each of these statements.
About the agent runner, for any number of sessions, requests and tool calls:
`AgentFitsHolds` from `KeyFits`, that every cached agent is what its key says,
which eviction and the race of two sessions that compile one agent preserve;
`MeterHolds`, since the estimated prompts count every call and the two views of
the completions count every call between them (`MeterInv`), which gives the half
in `EveryCallIsMetered`; `EvidenceHolds` from `EvidenceInv`: a tool holds only
passages its own request was given (`Given`), the collector likewise (`Own`), and
some session that began broke off or has exactly the collector's sources (`Read`),
because until a run breaks off nobody adds to it while no session runs.

**AccountsProofs.** `CodesStand` and `RevocationHolds`, from one invariant.
`Charges` says of every code that the attempts committed are the guesses made,
within the maximum, and that what it was spent on is what it was for. `Entitled`
says of every call what it may remember: the code it matched is still there and
was for what the call does (rows are added and spent, never changed in purpose),
and what it decided must go existed then, is not its own session, and is out
once swept. The second is not inductive without `SessionsMove`: no step makes a
dead session live, and the only one a call brings to life is its own, free until
the call's last step. `Largest` (a bounded set of numbers has a greatest) is
what `LatestCode` needs. `BudgetsHold` (`CountersHold`), for any number of
requests at once: in `AdmissionInv` every set of limits a request, an override
or Redis holds was once in force (`LimitsHeld`, `SlotsHeld`), and in `BooksHeld`
a window's counter and all that the requests under way may still charge stay
below a limit plus one burst. The bound of the property is too weak to be
inductive, since a booking moves from one part of that sum to the other. What is
charted and still owed is at least what is used, since a roll zeroes the counter
whatever side of it a row is dated on, and exceeds it by no more than all
requests may owe. A sum over the requests is the cardinality of a disjoint
union, and `TotalMoves` says what one request's step does to it.

**LibraryProofs.** `MemoryHolds` and `StrandedHolds`, from one invariant:
`ThreadHeld` pins a conversation to the corpus its shelf has, or had; `SlotHeld`
says that what a request has read is still true, or its shelf is gone for good
(identifiers are not reused); `CorpusHeld` says that an untainted corpus that no row
names is empty in the stores, on disk and in the cache of tenants, that slugs
of rows are apart, and that what is being deleted is empty from its purge on.

**SpansProofs.** `NothingVanishesHolds`: `OnItsWay` finds each span the program
emitted in the queue, in the exporter's hand, in the count of lost ones or in
the stream; `WrittenFirst` says that what a worker is about to acknowledge is in
both tables, which deaths and claims by another worker preserve because a batch
is written again from the start.

**EngineProofs**, one part per component.

* Chunking, for any text and any sizes: `TextHolds` and `FitsHolds`. Each chunk
  begins after the one before it began and at the latest right behind its end, so
  the union of the chunks is always a prefix of the text (`ChunksHeld`); the piece or
  the sentences in hand continue it (`PieceHeld`, `CurrentHeld`), and each stage
  leaves with the prefix complete (`StagesHeld`).
* Knowledge, for any number of documents, entities and actors: `GraphHolds`
  and `RepairHolds`. `Groups` of the union-find are shown to be disjoint and
  closed under the pairs (`GroupsApart`, `GroupOf`), and an entity that survives
  a merge to be of its group (`WinnerIs`). `AloneHeld` says at each step of an
  ingest that has had the corpus to itself what is already repaired: stranded
  entities are pruned first, duplicates are in the groups it read, and the
  communities it replaces are those there are.
* Failover, for any chains and callers: `CallersHold` from `CallSound` (tokens
  come from the member now asked; tried and still to be asked make the whole
  chain). `ProbedOnce` from `ProbeInv`: a stale call, one that has read a low count
  and not yet written it back, is the only one whose failure does not open the
  breaker, and probes and stale calls together are bounded by the calls in
  flight. The property says, and the proof needs, that the threshold is at most two, the
  value the settings ship (`config/settings.py:53`); with three TLC finds a
  member probed more often.
* Retrieval: `GateHolds` has the hypothesis `~SharesMetadata`, that the vector
  store gives each search its own copies. With the file store it does not hold;
  that is the run `RetrievalGate`.
* Tracing: `ClientSees` and `PrivateHolds`, for any number of threads: a running
  step has one thread that is in it, and none outlives a run that returned
  (`StepsHeld`); what had ended when the run did has not changed since
  (`BeforeHeld`); the client was told of each step before the cursor in the
  status it ended with, or is about to be (`ToldHeld`), and of the others the truth
  or that they run (`ToldTrue`).
* Guard: `RiskHolds` and `UnjudgedHolds`: a reply is as severe as the rules, and
  when the policy fails closed a text that goes on was judged, then or when the
  cache got its verdict (`GuardInv`). `PermitsHeld` is proved beside it: permits
  and calls with a judge always add up to the semaphore's size, so no failure,
  time-out or abandoned call loses one.

Model-checked only:

* `EveryUploadSettles`, `CacheCatchesUp`, `LimitsCatchUp`, `AcceptedArrives`:
  liveness under fairness needs ENABLED, which this prover does not treat.
* `IngestedIsStored` is proved and checked where no shelf is deleted; no run
  states it beside a deletion (see Ingest).

The induction theorems of the library take an operator as a parameter and cannot
be applied here; `SetInduction` stands in for them where a recursive function
(`Keep`) or a bounded set of numbers is concerned. No module declares a recursive
operator.

## Disagreements between text and code

Each is the counterexample of a run; `PROJECT.json` quotes the text.

* `IngestAccountCeiling`: two ingests on two shelves each get the whole chunk
  allowance, because a budget counts only what has been stamped.
* `AskingTraced`: trace steps show the draft before the output guard has judged
  it.
* `RetrievalGate`: with the file store, the stamp of one search overwrites the
  other's, and the gate refuses a question by grades it says it does not compare.

## What the models also show

Behaviour the models have and for which no run is kept.

Ingestion and shelves:

* The worker runs two jobs at once and no store but DuckDB can count, so
  `CorpusCeiling` is claimed for DuckDB in process only.
* Files on the default shelf named by its id count twice against an upload that
  names no shelf (`shelves.py:221`), which is refused below the allowance
  although `ingest.py:333-335` says otherwise.
* A file deleted during its ingest leaves chunks behind (`ingest.py:423` against
  the docstring at `:406`).
* A job that Arq times out is never stamped (`worker.py:72`, `:77-78`). A stamp
  that fails is not tried again (`ingestion/status.py:61-62`): the row says
  `uploaded` for ever and is charged nothing, while its chunks are stored.
  `EveryUploadSettles` makes that exception, and what is claimed of a settled row
  is claimed of one whose last stamp was not lost.
* A shelf whose purge fails loses its row all the same, and its chunks wait for
  the next shelf that gets its slug; `api/routers/shelves.py:233-236` speaks of
  a retry.
* A file uploaded while its shelf is deleted lands on the default shelf and its
  chunks in the dead one's corpus; `IngestedIsStored` is therefore stated for
  shelves nobody is deleting.
* A shelf's conversations move to the default shelf when it is deleted
  (`threads.py:132-135`), and their memory goes on under another corpus.
* `_save_turn` may overwrite a title the user gave meanwhile; `MAX_SHELVES` and
  `max_threads` are counted without a lock and may be passed by a request each.
* Evicting a tenant does not close its DuckDB file; `PurgeCorpus` of the graph is
  one step here, and in Neo4j one query that deletes at most 100000 nodes.

Knowledge and chunking:

* A summary of a deleted document comes back when a job replaces communities it
  read earlier; entities stay stranded after a deletion that overlapped. The
  next ingest that has the corpus to itself repairs both (`IngestAloneRepairs`).
  The run has one job and one deletion; two jobs add duplicates, which the same
  property repairs.
* It repairs less in two cases, which the property excepts: in a graph of more
  than 2000 entities resolution returns without comparing any
  (`enrich.py:85-87`), and when the embedder fails that is swallowed
  (`enrich.py:103-113`), so names only embeddings tell to be one stay two.
* A single sentence longer than the maximum is emitted whole, although
  `semantic.py` says "Bounded by min/max token sizes"; without a tokenizer
  `recursive.py`'s "nothing exceeds the embedder limit" does not hold. Both are
  the exceptions in `FitsEmbedder`.
* A job routed to a strategy that was not built fails (`KeyError`), the
  configured one included.
* The cache keeps queries and documents under one key space, told apart by a
  prefix that a document's own text may have.

Asking, agent, review:

* A research pass that fails after an earlier one was drafted loses the draft.
* A chunk that reaches the evidence through the window and later through
  retrieval is listed twice (`Merged`).
* If nothing is left of a revision, the draft with its invented tags is sent,
  marked flagged (`review/graph.py:253` against `revise.py:6-7`).
* A traced question blocked at input has an object in its result (`trace.py:194`)
  that `json.dumps` refuses, outside the `try` and after the record was saved as
  "ok" (`:286-294`): its stream just stops, without `answer`, `error` or `done`.
  It is the one exception in `EventOrder`.
* A run that breaks off leaves its tools running in their threads, where they go
  on adding to its collector after the sources were read (`agent/graph.py:249`),
  and to its meter. Nothing of theirs reaches another request; of the broken run
  nobody asks. `EvidenceIsOwn` therefore promises all sources of runs that
  answered.
* A traced question refused as off topic is not charged for its probe;
  `/search` is not metered at all.
* Of calls that report usage and calls that do not, the larger total is billed:
  of the completions up to half is not (`usage/meter.py:120-132`), and an
  estimate may win over the provider's numbers. `EveryCallIsMetered` states the
  half.
* `chunks_added` of a tool counts what parallel tools added meanwhile; a streamed
  answer joins the texts of all turns, a whole one is the last message.

Accounts and limits:

* A deleted account's holder is answered from Redis for up to a minute, and an
  administrator's demotion is not dropped from the cache; `service.py:11-14`
  calls revocation instant. `CacheCatchesUp` is what holds.
* `verify()` and `reset_password()` check a code in a second transaction without
  a lock: one code may be redeemed twice, two may be live at once, and the
  commit of a verification may undo a suspension made in between.
* A login that began with the old password may open a session after the sweep of
  a password change; `SweptStayOut` is about the sessions that existed.
* Redis names a window by the clock at the charge and Postgres dates the row by
  its own transaction (`db/models.py:50-51`), so a row may be charted in a window
  whose counter never counted it. `CountersHold` bounds the difference by what
  requests under way may owe.
* An edit of limits whose invalidation fails, or that a lookup overtakes, rules
  only when the cached copy expires.

Failover, retrieval, inspector, guard, llmlens:

* Errors that are the request's own fault count towards the breaker, though
  `fallback.py:22-25` keeps them apart; breakers are not shared between chains;
  the default model is used when none is asked for even if it is disabled.
* A chat model used as a reranker never raises, so no later link is reached;
  passages it does not score keep raw scores behind graded ones; a plan without
  rerank leaves passages unmarked, and these read as calibrated.
* Without Redis, reading a trace takes the owner out of the record that is kept
  (`routers/trace.py:148`), so it can be read once. `skip()` ends a step before
  its duration is known, which then may not be sent.
* A traced run that fails ends while a tool of it is in its thread: the last drain
  sends that step as running, `error` and `done` follow, and its client is never
  told how the step ended (`routers/trace.py:269-283`).
* A judge's exception that is no `JudgeError`, such as a missing key or a reply of
  200 that is no JSON (`judge/providers.py:136-141`, `:238`), leaves the service
  as a 500: no other link is asked, nothing is counted or remembered and
  `fail_mode` is not consulted, although `guardrails/main.py:9-12` says that judge
  outages are "never surfaced as 5xx". What becomes of the text is then for the
  application's `fail_open` to decide.
* Verdicts are cached under the normalised text and, for an answer, the first 2000
  characters of its question (`pipeline.py:137`, `:218`): texts with one key
  share a judge's verdict, never that of the rules.
* The rules' flag score is below the default flag threshold; a cached verdict is
  not shared by two identical checks under way; the client waits 5 seconds for a
  service that may take longer; an answer of 401 or 404 is "unreachable" and,
  with `fail_open`, lets through. `policy.cache` is never read.
* An event that decodes and of which no row can be made, for instance with a start
  that has no time zone and an end that has (`core/types.py:62`,
  `writer.py:24`), raises outside the `try` of `consumer.py:30-41`: its batch fails
  at the first read and at every claim, and the good spans in it never arrive,
  against the comment at `consumer.py:40` ("don't block the stream"). A claim
  begins with the oldest entries, so enough of these would hold back all that is
  claimed. `AcceptedArrives` excepts what waits beside one for ever.
* Spans arrive at least once: duplicates are counted twice by metrics. One
  malformed event rejects its whole batch; 429 is treated as a rejection; the
  stream is never trimmed.

## What is not modelled

* Throttling per address (`api/ratelimit.py`), the legacy key registry
  (`api/routers/users.py`, `auth.py`) and the legacy usage hash.
* The administrator's ingest of a file on the server (`/ingest` with a path): no
  slot, no row, no stamp, and a job without a document of the account.
* Audit rows, mails, listings, statistics, renaming.
* Detectors, adapters and `mode: fast` of the guard service; checks a policy
  switches off. Alerts and queries of llmlens.
* Loaders, OCR, the splitter library, distances between vectors, the file format
  of the local store.
* The text of prompts, answers, Cypher and SQL; schemas, settings, logging and
  metrics; browser clients; migrations, images and scripts.

Libraries (LangGraph, Arq, Postgres, Redis, Neo4j, DuckDB, ClickHouse) appear as
the code uses them: a graph that runs one node at a time up to its recursion
limit, a queue that runs interrupted jobs again and cancels slow ones,
transactions and locks, a stream that keeps what is not acknowledged, stores
whose calls take effect or raise.

## Plan

What would add most next:

1. Proofs: `IngestedIsStored` for shelves nobody deletes while others are
   deleted; an abstract account (what was asked, what it may still ask) that
   `Admission` implements, and an abstract collection of documents that
   `Knowledge` follows, each with its refinement proved.
2. The job store's and the embedding cache's two levels under faults; the local
   store with a writer in each process.
3. `Accounts` with `Ingest` and `Library` under one purge, uploads beside it.
4. Throttling per address, refined to a counter per window.
