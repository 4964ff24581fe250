------------------------------- MODULE Ingest -------------------------------
(***************************************************************************)
(* Document ingestion for one account: the upload and URL endpoints, the   *)
(* quota reservation in Postgres, the background job (in this process, or  *)
(* in the Arq worker), the pipeline that writes the vector and graph       *)
(* stores, and the two deletions that can run beside it.                   *)
(*                                                                         *)
(* Every document of Docs is one request: file ids and stored paths carry  *)
(* a fresh uuid, so a document is never uploaded twice.  Its text becomes  *)
(* the chunks Pieces[d], its bytes the storage units Blocks[d]; the counts *)
(* and sums of the code are cardinalities of unions of these sets.         *)
(***************************************************************************)
EXTENDS Naturals, FiniteSets

CONSTANTS
  Docs,         \* documents the user may submit
  Urls,         \* those fetched from a URL; the others are uploaded
  Pieces,       \* Pieces[d]: the chunks the chunker makes of d
  Blocks,       \* Blocks[d]: the storage units d occupies
  ShelfRows,    \* ids a row of the shelves table may get
  DefaultRow,   \* the row of the default shelf
  NoRow,        \* files.shelf_id is NULL; also a request naming no shelf
  Slugs,        \* corpora of the account
  DefaultSlug,  \* the empty slug: the default shelf's corpus
  NoSlug,       \* the shelf row does not exist
  Free,         \* nobody holds the account's advisory lock
  Deletable,    \* documents the user may delete
  Removable,    \* shelves the user may delete
  StoreFails,   \* may a loader, an embedding, a store or a stamp raise?
  Worker,       \* does the Arq worker run the jobs, or this process?
  Provider,     \* where the vectors live: "duckdb", "neo4j" or "local"
  Slots,        \* jobs run at once: the semaphore's 1, or max_jobs
  MaxFiles, MaxStorage, MaxChunks,   \* the account's limits
  MaxCrashes    \* bound on process restarts explored

Chunks == UNION {Pieces[d] : d \in Docs}
Units  == UNION {Blocks[d] : d \in Docs}
Refs   == ShelfRows \cup {NoRow}

ASSUME SetsAssumption ==
  /\ IsFiniteSet(Docs)
  /\ DefaultRow \in ShelfRows /\ NoRow \notin ShelfRows
  /\ DefaultSlug \in Slugs /\ NoSlug \notin Slugs
  /\ Free \notin Docs
  /\ Urls \subseteq Docs /\ Deletable \subseteq Docs
  /\ Removable \subseteq ShelfRows \ {DefaultRow}

ASSUME SizesAssumption ==
  /\ IsFiniteSet(Chunks) /\ IsFiniteSet(Units)
  /\ \A d, e \in Docs : d # e => /\ Pieces[d] \cap Pieces[e] = {}
                                 /\ Blocks[d] \cap Blocks[e] = {}
  /\ MaxFiles \in Nat /\ MaxStorage \in Nat /\ MaxChunks \in Nat
  /\ Slots \in Nat \ {0} /\ MaxCrashes \in Nat

\* The worker refuses to start on DuckDB.
ASSUME DeploymentAssumption ==
  /\ StoreFails \in BOOLEAN /\ Worker \in BOOLEAN
  /\ Provider \in {"duckdb", "neo4j", "local"}
  /\ Worker => Provider # "duckdb"
  /\ ~Worker => Slots = 1

VARIABLES
  rows,      \* ids present in the files table
  shelfOf,   \* their shelf_id; a deleted row keeps the value last read
  status,    \* their status
  charged,   \* their chunks column, as the set of chunks it counts
  shelves,   \* shelves table: the slug of each row, or NoSlug
  lock,      \* holder of pg_advisory_xact_lock(owner)
  disk,      \* stored files that exist
  vec,       \* vector store: the chunks of each corpus
  graph,     \* graph store: the chunk nodes of each corpus
  reqAt,     \* where each document's ingest request is
  reqShelf,  \* the shelf row it names
  slug,      \* the corpus it resolved that to; an argument of the job
  budget,    \* max_chunks for the job
  used, stored,  \* files and bytes counted under the lock
  jobs,      \* JobStore: the status of each document's job
  runAt,     \* where the job is
  zombies,   \* jobs Arq timed out, whose thread runs on
  unstamped, \* jobs whose last stamp failed, so the row kept what it said
  delAt, delSlug,          \* delete_file requests
  sdelAt, paths, doomed,   \* delete_shelf requests
  crashes    \* restarts so far

database      == <<rows, shelfOf, status, charged, shelves>>
stores        == <<vec, graph>>
counts        == <<used, stored>>
request       == <<reqAt, reqShelf, slug, budget, counts>>
job           == <<jobs, runAt, zombies, unstamped>>
deletion      == <<delAt, delSlug>>
shelfDeletion == <<sdelAt, paths, doomed>>
vars == <<database, lock, disk, stores, request, job, deletion, shelfDeletion, crashes>>

-----------------------------------------------------------------------------
ReqPc   == {"idle", "budget", "fetch", "lock", "insert", "write", "release",
            "enqueue", "accepted", "refused", "failed", "lost"}
Working == {"load", "replace", "check", "vec", "graph", "extract"}
RunPc   == {"none", "waiting", "finalize", "finish", "over"} \cup Working
DelPc   == {"idle", "resolve", "graph", "vec", "unlink", "done", "failed", "lost"}
SDelPc  == {"idle", "graph", "vec", "files", "commit", "unlink", "done", "lost"}

TypeOK ==
  /\ rows \subseteq Docs /\ disk \subseteq Docs
  /\ shelfOf \in [Docs -> Refs] /\ reqShelf \in [Docs -> Refs]
  /\ status \in [Docs -> {"uploaded", "ingested", "error"}]
  /\ charged \in [Docs -> SUBSET Chunks]
  /\ shelves \in [ShelfRows -> Slugs \cup {NoSlug}]
  /\ lock \in Docs \cup {Free}
  /\ vec \in [Slugs -> SUBSET Chunks] /\ graph \in [Slugs -> SUBSET Chunks]
  /\ reqAt \in [Docs -> ReqPc]
  /\ slug \in [Docs -> Slugs] /\ delSlug \in [Docs -> Slugs]
  /\ budget \in [Docs -> 0..MaxChunks]
  /\ used \in [Docs -> Nat] /\ stored \in [Docs -> Nat]
  /\ jobs \in [Docs -> {"none", "queued", "running", "done", "partial", "error"}]
  /\ runAt \in [Docs -> RunPc] /\ zombies \subseteq Docs
  /\ unstamped \subseteq Docs
  /\ delAt \in [Docs -> DelPc]
  /\ sdelAt \in [ShelfRows -> SDelPc]
  /\ paths \in [ShelfRows -> SUBSET Docs] /\ doomed \in [ShelfRows -> SUBSET Docs]
  /\ crashes \in 0..MaxCrashes

Init ==
  /\ rows = {} /\ disk = {} /\ zombies = {} /\ unstamped = {} /\ lock = Free /\ crashes = 0
  /\ shelfOf = [d \in Docs |-> NoRow] /\ reqShelf = [d \in Docs |-> NoRow]
  /\ status = [d \in Docs |-> "uploaded"]
  /\ charged = [d \in Docs |-> {}]
  /\ shelves = [s \in ShelfRows |-> IF s = DefaultRow THEN DefaultSlug ELSE NoSlug]
  /\ vec = [c \in Slugs |-> {}] /\ graph = [c \in Slugs |-> {}]
  /\ reqAt = [d \in Docs |-> "idle"]
  /\ slug = [d \in Docs |-> DefaultSlug] /\ delSlug = [d \in Docs |-> DefaultSlug]
  /\ budget = [d \in Docs |-> 0]
  /\ used = [d \in Docs |-> 0] /\ stored = [d \in Docs |-> 0]
  /\ jobs = [d \in Docs |-> "none"] /\ runAt = [d \in Docs |-> "none"]
  /\ delAt = [d \in Docs |-> "idle"]
  /\ sdelAt = [s \in ShelfRows |-> "idle"]
  /\ paths = [s \in ShelfRows |-> {}] /\ doomed = [s \in ShelfRows |-> {}]

-----------------------------------------------------------------------------
(* Shelves *)

Exists(s) == shelves[s] # NoSlug

\* What a request or a file row may name: no shelf, or a row that exists.
LiveRefs == {NoRow} \cup {s \in ShelfRows : Exists(s)}

\* shelf_by_id: a NULL or dangling shelf_id resolves to the default shelf.
SlugOf(ref) == IF ref \in LiveRefs \ {NoRow} THEN shelves[ref] ELSE DefaultSlug

\* The values of files.shelf_id that chunks_elsewhere counts as "here".  The
\* default shelf named by its id covers NULL as well; named by omission it
\* covers NULL only.
Here(ref) == IF ref = DefaultRow THEN {NoRow, DefaultRow} ELSE {ref}

\* chunks_elsewhere: the sum of files.chunks over the account's other shelves.
ChunksElsewhere(ref) ==
  Cardinality(UNION {charged[d] : d \in {e \in rows : shelfOf[e] \notin Here(ref)}})

\* A row that an uncommitted DELETE of a shelf transaction has locked: another
\* transaction that writes it waits.
Locked(d) == \E s \in ShelfRows : sdelAt[s] = "commit" /\ d \in doomed[s]

CreateShelf(s, name) ==
  /\ ~Exists(s) /\ sdelAt[s] = "idle"
  /\ name \notin {shelves[t] : t \in ShelfRows}
  /\ shelves' = [shelves EXCEPT ![s] = name]
  /\ UNCHANGED <<rows, shelfOf, status, charged, lock, disk, stores, request, job,
                 deletion, shelfDeletion, crashes>>

-----------------------------------------------------------------------------
(* The ingest request *)

ReqGoto(d, pc) == reqAt' = [reqAt EXCEPT ![d] = pc]

\* shelf_for_request: no shelf named, or a shelf row of this account.
BeginIngest(d, ref) ==
  /\ reqAt[d] = "idle" /\ ref \in LiveRefs
  /\ ReqGoto(d, "budget")
  /\ reqShelf' = [reqShelf EXCEPT ![d] = ref]
  /\ slug' = [slug EXCEPT ![d] = SlugOf(ref)]
  /\ UNCHANGED <<database, lock, disk, stores, budget, counts, job, deletion,
                 shelfDeletion, crashes>>

\* _shelf_chunk_budget: refuse when nothing is left, since a budget of zero
\* would switch the pipeline's check off.
ShelfChunkBudget(d) ==
  LET taken == ChunksElsewhere(reqShelf[d]) IN
  /\ reqAt[d] = "budget"
  /\ \/ taken >= MaxChunks /\ ReqGoto(d, "refused") /\ UNCHANGED budget
     \/ /\ taken < MaxChunks
        /\ budget' = [budget EXCEPT ![d] = MaxChunks - taken]
        /\ ReqGoto(d, IF d \in Urls THEN "fetch" ELSE "lock")
  /\ UNCHANGED <<database, lock, disk, stores, reqShelf, slug, counts, job, deletion,
                 shelfDeletion, crashes>>

\* _fetch_url: the bytes are on disk before any slot is reserved.
FetchUrl(d) ==
  /\ reqAt[d] = "fetch"
  /\ \/ disk' = disk \cup {d} /\ ReqGoto(d, "lock")
     \/ disk' = disk /\ ReqGoto(d, "refused")
     \/ StoreFails /\ disk' \in {disk, disk \cup {d}} /\ ReqGoto(d, "failed")
  /\ UNCHANGED <<database, lock, stores, reqShelf, slug, budget, counts, job, deletion,
                 shelfDeletion, crashes>>

\* pg_advisory_xact_lock(owner); without it: count and insert, as two steps.
NoLock(d)      == lock' = d
AcquireLock(d) == lock = Free /\ lock' = d

\* _reserve_file_slot, first half: the advisory lock and the aggregate read.
LockAndCount(d) ==
  /\ reqAt[d] = "lock" /\ AcquireLock(d)
  /\ used' = [used EXCEPT ![d] = Cardinality(rows)]
  /\ stored' = [stored EXCEPT ![d] = Cardinality(UNION {Blocks[e] : e \in rows})]
  /\ ReqGoto(d, "insert")
  /\ UNCHANGED <<database, disk, stores, reqShelf, slug, budget, job, deletion,
                 shelfDeletion, crashes>>

\* The two quotas; and the same without the bytes about to arrive.
AlreadyOver(d) == used[d] >= MaxFiles \/ stored[d] > MaxStorage
OverQuota(d) ==
  \/ used[d] >= MaxFiles
  \/ stored[d] + Cardinality(Blocks[d]) > MaxStorage

\* _reserve_file_slot, second half: insert and commit, which frees the lock.
ReserveFileSlot(d) ==
  /\ reqAt[d] = "insert" /\ ~OverQuota(d) /\ reqShelf[d] \in LiveRefs
  /\ rows' = rows \cup {d}
  /\ shelfOf' = [shelfOf EXCEPT ![d] = reqShelf[d]]
  /\ lock' = Free
  /\ ReqGoto(d, IF d \in Urls THEN "enqueue" ELSE "write")
  /\ UNCHANGED <<status, charged, shelves, disk, stores, reqShelf, slug, budget, counts,
                 job, deletion, shelfDeletion, crashes>>

\* Unlinking the stored file; and forgetting to.
LeaveFile(d) == UNCHANGED disk
Discard(d)   == disk' = disk \ {d}

\* A breach: a URL request removes what it downloaded.
RefuseFileSlot(d) ==
  /\ reqAt[d] = "insert" /\ OverQuota(d)
  /\ lock' = Free /\ Discard(d)
  /\ ReqGoto(d, "refused")
  /\ UNCHANGED <<database, stores, reqShelf, slug, budget, counts, job, deletion,
                 shelfDeletion, crashes>>

\* The shelf row is gone: the insert breaks the foreign key, the transaction
\* rolls back and the request ends in a 500.
ReserveOnDeadShelf(d) ==
  /\ reqAt[d] = "insert" /\ ~OverQuota(d) /\ reqShelf[d] \notin LiveRefs
  /\ lock' = Free
  /\ ReqGoto(d, "failed")
  /\ UNCHANGED <<database, disk, stores, reqShelf, slug, budget, counts, job, deletion,
                 shelfDeletion, crashes>>

\* dest.write_bytes: a failing write may leave a truncated file behind.
WriteBytes(d) ==
  /\ reqAt[d] = "write"
  /\ \/ disk' = disk \cup {d} /\ ReqGoto(d, "enqueue")
     \/ StoreFails /\ disk' \in {disk, disk \cup {d}} /\ ReqGoto(d, "release")
  /\ UNCHANGED <<database, lock, stores, reqShelf, slug, budget, counts, job, deletion,
                 shelfDeletion, crashes>>

ReleaseFileSlot(d) ==
  /\ reqAt[d] = "release" /\ ~Locked(d)
  /\ rows' = rows \ {d}
  /\ ReqGoto(d, "failed")
  /\ UNCHANGED <<shelfOf, status, charged, shelves, lock, disk, stores, reqShelf, slug,
                 budget, counts, job, deletion, shelfDeletion, crashes>>

\* _enqueue: the job exists as "queued" when it is handed to the worker's queue
\* or to a background task.  (job_id, which link_file_to_job stamps on the row
\* meanwhile, only names the job.)
Enqueue(d) ==
  /\ reqAt[d] = "enqueue"
  /\ jobs' = [jobs EXCEPT ![d] = "queued"]
  /\ runAt' = [runAt EXCEPT ![d] = "waiting"]
  /\ ReqGoto(d, "accepted")
  /\ UNCHANGED <<database, lock, disk, stores, reqShelf, slug, budget, counts,
                 zombies, unstamped, deletion, shelfDeletion, crashes>>

\* Redis does not take the job: a 500, and the row and the file stay behind.
EnqueueFails(d) ==
  /\ Worker /\ StoreFails /\ reqAt[d] = "enqueue"
  /\ jobs' = [jobs EXCEPT ![d] = "queued"]
  /\ ReqGoto(d, "failed")
  /\ UNCHANGED <<database, lock, disk, stores, reqShelf, slug, budget, counts, runAt,
                 zombies, unstamped, deletion, shelfDeletion, crashes>>

-----------------------------------------------------------------------------
(* The job.  Its arguments (path, slug, chunk budget) are those the request *)
(* computed; they travel with the job.                                     *)

RunGoto(d, pc) == runAt' = [runAt EXCEPT ![d] = pc]

\* A job holds its place while the pipeline thread runs; the worker's also
\* while it stamps the file row.  Arq gives a timed-out job's place away.
Holding(d) == /\ d \notin zombies
              /\ runAt[d] \in Working \cup (IF Worker THEN {"finalize", "finish"} ELSE {})

\* _INGEST_SLOT, or max_jobs; and its absence.
NoSlot   == TRUE
SlotFree == Cardinality({e \in Docs : Holding(e)}) < Slots

StartRun(d) ==
  /\ runAt[d] = "waiting" /\ SlotFree
  /\ jobs' = [jobs EXCEPT ![d] = "running"]
  /\ RunGoto(d, "load")
  /\ UNCHANGED <<database, lock, disk, stores, request, zombies, unstamped, deletion,
                 shelfDeletion, crashes>>

\* The thread ends with this outcome.  A timed-out job has nobody left to
\* record it: the coroutine that would have was cancelled.
Settle(d, outcome) ==
  IF d \in zombies THEN RunGoto(d, "over") /\ UNCHANGED jobs
  ELSE RunGoto(d, "finalize") /\ jobs' = [jobs EXCEPT ![d] = outcome]

\* iter_documents: a stored file that has gone is an IngestionError.
Load(d) ==
  /\ runAt[d] = "load"
  /\ \/ d \notin disk /\ Settle(d, "error")
     \/ d \in disk /\ Pieces[d] = {} /\ Settle(d, "done")
     \/ d \in disk /\ Pieces[d] # {} /\ RunGoto(d, "replace") /\ UNCHANGED jobs
  /\ UNCHANGED <<database, lock, disk, stores, request, zombies, unstamped, deletion,
                 shelfDeletion, crashes>>

\* The graph and the vector store are two sets of chunks per corpus.  Neo4j
\* vectors sit on the chunk nodes: there the graph's deletions take both, and
\* delete_source is a no-op.
InGraph == Provider = "neo4j"

DropNodes(corpus, gone) ==
  /\ graph' = [graph EXCEPT ![corpus] = @ \ gone]
  /\ vec' = IF InGraph THEN [vec EXCEPT ![corpus] = @ \ gone] ELSE vec

DropVectors(corpus, gone) ==
  /\ vec' = IF InGraph THEN vec ELSE [vec EXCEPT ![corpus] = @ \ gone]
  /\ UNCHANGED graph

AddTo(store, d) == [store EXCEPT ![slug[d]] = @ \cup Pieces[d]]

\* delete_document, then delete_source: an earlier attempt's chunks go first.
Replace(d) ==
  /\ runAt[d] = "replace"
  /\ graph' = [graph EXCEPT ![slug[d]] = @ \ Pieces[d]]
  /\ vec' = [vec EXCEPT ![slug[d]] = @ \ Pieces[d]]
  /\ RunGoto(d, "check")
  /\ UNCHANGED <<database, lock, disk, request, jobs, zombies, unstamped, deletion,
                 shelfDeletion, crashes>>

\* _check_capacity: skipped for a falsy budget and for a store without a
\* count(), which only DuckDB's has.
Fits(d) == \/ budget[d] = 0
           \/ Provider # "duckdb"
           \/ Cardinality(vec[slug[d]]) + Cardinality(Pieces[d]) <= budget[d]

CheckCapacity(d) ==
  /\ runAt[d] = "check"
  /\ \/ Fits(d) /\ RunGoto(d, "vec") /\ UNCHANGED jobs
     \/ ~Fits(d) /\ Settle(d, "error")
  /\ UNCHANGED <<database, lock, disk, stores, request, zombies, unstamped, deletion,
                 shelfDeletion, crashes>>

\* Embed, then one transaction of the vector store.
UpsertVectors(d) ==
  /\ runAt[d] = "vec"
  /\ vec' = AddTo(vec, d)
  /\ graph' = IF InGraph THEN AddTo(graph, d) ELSE graph
  /\ RunGoto(d, "graph")
  /\ UNCHANGED <<database, lock, disk, request, jobs, zombies, unstamped, deletion,
                 shelfDeletion, crashes>>

\* upsert_chunks (skipped when the vectors are the nodes), link_chunk_sequence.
UpsertChunks(d) ==
  /\ runAt[d] = "graph"
  /\ graph' = IF InGraph THEN graph ELSE AddTo(graph, d)
  /\ RunGoto(d, "extract")
  /\ UNCHANGED <<database, lock, disk, vec, request, jobs, zombies, unstamped,
                 deletion, shelfDeletion, crashes>>

\* _build_graph and _enrich: a failed extraction makes the job "partial".
BuildGraph(d) ==
  /\ runAt[d] = "extract"
  /\ Settle(d, "done") \/ Settle(d, "partial")
  /\ UNCHANGED <<database, lock, disk, stores, request, zombies, unstamped, deletion,
                 shelfDeletion, crashes>>

\* A loader, the embedder or a store raises; what is already written stays.
PipelineFails(d) ==
  /\ StoreFails /\ runAt[d] \in Working \ {"check"}
  /\ Settle(d, "error")
  /\ UNCHANGED <<database, lock, disk, stores, request, zombies, unstamped, deletion,
                 shelfDeletion, crashes>>

\* The outcomes that leave searchable chunks, and what finalize_file makes of
\* them.  Mutants: any end counts as success; only a success is recorded; a
\* failed document is charged as well.
Searchable(d) == jobs[d] \in {"done", "partial"}

AlwaysIngested(d) == "ingested"
SuccessOnly(d)    == IF Searchable(d) THEN "ingested" ELSE status[d]
StampOf(d)        == IF Searchable(d) THEN "ingested" ELSE "error"

ChargeAlways(d) == Pieces[d]
ChargeOf(d)     == IF Searchable(d) THEN Pieces[d] ELSE {}

\* finalize_file: an UPDATE by id, which finds nothing once the row is gone.
\* In the worker, Arq has yet to record that the job has ended.
EndJob(d) ==
  /\ RunGoto(d, IF Worker THEN "finish" ELSE "over")
  /\ UNCHANGED <<rows, shelfOf, shelves, lock, disk, stores, request, jobs, zombies,
                 deletion, shelfDeletion, crashes>>

FinalizeFile(d) ==
  /\ runAt[d] = "finalize" /\ ~Locked(d)
  /\ IF d \in rows
     THEN /\ status' = [status EXCEPT ![d] = StampOf(d)]
          /\ charged' = [charged EXCEPT ![d] = ChargeOf(d)]
     ELSE UNCHANGED <<status, charged>>
  /\ unstamped' = unstamped \ {d}
  /\ EndJob(d)

\* The UPDATE raises.  finalize_file swallows that ("never break ingestion"),
\* nobody tries again, and the job ends all the same.
StampFails(d) ==
  /\ StoreFails /\ runAt[d] = "finalize"
  /\ unstamped' = unstamped \cup {d}
  /\ UNCHANGED <<status, charged>>
  /\ EndJob(d)

FinishJob(d) ==
  /\ runAt[d] = "finish"
  /\ RunGoto(d, "over")
  /\ UNCHANGED <<database, lock, disk, stores, request, jobs, zombies, unstamped,
                 deletion, shelfDeletion, crashes>>

\* Arq's job_timeout cancels the coroutine; CancelledError is no Exception,
\* so nothing is recorded, and the thread it was waiting for keeps running.
TimeOut(d) ==
  /\ Worker /\ runAt[d] \in Working /\ d \notin zombies
  /\ zombies' = zombies \cup {d}
  /\ UNCHANGED <<database, lock, disk, stores, request, jobs, runAt, unstamped,
                 deletion, shelfDeletion, crashes>>

-----------------------------------------------------------------------------
(* delete_file: the row in one transaction, then the stores, then the file. *)

DelGoto(d, pc) == delAt' = [delAt EXCEPT ![d] = pc]

\* The row goes first.
DropRow(d) == rows' = rows \ {d}

DeleteRow(d) ==
  /\ d \in Deletable /\ d \in rows /\ ~Locked(d)
  /\ delAt[d] = "idle"
  /\ DropRow(d)
  /\ DelGoto(d, "resolve")
  /\ UNCHANGED <<shelfOf, status, charged, shelves, lock, disk, stores, request, job,
                 delSlug, shelfDeletion, crashes>>

ResolveShelf(d) ==
  /\ delAt[d] = "resolve"
  /\ delSlug' = [delSlug EXCEPT ![d] = SlugOf(shelfOf[d])]
  /\ DelGoto(d, "graph")
  /\ UNCHANGED <<database, lock, disk, stores, request, job, shelfDeletion, crashes>>

DeleteFromGraph(d) ==
  /\ delAt[d] = "graph"
  /\ DropNodes(delSlug[d], Pieces[d]) /\ DelGoto(d, "vec")
  /\ UNCHANGED <<database, lock, disk, request, job, delSlug, shelfDeletion, crashes>>

DeleteFromVectors(d) ==
  /\ delAt[d] = "vec"
  /\ DropVectors(delSlug[d], Pieces[d]) /\ DelGoto(d, "unlink")
  /\ UNCHANGED <<database, lock, disk, request, job, delSlug, shelfDeletion, crashes>>

UnlinkFile(d) ==
  /\ delAt[d] = "unlink"
  /\ Discard(d) /\ DelGoto(d, "done")
  /\ UNCHANGED <<database, lock, stores, request, job, delSlug, shelfDeletion, crashes>>

\* A store call raises: a 500, with the row already gone.
DeleteFails(d) ==
  /\ StoreFails /\ delAt[d] \in {"graph", "vec", "unlink"}
  /\ DelGoto(d, "failed")
  /\ UNCHANGED <<database, lock, disk, stores, request, job, delSlug, shelfDeletion, crashes>>

-----------------------------------------------------------------------------
(* delete_shelf: read, purge (failures swallowed), one transaction, unlink. *)
(* The slug read at the start is the row's own for as long as the row lives. *)

SDelGoto(s, pc) == sdelAt' = [sdelAt EXCEPT ![s] = pc]

FilesOn(s) == {d \in rows : shelfOf[d] = s}

BeginDeleteShelf(s) ==
  /\ s \in Removable /\ Exists(s) /\ sdelAt[s] = "idle"
  /\ paths' = [paths EXCEPT ![s] = FilesOn(s)]
  /\ SDelGoto(s, "graph")
  /\ UNCHANGED <<database, lock, disk, stores, request, job, deletion, doomed, crashes>>

PurgeGraph(s) ==
  /\ sdelAt[s] = "graph"
  /\ \/ DropNodes(shelves[s], Chunks)
     \/ StoreFails /\ UNCHANGED stores
  /\ SDelGoto(s, "vec")
  /\ UNCHANGED <<database, lock, disk, request, job, deletion, paths, doomed, crashes>>

\* Only DuckDB's file is unlinked here.
PurgeVectors(s) ==
  /\ sdelAt[s] = "vec"
  /\ \/ Provider = "duckdb" /\ DropVectors(shelves[s], Chunks)
     \/ (Provider # "duckdb" \/ StoreFails) /\ UNCHANGED stores
  /\ SDelGoto(s, "files")
  /\ UNCHANGED <<database, lock, disk, request, job, deletion, paths, doomed, crashes>>

\* DELETE FROM files: the rows it sees, deleted at commit, locked until then.
\* Without the statement the foreign key alone would decide.
NoRows(s)     == {}
DoomedRows(s) == FilesOn(s)

DeleteFilesOf(s) ==
  /\ sdelAt[s] = "files"
  /\ doomed' = [doomed EXCEPT ![s] = DoomedRows(s)]
  /\ SDelGoto(s, "commit")
  /\ UNCHANGED <<database, lock, disk, stores, request, job, deletion, paths, crashes>>

\* DELETE FROM shelves and commit: a file row added meanwhile is kept, and ON
\* DELETE SET NULL moves it to the default shelf.
CommitShelf(s) ==
  /\ sdelAt[s] = "commit"
  /\ rows' = rows \ doomed[s]
  /\ shelfOf' = [d \in Docs |-> IF d \in FilesOn(s) \ doomed[s] THEN NoRow ELSE shelfOf[d]]
  /\ shelves' = [shelves EXCEPT ![s] = NoSlug]
  /\ SDelGoto(s, "unlink")
  /\ UNCHANGED <<status, charged, lock, disk, stores, request, job, deletion, paths,
                 doomed, crashes>>

UnlinkShelfFiles(s) ==
  /\ sdelAt[s] = "unlink"
  /\ \/ disk' = disk \ paths[s]
     \/ StoreFails /\ \E gone \in SUBSET paths[s] : disk' = disk \ gone
  /\ SDelGoto(s, "done")
  /\ UNCHANGED <<database, lock, stores, request, job, deletion, paths, doomed, crashes>>

-----------------------------------------------------------------------------
(* Restarts.  Postgres, Redis, the stores and the disk survive; requests, *)
(* background tasks and open transactions do not.                         *)

RestartApi ==
  /\ crashes < MaxCrashes /\ crashes' = crashes + 1
  /\ lock' = Free
  /\ reqAt' = [d \in Docs |->
       IF reqAt[d] \in {"idle", "accepted", "refused", "failed"} THEN reqAt[d] ELSE "lost"]
  /\ delAt' = [d \in Docs |->
       IF delAt[d] \in {"idle", "done", "failed"} THEN delAt[d] ELSE "lost"]
  /\ sdelAt' = [s \in ShelfRows |->
       IF sdelAt[s] \in {"idle", "done"} THEN sdelAt[s] ELSE "lost"]
  /\ runAt' = [d \in Docs |->
       IF Worker \/ runAt[d] = "none" THEN runAt[d] ELSE "over"]
  /\ UNCHANGED <<database, disk, stores, reqShelf, slug, budget, counts, jobs,
                 zombies, unstamped, delSlug, paths, doomed>>

\* Arq runs an interrupted job again; one it timed out it considers finished.
RestartWorker ==
  /\ Worker /\ crashes < MaxCrashes /\ crashes' = crashes + 1
  /\ runAt' = [d \in Docs |->
       IF runAt[d] \notin Working \cup {"finalize", "finish"} THEN runAt[d]
       ELSE IF d \in zombies THEN "over" ELSE "waiting"]
  /\ UNCHANGED <<database, lock, disk, stores, request, jobs, zombies, unstamped,
                 deletion, shelfDeletion>>

-----------------------------------------------------------------------------
RequestStep(d) ==
  \/ ShelfChunkBudget(d) \/ FetchUrl(d) \/ LockAndCount(d) \/ ReserveFileSlot(d)
  \/ RefuseFileSlot(d) \/ ReserveOnDeadShelf(d) \/ WriteBytes(d)
  \/ ReleaseFileSlot(d) \/ Enqueue(d) \/ EnqueueFails(d)

JobStep(d) ==
  \/ StartRun(d) \/ Load(d) \/ Replace(d) \/ CheckCapacity(d) \/ UpsertVectors(d)
  \/ UpsertChunks(d) \/ BuildGraph(d) \/ PipelineFails(d) \/ FinalizeFile(d)
  \/ StampFails(d) \/ FinishJob(d)

DeleteStep(d) ==
  \/ ResolveShelf(d) \/ DeleteFromGraph(d) \/ DeleteFromVectors(d) \/ UnlinkFile(d)
  \/ DeleteFails(d)

ShelfDeleteStep(s) ==
  \/ PurgeGraph(s) \/ PurgeVectors(s) \/ DeleteFilesOf(s) \/ CommitShelf(s)
  \/ UnlinkShelfFiles(s)

Next ==
  \/ \E d \in Docs : \/ \E ref \in Refs : BeginIngest(d, ref)
                     \/ RequestStep(d) \/ JobStep(d) \/ DeleteRow(d) \/ DeleteStep(d)
                     \/ TimeOut(d)
  \/ \E s \in ShelfRows : \/ \E name \in Slugs : CreateShelf(s, name)
                          \/ BeginDeleteShelf(s) \/ ShelfDeleteStep(s)
  \/ RestartApi \/ RestartWorker

Spec == Init /\ [][Next]_vars

\* Every request, thread and coroutine that can take a step eventually does:
\* the event loop, the thread pool and Postgres' lock queue serve each waiter.
Fairness ==
  /\ \A d \in Docs : WF_vars(RequestStep(d)) /\ WF_vars(JobStep(d)) /\ WF_vars(DeleteStep(d))
  /\ \A s \in ShelfRows : WF_vars(ShelfDeleteStep(s))

FairSpec == Spec /\ Fairness

-----------------------------------------------------------------------------
(* Properties *)

Bytes(S) == Cardinality(UNION {Blocks[d] : d \in S})

\* Two requests racing through _reserve_file_slot never both take the last
\* slot or the last megabyte: the advisory lock makes count-then-insert atomic.
QuotaRespected ==
  /\ Cardinality(rows) <= MaxFiles
  /\ Bytes(rows) <= MaxStorage

\* However requests, jobs and deletions interleave, an account's file rows
\* change as if every request took its slot in one step.
Ledger == INSTANCE FileLedger WITH Count <- Cardinality
Reserves == Ledger!Spec

\* No corpus ever holds more chunks than the allowance: _check_capacity counts
\* and upsert writes in two steps, and nothing but the one ingest slot keeps
\* another job from writing between them.
CorpusCeiling == \A c \in Slugs : Cardinality(vec[c]) <= MaxChunks

UnderDeletion(ref) == \E s \in ShelfRows : s = ref /\ sdelAt[s] # "idle"

\* The document's job has run to its end, and its end was recorded.  A worker
\* killed between the stamp and Arq's own bookkeeping runs the job again,
\* behind a row that says "ingested"; and if that second run times out, or its
\* stamp fails, nobody corrects the row.
Settled(d) == runAt[d] = "over" /\ d \notin zombies \cup unstamped

\* A settled row that says "ingested", on a shelf nobody is deleting, is
\* searchable: all its chunks are in both stores of that shelf.
IngestedIsStored ==
  \A d \in rows : Settled(d) /\ status[d] = "ingested" /\ ~UnderDeletion(shelfOf[d]) =>
     Pieces[d] \subseteq vec[SlugOf(shelfOf[d])] \cap graph[SlugOf(shelfOf[d])]

\* Once settled, the row tells the user what the job store tells the user, and
\* is charged for the chunks of a document exactly when it is searchable.
StampAgrees ==
  \A d \in rows : Settled(d) =>
     /\ status[d] = "ingested" => Searchable(d) /\ charged[d] = Pieces[d]
     /\ status[d] = "error"    => jobs[d] = "error" /\ charged[d] = {}

\* A request refused over a quota leaves neither a row nor a file behind.
RefusedLeavesNothing == \A d \in Docs : reqAt[d] = "refused" => d \notin rows \cup disk

\* A document the user was told is accepted keeps its stored file for as long
\* as its row lives, though delete_shelf unlinks paths it read long before.
AcceptedRowHasFile == \A d \in rows : reqAt[d] = "accepted" => d \in disk

\* Every accepted document leaves "uploaded": it is stamped or it is deleted.
\* The one exception is a stamp that failed: that row says "uploaded" for ever.
EveryUploadSettles ==
  \A d \in Docs : d \in rows /\ status[d] = "uploaded"
                 ~> d \notin rows \/ status[d] # "uploaded" \/ d \in unstamped

\* ARCHITECTURE.md and _shelf_chunk_budget: handing the pipeline the allowance
\* less what the other shelves hold makes its check the per-account rule.
AccountCeiling == Cardinality(UNION {vec[c] : c \in Slugs}) <= MaxChunks
=============================================================================
