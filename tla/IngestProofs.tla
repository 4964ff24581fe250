----------------------------- MODULE IngestProofs -----------------------------
(***************************************************************************)
(* Theorems about Ingest, for any number of documents and shelves and any  *)
(* limits: the quota of documents, and which files and stamps the rows have.*)
(***************************************************************************)
EXTENDS Ingest, FiniteSetTheorems, TLAPS

\* The counts the model takes are of finite sets.
LEMMA ChunkCounts ==
  ASSUME NEW S \in SUBSET Chunks
  PROVE  IsFiniteSet(S) /\ Cardinality(S) \in Nat
  BY SizesAssumption, FS_Subset, FS_CardinalityType

LEMMA RowCounts ==
  ASSUME NEW S \in SUBSET Docs
  PROVE  /\ IsFiniteSet(S) /\ Cardinality(S) \in Nat
         /\ IsFiniteSet(UNION {Blocks[d] : d \in S})
         /\ Cardinality(UNION {Blocks[d] : d \in S}) \in Nat
<1>1. UNION {Blocks[d] : d \in S} \in SUBSET Units
  BY DEF Units
<1>2. IsFiniteSet(S) /\ Cardinality(S) \in Nat
  BY SetsAssumption, FS_Subset, FS_CardinalityType
<1>3. IsFiniteSet(UNION {Blocks[d] : d \in S})
  BY <1>1, SizesAssumption, FS_Subset
<1>4. QED
  BY <1>2, <1>3, FS_CardinalityType

LEMMA SlugOfType ==
  ASSUME TypeOK, NEW ref \in Refs
  PROVE  SlugOf(ref) \in Slugs
  BY SetsAssumption DEF TypeOK, SlugOf, LiveRefs, Exists, Refs

LEMMA TypeInit == Init => TypeOK
  BY SetsAssumption, SizesAssumption
  DEF Init, TypeOK, Refs, ReqPc, RunPc, DelPc, SDelPc, Working

\* The request's steps.
LEMMA TypeRequest ==
  ASSUME TypeOK, NEW d \in Docs, RequestStep(d)
  PROVE  TypeOK'
<1> USE DEF TypeOK, ReqGoto, database, stores, counts, request, job, deletion, shelfDeletion
<1>1. CASE ShelfChunkBudget(d)
  <2> DEFINE taken == ChunksElsewhere(reqShelf[d])
  <2>1. taken \in Nat
    <3>1. UNION {charged[e] : e \in {f \in rows : shelfOf[f] \notin Here(reqShelf[d])}}
            \in SUBSET Chunks
      OBVIOUS
    <3>2. QED
      BY <3>1, ChunkCounts DEF ChunksElsewhere
  <2>2. taken < MaxChunks => MaxChunks - taken \in 0..MaxChunks
    BY <2>1, SizesAssumption
  <2> HIDE DEF taken
  <2>3. QED
    BY <1>1, <2>2 DEF ShelfChunkBudget, ReqPc, taken
<1>2. CASE FetchUrl(d)
  BY <1>2 DEF FetchUrl, ReqPc
<1>3. CASE LockAndCount(d)
  <2>1. Cardinality(rows) \in Nat /\ Cardinality(UNION {Blocks[e] : e \in rows}) \in Nat
    BY RowCounts
  <2>2. QED
    BY <1>3, <2>1 DEF LockAndCount, AcquireLock, ReqPc
<1>4. CASE ReserveFileSlot(d)
  BY <1>4 DEF ReserveFileSlot, ReqPc
<1>5. CASE RefuseFileSlot(d)
  BY <1>5 DEF RefuseFileSlot, Discard, ReqPc
<1>6. CASE ReserveOnDeadShelf(d)
  BY <1>6 DEF ReserveOnDeadShelf, ReqPc
<1>7. CASE WriteBytes(d)
  BY <1>7 DEF WriteBytes, ReqPc
<1>8. CASE ReleaseFileSlot(d)
  BY <1>8 DEF ReleaseFileSlot, ReqPc
<1>9. CASE Enqueue(d) \/ EnqueueFails(d)
  BY <1>9 DEF Enqueue, EnqueueFails, ReqPc, RunPc
<1>10. QED
  BY <1>1, <1>2, <1>3, <1>4, <1>5, <1>6, <1>7, <1>8, <1>9 DEF RequestStep

\* The job's steps: they move chunks in and out of the stores.
LEMMA TypeJob ==
  ASSUME TypeOK, NEW d \in Docs, JobStep(d)
  PROVE  TypeOK'
<1> USE DEF TypeOK, RunGoto, RunPc, Working, database, stores, counts, request, job, deletion,
            shelfDeletion
<1>1. Pieces[d] \subseteq Chunks
  BY DEF Chunks
<1>2. CASE StartRun(d)
  BY <1>2 DEF StartRun
<1>3. CASE Load(d)
  BY <1>3 DEF Load, Settle
<1>4. CASE Replace(d)
  BY <1>4 DEF Replace
<1>5. CASE CheckCapacity(d)
  BY <1>5 DEF CheckCapacity, Settle
<1>6. CASE UpsertVectors(d)
  BY <1>1, <1>6 DEF UpsertVectors, AddTo
<1>7. CASE UpsertChunks(d)
  BY <1>1, <1>7 DEF UpsertChunks, AddTo
<1>8. CASE BuildGraph(d)
  BY <1>8 DEF BuildGraph, Settle
<1>9. CASE PipelineFails(d)
  BY <1>9 DEF PipelineFails, Settle
<1>10. CASE FinalizeFile(d)
  BY <1>1, <1>10 DEF FinalizeFile, EndJob, StampOf, ChargeOf
<1>11. CASE StampFails(d) \/ FinishJob(d)
  BY <1>11 DEF StampFails, EndJob, FinishJob
<1>12. QED
  BY <1>2, <1>3, <1>4, <1>5, <1>6, <1>7, <1>8, <1>9, <1>10, <1>11 DEF JobStep

\* delete_file's steps.
LEMMA TypeDelete ==
  ASSUME TypeOK, NEW d \in Docs, DeleteRow(d) \/ DeleteStep(d)
  PROVE  TypeOK'
<1>1. SlugOf(shelfOf[d]) \in Slugs
  BY SlugOfType DEF TypeOK
<1> USE DEF TypeOK, DelGoto, DelPc, database, stores, counts, request, job, deletion, shelfDeletion
<1>2. CASE DeleteRow(d)
  BY <1>2 DEF DeleteRow, DropRow
<1>3. CASE ResolveShelf(d)
  BY <1>1, <1>3 DEF ResolveShelf
<1>4. CASE DeleteFromGraph(d)
  BY <1>4 DEF DeleteFromGraph, DropNodes
<1>5. CASE DeleteFromVectors(d)
  BY <1>5 DEF DeleteFromVectors, DropVectors
<1>6. CASE UnlinkFile(d)
  BY <1>6 DEF UnlinkFile, Discard
<1>7. CASE DeleteFails(d)
  BY <1>7 DEF DeleteFails
<1>8. QED
  BY <1>2, <1>3, <1>4, <1>5, <1>6, <1>7 DEF DeleteStep

\* delete_shelf's steps.
LEMMA TypeShelfDelete ==
  ASSUME TypeOK, NEW s \in ShelfRows, BeginDeleteShelf(s) \/ ShelfDeleteStep(s)
  PROVE  TypeOK'
<1> USE DEF TypeOK, SDelGoto, SDelPc, FilesOn, database, stores, counts, request, job, deletion,
            shelfDeletion
<1>1. CASE BeginDeleteShelf(s)
  BY <1>1 DEF BeginDeleteShelf
<1>2. CASE PurgeGraph(s)
  <2>1. /\ vec' \in [Slugs -> SUBSET Chunks] /\ graph' \in [Slugs -> SUBSET Chunks]
        /\ sdelAt' = [sdelAt EXCEPT ![s] = "vec"]
    BY <1>2 DEF PurgeGraph, DropNodes
  <2>2. UNCHANGED <<database, lock, disk, request, job, deletion, paths, doomed, crashes>>
    BY <1>2 DEF PurgeGraph
  <2>3. QED
    BY <2>1, <2>2
<1>3. CASE PurgeVectors(s)
  BY <1>3 DEF PurgeVectors, DropVectors
<1>4. CASE DeleteFilesOf(s)
  BY <1>4 DEF DeleteFilesOf, DoomedRows
<1>5. CASE CommitShelf(s)
  BY <1>5 DEF CommitShelf, Refs
<1>6. CASE UnlinkShelfFiles(s)
  BY <1>6 DEF UnlinkShelfFiles
<1>7. QED
  BY <1>1, <1>2, <1>3, <1>4, <1>5, <1>6 DEF ShelfDeleteStep

LEMMA TypeNext == TypeOK /\ [Next]_vars => TypeOK'
<1> SUFFICES ASSUME TypeOK, [Next]_vars PROVE TypeOK'
  OBVIOUS
<1> USE DEF database, stores, counts, request, job, deletion, shelfDeletion
<1>1. ASSUME NEW d \in Docs, NEW ref \in Refs, BeginIngest(d, ref)
      PROVE  TypeOK'
  BY <1>1, SlugOfType DEF TypeOK, BeginIngest, ReqGoto, ReqPc
<1>2. ASSUME NEW d \in Docs, TimeOut(d)
      PROVE  TypeOK'
  BY <1>2 DEF TypeOK, TimeOut
<1>3. ASSUME NEW s \in ShelfRows, NEW name \in Slugs, CreateShelf(s, name)
      PROVE  TypeOK'
  BY <1>3 DEF TypeOK, CreateShelf
<1>4. CASE RestartApi
  BY <1>4, SizesAssumption DEF TypeOK, RestartApi, ReqPc, RunPc, DelPc, SDelPc
<1>5. CASE RestartWorker
  BY <1>5, SizesAssumption DEF TypeOK, RestartWorker, RunPc
<1>6. CASE UNCHANGED vars
  BY <1>6 DEF TypeOK, vars
<1>7. QED
  BY <1>1, <1>2, <1>3, <1>4, <1>5, <1>6, TypeRequest, TypeJob, TypeDelete, TypeShelfDelete
  DEF Next

\* Every reachable state is well-typed; in particular no request is ever given
\* a chunk budget beyond the account's allowance.
THEOREM TypeCorrect == Spec => []TypeOK
  BY TypeInit, TypeNext, PTL DEF Spec

-----------------------------------------------------------------------------
(* The file and storage quotas.  The invariant is not inductive alone: a    *)
(* request about to insert decides on figures it read one step earlier.     *)
(* Those figures still bound the table from above, because only the holder  *)
(* of the lock inserts and everybody else can only delete.                  *)

CountedUnderLock ==
  \A d \in Docs : reqAt[d] = "insert" =>
     lock = d /\ Cardinality(rows) <= used[d] /\ Bytes(rows) <= stored[d]

QuotaInv == TypeOK /\ QuotaRespected /\ CountedUnderLock

LEMMA FewerRows ==
  ASSUME NEW S \in SUBSET Docs, NEW T \in SUBSET S
  PROVE  Cardinality(T) <= Cardinality(S) /\ Bytes(T) <= Bytes(S)
<1>1. IsFiniteSet(S) /\ IsFiniteSet(UNION {Blocks[d] : d \in S})
  BY RowCounts
<1>2. UNION {Blocks[d] : d \in T} \in SUBSET UNION {Blocks[d] : d \in S}
  OBVIOUS
<1>3. Cardinality(T) <= Cardinality(S)
  BY <1>1, FS_Subset
<1>4. Cardinality(UNION {Blocks[d] : d \in T}) <= Cardinality(UNION {Blocks[d] : d \in S})
  BY <1>1, <1>2, FS_Subset
<1>5. QED
  BY <1>3, <1>4 DEF Bytes

LEMMA OneMoreRow ==
  ASSUME NEW S \in SUBSET Docs, NEW d \in Docs
  PROVE  /\ Cardinality(S \cup {d}) <= Cardinality(S) + 1
         /\ Bytes(S \cup {d}) <= Bytes(S) + Cardinality(Blocks[d])
         /\ Cardinality(S) \in Nat /\ Bytes(S) \in Nat /\ Cardinality(Blocks[d]) \in Nat
         /\ Cardinality(S \cup {d}) \in Nat /\ Bytes(S \cup {d}) \in Nat
<1> DEFINE U == UNION {Blocks[e] : e \in S}
<1>1. IsFiniteSet(S) /\ Cardinality(S) \in Nat /\ IsFiniteSet(U) /\ Bytes(S) \in Nat
  BY RowCounts DEF Bytes
<1>2. IsFiniteSet(Blocks[d]) /\ Cardinality(Blocks[d]) \in Nat
  <2>1. Blocks[d] \in SUBSET Units
    BY DEF Units
  <2>2. QED
    BY <2>1, SizesAssumption, FS_Subset, FS_CardinalityType
<1>3. Cardinality(S \cup {d}) \in Nat /\ Bytes(S \cup {d}) \in Nat
  <2>1. S \cup {d} \in SUBSET Docs
    OBVIOUS
  <2>2. QED
    BY <2>1, RowCounts DEF Bytes
<1>4. Cardinality(S \cup {d}) <= Cardinality(S) + 1
  <2>1. Cardinality(S \cup {d}) = IF d \in S THEN Cardinality(S) ELSE Cardinality(S) + 1
    BY <1>1, FS_AddElement
  <2>2. QED
    BY <1>1, <2>1
<1>5. UNION {Blocks[e] : e \in S \cup {d}} = U \cup Blocks[d]
  OBVIOUS
<1>6. /\ Cardinality(U \cup Blocks[d]) = Cardinality(U) + Cardinality(Blocks[d])
                                         - Cardinality(U \cap Blocks[d])
      /\ Cardinality(U \cap Blocks[d]) \in Nat
  <2> HIDE DEF U
  <2>1. IsFiniteSet(U \cap Blocks[d])
    BY <1>1, FS_Intersection
  <2>2. Cardinality(U \cap Blocks[d]) \in Nat
    BY <2>1, FS_CardinalityType
  <2>3. Cardinality(U \cup Blocks[d]) = Cardinality(U) + Cardinality(Blocks[d])
                                         - Cardinality(U \cap Blocks[d])
    BY <1>1, <1>2, FS_Union
  <2>4. QED
    BY <2>2, <2>3
<1>7. Bytes(S \cup {d}) <= Bytes(S) + Cardinality(Blocks[d])
  <2>1. Bytes(S \cup {d}) = Cardinality(U \cup Blocks[d]) /\ Bytes(S) = Cardinality(U)
    BY <1>5 DEF Bytes
  <2> HIDE DEF U
  <2>2. QED
    BY <1>1, <1>2, <1>6, <2>1
<1>8. QED
  BY <1>1, <1>2, <1>3, <1>4, <1>7

\* A step that inserts no row, and lets no request past the count, keeps it.
LEMMA QuotaKept ==
  ASSUME QuotaInv, TypeOK', rows' \subseteq rows,
         \A d \in Docs : reqAt'[d] = "insert" =>
            reqAt[d] = "insert" /\ lock' = lock /\ used'[d] = used[d] /\ stored'[d] = stored[d]
  PROVE  QuotaInv'
<1>1. /\ Cardinality(rows') <= Cardinality(rows) /\ Bytes(rows') <= Bytes(rows)
      /\ Cardinality(rows) \in Nat /\ Bytes(rows) \in Nat
      /\ Cardinality(rows') \in Nat /\ Bytes(rows') \in Nat
  <2>1. rows \in SUBSET Docs /\ rows' \in SUBSET rows /\ rows' \in SUBSET Docs
    BY DEF QuotaInv, TypeOK
  <2>2. QED
    BY <2>1, FewerRows, RowCounts DEF Bytes
<1>2. QuotaRespected'
  <2>1. Cardinality(rows) <= MaxFiles /\ Bytes(rows) <= MaxStorage
    BY DEF QuotaInv, QuotaRespected, Bytes
  <2>2. Cardinality(rows') <= MaxFiles /\ Bytes(rows') <= MaxStorage
    BY <1>1, <2>1, SizesAssumption
  <2>3. QED
    BY <2>2 DEF QuotaRespected, Bytes
<1>3. CountedUnderLock'
  <2> SUFFICES ASSUME NEW d \in Docs, reqAt'[d] = "insert"
               PROVE  /\ lock' = d /\ Cardinality(rows') <= used'[d]
                      /\ Bytes(rows') <= stored'[d]
    BY DEF CountedUnderLock, Bytes
  <2>1. lock = d /\ Cardinality(rows) <= used[d] /\ Bytes(rows) <= stored[d]
    BY DEF QuotaInv, CountedUnderLock
  <2>2. used[d] \in Nat /\ stored[d] \in Nat
    BY DEF QuotaInv, TypeOK
  <2>3. QED
    BY <1>1, <2>1, <2>2
<1>4. QED
  BY <1>2, <1>3 DEF QuotaInv

LEMMA QuotaInit == Init => QuotaInv
<1> SUFFICES ASSUME Init PROVE QuotaInv
  OBVIOUS
<1>1. Cardinality(rows) = 0 /\ Cardinality(UNION {Blocks[d] : d \in rows}) = 0
  <2>1. rows = {} /\ UNION {Blocks[d] : d \in {}} = {}
    BY DEF Init
  <2>2. QED
    BY <2>1, FS_EmptySet
<1>2. QuotaRespected
  BY <1>1, SizesAssumption DEF QuotaRespected, Bytes
<1>3. CountedUnderLock
  BY DEF Init, CountedUnderLock
<1>4. QED
  BY <1>2, <1>3, TypeInit DEF QuotaInv

\* The two steps that matter: the locked read, and the insert it decides.
LEMMA QuotaLockAndCount ==
  ASSUME QuotaInv, TypeOK', NEW d \in Docs, LockAndCount(d)
  PROVE  QuotaInv'
<1>1. rows' = rows /\ QuotaRespected'
  BY DEF LockAndCount, database, QuotaInv, QuotaRespected
<1>2. \A e \in Docs : reqAt[e] # "insert"
  BY SetsAssumption DEF QuotaInv, CountedUnderLock, LockAndCount, AcquireLock
<1>3. CountedUnderLock'
  <2> SUFFICES ASSUME NEW e \in Docs, reqAt'[e] = "insert"
               PROVE  /\ lock' = e /\ Cardinality(rows') <= used'[e]
                      /\ Bytes(rows') <= stored'[e]
    BY DEF CountedUnderLock, Bytes
  <2>1. e = d
    BY <1>2 DEF LockAndCount, ReqGoto, QuotaInv, TypeOK
  <2>2. used'[e] = Cardinality(rows) /\ stored'[e] = Bytes(rows)
    BY <2>1 DEF LockAndCount, QuotaInv, TypeOK, Bytes
  <2>3. Cardinality(rows) \in Nat /\ Bytes(rows) \in Nat
    BY RowCounts DEF QuotaInv, TypeOK, Bytes
  <2>4. QED
    BY <1>1, <2>1, <2>2, <2>3 DEF LockAndCount, AcquireLock
<1>4. QED
  BY <1>1, <1>3 DEF QuotaInv

LEMMA QuotaReserve ==
  ASSUME QuotaInv, TypeOK', NEW d \in Docs, ReserveFileSlot(d)
  PROVE  QuotaInv'
<1>1. lock = d /\ Cardinality(rows) <= used[d] /\ Bytes(rows) <= stored[d]
  BY DEF QuotaInv, CountedUnderLock, ReserveFileSlot
<1>2. used[d] < MaxFiles /\ stored[d] + Cardinality(Blocks[d]) <= MaxStorage
  <2>1. Cardinality(Blocks[d]) \in Nat /\ used[d] \in Nat /\ stored[d] \in Nat
    <3>1. rows \in SUBSET Docs
      BY DEF QuotaInv, TypeOK
    <3>2. QED
      BY <3>1, OneMoreRow DEF QuotaInv, TypeOK
  <2>2. ~(used[d] >= MaxFiles) /\ ~(stored[d] + Cardinality(Blocks[d]) > MaxStorage)
    BY DEF ReserveFileSlot, OverQuota
  <2>3. QED
    BY <2>1, <2>2, SizesAssumption
<1>3. QuotaRespected'
  <2>1. rows \in SUBSET Docs /\ used[d] \in Nat /\ stored[d] \in Nat
    BY DEF QuotaInv, TypeOK
  <2>2. /\ Cardinality(rows \cup {d}) <= Cardinality(rows) + 1
        /\ Bytes(rows \cup {d}) <= Bytes(rows) + Cardinality(Blocks[d])
        /\ Cardinality(rows) \in Nat /\ Bytes(rows) \in Nat /\ Cardinality(Blocks[d]) \in Nat
        /\ Cardinality(rows \cup {d}) \in Nat /\ Bytes(rows \cup {d}) \in Nat
    BY <2>1, OneMoreRow
  <2>3. Cardinality(rows \cup {d}) <= MaxFiles /\ Bytes(rows \cup {d}) <= MaxStorage
    BY <1>1, <1>2, <2>1, <2>2, SizesAssumption
  <2>4. QED
    BY <2>3 DEF ReserveFileSlot, QuotaRespected, Bytes
<1>4. CountedUnderLock'
  <2> SUFFICES ASSUME NEW e \in Docs PROVE reqAt'[e] # "insert"
    BY DEF CountedUnderLock
  <2>1. CASE e = d
    BY <2>1 DEF ReserveFileSlot, ReqGoto, QuotaInv, TypeOK
  <2>2. CASE e # d
    BY <1>1, <2>2 DEF ReserveFileSlot, ReqGoto, QuotaInv, TypeOK, CountedUnderLock
  <2>3. QED
    BY <2>1, <2>2
<1>5. QED
  BY <1>3, <1>4 DEF QuotaInv

\* Everything else inserts nothing and takes no request to the insert.
NoInsert ==
  /\ rows' \subseteq rows
  /\ \A d \in Docs : reqAt'[d] = "insert" =>
        reqAt[d] = "insert" /\ lock' = lock /\ used'[d] = used[d] /\ stored'[d] = stored[d]

LEMMA StepKinds ==
  ASSUME QuotaInv, [Next]_vars
  PROVE  \/ NoInsert
         \/ \E d \in Docs : LockAndCount(d) \/ ReserveFileSlot(d)
<1>1. TypeOK /\ TypeOK'
  BY TypeNext DEF QuotaInv
<1> USE DEF database, stores, counts, request, job, deletion, shelfDeletion, TypeOK
<1>2. ASSUME NEW d \in Docs, RequestStep(d)
      PROVE  NoInsert \/ LockAndCount(d) \/ ReserveFileSlot(d)
  <2> USE DEF ReqGoto, NoInsert
  <2>1. ASSUME ShelfChunkBudget(d) PROVE NoInsert
    BY <1>1, <2>1 DEF ShelfChunkBudget
  <2>2. ASSUME FetchUrl(d) PROVE NoInsert
    BY <1>1, <2>2 DEF FetchUrl
  <2>3. ASSUME RefuseFileSlot(d) \/ ReserveOnDeadShelf(d) PROVE NoInsert
    BY <1>1, <2>3 DEF RefuseFileSlot, ReserveOnDeadShelf, QuotaInv, CountedUnderLock
  <2>4. ASSUME WriteBytes(d) PROVE NoInsert
    BY <1>1, <2>4 DEF WriteBytes
  <2>5. ASSUME ReleaseFileSlot(d) PROVE NoInsert
    BY <1>1, <2>5 DEF ReleaseFileSlot
  <2>6. ASSUME Enqueue(d) \/ EnqueueFails(d) PROVE NoInsert
    BY <1>1, <2>6 DEF Enqueue, EnqueueFails
  <2> HIDE DEF TypeOK
  <2>7. QED
    BY <1>1, <1>2, <2>1, <2>2, <2>3, <2>4, <2>5, <2>6 DEF RequestStep
<1>3. ASSUME NEW d \in Docs, NEW ref \in Refs, BeginIngest(d, ref) PROVE NoInsert
  BY <1>1, <1>3 DEF BeginIngest, ReqGoto, NoInsert
<1>4. ASSUME NEW d \in Docs, JobStep(d) PROVE NoInsert
  BY <1>4 DEF JobStep, StartRun, Load, Replace, CheckCapacity, UpsertVectors, UpsertChunks,
              BuildGraph, PipelineFails, FinalizeFile, StampFails, EndJob, FinishJob, NoInsert
<1>5. ASSUME NEW d \in Docs, DeleteRow(d) \/ DeleteStep(d) \/ TimeOut(d) PROVE NoInsert
  BY <1>5 DEF DeleteRow, DropRow, DeleteStep, ResolveShelf, DeleteFromGraph, DeleteFromVectors,
              UnlinkFile, DeleteFails, TimeOut, NoInsert
<1>6. ASSUME NEW s \in ShelfRows, BeginDeleteShelf(s) \/ ShelfDeleteStep(s) PROVE NoInsert
  BY <1>6 DEF BeginDeleteShelf, ShelfDeleteStep, PurgeGraph, PurgeVectors, DeleteFilesOf,
              CommitShelf, UnlinkShelfFiles, NoInsert
<1>7. ASSUME NEW s \in ShelfRows, NEW name \in Slugs, CreateShelf(s, name) PROVE NoInsert
  BY <1>7 DEF CreateShelf, NoInsert
<1>8. ASSUME RestartApi \/ RestartWorker PROVE NoInsert
  BY <1>1, <1>8 DEF RestartApi, RestartWorker, NoInsert
<1>9. ASSUME UNCHANGED vars PROVE NoInsert
  BY <1>9 DEF vars, NoInsert
<1> HIDE DEF TypeOK
<1>10. QED
  BY <1>2, <1>3, <1>4, <1>5, <1>6, <1>7, <1>8, <1>9 DEF Next

LEMMA QuotaNext == QuotaInv /\ [Next]_vars => QuotaInv'
<1> SUFFICES ASSUME QuotaInv, [Next]_vars PROVE QuotaInv'
  OBVIOUS
<1>1. TypeOK'
  BY TypeNext DEF QuotaInv
<1>2. CASE NoInsert
  BY <1>1, <1>2, QuotaKept DEF NoInsert
<1>3. CASE \E d \in Docs : LockAndCount(d) \/ ReserveFileSlot(d)
  BY <1>1, <1>3, QuotaLockAndCount, QuotaReserve
<1>4. QED
  BY <1>2, <1>3, StepKinds

\* However many requests race, and whatever fails, restarts or is deleted
\* meanwhile, the account never holds more files or bytes than its allowance.
THEOREM QuotaHolds == Spec => []QuotaRespected
<1>1. QuotaInv => QuotaRespected
  BY DEF QuotaInv
<1>2. QED
  BY <1>1, QuotaInit, QuotaNext, PTL DEF Spec

LEMMA LedgerNext == QuotaInv /\ [Next]_vars => [Ledger!Next]_rows
<1> SUFFICES ASSUME QuotaInv, [Next]_vars PROVE [Ledger!Next]_rows
  OBVIOUS
<1>1. CASE NoInsert
  <2> DEFINE gone == rows \ rows'
  <2>1. gone \in SUBSET Docs /\ rows' = rows \ gone
    BY <1>1 DEF NoInsert, QuotaInv, TypeOK
  <2>2. QED
    BY <2>1 DEF Ledger!Next, Ledger!GiveBack
<1>2. ASSUME NEW d \in Docs, LockAndCount(d) PROVE UNCHANGED rows
  BY <1>2 DEF LockAndCount, database
<1>3. ASSUME NEW d \in Docs, ReserveFileSlot(d) PROVE Ledger!Take(d)
  <2>1. Cardinality(rows) <= used[d] /\ Bytes(rows) <= stored[d]
    BY <1>3 DEF QuotaInv, CountedUnderLock, ReserveFileSlot
  <2>2. ~(used[d] >= MaxFiles) /\ ~(stored[d] + Cardinality(Blocks[d]) > MaxStorage)
    BY <1>3 DEF ReserveFileSlot, OverQuota
  <2>3. rows \in SUBSET Docs /\ used[d] \in Nat /\ stored[d] \in Nat
    BY DEF QuotaInv, TypeOK
  <2>4. Cardinality(rows) \in Nat /\ Bytes(rows) \in Nat /\ Cardinality(Blocks[d]) \in Nat
    BY <2>3, OneMoreRow
  <2>5. Cardinality(rows) < MaxFiles /\ Bytes(rows) + Cardinality(Blocks[d]) <= MaxStorage
    BY <2>1, <2>2, <2>3, <2>4, SizesAssumption
  <2>6. Bytes({d}) = Cardinality(Blocks[d])
    <3>1. UNION {Blocks[e] : e \in {d}} = Blocks[d]
      OBVIOUS
    <3>2. QED
      BY <3>1 DEF Bytes
  <2>7. QED
    BY <1>3, <2>5, <2>6 DEF ReserveFileSlot, Ledger!Take
<1>4. QED
  BY <1>1, <1>2, <1>3, StepKinds DEF Ledger!Next

\* The reservation is atomic: seen through the file rows alone, the whole
\* system is a ledger that takes a document in one step, when it has room.
THEOREM LedgerRefined == Spec => Reserves
<1>1. Init => Ledger!Init
  BY DEF Init, Ledger!Init
<1>2. QED
  BY <1>1, QuotaInit, QuotaNext, LedgerNext, PTL DEF Spec, Reserves, Ledger!Spec

-----------------------------------------------------------------------------
(* The chunk ceiling of one corpus, when ingestion runs in this process.    *)
(* _check_capacity and the upsert are two steps, so the invariant carries   *)
(* what the one that checked is still entitled to write, and that nobody    *)
(* else is inside the pipeline meanwhile: no job is timed out in-process,   *)
(* and the semaphore admits one.  A budget of zero would skip the check:    *)
(* no request past ShelfChunkBudget carries one.                            *)

Budgeted == \A d \in Docs : reqAt[d] \in {"fetch", "lock", "insert", "write", "release",
                                          "enqueue", "accepted"} => budget[d] # 0

JobsAccepted == \A d \in Docs : runAt[d] # "none" => reqAt[d] = "accepted"

OneInPipeline ==
  /\ zombies = {}
  /\ \A d, e \in Docs : runAt[d] \in Working /\ runAt[e] \in Working => d = e

RoomFor(d) == Cardinality(vec[slug[d]]) + Cardinality(Pieces[d]) <= MaxChunks

CheckedHasRoom == \A d \in Docs : runAt[d] = "vec" => RoomFor(d)

CeilingInv ==
  TypeOK /\ CorpusCeiling /\ Budgeted /\ JobsAccepted /\ OneInPipeline /\ CheckedHasRoom

\* A step that adds no chunk, starts no job and lets none past the check.
Quiet ==
  /\ \A c \in Slugs : vec'[c] \subseteq vec[c]
  /\ zombies' = zombies
  /\ \A d \in Docs : /\ runAt'[d] \in Working => runAt[d] \in Working
                     /\ runAt'[d] = "vec" => runAt[d] = "vec" /\ slug'[d] = slug[d]

LEMMA CeilingKept ==
  ASSUME CeilingInv, TypeOK', Quiet
  PROVE  (CorpusCeiling /\ OneInPipeline /\ CheckedHasRoom)'
<1>1. ASSUME NEW c \in Slugs
      PROVE  /\ Cardinality(vec'[c]) <= Cardinality(vec[c])
             /\ Cardinality(vec[c]) \in Nat /\ Cardinality(vec'[c]) \in Nat
  <2>1. vec[c] \in SUBSET Chunks /\ vec'[c] \in SUBSET Chunks /\ vec'[c] \in SUBSET vec[c]
    BY DEF CeilingInv, TypeOK, Quiet
  <2>2. QED
    BY <2>1, ChunkCounts, FS_Subset
<1>2. CorpusCeiling'
  BY <1>1, SizesAssumption DEF CeilingInv, CorpusCeiling
<1>3. OneInPipeline'
  BY DEF CeilingInv, OneInPipeline, Quiet
<1>4. CheckedHasRoom'
  <2> SUFFICES ASSUME NEW d \in Docs, runAt'[d] = "vec" PROVE RoomFor(d)'
    BY DEF CheckedHasRoom
  <2>1. slug'[d] = slug[d] /\ slug[d] \in Slugs
    BY DEF Quiet, CeilingInv, TypeOK
  <2>2. Cardinality(vec[slug[d]]) + Cardinality(Pieces[d]) <= MaxChunks
    BY DEF Quiet, CeilingInv, CheckedHasRoom, RoomFor
  <2>3. Cardinality(Pieces[d]) \in Nat
    <3>1. Pieces[d] \in SUBSET Chunks
      BY DEF Chunks
    <3>2. QED
      BY <3>1, ChunkCounts
  <2>4. Cardinality(vec'[slug[d]]) + Cardinality(Pieces[d]) <= MaxChunks
    BY <1>1, <2>1, <2>2, <2>3, SizesAssumption
  <2>5. QED
    BY <2>1, <2>4 DEF RoomFor
<1>5. QED
  BY <1>2, <1>3, <1>4

LEMMA CeilingInit == Init => CeilingInv
<1> SUFFICES ASSUME Init PROVE CeilingInv
  OBVIOUS
<1>1. CorpusCeiling
  BY FS_EmptySet, SizesAssumption DEF Init, CorpusCeiling
<1>2. Budgeted /\ JobsAccepted /\ OneInPipeline /\ CheckedHasRoom
  BY DEF Init, Budgeted, JobsAccepted, OneInPipeline, CheckedHasRoom, Working
<1>3. QED
  BY <1>1, <1>2, TypeInit DEF CeilingInv

\* The steps of requests and jobs that give a budget, or need one.
LEMMA BudgetKept ==
  ASSUME CeilingInv, [Next]_vars
  PROVE  (Budgeted /\ JobsAccepted)'
<1>1. TypeOK /\ TypeOK' /\ Budgeted /\ JobsAccepted
  BY TypeNext DEF CeilingInv
<1> USE DEF TypeOK, Budgeted, JobsAccepted, database, stores, counts, request, job, deletion,
            shelfDeletion
<1>2. ASSUME NEW d \in Docs, NEW ref \in Refs, BeginIngest(d, ref)
      PROVE  (Budgeted /\ JobsAccepted)'
  BY <1>1, <1>2 DEF BeginIngest, ReqGoto
<1>3. ASSUME NEW d \in Docs, ShelfChunkBudget(d)
      PROVE  (Budgeted /\ JobsAccepted)'
  <2> DEFINE taken == ChunksElsewhere(reqShelf[d])
  <2>1. taken \in Nat
    <3>1. UNION {charged[e] : e \in {f \in rows : shelfOf[f] \notin Here(reqShelf[d])}}
            \in SUBSET Chunks
      BY <1>1
    <3>2. QED
      BY <3>1, ChunkCounts DEF ChunksElsewhere
  <2>2. taken < MaxChunks => MaxChunks - taken # 0
    BY <2>1, SizesAssumption
  <2> HIDE DEF taken
  <2>3. QED
    BY <1>1, <1>3, <2>2 DEF ShelfChunkBudget, ReqGoto, taken
<1>4. ASSUME NEW d \in Docs, RequestStep(d), ~ShelfChunkBudget(d)
      PROVE  (Budgeted /\ JobsAccepted)'
  BY <1>1, <1>4 DEF RequestStep, FetchUrl, LockAndCount, ReserveFileSlot, RefuseFileSlot,
                    ReserveOnDeadShelf, WriteBytes, ReleaseFileSlot, Enqueue,
                    EnqueueFails, ReqGoto
<1>5. ASSUME NEW d \in Docs, JobStep(d) \/ TimeOut(d)
      PROVE  (Budgeted /\ JobsAccepted)'
  <2>1. runAt[d] # "none" /\ request' = request
    BY <1>5 DEF JobStep, StartRun, Load, Replace, CheckCapacity, UpsertVectors, UpsertChunks,
                BuildGraph, PipelineFails, FinalizeFile, StampFails, EndJob, FinishJob, TimeOut, Working
  <2>2. \A e \in Docs : e # d => runAt'[e] = runAt[e]
    <3>1. runAt' = runAt \/ \E pc \in RunPc : RunGoto(d, pc)
      BY <1>5 DEF JobStep, StartRun, Load, Replace, CheckCapacity, UpsertVectors,
                  UpsertChunks, BuildGraph, PipelineFails, FinalizeFile, StampFails, EndJob, FinishJob, TimeOut,
                  Settle, RunPc, Working
    <3>2. QED
      BY <1>1, <3>1 DEF RunGoto
  <2>3. QED
    BY <1>1, <2>1, <2>2
<1>6. ASSUME NEW d \in Docs, DeleteRow(d) \/ DeleteStep(d)
      PROVE  (Budgeted /\ JobsAccepted)'
  BY <1>1, <1>6 DEF DeleteRow, DeleteStep, ResolveShelf, DeleteFromGraph, DeleteFromVectors,
                    UnlinkFile, DeleteFails
<1>7. ASSUME NEW s \in ShelfRows, BeginDeleteShelf(s) \/ ShelfDeleteStep(s)
      PROVE  (Budgeted /\ JobsAccepted)'
  BY <1>1, <1>7 DEF BeginDeleteShelf, ShelfDeleteStep, PurgeGraph, PurgeVectors,
                    DeleteFilesOf, CommitShelf, UnlinkShelfFiles
<1>8. ASSUME NEW s \in ShelfRows, NEW name \in Slugs, CreateShelf(s, name)
      PROVE  (Budgeted /\ JobsAccepted)'
  BY <1>1, <1>8 DEF CreateShelf
<1>9. CASE RestartApi \/ RestartWorker
  BY <1>1, <1>9 DEF RestartApi, RestartWorker, Working
<1>10. CASE UNCHANGED vars
  BY <1>1, <1>10 DEF vars
<1> HIDE DEF TypeOK, Budgeted, JobsAccepted
<1>11. QED
  BY <1>2, <1>3, <1>4, <1>5, <1>6, <1>7, <1>8, <1>9, <1>10 DEF Next

\* The three steps that are not quiet: a job is admitted, checked, and writes.
LEMMA CeilingStartRun ==
  ASSUME CeilingInv, TypeOK', ~Worker, NEW d \in Docs, StartRun(d)
  PROVE  (CorpusCeiling /\ OneInPipeline /\ CheckedHasRoom)'
<1> USE DEF stores, request
<1>1. \A e \in Docs : runAt[e] \notin Working
  <2> DEFINE H == {e \in Docs : Holding(e)}
  <2>1. IsFiniteSet(H) /\ Cardinality(H) \in Nat /\ Cardinality(H) < 1
    <3>1. H \in SUBSET Docs
      OBVIOUS
    <3>2. Cardinality(H) < Slots /\ Slots = 1
      BY DeploymentAssumption DEF StartRun, SlotFree
    <3>3. QED
      BY <3>1, <3>2, RowCounts
  <2>2. H = {}
    BY <2>1, FS_EmptySet
  <2>3. QED
    BY <2>2 DEF Holding, CeilingInv, OneInPipeline
<1>2. vec' = vec /\ slug' = slug /\ zombies' = zombies
  BY DEF StartRun
<1>3. \A e \in Docs : runAt'[e] = IF e = d THEN "load" ELSE runAt[e]
  BY DEF StartRun, RunGoto, CeilingInv, TypeOK
<1>4. CorpusCeiling'
  BY <1>2 DEF CeilingInv, CorpusCeiling
<1>5. OneInPipeline'
  BY <1>1, <1>2, <1>3 DEF CeilingInv, OneInPipeline
<1>6. CheckedHasRoom'
  BY <1>1, <1>3 DEF CheckedHasRoom, Working
<1>7. QED
  BY <1>4, <1>5, <1>6

LEMMA CeilingCheckCapacity ==
  ASSUME CeilingInv, TypeOK', Provider = "duckdb", NEW d \in Docs, CheckCapacity(d)
  PROVE  (CorpusCeiling /\ OneInPipeline /\ CheckedHasRoom)'
<1> USE DEF stores, request
<1>1. vec' = vec /\ slug' = slug /\ zombies' = zombies /\ runAt[d] = "check"
  BY DEF CheckCapacity
<1>2. \A e \in Docs : e # d => runAt'[e] = runAt[e]
  BY DEF CheckCapacity, Settle, RunGoto, CeilingInv, TypeOK
<1>3. CorpusCeiling'
  BY <1>1 DEF CeilingInv, CorpusCeiling
<1>4. OneInPipeline'
  BY <1>1, <1>2 DEF CeilingInv, OneInPipeline, Working
<1>5. runAt'[d] = "vec" => RoomFor(d)
  <2> SUFFICES ASSUME runAt'[d] = "vec" PROVE RoomFor(d)
    OBVIOUS
  <2>1. Fits(d)
    BY DEF CheckCapacity, Settle, RunGoto, CeilingInv, TypeOK
  <2>2. budget[d] # 0 /\ budget[d] \in 0..MaxChunks
    BY <1>1 DEF CeilingInv, Budgeted, JobsAccepted, TypeOK
  <2>3. Cardinality(vec[slug[d]]) + Cardinality(Pieces[d]) <= budget[d]
    BY <2>1, <2>2 DEF Fits
  <2>4. Cardinality(vec[slug[d]]) \in Nat /\ Cardinality(Pieces[d]) \in Nat
    <3>1. vec[slug[d]] \in SUBSET Chunks /\ Pieces[d] \in SUBSET Chunks
      BY DEF CeilingInv, TypeOK, Chunks
    <3>2. QED
      BY <3>1, ChunkCounts
  <2>5. QED
    BY <2>2, <2>3, <2>4, SizesAssumption DEF RoomFor
<1>6. CheckedHasRoom'
  BY <1>1, <1>2, <1>5 DEF CeilingInv, CheckedHasRoom, RoomFor
<1>7. QED
  BY <1>3, <1>4, <1>6

LEMMA CeilingUpsertVectors ==
  ASSUME CeilingInv, TypeOK', NEW d \in Docs, UpsertVectors(d)
  PROVE  (CorpusCeiling /\ OneInPipeline /\ CheckedHasRoom)'
<1> USE DEF request
<1>1. vec' = AddTo(vec, d) /\ slug' = slug /\ zombies' = zombies /\ runAt[d] = "vec"
  BY DEF UpsertVectors
<1>2. \A e \in Docs : runAt'[e] = IF e = d THEN "graph" ELSE runAt[e]
  BY DEF UpsertVectors, RunGoto, CeilingInv, TypeOK
<1>3. \A e \in Docs : runAt'[e] # "vec"
  BY <1>1, <1>2 DEF CeilingInv, OneInPipeline, Working
<1>4. OneInPipeline'
  BY <1>1, <1>2 DEF CeilingInv, OneInPipeline, Working
<1>5. ASSUME NEW c \in Slugs PROVE Cardinality(vec'[c]) <= MaxChunks
  <2>1. CASE c # slug[d]
    BY <1>1, <2>1 DEF AddTo, CeilingInv, TypeOK, CorpusCeiling
  <2>2. CASE c = slug[d]
    <3> DEFINE V == vec[slug[d]]
    <3>1. V \in SUBSET Chunks /\ Pieces[d] \in SUBSET Chunks /\ vec'[c] = V \cup Pieces[d]
      BY <1>1, <2>2 DEF AddTo, CeilingInv, TypeOK, Chunks
    <3>2. Cardinality(V) + Cardinality(Pieces[d]) <= MaxChunks
      BY <1>1 DEF CeilingInv, CheckedHasRoom, RoomFor
    <3> HIDE DEF V
    <3>3. /\ IsFiniteSet(V) /\ Cardinality(V) \in Nat
          /\ IsFiniteSet(Pieces[d]) /\ Cardinality(Pieces[d]) \in Nat
      BY <3>1, ChunkCounts
    <3>4. IsFiniteSet(V \cap Pieces[d])
      BY <3>3, FS_Intersection
    <3>5. Cardinality(V \cap Pieces[d]) \in Nat
      BY <3>4, FS_CardinalityType
    <3>6. Cardinality(V \cup Pieces[d])
            = Cardinality(V) + Cardinality(Pieces[d]) - Cardinality(V \cap Pieces[d])
      BY <3>3, FS_Union
    <3>7. QED
      BY <3>1, <3>2, <3>3, <3>5, <3>6, SizesAssumption
  <2>3. QED
    BY <2>1, <2>2
<1>6. CorpusCeiling'
  BY <1>5 DEF CorpusCeiling
<1>7. CheckedHasRoom'
  BY <1>3 DEF CheckedHasRoom
<1>8. QED
  BY <1>4, <1>6, <1>7

LEMMA CeilingNext ==
  ASSUME ~Worker, Provider = "duckdb", CeilingInv, [Next]_vars
  PROVE  CeilingInv'
<1>1. TypeOK /\ TypeOK' /\ JobsAccepted
  BY TypeNext DEF CeilingInv
<1> USE DEF database, stores, counts, request, job, deletion, shelfDeletion, TypeOK, Quiet
<1>2. ASSUME NEW d \in Docs, NEW ref \in Refs, BeginIngest(d, ref) PROVE Quiet
  BY <1>1, <1>2 DEF BeginIngest, JobsAccepted
<1>3. ASSUME NEW d \in Docs, RequestStep(d) PROVE Quiet
  BY <1>1, <1>3 DEF RequestStep, ShelfChunkBudget, FetchUrl, LockAndCount, ReserveFileSlot,
                    RefuseFileSlot, ReserveOnDeadShelf, WriteBytes, ReleaseFileSlot, Enqueue,
                    EnqueueFails, Working
<1>4. ASSUME NEW d \in Docs, JobStep(d), ~StartRun(d), ~CheckCapacity(d), ~UpsertVectors(d)
      PROVE  Quiet
  <2> USE DEF RunGoto, Working
  <2>1. ASSUME Load(d) PROVE Quiet
    BY <1>1, <2>1 DEF Load, Settle
  <2>2. ASSUME Replace(d) PROVE Quiet
    BY <1>1, <2>2 DEF Replace
  <2>3. ASSUME UpsertChunks(d) PROVE Quiet
    BY <1>1, <2>3 DEF UpsertChunks
  <2>4. ASSUME BuildGraph(d) \/ PipelineFails(d) PROVE Quiet
    BY <1>1, <2>4 DEF BuildGraph, PipelineFails, Settle
  <2>5. ASSUME FinalizeFile(d) \/ StampFails(d) \/ FinishJob(d) PROVE Quiet
    BY <1>1, <2>5 DEF FinalizeFile, StampFails, EndJob, FinishJob
  <2> HIDE DEF TypeOK, Quiet
  <2>6. QED
    BY <1>4, <2>1, <2>2, <2>3, <2>4, <2>5 DEF JobStep
<1>5. ASSUME NEW d \in Docs, DeleteRow(d) \/ DeleteStep(d) PROVE Quiet
  BY <1>1, <1>5 DEF DeleteRow, DeleteStep, ResolveShelf, DeleteFromGraph, DeleteFromVectors,
                    UnlinkFile, DeleteFails, DropNodes, DropVectors
<1>6. ASSUME NEW s \in ShelfRows, BeginDeleteShelf(s) \/ ShelfDeleteStep(s) PROVE Quiet
  BY <1>1, <1>6 DEF BeginDeleteShelf, ShelfDeleteStep, PurgeGraph, PurgeVectors,
                    DeleteFilesOf, CommitShelf, UnlinkShelfFiles, DropNodes, DropVectors
<1>7. ASSUME NEW s \in ShelfRows, NEW name \in Slugs, CreateShelf(s, name) PROVE Quiet
  BY <1>1, <1>7 DEF CreateShelf
<1>8. ASSUME RestartApi PROVE Quiet
  BY <1>1, <1>8 DEF RestartApi, Working
<1>9. ASSUME UNCHANGED vars PROVE Quiet
  BY <1>1, <1>9 DEF vars
<1>10. ~RestartWorker /\ \A d \in Docs : ~TimeOut(d)
  BY DEF RestartWorker, TimeOut
<1> HIDE DEF TypeOK, Quiet
<1>11. (CorpusCeiling /\ OneInPipeline /\ CheckedHasRoom)'
  BY <1>1, <1>2, <1>3, <1>4, <1>5, <1>6, <1>7, <1>8, <1>9, <1>10, CeilingKept,
     CeilingStartRun, CeilingCheckCapacity, CeilingUpsertVectors DEF Next
<1>12. QED
  BY <1>1, <1>11, BudgetKept DEF CeilingInv

\* When this process ingests into DuckDB, no corpus ever outgrows the account's
\* chunk allowance, whatever is uploaded, deleted, failing or restarted.
THEOREM CeilingHolds ==
  ASSUME ~Worker, Provider = "duckdb"
  PROVE  Spec => []CorpusCeiling
<1>1. CeilingInv => CorpusCeiling
  BY DEF CeilingInv
<1>2. CeilingInv /\ [Next]_vars => CeilingInv'
  BY CeilingNext
<1>3. QED
  BY <1>1, <1>2, CeilingInit, PTL DEF Spec

-----------------------------------------------------------------------------
(* Files and stamps.                                                       *)

\* Where a request is once its row has been inserted, and ever after.
Past == {"write", "release", "enqueue", "accepted", "failed", "lost"}

RowsArePast == \A d \in rows : reqAt[d] \in Past
DiskAfterFetch == \A d \in disk : reqAt[d] \notin {"idle", "budget", "fetch", "refused"}
Fetched == \A d \in Urls : reqAt[d] \in {"lock", "insert"} => d \in disk
Written == \A d \in rows : reqAt[d] \in {"enqueue", "accepted"} => d \in disk

\* delete_file has dropped the row before it comes to the file.
Leaving == \A d \in Docs : delAt[d] \in {"resolve", "graph", "vec", "unlink"} => reqAt[d] \in Past /\ d \notin rows

\* What delete_shelf listed had a row there, which its transaction takes with it.
Going == {"graph", "vec", "files", "commit", "unlink"}
Listed ==
  \A s \in ShelfRows : sdelAt[s] \in Going =>
    \A d \in paths[s] :
      /\ reqAt[d] \in Past
      /\ d \in rows => /\ sdelAt[s] # "unlink"
                       /\ sdelAt[s] = "commit" => d \in doomed[s]
                       /\ sdelAt[s] # "commit" => shelfOf[d] = s

FilesInv ==
  /\ TypeOK /\ RowsArePast /\ DiskAfterFetch /\ Fetched /\ Written /\ Leaving /\ Listed

LEMMA FilesInit == Init => FilesInv
<1>1. Init => TypeOK
  BY TypeInit
<1>2. Init => RowsArePast /\ DiskAfterFetch /\ Fetched /\ Written /\ Leaving /\ Listed
  BY SetsAssumption DEF Init, RowsArePast, DiskAfterFetch, Fetched, Written, Leaving, Listed, Going
<1>3. QED
  BY <1>1, <1>2 DEF FilesInv

\* A request moves: the others stay, and past the insertion there is no way back.
LEMMA RequestFrame ==
  ASSUME FilesInv, NEW d \in Docs, RequestStep(d)
  PROVE  /\ UNCHANGED <<delAt, sdelAt, paths, doomed>>
         /\ reqAt' \in [Docs -> ReqPc] /\ \A e \in Docs \ {d} : reqAt'[e] = reqAt[e]
         /\ reqAt[d] \in Past => reqAt'[d] \in Past
         /\ rows' \subseteq rows \cup {d} /\ (d \in rows' => reqAt'[d] \in Past /\ (d \in rows \/ reqAt[d] = "insert"))
         /\ rows \ {d} \subseteq rows'
         /\ \A e \in Docs \ {d} : shelfOf'[e] = shelfOf[e]
         /\ d \in rows => shelfOf'[d] = shelfOf[d]
         /\ disk' \ {d} = disk \ {d}
<1>1. TypeOK /\ (d \in rows => reqAt[d] \in Past)
  BY DEF FilesInv, RowsArePast
<1> USE <1>1 DEF TypeOK, Past, ReqGoto, database, stores, counts, request, job, deletion, shelfDeletion
<1>2. CASE ShelfChunkBudget(d)
  BY <1>2 DEF ShelfChunkBudget, ReqPc
<1>3. CASE FetchUrl(d)
  BY <1>3 DEF FetchUrl, ReqPc
<1>4. CASE LockAndCount(d)
  BY <1>4 DEF LockAndCount, ReqPc
<1>5. CASE ReserveFileSlot(d)
  BY <1>5 DEF ReserveFileSlot, ReqPc
<1>6. CASE RefuseFileSlot(d)
  BY <1>6 DEF RefuseFileSlot, ReqPc, Discard
<1>7. CASE ReserveOnDeadShelf(d)
  BY <1>7 DEF ReserveOnDeadShelf, ReqPc
<1>8. CASE WriteBytes(d)
  BY <1>8 DEF WriteBytes, ReqPc
<1>9. CASE ReleaseFileSlot(d)
  BY <1>9 DEF ReleaseFileSlot, ReqPc
<1>10. CASE Enqueue(d)
  BY <1>10 DEF Enqueue, ReqPc
<1>11. CASE EnqueueFails(d)
  BY <1>11 DEF EnqueueFails, ReqPc
<1>12. QED
  BY <1>2, <1>3, <1>4, <1>5, <1>6, <1>7, <1>8, <1>9, <1>10, <1>11 DEF RequestStep

\* Each step leaves the requester's own file where its place says.
LEMMA RequestDisk ==
  ASSUME FilesInv, NEW d \in Docs, RequestStep(d)
  PROVE  /\ d \in disk' => reqAt'[d] \notin {"idle", "budget", "fetch", "refused"}
         /\ d \in Urls /\ reqAt'[d] \in {"lock", "insert"} => d \in disk'
         /\ d \in rows' /\ reqAt'[d] \in {"enqueue", "accepted"} => d \in disk'
<1>1. /\ TypeOK
      /\ d \in disk => reqAt[d] \notin {"idle", "budget", "fetch", "refused"}
      /\ d \in Urls /\ reqAt[d] \in {"lock", "insert"} => d \in disk
      /\ d \in rows /\ reqAt[d] \in {"enqueue", "accepted"} => d \in disk
      /\ d \in rows => reqAt[d] \in Past
  BY DEF FilesInv, RowsArePast, DiskAfterFetch, Fetched, Written
<1> USE <1>1 DEF TypeOK, Past, ReqGoto, database, stores, counts, request, job, deletion, shelfDeletion
<1>2. CASE ShelfChunkBudget(d)
  BY <1>2 DEF ShelfChunkBudget, ReqPc
<1>3. CASE FetchUrl(d)
  BY <1>3 DEF FetchUrl, ReqPc
<1>4. CASE LockAndCount(d)
  BY <1>4 DEF LockAndCount, ReqPc
<1>5. CASE ReserveFileSlot(d)
  BY <1>5 DEF ReserveFileSlot, ReqPc
<1>6. CASE RefuseFileSlot(d)
  BY <1>6 DEF RefuseFileSlot, ReqPc, Discard
<1>7. CASE ReserveOnDeadShelf(d)
  BY <1>7 DEF ReserveOnDeadShelf, ReqPc
<1>8. CASE WriteBytes(d)
  BY <1>8 DEF WriteBytes, ReqPc
<1>9. CASE ReleaseFileSlot(d)
  BY <1>9 DEF ReleaseFileSlot, ReqPc
<1>10. CASE Enqueue(d)
  BY <1>10 DEF Enqueue, ReqPc
<1>11. CASE EnqueueFails(d)
  BY <1>11 DEF EnqueueFails, ReqPc
<1>12. QED
  BY <1>2, <1>3, <1>4, <1>5, <1>6, <1>7, <1>8, <1>9, <1>10, <1>11 DEF RequestStep

LEMMA FilesRequest ==
  ASSUME FilesInv, NEW d \in Docs, RequestStep(d)
  PROVE  FilesInv'
<1>1. TypeOK'
  BY TypeRequest DEF FilesInv
<1>2. RowsArePast'
  BY RequestFrame, <1>1 DEF FilesInv, RowsArePast, TypeOK
<1>3. DiskAfterFetch' /\ Fetched' /\ Written'
  <2>1. ASSUME NEW e \in Docs, e # d
        PROVE  /\ e \in disk' => e \in disk
               /\ e \in disk => e \in disk'
               /\ e \in rows' => e \in rows
               /\ reqAt'[e] = reqAt[e]
    BY <2>1, RequestFrame
  <2>2. rows' \subseteq Docs /\ disk' \subseteq Docs /\ Urls \subseteq Docs
    BY <1>1, SetsAssumption DEF TypeOK
  <2>3. DiskAfterFetch'
    BY <2>1, <2>2, RequestDisk DEF FilesInv, DiskAfterFetch
  <2>4. Fetched'
    BY <2>1, <2>2, RequestDisk DEF FilesInv, Fetched
  <2>5. Written'
    BY <2>1, <2>2, RequestDisk DEF FilesInv, Written
  <2>6. QED
    BY <2>3, <2>4, <2>5
<1>4. Leaving'
  <2>1. SUFFICES ASSUME NEW e \in Docs, delAt'[e] \in {"resolve", "graph", "vec", "unlink"}
                 PROVE  reqAt'[e] \in Past /\ e \notin rows'
    BY DEF Leaving
  <2>2. reqAt[e] \in Past /\ e \notin rows
    BY <2>1, RequestFrame DEF FilesInv, Leaving
  <2>3. reqAt'[e] \in Past
    BY <2>2, RequestFrame
  <2>4. e \in rows' => e \in rows
    BY <2>2, RequestFrame DEF Past
  <2>5. QED
    BY <2>2, <2>3, <2>4
<1>5. Listed'
  <2>1. SUFFICES ASSUME NEW s \in ShelfRows, sdelAt'[s] \in Going, NEW e \in paths'[s]
                 PROVE  /\ reqAt'[e] \in Past
                        /\ e \in rows' => /\ sdelAt'[s] # "unlink"
                                          /\ sdelAt'[s] = "commit" => e \in doomed'[s]
                                          /\ sdelAt'[s] # "commit" => shelfOf'[e] = s
    BY DEF Listed
  <2>2. UNCHANGED <<sdelAt, paths, doomed>>
    BY RequestFrame
  <2>3. /\ e \in Docs /\ reqAt[e] \in Past
        /\ e \in rows => /\ sdelAt[s] # "unlink"
                         /\ sdelAt[s] = "commit" => e \in doomed[s]
                         /\ sdelAt[s] # "commit" => shelfOf[e] = s
    BY <2>1, <2>2 DEF FilesInv, Listed, TypeOK
  <2>4. reqAt'[e] \in Past
    BY <2>3, RequestFrame
  <2>5. e \in rows' => e \in rows /\ shelfOf'[e] = shelfOf[e]
    BY <2>3, RequestFrame DEF Past
  <2>6. QED
    BY <2>2, <2>3, <2>4, <2>5
<1>6. QED
  BY <1>1, <1>2, <1>3, <1>4, <1>5 DEF FilesInv

\* Rows and files may go, if a row that still stands keeps its file.
LEMMA FilesShrink ==
  ASSUME FilesInv, TypeOK', rows' \subseteq rows, disk' \subseteq disk, reqAt' = reqAt,
         \A d \in disk \ disk' : reqAt[d] \in Past /\ d \notin rows'
  PROVE  RowsArePast' /\ DiskAfterFetch' /\ Fetched' /\ Written'
<1>1. RowsArePast' /\ DiskAfterFetch'
  BY DEF FilesInv, RowsArePast, DiskAfterFetch
<1>2. Fetched'
  BY DEF FilesInv, Fetched, Past
<1>3. Written'
  BY DEF FilesInv, Written
<1>4. QED
  BY <1>1, <1>2, <1>3

LEMMA FilesDelete ==
  ASSUME FilesInv, NEW d \in Docs, DeleteRow(d) \/ DeleteStep(d)
  PROVE  FilesInv'
<1>1. TypeOK'
  BY TypeDelete DEF FilesInv
<1>2. /\ TypeOK
      /\ delAt[d] \in {"resolve", "graph", "vec", "unlink"} => reqAt[d] \in Past /\ d \notin rows
  BY DEF FilesInv, Leaving
<1>3. /\ reqAt' = reqAt /\ UNCHANGED <<shelfOf, sdelAt, paths, doomed>>
      /\ rows' \subseteq rows /\ disk' \subseteq disk
      /\ \A e \in Docs \ {d} : delAt'[e] = delAt[e]
      /\ delAt'[d] \in {"resolve", "graph", "vec", "unlink"} => reqAt[d] \in Past /\ d \notin rows'
      /\ \A e \in disk \ disk' : e = d /\ reqAt[d] \in Past /\ d \notin rows
  <2> USE <1>2 DEF TypeOK, DelGoto, database, stores, counts, request, job, deletion, shelfDeletion
  <2>1. CASE DeleteRow(d)
    BY <2>1 DEF DeleteRow, DropRow, FilesInv, RowsArePast
  <2>2. CASE ResolveShelf(d)
    BY <2>2 DEF ResolveShelf
  <2>3. CASE DeleteFromGraph(d)
    BY <2>3 DEF DeleteFromGraph
  <2>4. CASE DeleteFromVectors(d)
    BY <2>4 DEF DeleteFromVectors
  <2>5. CASE UnlinkFile(d)
    BY <2>5 DEF UnlinkFile, Discard
  <2>6. CASE DeleteFails(d)
    BY <2>6 DEF DeleteFails
  <2>7. QED
    BY <2>1, <2>2, <2>3, <2>4, <2>5, <2>6 DEF DeleteStep
<1>4. RowsArePast' /\ DiskAfterFetch' /\ Fetched' /\ Written'
  BY <1>1, <1>3, FilesShrink
<1>5. Leaving'
  BY <1>3 DEF FilesInv, Leaving
<1>6. Listed'
  BY <1>3 DEF FilesInv, Listed
<1>7. QED
  BY <1>1, <1>4, <1>5, <1>6 DEF FilesInv

LEMMA FilesShelfDelete ==
  ASSUME FilesInv, NEW s \in ShelfRows, BeginDeleteShelf(s) \/ ShelfDeleteStep(s)
  PROVE  FilesInv'
<1>1. TypeOK'
  BY TypeShelfDelete DEF FilesInv
<1>2. TypeOK
  BY DEF FilesInv
<1>3. /\ reqAt' = reqAt /\ delAt' = delAt
      /\ rows' \subseteq rows /\ disk' \subseteq disk
      /\ \A t \in ShelfRows \ {s} : sdelAt'[t] = sdelAt[t] /\ paths'[t] = paths[t] /\ doomed'[t] = doomed[t]
      /\ \A d \in Docs : shelfOf[d] # s => shelfOf'[d] = shelfOf[d]
  <2> USE <1>2 DEF TypeOK, SDelGoto, database, stores, counts, request, job, deletion, shelfDeletion
  <2>1. CASE BeginDeleteShelf(s)
    BY <2>1 DEF BeginDeleteShelf
  <2>2. CASE PurgeGraph(s)
    BY <2>2 DEF PurgeGraph
  <2>3. CASE PurgeVectors(s)
    BY <2>3 DEF PurgeVectors
  <2>4. CASE DeleteFilesOf(s)
    BY <2>4 DEF DeleteFilesOf
  <2>5. CASE CommitShelf(s)
    BY <2>5 DEF CommitShelf, FilesOn
  <2>6. CASE UnlinkShelfFiles(s)
    BY <2>6 DEF UnlinkShelfFiles
  <2>7. QED
    BY <2>1, <2>2, <2>3, <2>4, <2>5, <2>6 DEF ShelfDeleteStep
<1>4. sdelAt'[s] \in Going =>
        \A d \in paths'[s] :
          /\ reqAt'[d] \in Past
          /\ d \in rows' => /\ sdelAt'[s] # "unlink"
                            /\ sdelAt'[s] = "commit" => d \in doomed'[s]
                            /\ sdelAt'[s] # "commit" => shelfOf'[d] = s
  <2>1. sdelAt[s] \in Going =>
          \A d \in paths[s] :
            /\ reqAt[d] \in Past
            /\ d \in rows => /\ sdelAt[s] # "unlink"
                             /\ sdelAt[s] = "commit" => d \in doomed[s]
                             /\ sdelAt[s] # "commit" => shelfOf[d] = s
    BY DEF FilesInv, Listed
  <2> USE <1>2 DEF TypeOK, SDelGoto, Going, database, stores, counts, request, job, deletion, shelfDeletion
  <2>2. CASE BeginDeleteShelf(s)
    BY <2>2 DEF BeginDeleteShelf, FilesOn, FilesInv, RowsArePast
  <2>3. CASE PurgeGraph(s)
    BY <2>1, <2>3 DEF PurgeGraph
  <2>4. CASE PurgeVectors(s)
    BY <2>1, <2>4 DEF PurgeVectors
  <2>5. CASE DeleteFilesOf(s)
    BY <2>1, <2>5 DEF DeleteFilesOf, DoomedRows, FilesOn
  <2>6. CASE CommitShelf(s)
    BY <2>1, <2>6 DEF CommitShelf
  <2>7. CASE UnlinkShelfFiles(s)
    BY <2>7 DEF UnlinkShelfFiles
  <2>8. QED
    BY <2>2, <2>3, <2>4, <2>5, <2>6, <2>7 DEF ShelfDeleteStep
<1>5. \A d \in disk \ disk' : reqAt[d] \in Past /\ d \notin rows'
  <2>1. CASE UnlinkShelfFiles(s)
    <3>1. sdelAt[s] = "unlink" /\ rows' = rows /\ disk \ disk' \subseteq paths[s]
      BY <2>1 DEF UnlinkShelfFiles, database
    <3>2. QED
      BY <3>1 DEF FilesInv, Listed, Going
  <2>2. CASE ~UnlinkShelfFiles(s)
    BY <2>2 DEF ShelfDeleteStep, BeginDeleteShelf, PurgeGraph, PurgeVectors, DeleteFilesOf, CommitShelf
  <2>3. QED
    BY <2>1, <2>2
<1>6. RowsArePast' /\ DiskAfterFetch' /\ Fetched' /\ Written'
  BY <1>1, <1>3, <1>5, FilesShrink
<1>7. Leaving'
  BY <1>3 DEF FilesInv, Leaving
<1>8. ASSUME NEW t \in ShelfRows, t # s, sdelAt'[t] \in Going, NEW d \in paths'[t]
      PROVE  /\ reqAt'[d] \in Past
             /\ d \in rows' => /\ sdelAt'[t] # "unlink"
                               /\ sdelAt'[t] = "commit" => d \in doomed'[t]
                               /\ sdelAt'[t] # "commit" => shelfOf'[d] = t
  <2>1. /\ d \in Docs /\ reqAt[d] \in Past
        /\ d \in rows => /\ sdelAt[t] # "unlink"
                         /\ sdelAt[t] = "commit" => d \in doomed[t]
                         /\ sdelAt[t] # "commit" => shelfOf[d] = t
    BY <1>2, <1>3, <1>8 DEF FilesInv, Listed, TypeOK
  <2>2. QED
    BY <1>3, <1>8, <2>1
<1>9. Listed'
  BY <1>4, <1>8 DEF Listed
<1>10. QED
  BY <1>1, <1>6, <1>7, <1>9 DEF FilesInv

\* A new request, a job, a new shelf and a restart touch neither rows nor files.
LEMMA FilesRest ==
  ASSUME FilesInv, TypeOK', UNCHANGED <<rows, shelfOf, disk, paths, doomed>>,
         \A d \in Docs : \/ reqAt'[d] = reqAt[d]
                         \/ reqAt'[d] = "lost"
                         \/ reqAt[d] = "idle" /\ reqAt'[d] = "budget",
         \A d \in Docs : delAt'[d] \in {delAt[d], "lost"},
         \A s \in ShelfRows : sdelAt'[s] \in {sdelAt[s], "lost"}
  PROVE  FilesInv'
<1>1. TypeOK /\ rows \subseteq Docs /\ disk \subseteq Docs /\ \A s \in ShelfRows : paths[s] \subseteq Docs
  BY DEF FilesInv, TypeOK
<1>2. RowsArePast'
  BY <1>1 DEF FilesInv, RowsArePast, Past
<1>3. DiskAfterFetch'
  BY <1>1 DEF FilesInv, DiskAfterFetch
<1>4. Fetched'
  BY <1>1, SetsAssumption DEF FilesInv, Fetched
<1>5. Written'
  BY <1>1 DEF FilesInv, Written
<1>6. Leaving'
  BY <1>1 DEF FilesInv, Leaving, Past
<1>7. Listed'
  BY <1>1 DEF FilesInv, Listed, Past, Going
<1>8. QED
  BY <1>2, <1>3, <1>4, <1>5, <1>6, <1>7 DEF FilesInv

LEMMA FilesNext == FilesInv /\ [Next]_vars => FilesInv'
<1> SUFFICES ASSUME FilesInv, [Next]_vars
             PROVE  FilesInv'
  OBVIOUS
<1>1. TypeOK /\ TypeOK'
  BY TypeNext DEF FilesInv
<1> USE DEF database, stores, counts, request, job, deletion, shelfDeletion
<1>2. ASSUME NEW d \in Docs, NEW ref \in Refs, BeginIngest(d, ref)
      PROVE  FilesInv'
  BY <1>1, <1>2, FilesRest DEF BeginIngest, ReqGoto, TypeOK
<1>3. ASSUME NEW d \in Docs, RequestStep(d)
      PROVE  FilesInv'
  BY <1>3, FilesRequest
<1>4. ASSUME NEW d \in Docs, JobStep(d) \/ TimeOut(d)
      PROVE  FilesInv'
  <2>1. UNCHANGED <<rows, shelfOf, disk, reqAt, delAt, sdelAt, paths, doomed>>
    BY <1>4 DEF JobStep, StartRun, Load, Replace, CheckCapacity, UpsertVectors, UpsertChunks, BuildGraph,
       PipelineFails, FinalizeFile, StampFails, EndJob, FinishJob, TimeOut
  <2>2. QED
    BY <1>1, <2>1, FilesRest
<1>5. ASSUME NEW d \in Docs, DeleteRow(d) \/ DeleteStep(d)
      PROVE  FilesInv'
  BY <1>5, FilesDelete
<1>6. ASSUME NEW s \in ShelfRows, NEW name \in Slugs, CreateShelf(s, name)
      PROVE  FilesInv'
  BY <1>1, <1>6, FilesRest DEF CreateShelf
<1>7. ASSUME NEW s \in ShelfRows, BeginDeleteShelf(s) \/ ShelfDeleteStep(s)
      PROVE  FilesInv'
  BY <1>7, FilesShelfDelete
<1>8. CASE RestartApi
  BY <1>1, <1>8, FilesRest DEF RestartApi
<1>9. CASE RestartWorker
  BY <1>1, <1>9, FilesRest DEF RestartWorker
<1>10. CASE UNCHANGED vars
  BY <1>1, <1>10, FilesRest DEF vars
<1>11. QED
  BY <1>2, <1>3, <1>4, <1>5, <1>6, <1>7, <1>8, <1>9, <1>10 DEF Next

LEMMA FilesHold == Spec => []FilesInv
BY FilesInit, FilesNext, PTL DEF Spec

\* A request refused over a quota, or for a document that cannot be fetched, leaves
\* nothing behind, whatever deletions and restarts run beside it: its row was never
\* inserted, and what it downloaded is removed by the step that refuses it.
THEOREM RefusalIsClean == Spec => []RefusedLeavesNothing
<1>1. FilesInv => RefusedLeavesNothing
  BY DEF FilesInv, RowsArePast, DiskAfterFetch, RefusedLeavesNothing, Past
<1>2. QED
  BY <1>1, FilesHold, PTL

\* An accepted document that has its row has its file: whoever unlinks a file comes
\* after the row has gone, though delete_shelf works from a list it read long before.
THEOREM RowsKeepFiles == Spec => []AcceptedRowHasFile
<1>1. FilesInv => AcceptedRowHasFile
  BY DEF FilesInv, Written, AcceptedRowHasFile
<1>2. QED
  BY <1>1, FilesHold, PTL
-----------------------------------------------------------------------------
\* What a row says of its job, wherever the job is: only a job that runs stamps it,
\* in this process only once; and an outcome is recorded before it is stamped.
\* Where the last stamp failed, the row may speak of an earlier run.
Stamped(d) ==
  /\ status[d] = "ingested" => charged[d] = Pieces[d]
  /\ status[d] # "ingested" => charged[d] = {}
  /\ runAt[d] # "none" => reqAt[d] = "accepted"
  /\ runAt[d] = "none" \/ (~Worker /\ runAt[d] # "over") => status[d] = "uploaded"
  /\ runAt[d] = "finalize" => jobs[d] \in {"done", "partial", "error"}
  /\ d \in rows /\ d \notin zombies \cup unstamped /\ runAt[d] \in {"finish", "over"} =>
       /\ status[d] = "ingested" => Searchable(d)
       /\ status[d] = "error" => jobs[d] = "error"

StampInv == TypeOK /\ \A d \in Docs : Stamped(d)

LEMMA StampInit == Init => StampInv
<1>1. Init => TypeOK
  BY TypeInit
<1>2. Init => \A d \in Docs : Stamped(d)
  BY DEF Init, Stamped
<1>3. QED
  BY <1>1, <1>2 DEF StampInv

\* A document nothing happens to, but that its row may go.
LEMMA StampStays ==
  ASSUME NEW d \in Docs, Stamped(d), status'[d] = status[d], charged'[d] = charged[d], runAt'[d] = runAt[d],
         reqAt'[d] = reqAt[d] \/ reqAt[d] # "accepted", jobs'[d] = jobs[d],
         d \in rows' => d \in rows \/ reqAt[d] # "accepted", d \in zombies => d \in zombies',
         d \in unstamped => d \in unstamped'
  PROVE  Stamped(d)'
BY DEF Stamped, Searchable

LEMMA StampRequest ==
  ASSUME StampInv, NEW d \in Docs, RequestStep(d), NEW e \in Docs
  PROVE  Stamped(e)'
<1>1. TypeOK /\ Stamped(d) /\ Stamped(e)
  BY DEF StampInv
<1> USE <1>1 DEF TypeOK, ReqGoto, database, stores, counts, request, job, deletion, shelfDeletion
<1>2. CASE Enqueue(d)
  <2>1. reqAt[d] = "enqueue" /\ runAt[d] = "none"
    BY <1>2 DEF Enqueue, Stamped
  <2>2. CASE e = d
    BY <1>2, <2>1, <2>2 DEF Enqueue, Stamped
  <2>3. CASE e # d
    <3>1. /\ status'[e] = status[e] /\ charged'[e] = charged[e] /\ runAt'[e] = runAt[e] /\ reqAt'[e] = reqAt[e]
          /\ jobs'[e] = jobs[e] /\ UNCHANGED <<rows, zombies, unstamped>>
      BY <1>2, <2>3 DEF Enqueue
    <3>2. QED
      BY <3>1, StampStays
  <2>4. QED
    BY <2>2, <2>3
<1>3. CASE EnqueueFails(d)
  <2>1. reqAt[d] = "enqueue" /\ runAt[d] = "none"
    BY <1>3 DEF EnqueueFails, Stamped
  <2>2. CASE e = d
    BY <1>3, <2>1, <2>2 DEF EnqueueFails, Stamped
  <2>3. CASE e # d
    <3>1. /\ status'[e] = status[e] /\ charged'[e] = charged[e] /\ runAt'[e] = runAt[e] /\ reqAt'[e] = reqAt[e]
          /\ jobs'[e] = jobs[e] /\ UNCHANGED <<rows, zombies, unstamped>>
      BY <1>3, <2>3 DEF EnqueueFails
    <3>2. QED
      BY <3>1, StampStays
  <2>4. QED
    BY <2>2, <2>3
<1>4. CASE ~Enqueue(d) /\ ~EnqueueFails(d)
  <2>1. /\ UNCHANGED <<status, charged, runAt, jobs, zombies, unstamped>>
        /\ reqAt[d] # "accepted" /\ rows' \subseteq rows \cup {d}
        /\ reqAt'[e] = reqAt[e] \/ e = d
    BY <1>4 DEF RequestStep, ShelfChunkBudget, FetchUrl, LockAndCount, ReserveFileSlot, RefuseFileSlot,
       ReserveOnDeadShelf, WriteBytes, ReleaseFileSlot
  <2>2. QED
    BY <2>1, StampStays
<1>5. QED
  BY <1>2, <1>3, <1>4

\* A job moves on, and what it moves is its own.
LEMMA StampJob ==
  ASSUME StampInv, NEW d \in Docs, JobStep(d), NEW e \in Docs
  PROVE  Stamped(e)'
<1>1. TypeOK /\ Stamped(d) /\ Stamped(e)
  BY DEF StampInv
<1> USE <1>1 DEF TypeOK, RunGoto, database, stores, counts, request, job, deletion, shelfDeletion
<1>2. /\ reqAt' = reqAt /\ rows' = rows /\ zombies' = zombies
      /\ e # d => /\ status'[e] = status[e] /\ charged'[e] = charged[e]
                  /\ runAt'[e] = runAt[e] /\ jobs'[e] = jobs[e]
                  /\ e \in unstamped => e \in unstamped'
  BY DEF JobStep, StartRun, Load, Replace, CheckCapacity, UpsertVectors, UpsertChunks, BuildGraph, PipelineFails,
     FinalizeFile, StampFails, EndJob, FinishJob, Settle
<1>3. CASE e # d
  BY <1>2, <1>3, StampStays
<1>4. CASE e = d
  <2>1. ASSUME NEW outcome \in {"done", "partial", "error"}, Settle(d, outcome), runAt[d] \in Working,
               UNCHANGED <<status, charged>>
        PROVE  Stamped(d)'
    BY <1>2, <2>1 DEF Settle, Stamped, Working
  <2>2. ASSUME NEW place \in Working, RunGoto(d, place), runAt[d] \in Working \cup {"waiting"},
               UNCHANGED <<status, charged>>
        PROVE  Stamped(d)'
    BY <1>2, <2>2 DEF Stamped, Working
  <2>3. CASE StartRun(d) \/ Load(d) \/ Replace(d) \/ CheckCapacity(d) \/ UpsertVectors(d) \/ UpsertChunks(d)
             \/ BuildGraph(d) \/ PipelineFails(d)
    <3>1. /\ UNCHANGED <<status, charged>> /\ runAt[d] \in Working \cup {"waiting"}
          /\ \/ \E place \in Working : RunGoto(d, place)
             \/ runAt[d] \in Working /\ \E outcome \in {"done", "partial", "error"} : Settle(d, outcome)
      BY <2>3 DEF StartRun, Load, Replace, CheckCapacity, UpsertVectors, UpsertChunks, BuildGraph, PipelineFails,
         Working
    <3>2. QED
      BY <1>4, <2>1, <2>2, <3>1
  <2>4. CASE FinalizeFile(d)
    <3>1. /\ runAt[d] = "finalize" /\ jobs[d] \in {"done", "partial", "error"} /\ jobs' = jobs
          /\ runAt'[d] = IF Worker THEN "finish" ELSE "over"
      BY <2>4 DEF FinalizeFile, EndJob, Stamped
    <3>2. CASE d \in rows
      <4>1. status'[d] = StampOf(d) /\ charged'[d] = ChargeOf(d)
        BY <2>4, <3>2 DEF FinalizeFile
      <4>2. QED
        BY <1>2, <1>4, <3>1, <4>1 DEF Stamped, StampOf, ChargeOf, Searchable
    <3>3. CASE d \notin rows
      <4>1. UNCHANGED <<status, charged>>
        BY <2>4, <3>3 DEF FinalizeFile
      <4>2. QED
        BY <1>2, <1>4, <3>1, <3>3, <4>1 DEF Stamped
    <3>4. QED
      BY <3>2, <3>3
  <2>5. CASE StampFails(d)
    <3>1. /\ runAt[d] = "finalize" /\ d \in unstamped' /\ UNCHANGED <<status, charged, jobs>>
          /\ runAt'[d] = IF Worker THEN "finish" ELSE "over"
      BY <2>5 DEF StampFails, EndJob
    <3>2. QED
      BY <1>2, <1>4, <3>1 DEF Stamped
  <2>6. CASE FinishJob(d)
    <3>1. /\ runAt[d] = "finish" /\ runAt'[d] = "over" /\ UNCHANGED <<status, charged, jobs, unstamped>>
      BY <2>6 DEF FinishJob
    <3>2. QED
      BY <1>2, <3>1 DEF Stamped, Searchable
  <2>7. QED
    BY <1>4, <2>3, <2>4, <2>5, <2>6 DEF JobStep
<1>5. QED
  BY <1>3, <1>4

\* A restart: the worker runs its jobs again, this process forgets them.
LEMMA StampRestart ==
  ASSUME StampInv, RestartApi \/ RestartWorker, NEW d \in Docs
  PROVE  Stamped(d)'
<1>1. TypeOK /\ Stamped(d)
  BY DEF StampInv
<1> USE <1>1 DEF TypeOK, database, stores, counts, request, job, deletion, shelfDeletion
<1>2. CASE RestartApi
  <2>1. /\ UNCHANGED <<rows, status, charged, jobs, zombies, unstamped>>
        /\ runAt'[d] = IF Worker \/ runAt[d] = "none" THEN runAt[d] ELSE "over"
        /\ reqAt[d] = "accepted" => reqAt'[d] = "accepted"
    BY <1>2 DEF RestartApi
  <2>2. QED
    BY <2>1, DeploymentAssumption DEF Stamped, Searchable
<1>3. CASE RestartWorker
  <2>1. /\ Worker /\ UNCHANGED <<rows, status, charged, jobs, zombies, unstamped, reqAt>>
        /\ runAt'[d] = IF runAt[d] \notin Working \cup {"finalize", "finish"} THEN runAt[d]
                       ELSE IF d \in zombies THEN "over" ELSE "waiting"
    BY <1>3 DEF RestartWorker
  <2>2. QED
    BY <2>1 DEF Stamped, Searchable, Working
<1>4. QED
  BY <1>2, <1>3

LEMMA StampNext == StampInv /\ [Next]_vars => StampInv'
<1> SUFFICES ASSUME StampInv, [Next]_vars, NEW e \in Docs
             PROVE  Stamped(e)'
  BY TypeNext DEF StampInv
<1>1. TypeOK /\ Stamped(e)
  BY DEF StampInv
<1> USE <1>1 DEF TypeOK, database, stores, counts, request, job, deletion, shelfDeletion
<1>2. ASSUME NEW d \in Docs, NEW ref \in Refs, BeginIngest(d, ref)
      PROVE  Stamped(e)'
  BY <1>2, StampStays DEF BeginIngest, ReqGoto
<1>3. ASSUME NEW d \in Docs, RequestStep(d)
      PROVE  Stamped(e)'
  BY <1>3, StampRequest
<1>4. ASSUME NEW d \in Docs, JobStep(d)
      PROVE  Stamped(e)'
  BY <1>4, StampJob
<1>5. ASSUME NEW d \in Docs, DeleteRow(d) \/ DeleteStep(d) \/ TimeOut(d)
      PROVE  Stamped(e)'
  <2>1. UNCHANGED <<status, charged, runAt, reqAt, jobs, unstamped>> /\ rows' \subseteq rows /\ zombies \subseteq zombies'
    BY <1>5 DEF DeleteRow, DropRow, DeleteStep, ResolveShelf, DeleteFromGraph, DeleteFromVectors, UnlinkFile,
       DeleteFails, TimeOut
  <2>2. QED
    BY <2>1, StampStays
<1>6. ASSUME NEW s \in ShelfRows, NEW name \in Slugs, CreateShelf(s, name)
      PROVE  Stamped(e)'
  BY <1>6, StampStays DEF CreateShelf
<1>7. ASSUME NEW s \in ShelfRows, BeginDeleteShelf(s) \/ ShelfDeleteStep(s)
      PROVE  Stamped(e)'
  <2>1. UNCHANGED <<status, charged, runAt, reqAt, jobs, zombies, unstamped>> /\ rows' \subseteq rows
    BY <1>7 DEF BeginDeleteShelf, ShelfDeleteStep, PurgeGraph, PurgeVectors, DeleteFilesOf, CommitShelf,
       UnlinkShelfFiles
  <2>2. QED
    BY <2>1, StampStays
<1>8. CASE RestartApi \/ RestartWorker
  BY <1>8, StampRestart
<1>9. CASE UNCHANGED vars
  BY <1>9, StampStays DEF vars
<1>10. QED
  BY <1>2, <1>3, <1>4, <1>5, <1>6, <1>7, <1>8, <1>9 DEF Next

\* Once a job has run to its end the row tells what the job store tells, and is
\* charged exactly when the document is searchable, through timeouts, restarts and
\* second runs: a run that is not a zombie stamps the row with its own outcome, or
\* its stamp fails and is known to have failed.
THEOREM StampsHold == Spec => []StampAgrees
<1>1. StampInv => StampAgrees
  BY DEF StampInv, Stamped, StampAgrees, Settled, TypeOK
<1>2. Spec => []StampInv
  BY StampInit, StampNext, PTL DEF Spec
<1>3. QED
  BY <1>1, <1>2, PTL
-----------------------------------------------------------------------------
\* Where a run of the pipeline has written the vectors, and where the chunk nodes,
\* unless nobody records its outcome; what ended in success has written both.
Ended(d)   == runAt[d] \in {"finalize", "finish", "over"} /\ d \notin zombies /\ Searchable(d)
Embedded(d) == runAt[d] \in {"graph", "extract"} \/ Ended(d)
Linked(d)  == runAt[d] = "extract" \/ (runAt[d] = "graph" /\ InGraph) \/ Ended(d)

\* A document with a row keeps what was written of it, in the corpus of its shelf.
Kept(d) ==
  /\ reqAt[d] # "idle" => reqShelf[d] \in LiveRefs /\ slug[d] = SlugOf(reqShelf[d])
  /\ ~Worker /\ runAt[d] \in Working \cup {"waiting"} => ~Searchable(d)
  /\ d \in rows => /\ shelfOf[d] = reqShelf[d]
                   /\ Embedded(d) => Pieces[d] \subseteq vec[slug[d]]
                   /\ Linked(d) => Pieces[d] \subseteq graph[slug[d]]

ShelvesStand == \A s \in ShelfRows : sdelAt[s] = "idle"

StoredInv == FilesInv /\ StampInv /\ ShelvesStand /\ \A d \in Docs : Kept(d)

\* A shelf that exists goes on to, under its name.
NamesStay == \A ref \in LiveRefs : ref \in LiveRefs' /\ SlugOf(ref)' = SlugOf(ref)

LEMMA StoredInit == Init => StoredInv
<1>1. Init => FilesInv /\ StampInv
  BY FilesInit, StampInit
<1>2. Init => ShelvesStand /\ \A d \in Docs : Kept(d)
  BY DEF Init, ShelvesStand, Kept, Working
<1>3. QED
  BY <1>1, <1>2 DEF StoredInv

\* A step takes no chunk of the document from its corpus; its row stays on its
\* shelf, or is inserted there before any job runs.
ChunksStay(d) ==
  /\ Pieces[d] \subseteq vec[slug[d]] => Pieces[d] \subseteq vec'[slug[d]]
  /\ Pieces[d] \subseteq graph[slug[d]] => Pieces[d] \subseteq graph'[slug[d]]
RowStays(d) == d \in rows /\ shelfOf'[d] = shelfOf[d] /\ ChunksStay(d)
RowComes(d) == runAt[d] = "none" /\ shelfOf'[d] = reqShelf[d]

\* A document whose job rests keeps what it has, as long as nothing takes it away.
LEMMA KeptStays ==
  ASSUME NEW d \in Docs, Kept(d), NamesStay,
         slug'[d] = slug[d], reqShelf'[d] = reqShelf[d], runAt'[d] = runAt[d], jobs'[d] = jobs[d],
         d \in zombies => d \in zombies', reqAt'[d] # "idle" => reqAt[d] # "idle",
         d \in rows' => RowStays(d) \/ RowComes(d)
  PROVE  Kept(d)'
<1>1. Ended(d)' => Ended(d)
  BY DEF Ended, Searchable
<1>2. (Embedded(d)' => Embedded(d)) /\ (Linked(d)' => Linked(d))
  BY <1>1 DEF Embedded, Linked, InGraph
<1>3. runAt[d] = "none" => ~Embedded(d)' /\ ~Linked(d)'
  BY <1>2 DEF Embedded, Linked, Ended
<1>4. reqAt'[d] # "idle" => reqShelf'[d] \in LiveRefs' /\ slug'[d] = SlugOf(reqShelf[d])'
  BY DEF Kept, NamesStay
<1>5. Searchable(d)' => Searchable(d)
  BY DEF Searchable
<1>6. d \in rows' => /\ shelfOf'[d] = reqShelf'[d]
                     /\ Embedded(d)' => Pieces[d] \subseteq vec'[slug'[d]]
                     /\ Linked(d)' => Pieces[d] \subseteq graph'[slug'[d]]
  <2>1. SUFFICES ASSUME d \in rows'
                 PROVE  /\ shelfOf'[d] = reqShelf'[d]
                        /\ Embedded(d)' => Pieces[d] \subseteq vec'[slug'[d]]
                        /\ Linked(d)' => Pieces[d] \subseteq graph'[slug'[d]]
    OBVIOUS
  <2>2. CASE RowStays(d)
    BY <1>2, <2>2 DEF Kept, RowStays, ChunksStay
  <2>3. CASE RowComes(d)
    BY <1>3, <2>3 DEF RowComes
  <2>4. QED
    BY <2>1, <2>2, <2>3
<1>7. ~Worker /\ runAt'[d] \in Working \cup {"waiting"} => ~Searchable(d)'
  BY <1>5 DEF Kept
<1>8. QED
  BY <1>4, <1>6, <1>7 DEF Kept

\* What one document's job or deletion drops or adds is nobody else's.
LEMMA OthersPieces ==
  ASSUME TypeOK, NEW d \in Docs, NEW e \in Docs \ {d}, NEW corpus \in Slugs, NEW store \in [Slugs -> SUBSET Chunks],
         Pieces[e] \subseteq store[slug[e]]
  PROVE  /\ Pieces[e] \subseteq [store EXCEPT ![corpus] = @ \ Pieces[d]][slug[e]]
         /\ Pieces[e] \subseteq AddTo(store, d)[slug[e]]
<1>1. Pieces[d] \cap Pieces[e] = {} /\ slug[e] \in Slugs /\ slug[d] \in Slugs
  BY SizesAssumption DEF TypeOK
<1>2. QED
  BY <1>1 DEF AddTo

LEMMA KeptRequest ==
  ASSUME StoredInv, NEW d \in Docs, RequestStep(d), NEW e \in Docs
  PROVE  Kept(e)'
<1>1. TypeOK /\ Kept(d) /\ Kept(e) /\ Stamped(d)
  BY DEF StoredInv, StampInv
<1> USE <1>1 DEF TypeOK, ReqGoto, database, stores, counts, request, job, deletion, shelfDeletion
<1>2. NamesStay
  BY DEF NamesStay, LiveRefs, Exists, SlugOf, RequestStep, ShelfChunkBudget, FetchUrl, LockAndCount, ReserveFileSlot,
     RefuseFileSlot, ReserveOnDeadShelf, WriteBytes, ReleaseFileSlot, Enqueue, EnqueueFails
<1>3. /\ UNCHANGED <<slug, reqShelf, zombies, vec, graph>> /\ reqAt[d] # "idle"
      /\ e # d => reqAt'[e] = reqAt[e] /\ runAt'[e] = runAt[e] /\ jobs'[e] = jobs[e] /\ shelfOf'[e] = shelfOf[e]
                  /\ (e \in rows' => e \in rows)
  BY DEF RequestStep, ShelfChunkBudget, FetchUrl, LockAndCount, ReserveFileSlot, RefuseFileSlot, ReserveOnDeadShelf,
     WriteBytes, ReleaseFileSlot, Enqueue, EnqueueFails
<1>4. CASE e # d
  <2>1. /\ slug'[e] = slug[e] /\ reqShelf'[e] = reqShelf[e] /\ runAt'[e] = runAt[e] /\ jobs'[e] = jobs[e]
        /\ e \in zombies => e \in zombies'
        /\ reqAt'[e] # "idle" => reqAt[e] # "idle"
        /\ vec' = vec /\ graph' = graph /\ shelfOf'[e] = shelfOf[e] /\ (e \in rows' => e \in rows)
    BY <1>3, <1>4
  <2>2. e \in rows' => RowStays(e)
    BY <2>1 DEF RowStays, ChunksStay
  <2>3. QED
    BY <1>2, <2>1, <2>2, KeptStays
<1>5. CASE e = d /\ (Enqueue(d) \/ EnqueueFails(d))
  <2>1. /\ runAt[d] = "none" /\ runAt'[d] \in {"none", "waiting"} /\ jobs'[d] = "queued"
        /\ rows' = rows /\ shelfOf' = shelfOf
    BY <1>5 DEF Enqueue, EnqueueFails, Stamped
  <2>2. ~Embedded(d)' /\ ~Linked(d)' /\ ~Searchable(d)'
    BY <2>1 DEF Embedded, Linked, Ended, Searchable
  <2>3. reqAt'[d] # "idle" => reqShelf'[d] \in LiveRefs' /\ slug'[d] = SlugOf(reqShelf[d])'
    BY <1>2, <1>3 DEF Kept, NamesStay
  <2>4. QED
    BY <1>3, <1>5, <2>1, <2>2, <2>3 DEF Kept
<1>6. CASE e = d /\ ~(Enqueue(d) \/ EnqueueFails(d))
  <2>1. /\ UNCHANGED <<runAt, jobs>>
        /\ d \in rows' => (d \in rows /\ shelfOf' = shelfOf) \/ (reqAt[d] = "insert" /\ shelfOf'[d] = reqShelf[d])
    BY <1>6 DEF RequestStep, ShelfChunkBudget, FetchUrl, LockAndCount, ReserveFileSlot, RefuseFileSlot,
       ReserveOnDeadShelf, WriteBytes, ReleaseFileSlot
  <2>2. reqAt[d] = "insert" => runAt[d] = "none"
    BY DEF Stamped
  <2>3. /\ slug'[e] = slug[e] /\ reqShelf'[e] = reqShelf[e] /\ runAt'[e] = runAt[e] /\ jobs'[e] = jobs[e]
        /\ e \in zombies => e \in zombies'
        /\ reqAt[e] # "idle" /\ vec' = vec /\ graph' = graph
        /\ e \in rows' => (e \in rows /\ shelfOf'[e] = shelfOf[e]) \/ RowComes(e)
    BY <1>3, <1>6, <2>1, <2>2 DEF RowComes
  <2>4. e \in rows' => RowStays(e) \/ RowComes(e)
    BY <2>3 DEF RowStays, ChunksStay
  <2>5. QED
    BY <1>2, <2>3, <2>4, KeptStays
<1>7. QED
  BY <1>4, <1>5, <1>6

LEMMA ChunksOfOthers ==
  ASSUME TypeOK, NEW d \in Docs, NEW e \in Docs \ {d}, NEW corpus \in Slugs,
         vec' \in {vec, [vec EXCEPT ![corpus] = @ \ Pieces[d]], AddTo(vec, d)},
         graph' \in {graph, [graph EXCEPT ![corpus] = @ \ Pieces[d]], AddTo(graph, d)}
  PROVE  ChunksStay(e)
<1>1. vec \in [Slugs -> SUBSET Chunks] /\ graph \in [Slugs -> SUBSET Chunks]
  BY DEF TypeOK
<1>2. Pieces[e] \subseteq vec[slug[e]] => Pieces[e] \subseteq vec'[slug[e]]
  BY <1>1, OthersPieces
<1>3. Pieces[e] \subseteq graph[slug[e]] => Pieces[e] \subseteq graph'[slug[e]]
  BY <1>1, OthersPieces
<1>4. QED
  BY <1>2, <1>3 DEF ChunksStay

\* How a thread that ends leaves its document.
LEMMA KeptSettle ==
  ASSUME TypeOK, NEW d \in Docs, Kept(d), NEW outcome \in {"done", "partial", "error"}, Settle(d, outcome),
         UNCHANGED <<rows, shelfOf, shelves, zombies, vec, graph, reqAt, reqShelf, slug>>,
         outcome # "error" /\ d \in rows => Pieces[d] \subseteq vec[slug[d]] \cap graph[slug[d]]
  PROVE  Kept(d)'
<1>1. runAt'[d] \in {"over", "finalize"} /\ (Ended(d)' => outcome # "error")
  BY DEF TypeOK, Settle, RunGoto, Ended, Searchable
<1>2. Embedded(d)' \/ Linked(d)' => outcome # "error"
  BY <1>1 DEF Embedded, Linked
<1>3. (reqAt[d] # "idle" => reqShelf[d] \in LiveRefs' /\ slug[d] = SlugOf(reqShelf[d])')
  BY DEF Kept, LiveRefs, SlugOf, Exists
<1>4. d \in rows => shelfOf[d] = reqShelf[d]
  BY DEF Kept
<1>5. QED
  BY <1>1, <1>2, <1>3, <1>4 DEF Kept, Working

LEMMA KeptOwnJob ==
  ASSUME StoredInv, NEW d \in Docs, JobStep(d)
  PROVE  Kept(d)'
<1>1. TypeOK /\ Kept(d)
  BY DEF StoredInv, StampInv
<1> USE <1>1 DEF TypeOK, RunGoto, database, stores, counts, request, job, deletion, shelfDeletion
<1>2. UNCHANGED <<rows, shelfOf, shelves, zombies, reqAt, reqShelf, slug>>
  BY DEF JobStep, StartRun, Load, Replace, CheckCapacity, UpsertVectors, UpsertChunks, BuildGraph, PipelineFails,
     FinalizeFile, StampFails, EndJob, FinishJob
<1>3. reqAt'[d] # "idle" => reqShelf'[d] \in LiveRefs' /\ slug'[d] = SlugOf(reqShelf[d])'
  BY <1>2 DEF Kept, LiveRefs, SlugOf, Exists
<1>4. d \in rows' => d \in rows /\ shelfOf'[d] = reqShelf'[d]
  BY <1>2 DEF Kept
<1>5. CASE StartRun(d) \/ Replace(d)
  <2>1. /\ runAt'[d] \in {"load", "check"} /\ runAt[d] \in Working \cup {"waiting"}
        /\ jobs'[d] = "running" \/ (jobs'[d] = jobs[d] /\ runAt[d] \in Working)
    BY <1>5 DEF StartRun, Replace, Working
  <2>2. ~Embedded(d)' /\ ~Linked(d)'
    BY <2>1 DEF Embedded, Linked, Ended
  <2>3. ~Worker => ~Searchable(d)'
    BY <2>1 DEF Kept, Searchable
  <2>4. QED
    BY <1>3, <1>4, <2>2, <2>3 DEF Kept
<1>6. CASE Load(d)
  <2>1. ASSUME d \in disk, Pieces[d] # {}, RunGoto(d, "replace"), UNCHANGED jobs
        PROVE  Kept(d)'
    <3>1. runAt'[d] = "replace" /\ ~Embedded(d)' /\ ~Linked(d)'
      BY <2>1 DEF Embedded, Linked, Ended
    <3>2. ~Worker => ~Searchable(d)'
      BY <1>6, <2>1 DEF Load, Kept, Searchable, Working
    <3>3. QED
      BY <1>3, <1>4, <3>1, <3>2 DEF Kept
  <2>2. UNCHANGED <<vec, graph>>
    BY <1>6 DEF Load
  <2>3. CASE d \notin disk /\ Settle(d, "error")
    BY <1>2, <2>2, <2>3, KeptSettle
  <2>4. CASE Pieces[d] = {} /\ Settle(d, "done")
    BY <1>2, <2>2, <2>4, KeptSettle
  <2>5. QED
    BY <1>6, <2>1, <2>3, <2>4 DEF Load
<1>7. CASE CheckCapacity(d)
  <2>1. UNCHANGED <<vec, graph>> /\ runAt[d] = "check"
    BY <1>7 DEF CheckCapacity
  <2>2. CASE RunGoto(d, "vec") /\ UNCHANGED jobs
    <3>1. runAt'[d] = "vec" /\ ~Embedded(d)' /\ ~Linked(d)'
      BY <2>2 DEF Embedded, Linked, Ended
    <3>2. ~Worker => ~Searchable(d)'
      BY <2>1, <2>2 DEF Kept, Searchable, Working
    <3>3. QED
      BY <1>3, <1>4, <3>1, <3>2 DEF Kept
  <2>3. CASE Settle(d, "error")
    BY <1>2, <2>1, <2>3, KeptSettle
  <2>4. QED
    BY <1>7, <2>2, <2>3 DEF CheckCapacity
<1>8. CASE UpsertVectors(d)
  <2>1. /\ runAt[d] = "vec" /\ runAt'[d] = "graph" /\ jobs' = jobs /\ vec' = AddTo(vec, d)
        /\ graph' = IF InGraph THEN AddTo(graph, d) ELSE graph
    BY <1>8 DEF UpsertVectors
  <2>2. Pieces[d] \subseteq AddTo(vec, d)[slug[d]] /\ Pieces[d] \subseteq AddTo(graph, d)[slug[d]]
    BY DEF AddTo
  <2>3. Linked(d)' => InGraph
    BY <2>1 DEF Linked, Ended, InGraph
  <2>4. ~Worker => ~Searchable(d)'
    BY <2>1 DEF Kept, Searchable, Working
  <2>5. Pieces[d] \subseteq vec'[slug'[d]] /\ (Linked(d)' => Pieces[d] \subseteq graph'[slug'[d]])
    BY <1>2, <2>1, <2>2, <2>3
  <2>6. QED
    BY <1>3, <1>4, <2>4, <2>5 DEF Kept
<1>9. CASE UpsertChunks(d)
  <2>1. /\ runAt[d] = "graph" /\ runAt'[d] = "extract" /\ jobs' = jobs /\ vec' = vec
        /\ graph' = IF InGraph THEN graph ELSE AddTo(graph, d)
    BY <1>9 DEF UpsertChunks
  <2>2. Pieces[d] \subseteq AddTo(graph, d)[slug[d]]
    BY DEF AddTo
  <2>3. Embedded(d) /\ (InGraph => Linked(d))
    BY <2>1 DEF Embedded, Linked
  <2>4. ~Worker => ~Searchable(d)'
    BY <2>1 DEF Kept, Searchable, Working
  <2>5. d \in rows => Pieces[d] \subseteq vec[slug[d]] /\ (InGraph => Pieces[d] \subseteq graph[slug[d]])
    BY <2>3 DEF Kept
  <2>6. d \in rows' => Pieces[d] \subseteq vec'[slug'[d]] /\ Pieces[d] \subseteq graph'[slug'[d]]
    BY <1>2, <2>1, <2>2, <2>5
  <2>7. QED
    BY <1>3, <1>4, <2>4, <2>6 DEF Kept
<1>10. CASE BuildGraph(d) \/ PipelineFails(d)
  <2>1. /\ UNCHANGED <<vec, graph>>
        /\ Settle(d, "error") \/ (runAt[d] = "extract" /\ (Settle(d, "done") \/ Settle(d, "partial")))
    BY <1>10 DEF BuildGraph, PipelineFails
  <2>2. runAt[d] = "extract" /\ d \in rows => Pieces[d] \subseteq vec[slug[d]] \cap graph[slug[d]]
    BY DEF Kept, Embedded, Linked
  <2>3. QED
    BY <1>2, <2>1, <2>2, KeptSettle
<1>11. CASE FinalizeFile(d) \/ StampFails(d) \/ FinishJob(d)
  <2>1. /\ UNCHANGED <<vec, graph, jobs>> /\ runAt[d] \in {"finalize", "finish"}
        /\ runAt'[d] \in {"finish", "over"}
    BY <1>11 DEF FinalizeFile, StampFails, EndJob, FinishJob
  <2>2. (Embedded(d)' => Embedded(d)) /\ (Linked(d)' => Linked(d))
    BY <1>2, <2>1 DEF Embedded, Linked, Ended, Searchable
  <2>3. d \in rows' => /\ Embedded(d)' => Pieces[d] \subseteq vec'[slug'[d]]
                       /\ Linked(d)' => Pieces[d] \subseteq graph'[slug'[d]]
    BY <1>2, <2>1, <2>2 DEF Kept
  <2>4. QED
    BY <1>3, <1>4, <2>1, <2>3 DEF Kept, Working
<1>12. QED
  BY <1>5, <1>6, <1>7, <1>8, <1>9, <1>10, <1>11 DEF JobStep

LEMMA KeptJob ==
  ASSUME StoredInv, NEW d \in Docs, JobStep(d), NEW e \in Docs
  PROVE  Kept(e)'
<1>1. TypeOK /\ Kept(d) /\ Kept(e)
  BY DEF StoredInv, StampInv
<1> USE <1>1 DEF TypeOK, RunGoto, database, stores, counts, request, job, deletion, shelfDeletion
<1>2. UNCHANGED <<rows, shelfOf, shelves, zombies, reqAt, reqShelf, slug>>
  BY DEF JobStep, StartRun, Load, Replace, CheckCapacity, UpsertVectors, UpsertChunks, BuildGraph, PipelineFails,
     FinalizeFile, StampFails, EndJob, FinishJob
<1>3. NamesStay
  BY <1>2 DEF NamesStay, LiveRefs, SlugOf, Exists
<1>4. CASE e # d
  <2>1. runAt'[e] = runAt[e] /\ jobs'[e] = jobs[e]
    BY <1>4 DEF JobStep, StartRun, Load, Replace, CheckCapacity, UpsertVectors, UpsertChunks, BuildGraph,
       PipelineFails, FinalizeFile, StampFails, EndJob, FinishJob, Settle
  <2>2. /\ vec' \in {vec, [vec EXCEPT ![slug[d]] = @ \ Pieces[d]], AddTo(vec, d)}
        /\ graph' \in {graph, [graph EXCEPT ![slug[d]] = @ \ Pieces[d]], AddTo(graph, d)}
    BY DEF JobStep, StartRun, Load, Replace, CheckCapacity, UpsertVectors, UpsertChunks, BuildGraph, PipelineFails,
       FinalizeFile, StampFails, EndJob, FinishJob
  <2>3. ChunksStay(e)
    BY <1>4, <2>2, ChunksOfOthers
  <2>4. e \in rows' => RowStays(e)
    BY <1>2, <2>3 DEF RowStays
  <2>5. QED
    BY <1>2, <1>3, <2>1, <2>4, KeptStays
<1>5. CASE e = d
  BY <1>5, KeptOwnJob
<1>6. QED
  BY <1>4, <1>5

\* A deletion takes the row first, then what is nobody else's.
LEMMA KeptDelete ==
  ASSUME StoredInv, NEW d \in Docs, DeleteRow(d) \/ DeleteStep(d), NEW e \in Docs
  PROVE  Kept(e)'
<1>1. TypeOK /\ Kept(e) /\ Leaving
  BY DEF StoredInv, FilesInv
<1> USE <1>1 DEF TypeOK, database, stores, counts, request, job, deletion, shelfDeletion
<1>2. UNCHANGED <<shelfOf, shelves, jobs, runAt, zombies, reqAt, reqShelf, slug>> /\ rows' \subseteq rows
  BY DEF DeleteRow, DropRow, DeleteStep, ResolveShelf, DeleteFromGraph, DeleteFromVectors, UnlinkFile, DeleteFails
<1>3. NamesStay
  BY <1>2 DEF NamesStay, LiveRefs, SlugOf, Exists
<1>4. d \notin rows'
  BY DEF DeleteRow, DropRow, DeleteStep, ResolveShelf, DeleteFromGraph, DeleteFromVectors, UnlinkFile, DeleteFails,
     Leaving
<1>5. /\ vec' \in {vec, [vec EXCEPT ![delSlug[d]] = @ \ Pieces[d]]}
      /\ graph' \in {graph, [graph EXCEPT ![delSlug[d]] = @ \ Pieces[d]]}
  BY DEF DeleteRow, DeleteStep, ResolveShelf, DeleteFromGraph, DeleteFromVectors, UnlinkFile, DeleteFails, DropNodes,
     DropVectors
<1>6. e # d => ChunksStay(e)
  BY <1>5, ChunksOfOthers
<1>7. e \in rows' => RowStays(e)
  BY <1>2, <1>4, <1>6 DEF RowStays
<1>8. QED
  BY <1>2, <1>3, <1>7, KeptStays

\* A request begins, a run times out, a shelf is created: no document loses any.
LEMMA KeptRest ==
  ASSUME StoredInv, NEW e \in Docs,
         \/ \E d \in Docs : TimeOut(d) \/ \E ref \in Refs : BeginIngest(d, ref)
         \/ \E s \in ShelfRows : \E name \in Slugs : CreateShelf(s, name)
         \/ UNCHANGED vars
  PROVE  Kept(e)'
<1>1. TypeOK /\ Kept(e) /\ RowsArePast /\ Stamped(e)
  BY DEF StoredInv, FilesInv, StampInv
<1> USE <1>1 DEF TypeOK, ReqGoto, database, stores, counts, request, job, deletion, shelfDeletion, vars
<1>2. UNCHANGED <<rows, shelfOf, jobs, runAt, vec, graph>> /\ zombies \subseteq zombies'
  BY DEF TimeOut, BeginIngest, CreateShelf
<1>3. NamesStay
  BY SetsAssumption DEF NamesStay, LiveRefs, SlugOf, Exists, TimeOut, BeginIngest, CreateShelf
<1>4. CASE slug'[e] = slug[e] /\ reqShelf'[e] = reqShelf[e] /\ (reqAt'[e] # "idle" => reqAt[e] # "idle")
  <2>1. e \in rows' => RowStays(e)
    BY <1>2 DEF RowStays, ChunksStay
  <2>2. QED
    BY <1>2, <1>3, <1>4, <2>1, KeptStays
<1>5. ASSUME NEW ref \in Refs, BeginIngest(e, ref)
      PROVE  Kept(e)'
  <2>1. reqAt[e] = "idle" /\ ref \in LiveRefs /\ reqShelf'[e] = ref /\ slug'[e] = SlugOf(ref)
    BY <1>5 DEF BeginIngest
  <2>2. e \notin rows' /\ runAt'[e] = "none"
    BY <1>2, <2>1 DEF RowsArePast, Past, Stamped
  <2>3. QED
    BY <1>3, <2>1, <2>2 DEF Kept, NamesStay, Working
<1>6. \/ slug'[e] = slug[e] /\ reqShelf'[e] = reqShelf[e] /\ (reqAt'[e] # "idle" => reqAt[e] # "idle")
      \/ \E ref \in Refs : BeginIngest(e, ref)
  BY DEF TimeOut, BeginIngest, CreateShelf
<1>7. QED
  BY <1>4, <1>5, <1>6

\* A restart runs a job again or forgets it; what it had finished stays.
LEMMA KeptRestart ==
  ASSUME StoredInv, NEW e \in Docs, RestartApi \/ RestartWorker
  PROVE  Kept(e)'
<1>1. TypeOK /\ Kept(e)
  BY DEF StoredInv, StampInv
<1> USE <1>1 DEF TypeOK, database, stores, counts, request, job, deletion, shelfDeletion
<1>2. /\ UNCHANGED <<rows, shelfOf, shelves, jobs, zombies, vec, graph, slug, reqShelf>>
      /\ reqAt'[e] # "idle" => reqAt[e] # "idle"
  BY DEF RestartApi, RestartWorker
<1>3. \/ runAt'[e] = runAt[e]
      \/ ~Worker /\ runAt'[e] = "over"
      \/ Worker /\ runAt'[e] = "waiting"
      \/ Worker /\ e \in zombies /\ runAt'[e] = "over"
  BY DeploymentAssumption DEF RestartApi, RestartWorker
<1>4. ~Worker /\ runAt'[e] = "over" /\ Searchable(e) /\ runAt[e] # "none" => runAt[e] \in {"finalize", "finish", "over"}
  BY DEF Kept, RunPc
<1>5. ~Worker /\ runAt'[e] = "over" => runAt[e] # "none"
  BY DEF RestartApi, RestartWorker
<1>6. Ended(e)' => Ended(e)
  BY <1>2, <1>3, <1>4, <1>5 DEF Ended, Searchable
<1>7. (Embedded(e)' => Embedded(e)) /\ (Linked(e)' => Linked(e))
  BY <1>3, <1>6 DEF Embedded, Linked
<1>8. ~Worker /\ runAt'[e] \in Working \cup {"waiting"} => ~Searchable(e)'
  BY <1>2, <1>3 DEF Kept, Searchable, Working
<1>9. reqAt'[e] # "idle" => reqShelf'[e] \in LiveRefs' /\ slug'[e] = SlugOf(reqShelf[e])'
  BY <1>2 DEF Kept, LiveRefs, SlugOf, Exists
<1>10. e \in rows' => /\ shelfOf'[e] = reqShelf'[e]
                      /\ Embedded(e)' => Pieces[e] \subseteq vec'[slug'[e]]
                      /\ Linked(e)' => Pieces[e] \subseteq graph'[slug'[e]]
  BY <1>2, <1>7 DEF Kept
<1>11. QED
  BY <1>8, <1>9, <1>10 DEF Kept

LEMMA StoredNext == Removable = {} /\ StoredInv /\ [Next]_vars => StoredInv'
<1> SUFFICES ASSUME Removable = {}, StoredInv, [Next]_vars
             PROVE  StoredInv'
  OBVIOUS
<1>1. FilesInv' /\ StampInv'
  BY FilesNext, StampNext DEF StoredInv
<1>2. ASSUME NEW s \in ShelfRows
      PROVE  ~BeginDeleteShelf(s) /\ ~ShelfDeleteStep(s)
  BY DEF StoredInv, ShelvesStand, BeginDeleteShelf, ShelfDeleteStep, PurgeGraph, PurgeVectors, DeleteFilesOf,
     CommitShelf, UnlinkShelfFiles
<1>3. ShelvesStand'
  <2>1. CASE RestartApi
    BY <2>1 DEF StoredInv, ShelvesStand, RestartApi
  <2>2. CASE ~RestartApi
    <3>1. sdelAt' = sdelAt
      BY <1>2, <2>2 DEF Next, vars, database, stores, counts, request, job, deletion, shelfDeletion, BeginIngest,
         RequestStep, ShelfChunkBudget, FetchUrl, LockAndCount, ReserveFileSlot, RefuseFileSlot, ReserveOnDeadShelf,
         WriteBytes, ReleaseFileSlot, Enqueue, EnqueueFails, JobStep, StartRun, Load, Replace, CheckCapacity,
         UpsertVectors, UpsertChunks, BuildGraph, PipelineFails, FinalizeFile, StampFails, EndJob, FinishJob, DeleteRow, DeleteStep,
         ResolveShelf, DeleteFromGraph, DeleteFromVectors, UnlinkFile, DeleteFails, TimeOut, CreateShelf,
         RestartWorker
    <3>2. QED
      BY <3>1 DEF StoredInv, ShelvesStand
  <2>3. QED
    BY <2>1, <2>2
<1>4. ASSUME NEW e \in Docs
      PROVE  Kept(e)'
  <2>1. ASSUME NEW d \in Docs, RequestStep(d)
        PROVE  Kept(e)'
    BY <2>1, KeptRequest
  <2>2. ASSUME NEW d \in Docs, JobStep(d)
        PROVE  Kept(e)'
    BY <2>2, KeptJob
  <2>3. ASSUME NEW d \in Docs, DeleteRow(d) \/ DeleteStep(d)
        PROVE  Kept(e)'
    BY <2>3, KeptDelete
  <2>4. CASE RestartApi \/ RestartWorker
    BY <2>4, KeptRestart
  <2>5. CASE \/ \E d \in Docs : TimeOut(d) \/ \E ref \in Refs : BeginIngest(d, ref)
             \/ \E s \in ShelfRows : \E name \in Slugs : CreateShelf(s, name)
             \/ UNCHANGED vars
    BY <2>5, KeptRest
  <2>6. QED
    BY <1>2, <2>1, <2>2, <2>3, <2>4, <2>5 DEF Next
<1>5. QED
  BY <1>1, <1>3, <1>4 DEF StoredInv

\* While no shelf is deleted, a settled row that says "ingested" has all its chunks
\* in both stores of its shelf, through failures, timeouts, restarts and the
\* deletions of other documents: the stamp is the last thing a run does.
THEOREM StoredHolds == ASSUME Removable = {} PROVE Spec => []IngestedIsStored
<1>1. StoredInv => IngestedIsStored
  <2> SUFFICES ASSUME StoredInv, NEW d \in rows, Settled(d), status[d] = "ingested"
               PROVE  Pieces[d] \subseteq vec[SlugOf(shelfOf[d])] \cap graph[SlugOf(shelfOf[d])]
    BY DEF IngestedIsStored
  <2>1. d \in Docs /\ reqAt[d] # "idle" /\ Kept(d) /\ Stamped(d)
    BY DEF StoredInv, FilesInv, StampInv, TypeOK, RowsArePast, Past
  <2>2. Embedded(d) /\ Linked(d)
    BY <2>1 DEF Settled, Stamped, Embedded, Linked, Ended
  <2>3. QED
    BY <2>1, <2>2 DEF Kept
<1>2. Spec => []StoredInv
  BY StoredInit, StoredNext, PTL DEF Spec
<1>3. QED
  BY <1>1, <1>2, PTL
=============================================================================
