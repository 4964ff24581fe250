------------------------------- MODULE Library -------------------------------
(***************************************************************************)
(* The shelves and conversations of one account, and what stands behind    *)
(* them: shelves.py, api/routers/shelves.py and threads.py, the lookup of  *)
(* api/routers/query.py, container.tenant(), the DuckDB handles and        *)
(* accounts/purge.py.                                                      *)
(*                                                                         *)
(* A shelf row names a corpus by its slug; the corpus is a slice of the    *)
(* graph and a DuckDB file.  Steps are transactions; the purge of a corpus *)
(* runs without an await and is one step.                                  *)
(***************************************************************************)
EXTENDS Naturals, Sequences, FiniteSets, Functions, Keeping

CONSTANTS
  Slots,      \* requests served at once
  Shelves,    \* rows a shelf may get, besides the default one
  Default,    \* the default shelf, and its corpus: the bare tenant id
  Slugs,      \* what a name is made into: the first that is free, in this order
  Threads, NoThread,
  MaxShelves, MaxThreads,   \* MAX_SHELVES and the account's max_threads
  MaxActive,  \* tenancy.max_active_tenants
  MaxFaults   \* bound: purges of the graph that fail

Corpora == {Default} \cup Range(Slugs)
Stores  == {"graph", "vectors"}

ASSUME LibraryAssumption ==
  /\ Slugs \in Seq(Range(Slugs)) /\ IsInjective(Slugs) /\ Default \notin Range(Slugs) \cup Shelves
  /\ NoThread \notin Threads /\ MaxActive \in Nat /\ MaxFaults \in Nat

VARIABLES
  account,   \* is there a user row?
  rows,      \* shelf rows
  slug,      \* the slug of each row
  thread,    \* row: none, live or deleted; its shelf; was: the corpus it was pinned to
  memory,    \* per thread, the corpora under which the agent remembers it
  stored,    \* per corpus, what its stores hold, and for which row it was put there
  open,      \* corpora whose DuckDB file is open in this process
  cached,    \* corpora with a cached tenant, least recently used first
  slot,      \* each request: where it is and what it read
  doomed,    \* the shelf whose deletion is under way, or Default
  purge,     \* the purge of the account: none, all, or content (keep_account)
  tainted,   \* corpora touched by a request while they were being deleted, or not emptied
  faults     \* bound

lvars == <<account, rows, slug, thread, memory, stored, open, cached, slot, doomed, purge, tainted, faults>>

Rows == Shelves \cup {Default}
ThreadRows == [row : {"none", "live", "deleted"}, shelf : Rows, was : Corpora]
Idle == [at |-> "idle", thread |-> NoThread, shelf |-> Default, corpus |-> Default]

LTypeOK ==
  /\ account \in BOOLEAN /\ rows \subseteq Rows /\ slug \in [Shelves -> Corpora]
  /\ thread \in [Threads -> ThreadRows]
  /\ memory \in [Threads -> SUBSET Corpora]
  /\ stored \in [Corpora -> SUBSET [in : Stores, owner : Rows]]
  /\ open \subseteq Corpora /\ cached \in Seq(Corpora) /\ Len(cached) <= MaxActive
  /\ slot \in [Slots -> [at : {"idle", "lookup", "search", "answer", "job", "thread", "pinned", "shelf", "named"},
                         thread : Threads \cup {NoThread}, shelf : Rows, corpus : Corpora]]
  /\ doomed \in Rows /\ purge \in {"none", "all", "content"}
  /\ tainted \subseteq Corpora /\ faults \in 0..MaxFaults
-----------------------------------------------------------------------------
Goes(q, r)  == slot' = [slot EXCEPT ![q] = r]
Frees(q)    == Goes(q, Idle)
At(q, here) == slot[q].at = here

CorpusOf(s)  == IF s = Default THEN Default ELSE slug[s]
Exists(s)    == s \in rows \/ (s = Default /\ account)
Named(c)     == \E s \in Rows : Exists(s) /\ CorpusOf(s) = c
Names(s, c)  == Exists(s) /\ CorpusOf(s) = c

\* Nothing is being deleted under this corpus.
Settled(c) == Named(c) /\ purge = "none" /\ (doomed # Default => slug[doomed] # c)

Taint(c, fine) == tainted' = IF fine THEN tainted ELSE tainted \cup {c}

\* container.tenant(): the corpus moves to the warm end, the coldest drops out.
Warm(c) ==
  LET warmer == Append(Keep(cached, Corpora \ {c}), c) IN
  cached' = IF Len(warmer) > MaxActive THEN Tail(warmer) ELSE warmer
-----------------------------------------------------------------------------
(* Asking.                                                                 *)

\* Mutant: the shelf picked in the composer decides.
Picked(t, picked) == picked

\* The conversation decides; what the request picked counts only without one.
ShelfFor(t, picked) == IF t = NoThread THEN picked ELSE thread[t].shelf

Ask(q, t, picked) ==
  /\ At(q, "idle") /\ (t # NoThread => thread[t].row = "live")
  /\ Goes(q, [Idle EXCEPT !.at = "lookup", !.thread = t, !.shelf = ShelfFor(t, picked)])
  /\ UNCHANGED <<account, rows, slug, thread, memory, stored, open, cached, doomed, purge, tainted, faults>>

\* A conversation whose shelf is gone falls back; a request that names it is refused.
LookUp(q) ==
  /\ At(q, "lookup")
  /\ LET s == slot[q].shelf IN
     IF s = Default \/ s \in rows
     THEN Goes(q, [slot[q] EXCEPT !.at = "search", !.shelf = Default, !.corpus = CorpusOf(s)])
     ELSE IF slot[q].thread = NoThread THEN Frees(q)
     ELSE Goes(q, [slot[q] EXCEPT !.at = "search", !.shelf = Default])
  /\ UNCHANGED <<account, rows, slug, thread, memory, stored, open, cached, doomed, purge, tainted, faults>>

\* Opening the file makes it if there is none; one handle a file.
Connect(c) == open' = open \cup {c}

Search(q) ==
  /\ At(q, "search")
  /\ Warm(slot[q].corpus) /\ Connect(slot[q].corpus) /\ Taint(slot[q].corpus, Settled(slot[q].corpus))
  /\ Goes(q, [slot[q] EXCEPT !.at = "answer"])
  /\ UNCHANGED <<account, rows, slug, thread, memory, stored, doomed, purge, faults>>

\* The checkpointer writes the turn under `corpus:thread`.
Answer(q) ==
  /\ At(q, "answer")
  /\ memory' = IF slot[q].thread = NoThread THEN memory
               ELSE [memory EXCEPT ![slot[q].thread] = @ \cup {slot[q].corpus}]
  /\ Frees(q)
  /\ UNCHANGED <<account, rows, slug, thread, stored, open, cached, doomed, purge, tainted, faults>>
-----------------------------------------------------------------------------
(* Ingesting: the corpus is chosen at upload, the job stores later.        *)

Upload(q, s) ==
  /\ At(q, "idle") /\ account /\ (s = Default \/ s \in rows)
  /\ Goes(q, [Idle EXCEPT !.at = "job", !.shelf = s, !.corpus = CorpusOf(s)])
  /\ UNCHANGED <<account, rows, slug, thread, memory, stored, open, cached, doomed, purge, tainted, faults>>

\* What a job puts into the graph and into the file.
Put(c, s) == stored' = [stored EXCEPT ![c] = @ \cup [in : Stores, owner : {s}]]

Store(q) ==
  /\ At(q, "job")
  /\ LET c == slot[q].corpus IN
     /\ Warm(c) /\ Connect(c)
     /\ Put(c, slot[q].shelf)
     /\ Taint(c, Settled(c) /\ Names(slot[q].shelf, c))
  /\ Frees(q)
  /\ UNCHANGED <<account, rows, slug, thread, memory, doomed, purge, faults>>
-----------------------------------------------------------------------------
(* Conversations.                                                          *)

Full(have, max) == have >= max

Live == {t \in Threads : thread[t].row = "live"}

NewThread(q, s) ==
  /\ At(q, "idle") /\ account /\ (s = Default \/ s \in rows)
  /\ Goes(q, [Idle EXCEPT !.at = "thread", !.shelf = s])
  /\ UNCHANGED <<account, rows, slug, thread, memory, stored, open, cached, doomed, purge, tainted, faults>>

CountThreads(q) ==
  /\ At(q, "thread")
  /\ IF Full(Cardinality(Live), MaxThreads) THEN Frees(q) ELSE Goes(q, [slot[q] EXCEPT !.at = "pinned"])
  /\ UNCHANGED <<account, rows, slug, thread, memory, stored, open, cached, doomed, purge, tainted, faults>>

\* The foreign keys refuse a shelf, or an account, that is gone by now.
InsertThread(q) ==
  /\ At(q, "pinned")
  /\ LET s == slot[q].shelf IN
     IF account /\ (s = Default \/ s \in rows)
     THEN \E t \in Threads :
            /\ thread[t].row = "none"
            /\ thread' = [thread EXCEPT ![t] = [row |-> "live", shelf |-> s, was |-> CorpusOf(s)]]
     ELSE UNCHANGED thread
  /\ Frees(q)
  /\ UNCHANGED <<account, rows, slug, memory, stored, open, cached, doomed, purge, tainted, faults>>

\* Soft: the agent's memory stays.
DeleteThread(t) ==
  /\ t \in Live
  /\ thread' = [thread EXCEPT ![t].row = "deleted"]
  /\ UNCHANGED <<account, rows, slug, memory, stored, open, cached, slot, doomed, purge, tainted, faults>>
-----------------------------------------------------------------------------
(* Shelves.                                                                *)

\* The account's default row first: made if missing, by whoever comes first.
NewShelf(q) ==
  /\ At(q, "idle") /\ account
  /\ rows' = rows \cup {Default}
  /\ Goes(q, [Idle EXCEPT !.at = "shelf"])
  /\ UNCHANGED <<account, slug, thread, memory, stored, open, cached, doomed, purge, tainted, faults>>

Taken == {CorpusOf(s) : s \in rows}

NameShelf(q) ==
  /\ At(q, "shelf")
  /\ IF Full(Cardinality(rows), MaxShelves) \/ Range(Slugs) \subseteq Taken
     THEN Frees(q)
     ELSE LET free == Keep(Slugs, Range(Slugs) \ Taken) IN
          Goes(q, [slot[q] EXCEPT !.at = "named", !.corpus = Head(free)])
  /\ UNCHANGED <<account, rows, slug, thread, memory, stored, open, cached, doomed, purge, tainted, faults>>

\* Mutant: no unique constraint.
Unconstrained(c) == FALSE

\* uq_shelves_user_slug.
Conflicts(c) == c \in Taken

InsertShelf(q) ==
  /\ At(q, "named")
  /\ IF account /\ ~Conflicts(slot[q].corpus)
     THEN \E s \in Shelves \ rows :
            /\ \A p \in Slots : slot[p].shelf # s   \* identifiers are not reused
            /\ \A c \in Corpora : \A x \in stored[c] : x.owner # s
            /\ doomed # s
            /\ rows' = rows \cup {s} /\ slug' = [slug EXCEPT ![s] = slot[q].corpus]
     ELSE UNCHANGED <<rows, slug>>
  /\ Frees(q)
  /\ UNCHANGED <<account, thread, memory, stored, open, cached, doomed, purge, tainted, faults>>

\* A graph that cannot be purged keeps what it has.
PurgeCorpus(corpora, failing) ==
  stored' = [c \in Corpora |-> IF c \in failing THEN {x \in stored[c] : x.in = "graph"}
                              ELSE IF c \in corpora THEN {} ELSE stored[c]]

CloseFile(corpora) == open' = open \ corpora

Evict(corpora) == cached' = Keep(cached, Corpora \ corpora)

Empty(corpora, failing) ==
  /\ PurgeCorpus(corpora, failing) /\ CloseFile(corpora) /\ Evict(corpora)
  /\ tainted' = (tainted \ corpora) \cup failing
  /\ faults' = faults + Cardinality(failing)

Failing(corpora) == {f \in SUBSET corpora : faults + Cardinality(f) <= MaxFaults}

DeleteShelf(s) ==
  /\ doomed = Default /\ s \in rows \ {Default}
  /\ \E f \in Failing({slug[s]}) : Empty({slug[s]}, f)
  /\ doomed' = s
  /\ UNCHANGED <<account, rows, slug, thread, memory, slot, purge>>

\* ON DELETE SET NULL: its conversations are the default shelf's from here on.
Unshelve(gone) ==
  thread' = [t \in Threads |-> IF thread[t].shelf \in gone THEN [thread[t] EXCEPT !.shelf = Default] ELSE thread[t]]

DropShelf ==
  /\ doomed # Default
  /\ rows' = rows \ {doomed} /\ Unshelve({doomed}) /\ doomed' = Default
  /\ slug' = [slug EXCEPT ![doomed] = Default]
  /\ UNCHANGED <<account, memory, stored, open, cached, slot, purge, tainted, faults>>
-----------------------------------------------------------------------------
(* Purging the account.                                                    *)

\* Mutant: only the shelves that have a row.
Shelved == {slug[s] : s \in rows \ {Default}}

\* Every shelf's corpus, and the default one, which may have no row.
AllCorpora == {CorpusOf(s) : s \in rows} \cup {Default}

PurgeUser(scope) ==
  /\ account /\ purge = "none"
  /\ \E f \in Failing(AllCorpora) : Empty(AllCorpora, f)
  /\ purge' = scope
  /\ UNCHANGED <<account, rows, slug, thread, memory, slot, doomed>>

\* With keep_account only the file rows go; else everything cascades.
PurgeRows ==
  /\ purge # "none"
  /\ IF purge = "content" THEN UNCHANGED <<account, rows, thread>>
     ELSE /\ account' = FALSE /\ rows' = {}
          /\ thread' = [t \in Threads |->
               IF thread[t].row = "none" THEN thread[t] ELSE [thread[t] EXCEPT !.row = "deleted", !.shelf = Default]]
  /\ slug' = [s \in Shelves |-> IF s \in rows' \cup {doomed} THEN slug[s] ELSE Default]
  /\ purge' = "none"
  /\ UNCHANGED <<memory, stored, open, cached, slot, doomed, tainted, faults>>
-----------------------------------------------------------------------------
LInit ==
  /\ account = TRUE /\ rows = {} /\ slug = [s \in Shelves |-> Default]
  /\ thread = [t \in Threads |-> [row |-> "none", shelf |-> Default, was |-> Default]]
  /\ memory = [t \in Threads |-> {}] /\ stored = [c \in Corpora |-> {}]
  /\ open = {} /\ cached = <<>> /\ slot = [q \in Slots |-> Idle]
  /\ doomed = Default /\ purge = "none" /\ tainted = {} /\ faults = 0

LNext ==
  \/ \E q \in Slots :
       \/ \E t \in Threads \cup {NoThread}, s \in Rows : Ask(q, t, s)
       \/ LookUp(q) \/ Search(q) \/ Answer(q)
       \/ (\E s \in Rows : Upload(q, s) \/ NewThread(q, s)) \/ Store(q)
       \/ CountThreads(q) \/ InsertThread(q)
       \/ NewShelf(q) \/ NameShelf(q) \/ InsertShelf(q)
  \/ \E t \in Threads : DeleteThread(t)
  \/ (\E s \in Shelves : DeleteShelf(s)) \/ DropShelf
  \/ (\E scope \in {"all", "content"} : PurgeUser(scope)) \/ PurgeRows

LSpec == LInit /\ [][LNext]_lvars
-----------------------------------------------------------------------------
(* Properties.                                                             *)

\* What the agent remembers of a conversation stays under its shelf's corpus
\* whatever the composer shows; only when the shelf is deleted does it go on
\* under the default one.
MemoryFollowsShelf ==
  \A t \in Threads :
    memory[t] \subseteq IF thread[t].shelf # Default THEN {slug[thread[t].shelf]} ELSE {thread[t].was, Default}

\* No two shelves are the same slice of the graph or the same file.  Unless a
\* purge failed or a request was at work on the corpus during it, a corpus holds
\* only what its present shelf put there, and one whose shelf or account is gone
\* holds nothing, has no open file and no cached tenant.
NothingStranded ==
  \A c \in Corpora :
    /\ \A s, r \in rows : Names(s, c) /\ Names(r, c) => s = r
    /\ c \in tainted \/ \A x \in stored[c] : Names(x.owner, c)
    /\ c \in tainted \/ Named(c) \/ c \notin open \cup Range(cached)
=============================================================================
