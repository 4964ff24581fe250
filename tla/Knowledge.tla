------------------------------ MODULE Knowledge ------------------------------
(***************************************************************************)
(* The knowledge graph of one corpus: the writes of                        *)
(* storage/graph/neo4j_store.py, called by pipelines/ingest.py, enriched   *)
(* by ingestion/enrich.py and cut back by the deletion of a document.      *)
(*                                                                         *)
(* Every query is a transaction of its own and one step here.  Jobs and    *)
(* deletions run in threads, or in the worker, and interleave at will; any *)
(* of them may fail between two queries.                                   *)
(***************************************************************************)
EXTENDS Naturals, Sequences, FiniteSets, Functions

CONSTANTS
  Jobs, Deleter,   \* who writes: ingest jobs, and the one deletion at a time
  Docs, Pieces,    \* the chunks a document is split into, in order
  Entities,        \* keys
  Says,            \* what extraction finds in a chunk: entities, and relations of them
  Contained,       \* pairs of keys one contained in the other
  Alike,           \* those, and pairs whose names nearly coincide by their embeddings
  NameLength,      \* of an entity: the longest of a group names it
  MaxEntities,     \* _MAX_ENTITIES: a larger graph is not resolved
  MinSize,         \* communities.min_size
  None

Chunks == UNION {Range(Pieces[d]) : d \in Docs}
Actors == Jobs \cup {Deleter}

ASSUME SaysAssumption == \A c \in Chunks :
  Says[c].entities \subseteq Entities /\ Says[c].relations \subseteq Says[c].entities \X Says[c].entities
ASSUME PiecesAssumption == \A d, e \in Docs :
  /\ Pieces[d] \in Seq(Range(Pieces[d])) /\ IsInjective(Pieces[d])
  /\ d # e => Range(Pieces[d]) \cap Range(Pieces[e]) = {}
ASSUME NamesAssumption ==
  /\ Contained \subseteq Alike /\ MaxEntities \in Nat
  /\ IsFiniteSet(Entities) /\ \A x \in Entities : NameLength[x] \in Nat
  /\ None \notin Actors \cup Docs

VARIABLES
  chunk,     \* chunk nodes
  next,      \* :NEXT
  entity,    \* entity nodes
  mentions,  \* :MENTIONS, from a chunk to an entity
  related,   \* relations between entities, whatever their type
  summaries, \* community nodes, each the entities it summarises
  doing,     \* each actor: its document, the chunks it has left, what it read of the graph
  embedded,  \* the last resolution had the embeddings of the names
  alone,     \* the actor that has had the corpus to itself, and no failure, since it began
  sound      \* the last to finish was an ingest that had

kvars == <<chunk, next, entity, mentions, related, summaries, embedded, doing, alone, sound>>

Resting == [at |-> "idle", doc |-> None, removed |-> FALSE, left |-> <<>>, groups |-> {}]

Stages ==
  {"idle", "delete", "prune", "drop", "upsert", "link", "add", "relate", "mention", "merge", "replace", "end"}

Doings ==
  [at : Stages, doc : Docs \cup {None}, removed : BOOLEAN, left : Seq(Chunks), groups : SUBSET SUBSET Entities]

KTypeOK ==
  /\ chunk \subseteq Chunks /\ next \subseteq Chunks \X Chunks
  /\ entity \subseteq Entities /\ related \subseteq Entities \X Entities
  /\ mentions \subseteq Chunks \X Entities /\ summaries \subseteq SUBSET Entities
  /\ embedded \in BOOLEAN /\ doing \in [Actors -> Doings] /\ alone \in Actors \cup {None} /\ sound \in BOOLEAN
-----------------------------------------------------------------------------
\* The groups a union-find makes of some nodes joined pairwise.
Joined(S, edges)   == \A e \in edges : (e[1] \in S) = (e[2] \in S)
Groups(V, edges) ==
  LET closed == {S \in (SUBSET V) \ {{}} : Joined(S, {e \in edges : e[1] \in V /\ e[2] \in V})} IN
  {S \in closed : \A T \in closed : T \subseteq S => T = S}

Communities == {S \in Groups(entity, related) : Cardinality(S) >= MinSize /\ \E e \in related : e[1] \in S /\ e[1] # e[2]}

At(a, here)  == doing[a].at = here
Becomes(a, r) ==
  /\ doing' = [doing EXCEPT ![a] = r]
  /\ alone' = IF alone = a THEN a ELSE None
  /\ sound' = (r.at = "idle" /\ alone = a /\ a \in Jobs /\ At(a, "replace"))
Then(a, here) == Becomes(a, [doing[a] EXCEPT !.at = here])

\* run() and delete_file: both start with delete_document.
Begin(a, d) ==
  /\ At(a, "idle")
  /\ doing' = [doing EXCEPT ![a] = [Resting EXCEPT !.at = "delete", !.doc = d, !.left = Pieces[d]]]
  /\ alone' = IF \A b \in Actors : At(b, "idle") THEN a ELSE None
  /\ sound' = FALSE
  /\ UNCHANGED <<chunk, next, entity, mentions, related, summaries, embedded>>

DeleteChunks(a) ==
  /\ At(a, "delete")
  /\ LET gone == chunk \cap Range(Pieces[doing[a].doc]) IN
     /\ chunk' = chunk \ gone
     /\ next' = {e \in next : e[1] \notin gone /\ e[2] \notin gone}
     /\ mentions' = {m \in mentions : m[1] \notin gone}
     /\ Becomes(a, [doing[a] EXCEPT !.at = "prune", !.removed = gone # {}])
  /\ UNCHANGED <<entity, related, summaries, embedded>>

\* Mutant: what only the deleted document mentioned lingers.
Everything == entity

Mentioned == {m[2] : m \in mentions}

\* Entities nothing in the corpus mentions any more go.
Prune(a) ==
  /\ At(a, "prune")
  /\ entity' = entity \cap Mentioned
  /\ related' = related \cap (entity' \X entity')
  /\ Then(a, IF doing[a].removed THEN "drop" ELSE IF a = Deleter THEN "end" ELSE "upsert")
  /\ UNCHANGED <<chunk, next, mentions, summaries, embedded>>

\* Summaries may quote what was deleted.
DropSummaries(a) ==
  /\ At(a, "drop")
  /\ summaries' = {}
  /\ Then(a, IF a = Deleter THEN "end" ELSE "upsert")
  /\ UNCHANGED <<chunk, next, entity, mentions, related, embedded>>

UpsertChunks(a) ==
  /\ At(a, "upsert")
  /\ chunk' = chunk \cup Range(Pieces[doing[a].doc])
  /\ Then(a, "link")
  /\ UNCHANGED <<next, entity, mentions, related, summaries, embedded>>

\* Mutant: every chunk follows every other.
AnyOrder(s) == Range(s) \X Range(s)

InOrder(s) == {<<s[i], s[i + 1]>> : i \in 1 .. Len(s) - 1}

LinkSequence(a) ==
  /\ At(a, "link")
  /\ next' = next \cup (InOrder(Pieces[doing[a].doc]) \cap (chunk \X chunk))
  /\ Then(a, "add")
  /\ UNCHANGED <<chunk, entity, mentions, related, summaries, embedded>>

\* Extraction of a chunk may fail, and then the chunk is left without entities.
Skip(a) ==
  /\ At(a, "add") /\ doing[a].left # <<>>
  /\ Becomes(a, [doing[a] EXCEPT !.left = Tail(@)])
  /\ UNCHANGED <<chunk, next, entity, mentions, related, summaries, embedded>>

AddEntities(a) ==
  /\ At(a, "add") /\ doing[a].left # <<>>
  /\ entity' = entity \cup Says[Head(doing[a].left)].entities
  /\ Then(a, "relate")
  /\ UNCHANGED <<chunk, next, mentions, related, summaries, embedded>>

\* MATCH: an end that is gone by now relates to nothing.
AddRelations(a) ==
  /\ At(a, "relate")
  /\ related' = related \cup (Says[Head(doing[a].left)].relations \cap (entity \X entity))
  /\ Then(a, "mention")
  /\ UNCHANGED <<chunk, next, entity, mentions, summaries, embedded>>

\* Mutant: keys pile up from chunk to chunk.
AllKeys(c) == entity

Keys(c) == Says[c].entities \cap entity

LinkEntities(a) ==
  /\ At(a, "mention")
  /\ LET c == Head(doing[a].left) IN
     mentions' = mentions \cup (({c} \cap chunk) \X Keys(c))
  /\ Becomes(a, [doing[a] EXCEPT !.at = "add", !.left = Tail(@)])
  /\ UNCHANGED <<chunk, next, entity, related, summaries, embedded>>
-----------------------------------------------------------------------------
(* Enrichment, once the documents are in.                                  *)

\* What resolution compares: an embedder that fails is swallowed, and what is
\* contained is folded without it.
Compared == IF embedded THEN Alike ELSE Contained

\* resolve_entities() reads every entity and decides what to fold.
ReadEntities(a) ==
  /\ At(a, "add") /\ doing[a].left = <<>>
  /\ embedded' \in BOOLEAN
  /\ LET found == IF Cardinality(entity) > MaxEntities THEN {} ELSE Groups(entity, Compared') IN
     Becomes(a, [doing[a] EXCEPT !.at = "merge", !.groups = {g \in found : Cardinality(g) > 1}])
  /\ UNCHANGED <<chunk, next, entity, mentions, related, summaries>>

Winner(g) == CHOOSE w \in g : \A x \in g : NameLength[x] <= NameLength[w]

\* merge_entities(): the winner takes the losers' mentions and relations, if it is still there.
Merge(a, g) ==
  /\ At(a, "merge") /\ g \in doing[a].groups
  /\ LET w == Winner(g)
         losers == (g \ {w}) \cap entity
         Fold(x) == IF x \in losers THEN w ELSE x IN
     IF w \notin entity THEN UNCHANGED <<entity, mentions, related>>
     ELSE /\ entity' = entity \ losers
          /\ mentions' = {<<m[1], Fold(m[2])>> : m \in mentions}
          /\ related' = {<<Fold(r[1]), Fold(r[2])>> : r \in related} \ {<<w, w>>}
  /\ Becomes(a, [doing[a] EXCEPT !.groups = @ \ {g}])
  /\ UNCHANGED <<chunk, next, summaries, embedded>>

\* A failure there is logged, and the job goes on with the communities.
ResolveFails(a) ==
  /\ At(a, "merge") /\ doing[a].groups # {}
  /\ doing' = [doing EXCEPT ![a].groups = {}]
  /\ alone' = None /\ sound' = FALSE
  /\ UNCHANGED <<chunk, next, entity, mentions, related, summaries, embedded>>

\* build_communities() reads the edges; the model writes the summaries meanwhile.
ReadEdges(a) ==
  /\ At(a, "merge") /\ doing[a].groups = {}
  /\ Becomes(a, [doing[a] EXCEPT !.at = "replace", !.groups = Communities])
  /\ UNCHANGED <<chunk, next, entity, mentions, related, summaries, embedded>>

\* A community that could not be summarised is left out.
ReplaceSummaries(a) ==
  /\ At(a, "replace")
  /\ summaries' \in SUBSET doing[a].groups
  /\ Becomes(a, Resting)
  /\ UNCHANGED <<chunk, next, entity, mentions, related, embedded>>

\* The deletion is over; or a query of a job or a deletion failed.
Ends(a) ==
  /\ ~At(a, "idle")
  /\ doing' = [doing EXCEPT ![a] = Resting]
  /\ alone' = None /\ sound' = FALSE
  /\ UNCHANGED <<chunk, next, entity, mentions, related, summaries, embedded>>
-----------------------------------------------------------------------------
KInit ==
  /\ chunk = {} /\ next = {} /\ entity = {} /\ mentions = {} /\ related = {} /\ summaries = {}
  /\ embedded = FALSE
  /\ doing = [a \in Actors |-> Resting] /\ alone = None /\ sound = FALSE

Acts(a) ==
  \/ \E d \in Docs : Begin(a, d)
  \/ DeleteChunks(a) \/ Prune(a) \/ DropSummaries(a) \/ UpsertChunks(a) \/ LinkSequence(a)
  \/ Skip(a) \/ AddEntities(a) \/ AddRelations(a) \/ LinkEntities(a)
  \/ ReadEntities(a) \/ (\E g \in doing[a].groups : Merge(a, g)) \/ ResolveFails(a) \/ ReadEdges(a) \/ ReplaceSummaries(a)
  \/ Ends(a)

KNext == \E a \in Actors : Acts(a)
KSpec == KInit /\ [][KNext]_kvars
-----------------------------------------------------------------------------
(* Properties.                                                             *)

\* However often names are folded together, a chunk mentions only what was
\* extracted from it, or what that is another name for; and a window never leaves
\* its document or skips a chunk of it, re-ingests included.
GraphFollowsDocuments ==
  /\ \A m \in mentions : \E g \in Groups(Entities, Alike) : m[2] \in g /\ Says[m[1]].entities \cap g # {}
  /\ \A e \in next : /\ e[1] \in chunk /\ e[2] \in chunk
                     /\ \E d \in Docs : \E i \in 2 .. Len(Pieces[d]) : e = <<Pieces[d][i - 1], Pieces[d][i]>>

\* Jobs and deletions that overlapped or failed may strand entities, leave
\* duplicates apart or bring summaries of deleted text back; the next ingest
\* that has the corpus to itself repairs it.  Duplicates stay apart in a graph
\* of more than MaxEntities, and those only embeddings tell when there are none.
IngestAloneRepairs ==
  sound => /\ \A e \in entity : \E c \in chunk : <<c, e>> \in mentions
           /\ Cardinality(entity) <= MaxEntities =>
                \A p \in Compared : p[1] \in entity /\ p[2] \in entity => p[1] = p[2]
           /\ summaries \subseteq Communities
=============================================================================
