------------------------------ MODULE Chunking ------------------------------
(***************************************************************************)
(* How a document becomes chunks with vectors: ingestion/chunking and      *)
(* embeddings/cache.py.  The text of a document is the tokens 1 .. Total,  *)
(* known by where its sentences end; a chunk is an interval of them, and   *)
(* the overlap of two chunks the intersection of their intervals.          *)
(*                                                                         *)
(* The splitter of RecursiveChunker is a library's: it may return any      *)
(* pieces that follow one another, and a piece may be a little too long,   *)
(* since tokens are not additive.                                          *)
(***************************************************************************)
EXTENDS Naturals, Sequences, FiniteSets, Keeping

CONSTANTS
  MaxTokens, Overlap, MinTokens,   \* ChunkingCfg
  Configured,                      \* chunking.strategy
  MaxLength,                       \* bound: the tokens of a document
  Excess                           \* by how much a piece of the splitter is too long

ASSUME ChunkingAssumption ==
  /\ Overlap \in Nat /\ MaxTokens \in Nat /\ Overlap < MaxTokens
  /\ MinTokens \in 0 .. MaxTokens /\ Excess \in Nat /\ MaxLength \in Nat \ {0}
  /\ Configured \in {"recursive", "token", "semantic"}

Kinds == {"tabular", "headed", "ocr", "plain"}

VARIABLES
  document,   \* its kind and length, where its sentences end, and after which the meaning drifts
  built,      \* the strategies that could be built
  strategy,   \* of this document, or the step after chunking
  piece,      \* what is left to cut: an interval, or none
  current,    \* SemanticChunker: the chunk being put together
  chunks, vectors

cvars == <<document, built, strategy, piece, current, chunks, vectors>>

Interval(from, to) == [from |-> from, to |-> to]
Length(c) == IF c.to < c.from THEN 0 ELSE c.to - c.from + 1
Nothing == Interval(1, 0)

Total == document.length

Sentences ==
  {c \in [from : 1 .. Total, to : document.ends] :
     /\ c.from = 1 \/ c.from - 1 \in document.ends
     /\ c.from <= c.to /\ document.ends \cap (c.from .. c.to - 1) = {}}

\* build_chunkers(): `token' needs a tokenizer, `semantic' an embedder.
Builds == {{"recursive"} \cup extra : extra \in SUBSET {"token", "semantic"}}

\* What the splitter of sentences and the embedder make of a text of n tokens.
Readings(n) ==
  UNION {[kind : Kinds, length : {n}, ends : {inner \cup {n}}, drifts : SUBSET inner] : inner \in SUBSET (1 .. n - 1)}

Documents == UNION {Readings(n) : n \in 1 .. MaxLength}

Intervals == [from : Nat, to : Nat]

CTypeOK ==
  /\ document \in Documents /\ built \in Builds
  /\ strategy \in {"none", "token", "recursive", "semantic", "cut", "embedded", "failed"}
  /\ piece \in Intervals /\ current \in Intervals
  /\ chunks \in Seq(Intervals) /\ vectors \in Seq(Intervals)
-----------------------------------------------------------------------------
\* The strategy the signals of choose_strategy() ask for.
Wanted(kind) ==
  CASE kind = "tabular" -> "token" [] kind = "headed" -> "recursive"
    [] kind = "ocr" -> "semantic" [] kind = "plain" -> Configured

Chosen(kind) == IF Wanted(kind) \in built THEN Wanted(kind) ELSE Configured

\* A document that no strategy can take fails the job.
Route ==
  /\ strategy = "none"
  /\ strategy' = IF Chosen(document.kind) \in built THEN Chosen(document.kind) ELSE "failed"
  /\ piece' = IF strategy' = "token" THEN Interval(1, Total) ELSE Nothing
  /\ current' \in (IF strategy' = "semantic" THEN {c \in Sentences : c.from = 1} ELSE {Nothing})
  /\ UNCHANGED <<document, built, chunks, vectors>>

\* Mutant: the windows go on to the end of the text.
ToTheEnd(window) == piece.from + (MaxTokens - Overlap) > piece.to

IsLast(window) == window.to = piece.to

\* TokenChunker: a window, and the next one a stride further.
Window ==
  LET rest   == piece.from + MaxTokens - 1
      window == Interval(piece.from, IF rest < piece.to THEN rest ELSE piece.to) IN
  /\ strategy \in {"token", "recursive"} /\ piece # Nothing
  /\ chunks' = Append(chunks, window)
  /\ piece' = IF IsLast(window) THEN Nothing ELSE [piece EXCEPT !.from = @ + MaxTokens - Overlap]
  /\ strategy' = IF piece' = Nothing /\ window.to = Total THEN "cut" ELSE strategy
  /\ UNCHANGED <<document, built, current, vectors>>

Reached == IF chunks = <<>> THEN Nothing ELSE chunks[Len(chunks)]

\* A piece that is too long is cut by windows, if there is a tokenizer to do it.
HardCut(p) == Length(p) > MaxTokens /\ "token" \in built

SplitPiece(p) ==
  /\ strategy = "recursive" /\ piece = Nothing
  /\ p.from \in Reached.from + 1 .. Reached.to + 1 \/ (chunks = <<>> /\ p.from = 1)
  /\ Reached.to - p.from + 1 <= Overlap
  /\ p.to > Reached.to /\ Length(p) \in 1 .. MaxTokens + Excess
  /\ IF HardCut(p) THEN piece' = p /\ UNCHANGED <<chunks, strategy>>
     ELSE /\ chunks' = Append(chunks, p)
          /\ strategy' = IF p.to = Total THEN "cut" ELSE strategy
          /\ UNCHANGED piece
  /\ UNCHANGED <<document, built, current, vectors>>

\* Mutant: what is being put together is not measured with the sentence to come.
AlreadyBig(next) == Length(current) > MaxTokens

TooBig(next) == Length(current) + Length(next) > MaxTokens

Boundary == current.to \in document.drifts /\ Length(current) >= MinTokens

\* SemanticChunker: the sentence after the current chunk joins it or starts a new one.
AddSentence ==
  /\ strategy = "semantic"
  /\ \E next \in Sentences :
       /\ next.from = current.to + 1
       /\ IF Boundary \/ TooBig(next) THEN chunks' = Append(chunks, current) /\ current' = next
          ELSE current' = [current EXCEPT !.to = next.to] /\ UNCHANGED chunks
  /\ UNCHANGED <<document, built, strategy, piece, vectors>>

\* Mutant: the last chunk is forgotten.
Dropped == chunks

Flushed == Append(chunks, current)

LastSentence ==
  /\ strategy = "semantic" /\ current.to = Total
  /\ chunks' = Flushed
  /\ strategy' = "cut"
  /\ UNCHANGED <<document, built, piece, current, vectors>>
-----------------------------------------------------------------------------
\* Mutant: fresh vectors are put where they come rather than where they miss.
Compacted(misses, k) == k

Place(misses, k) == misses[k]

\* embed_documents(): any of the texts may be in the cache, none if Redis is down, and the
\* others go to the model as one batch.  The vector of a text is the text.
Embed ==
  /\ strategy = "cut"
  /\ \E hits \in SUBSET DOMAIN chunks :
       LET misses  == Keep([i \in DOMAIN chunks |-> i], DOMAIN chunks \ hits)
           fresh   == [k \in DOMAIN misses |-> chunks[misses[k]]]
           With(i) == {k \in DOMAIN misses : Place(misses, k) = i} IN
       vectors' = [i \in DOMAIN chunks |-> IF With(i) = {} THEN chunks[i] ELSE fresh[CHOOSE k \in With(i) : TRUE]]
  /\ strategy' = "embedded"
  /\ UNCHANGED <<document, built, piece, current, chunks>>
-----------------------------------------------------------------------------
CInit ==
  /\ document \in Documents /\ built \in Builds /\ strategy = "none"
  /\ piece = Nothing /\ current = Nothing /\ chunks = <<>> /\ vectors = <<>>

CNext ==
  \/ Route \/ Window \/ AddSentence \/ LastSentence \/ Embed
  \/ \E from, to \in 1 .. Total : SplitPiece(Interval(from, to))

CSpec == CInit /\ [][CNext]_cvars
-----------------------------------------------------------------------------
(* Properties.                                                             *)

Tokens(c) == c.from .. c.to
IsCut == strategy \in {"cut", "embedded"}

\* Whatever the strategy, every token of the document is in a chunk; neighbours
\* follow one another and no chunk repeats what another one holds, not the last
\* window of a text, nor that of a piece that was cut again; and with some vectors
\* from the cache and some from the model, each chunk has that of its own text
\* ("a short list silently misaligns chunks", embeddings/cache.py:73).
ChunksAreTheText ==
  /\ IsCut =>
       /\ UNION {Tokens(chunks[i]) : i \in DOMAIN chunks} = 1 .. Total
       /\ \A i \in 2 .. Len(chunks) : chunks[i - 1].from < chunks[i].from /\ chunks[i - 1].to < chunks[i].to
  /\ vectors \in {<<>>, chunks}

\* A chunk fits the embedding model (chunking/token.py:5, recursive.py:3), but for one
\* sentence that is too long by itself, or a long piece where no tokenizer could be loaded.
FitsEmbedder ==
  \A i \in DOMAIN chunks : Length(chunks[i]) > MaxTokens =>
    \/ strategy # "token" /\ "token" \notin built
    \/ chunks[i] \in Sentences
=============================================================================
