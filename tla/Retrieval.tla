----------------------------- MODULE Retrieval -----------------------------
(***************************************************************************)
(* A hybrid search and the closed-domain gate that judges it: retrieval/   *)
(* and _gate of api/routers/query.py.                                      *)
(*                                                                         *)
(* Each search runs in a thread of its own.  What one can do to another is *)
(* in the metadata of a passage, where the reranker stamps whether the     *)
(* scores are relevance: the file store hands out its own dictionaries,    *)
(* the other stores a copy for each search.  A score is known here by its  *)
(* scale, and by whether it clears retrieval.min_relevance.                *)
(***************************************************************************)
EXTENDS Naturals, Sequences, FiniteSets, Functions, FiniteSetsExt, Keeping

CONSTANTS
  Passages,     \* that a search may find
  Searchers,    \* searches at once
  Chained,      \* rerank.fallbacks are configured
  Links,        \* kinds of the rerankers, in order: "api" or "llm"
  CandidateK, TopK,
  SharesMetadata   \* is the vector store the file store?

ASSUME RetrievalAssumption ==
  /\ Chained \in BOOLEAN /\ SharesMetadata \in BOOLEAN
  /\ CandidateK \in Nat \ {0} /\ TopK \in Nat \ {0}
  /\ Links \in Seq({"api", "llm"}) /\ Chained = (Len(Links) > 1)

VARIABLES
  stamp,   \* rerank_calibrated in the dictionaries of the file store
  search   \* each search

rvars == <<stamp, search>>

\* A passage nothing has stamped reads as calibrated.
Unstamped == [p \in Passages |-> TRUE]
Idle == [at |-> "idle", lists |-> <<<<>>, <<>>, <<>>>>, fused |-> <<>>, link |-> 1,
         ranked |-> <<>>, scale |-> "none", own |-> Unstamped, gate |-> "none"]

Lists == {l \in UNION {[1 .. n -> Passages] : n \in 0 .. Cardinality(Passages)} : IsInjective(l)}
FirstOf(l, n) == SubSeq(l, 1, IF Len(l) < n THEN Len(l) ELSE n)

Searches ==
  [at : {"idle", "fused", "stamping", "ranked", "judged", "failed"}, lists : Seq(Seq(Passages)), fused : Seq(Passages),
   link : 1 .. Len(Links) + 1, ranked : Seq(Passages), scale : {"none", "raw", "grade", "relevance"},
   own : [Passages -> BOOLEAN], gate : {"none", "empty", "bypassed", "passed", "refused"}]

RTypeOK ==
  /\ stamp \in [Passages -> BOOLEAN] /\ search \in [Searchers -> Searches]
  /\ \A s \in Searchers : Range(search[s].ranked) \subseteq Range(search[s].fused)
-----------------------------------------------------------------------------
\* 1 / (60 + rank), ranks from 1, over a common denominator.
Share(rank) == (61 * 62 * 63 * 64) \div (60 + rank)

Score(lists, p) ==
  FoldSet(LAMBDA i, sum : sum + Share(CHOOSE r \in DOMAIN lists[i] : lists[i][r] = p), 0,
          {i \in DOMAIN lists : p \in Range(lists[i])})

Found(lists) == UNION {Range(lists[i]) : i \in DOMAIN lists}

\* Ties keep the order in which passages were first seen; any order stands for it.
IsFusion(l, lists) ==
  \A i, j \in DOMAIN l : i < j => Score(lists, l[i]) >= Score(lists, l[j])

Orders(S) == {l \in Lists : Range(l) = S /\ Len(l) = Cardinality(S)}
Fusions == [lists \in Lists \X Lists \X Lists |-> {l \in Orders(Found(lists)) : IsFusion(l, lists)}]

\* The vector, graph and keyword legs share nothing and are awaited together.
Search(s, lists) ==
  /\ search[s].at \in {"idle", "judged", "failed"}
  /\ \E l \in Fusions[lists] :
       search' = [search EXCEPT ![s] = [Idle EXCEPT !.at = "fused", !.lists = lists, !.fused = FirstOf(l, CandidateK)]]
  /\ UNCHANGED stamp

\* A leg raised, or a lone reranker did.
SearchFails(s) ==
  /\ \/ search[s].at \in {"idle", "judged", "failed"}
     \/ search[s].at = "fused" /\ search[s].fused # <<>> /\ ~Chained /\ Links # <<>> /\ Links[1] = "api"
  /\ search' = [search EXCEPT ![s] = [Idle EXCEPT !.at = "failed"]]
  /\ UNCHANGED stamp

Ranked(s, l, sc) ==
  search' = [search EXCEPT ![s].at = "stamping", ![s].ranked = FirstOf(l, TopK), ![s].scale = sc,
               ![s].lists = [i \in DOMAIN @ |-> IF i = 1 THEN @[i] ELSE <<>>]]

\* A rerank endpoint orders what it was sent, by relevance.
RerankApi(s) ==
  LET q == search[s] IN
  /\ q.at = "fused" /\ q.fused # <<>> /\ q.link <= Len(Links) /\ Links[q.link] = "api"
  /\ \E l \in Orders(Range(q.fused)) : Ranked(s, l, "relevance")
  /\ UNCHANGED stamp

\* A chat model grades passages one by one; those it did not grade follow as retrieved.
RerankLlm(s) ==
  LET q == search[s] IN
  /\ q.at = "fused" /\ q.fused # <<>> /\ q.link <= Len(Links) /\ Links[q.link] = "llm"
  /\ \E graded \in SUBSET Range(q.fused) : \E l \in Orders(graded) :
       Ranked(s, l \o Keep(q.fused, Passages \ graded), "grade")
  /\ UNCHANGED stamp

\* A grading model never raises, so a chain never goes past it.
LinkFails(s) ==
  LET q == search[s] IN
  /\ q.at = "fused" /\ q.fused # <<>> /\ Chained /\ q.link <= Len(Links) /\ Links[q.link] = "api"
  /\ search' = [search EXCEPT ![s].link = @ + 1]
  /\ UNCHANGED stamp

\* No reranker, or the chain is exhausted; an empty search is not sent to any.
RetrievalOrder(s) ==
  LET q == search[s] IN
  /\ q.at = "fused" /\ (q.fused = <<>> \/ q.link > Len(Links))
  /\ Ranked(s, q.fused, "raw")
  /\ UNCHANGED stamp

\* Mutant: the grades of a chat model pass for relevance.
GradesCount(scale) == scale \in {"relevance", "grade"}

Calibrated(scale) == scale = "relevance"

\* The representative of a passage is the one of the first leg that found it.
IsShared(q, p) == SharesMetadata /\ p \in Range(q.lists[1])

\* _mark()
Stamp(s) ==
  LET q == search[s]
      mark == Calibrated(q.scale)
      Marked(old, mine) == [p \in Passages |-> IF p \in Range(q.ranked) /\ IsShared(q, p) = mine THEN mark ELSE old[p]] IN
  /\ q.at = "stamping"
  /\ stamp' = Marked(stamp, TRUE)
  /\ search' = [search EXCEPT ![s].at = "ranked", ![s].own = Marked(q.own, FALSE)]

\* _gate(), on the event loop, once the thread is done.
Judge(s, clears) ==
  LET q == search[s]
      applies == IF IsShared(q, Head(q.ranked)) THEN stamp[Head(q.ranked)] ELSE q.own[Head(q.ranked)] IN
  /\ q.at = "ranked"
  /\ search' = [search EXCEPT ![s] = [Idle EXCEPT !.at = "judged", !.scale = q.scale,
       !.gate = IF q.ranked = <<>> THEN "empty"
                   ELSE IF ~applies THEN "bypassed"
                   ELSE IF clears THEN "passed" ELSE "refused"]]
  /\ UNCHANGED stamp
-----------------------------------------------------------------------------
RInit == stamp = Unstamped /\ search = [s \in Searchers |-> Idle]

RNext == \E s \in Searchers :
  \/ \E a, b, c \in Lists : Search(s, <<a, b, c>>)
  \/ SearchFails(s) \/ RerankApi(s) \/ RerankLlm(s) \/ LinkFails(s) \/ RetrievalOrder(s)
  \/ Stamp(s) \/ \E clears \in BOOLEAN : Judge(s, clears)

RSpec == RInit /\ [][RNext]_rvars
-----------------------------------------------------------------------------
(* Properties.                                                             *)

\* The gate refuses a question, or lets it through, by its score exactly when the
\* scores are relevance; whatever other searches do, and whichever link answered.
GateJudgesRelevance ==
  \A s \in Searchers : LET q == search[s] IN
    /\ q.gate \in {"passed", "refused"} => q.scale = "relevance"
    /\ q.gate = "bypassed" => q.scale # "relevance"
=============================================================================
