------------------------------ MODULE MCEngine ------------------------------
(***************************************************************************)
(* Six independent components checked in one run: a behaviour is one of    *)
(* Chunking, Knowledge, Failover, Retrieval, Tracing or Guard while the    *)
(* variables of the others rest, so their state spaces add up and do not   *)
(* multiply.                                                               *)
(***************************************************************************)
EXTENDS Chunking, Knowledge, Failover, Retrieval, Tracing, Guard, TLC

CONSTANT Parts   \* the components to check
VARIABLE part

\* Knowledge: four names of two companies, one pair told by its words and one by
\* its embeddings, and a document of two chunks; both documents are too many names.
MCPieces == "d1" :> <<"c1", "c2">> @@ "d2" :> <<"c3">>
MCSays ==
     "c1" :> [entities |-> {"acme", "bolt"}, relations |-> {<<"acme", "bolt">>}]
  @@ "c2" :> [entities |-> {"acme inc"}, relations |-> {}]
  @@ "c3" :> [entities |-> {"bolt", "bolts"}, relations |-> {<<"bolt", "bolts">>}]
MCContained  == {<<"acme", "acme inc">>}
MCAlike      == MCContained \cup {<<"bolt", "bolts">>}
MCNameLength == "acme" :> 4 @@ "bolt" :> 4 @@ "acme inc" :> 8 @@ "bolts" :> 5

MCFallbacks == <<"m2", "m3">>
MCLinks     == <<"api", "llm">>
MCOwner     == "q" :> "alice" @@ "i" :> "bob"

\* Guard: two answers the cache takes for one, of which the rules flag only the second, and
\* a question that is too long and full of what the rules block.
MCTier      == "q1" :> "block" @@ "a1" :> "none" @@ "a2" :> "flag"
MCKey       == "q1" :> "k1" @@ "a1" :> "k2" @@ "a2" :> "k2"

MCSpecs     == <<"deepseek", "cohere", "qwen", "deepseek">>

\* Where the meaning drifts is only looked at by the semantic strategy.
DriftCounts(d) == d.kind = "ocr" \/ d.drifts = {}

\* The document at rest while another component moves.
MCDocument == [kind |-> "plain", length |-> 1, ends |-> {1}, drifts |-> {}]

Interchangeable == Permutations(Calls)

Init ==
  /\ part \in Parts
  /\ CInit /\ (IF part = "chunks" THEN DriftCounts(document) ELSE document = MCDocument /\ built = {"recursive"})
  /\ KInit /\ FInit /\ RInit /\ TInit /\ GInit

Next ==
  /\ UNCHANGED part
  /\ \/ part = "chunks"   /\ CNext /\ UNCHANGED <<kvars, fvars, rvars, tvars, gvars>>
     \/ part = "graph"    /\ KNext /\ UNCHANGED <<cvars, fvars, rvars, tvars, gvars>>
     \/ part = "failover" /\ FNext /\ UNCHANGED <<cvars, kvars, rvars, tvars, gvars>>
     \/ part = "search"   /\ RNext /\ UNCHANGED <<cvars, kvars, fvars, tvars, gvars>>
     \/ part = "trace"    /\ TNext /\ UNCHANGED <<cvars, kvars, fvars, rvars, gvars>>
     \/ part = "guard"    /\ GNext /\ UNCHANGED <<cvars, kvars, fvars, rvars, tvars>>

TypesOK == CTypeOK /\ KTypeOK /\ FTypeOK /\ RTypeOK /\ TTypeOK /\ GTypeOK
=============================================================================
