--------------------------- MODULE MCReviewLoop ---------------------------
(* ReviewLoop on three chunks of two documents, a graph label and a name    *)
(* nothing retrieved carries.                                               *)
EXTENDS ReviewLoop

CONSTANTS c1, c2, c3, d1, d2, kg, ghost

MCDocOf == [c \in {c1, c2, c3} |-> IF c = c3 THEN d2 ELSE d1]

Says(cites, n) == [cites |-> cites, refusal |-> FALSE, length |-> n, bare |-> FALSE]

\* Nothing, the refusal, an honest and an invented citation, an answer from the
\* graph, and long answers without citations.
MCDrafts ==
  {Nothing, [Says({}, 1) EXCEPT !.refusal = TRUE],
   Says({d1}, 1), Says({d2, ghost}, 2), Says({kg}, 3), Says({}, 2)}

\* The reviser also returns a text that is one invented tag.
MCRewrites ==
  {Nothing, Says({d1}, 1), Says({d1, ghost}, 2), Says({}, 2),
   [cites |-> {ghost}, refusal |-> FALSE, length |-> 1, bare |-> TRUE]}
=============================================================================
