------------------------------ MODULE MCIngest ------------------------------
(* Sizes for model checking Ingest: d1 and d2 make two chunks each and take  *)
(* two storage units, d3 makes one chunk and takes one.                      *)
EXTENDS Ingest, TLC

CONSTANTS d1, d2, d3, home, maths

SizeOf(d) == IF d = d3 THEN 1 ELSE 2
MCPieces == [d \in Docs |-> {<<d, i>> : i \in 1..SizeOf(d)}]
MCBlocks == [d \in Docs |-> {<<d, i>> : i \in 1..SizeOf(d)}]
Blank == [d \in Docs |-> {}]   \* scans without a text layer: no chunks at all

\* d1 and d2 are interchangeable in a configuration that lets the user delete
\* both or neither.
Twins == Permutations({d1, d2})
=============================================================================
