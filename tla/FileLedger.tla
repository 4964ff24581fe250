----------------------------- MODULE FileLedger -----------------------------
(***************************************************************************)
(* What the quota promises an account, with no requests, locks or          *)
(* transactions in sight: a document is taken in one step, and only while  *)
(* there is a slot and enough storage left for it.                         *)
(***************************************************************************)
EXTENDS Naturals

CONSTANTS
  Docs, MaxFiles, MaxStorage,
  Count(_), Bytes(_)   \* how many documents a set has, and how large they are

VARIABLE rows          \* the documents the account holds

Init == rows = {}

Take(d) ==
  /\ Count(rows) < MaxFiles
  /\ Bytes(rows) + Bytes({d}) <= MaxStorage
  /\ rows' = rows \cup {d}

\* One document, or a whole shelf's.
GiveBack(S) == rows' = rows \ S

Next == (\E d \in Docs : Take(d)) \/ (\E S \in SUBSET Docs : GiveBack(S))

Spec == Init /\ [][Next]_rows
=============================================================================
