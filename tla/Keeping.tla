------------------------------ MODULE Keeping ------------------------------
(***************************************************************************)
(* What a filter leaves of a list: `[x for x in xs if ...]', a list whose  *)
(* element is removed, a dictionary without one of its keys.               *)
(***************************************************************************)
EXTENDS Naturals, Sequences

\* The elements of s that are in S, in their order.
Keep(s, S) ==
  LET upTo[n \in 0 .. Len(s)] ==
        IF n = 0 THEN <<>>
        ELSE IF s[n] \in S THEN Append(upTo[n - 1], s[n])
        ELSE upTo[n - 1]
  IN  upTo[Len(s)]
=============================================================================
