----------------------------- MODULE EngineProofs -----------------------------
(***************************************************************************)
(* Theorems about the components of the engine: chunking, the knowledge    *)
(* graph, the chain of models, retrieval, the trace store and the guard.   *)
(***************************************************************************)
EXTENDS Chunking, Knowledge, Failover, Retrieval, Tracing, Guard, KeepingProofs, FiniteSetTheorems, TLAPS

-----------------------------------------------------------------------------
(* Chunking, for any text and any sizes.                                   *)

\* An interval of the text that goes on where the chunks end.
InText(c) == 1 <= c.from /\ c.from <= c.to /\ c.to <= Total
Joins(c) ==
  /\ chunks = <<>> => c.from = 1
  /\ chunks # <<>> => Reached.from < c.from /\ c.from <= Reached.to + 1 /\ Reached.to < c.to

Fits(c) ==
  Length(c) > MaxTokens => (strategy \notin {"none", "token"} /\ "token" \notin built) \/ c \in Sentences

ChunksHeld ==
  /\ \A i \in DOMAIN chunks : InText(chunks[i]) /\ Fits(chunks[i])
  /\ \A i \in 2 .. Len(chunks) : chunks[i - 1].from < chunks[i].from /\ chunks[i - 1].to < chunks[i].to
  /\ UNION {Tokens(chunks[i]) : i \in DOMAIN chunks} = 1 .. Reached.to

\* What is left of a piece starts where the next window starts, and no window before
\* it has reached its end.
PieceHeld ==
  piece # Nothing =>
    /\ InText(piece) /\ Joins(piece)
    /\ chunks # <<>> => Reached.to + 1 <= piece.from + Overlap

CurrentHeld ==
  strategy = "semantic" =>
    /\ InText(current) /\ Joins(current)
    /\ Length(current) > MaxTokens => current \in Sentences

StagesHeld ==
  /\ strategy = "none" => chunks = <<>>
  /\ strategy \in {"none", "semantic"} => piece = Nothing
  /\ strategy = "token" => piece # Nothing /\ piece.to = Total
  /\ strategy \in {"cut", "embedded"} => chunks # <<>> /\ Reached.to = Total
  /\ vectors = IF strategy = "embedded" THEN chunks ELSE <<>>

ChunkingInv == CTypeOK /\ ChunksHeld /\ PieceHeld /\ CurrentHeld /\ StagesHeld

LEMMA DocumentIs ==
  ASSUME document \in Documents
  PROVE  Total \in Nat \ {0} /\ document.ends \subseteq 1 .. Total
<1>1. PICK n \in 1 .. MaxLength : document \in Readings(n)
  BY DEF Documents
<1>2. PICK inner \in SUBSET (1 .. n - 1) : document \in [kind : Kinds, length : {n}, ends : {inner \cup {n}}, drifts : SUBSET inner]
  BY <1>1 DEF Readings
<1>3. n \in Nat /\ n >= 1 /\ document.length = n /\ document.ends = inner \cup {n}
  BY <1>2, ChunkingAssumption
<1>4. QED
  BY <1>2, <1>3 DEF Total

LEMMA SentencesAre ==
  ASSUME document \in Documents, NEW c \in Sentences
  PROVE  c \in Intervals /\ InText(c)
BY DocumentIs DEF Sentences, Intervals, InText

LEMMA IntervalIs ==
  ASSUME NEW a \in Nat, NEW b \in Nat
  PROVE  Interval(a, b) \in Intervals /\ Interval(a, b).from = a /\ Interval(a, b).to = b
BY DEF Interval, Intervals

\* A chunk that joins the others makes the cover longer.
LEMMA JoinsOn ==
  ASSUME CTypeOK, ChunksHeld, NEW c \in Intervals, InText(c), Joins(c), chunks' = Append(chunks, c), document' = document
  PROVE  /\ chunks' \in Seq(Intervals) /\ chunks' # <<>> /\ Reached' = c
         /\ DOMAIN chunks' = DOMAIN chunks \cup {Len(chunks) + 1} /\ chunks'[Len(chunks) + 1] = c
         /\ \A i \in DOMAIN chunks : chunks'[i] = chunks[i]
         /\ \A i \in DOMAIN chunks' : InText(chunks'[i])
         /\ \A i \in 2 .. Len(chunks') : chunks'[i - 1].from < chunks'[i].from /\ chunks'[i - 1].to < chunks'[i].to
         /\ UNION {Tokens(chunks'[i]) : i \in DOMAIN chunks'} = 1 .. Reached'.to
<1> DEFINE n == Len(chunks)
<1>1. chunks \in Seq(Intervals) /\ n \in Nat /\ DOMAIN chunks = 1 .. n /\ Total \in Nat /\ (chunks = <<>> <=> n = 0)
  BY DocumentIs DEF CTypeOK
<1>2. /\ chunks' \in Seq(Intervals) /\ Len(chunks') = n + 1 /\ DOMAIN chunks' = 1 .. n + 1
      /\ chunks'[n + 1] = c /\ \A i \in 1 .. n : chunks'[i] = chunks[i]
  BY <1>1
<1> HIDE DEF n
<1>3. chunks' # <<>>
  BY <1>1, <1>2
<1>4. Reached' = c
  BY <1>2, <1>3 DEF Reached
<1>5. 1 .. n + 1 = (1 .. n) \cup {n + 1}
  BY <1>1
<1>6. c.from \in Nat /\ c.to \in Nat /\ 1 <= c.from /\ c.from <= c.to
  BY DEF Intervals, InText
<1>7. \A i \in 1 .. n + 1 : InText(chunks'[i])
  BY <1>1, <1>2, <1>5 DEF ChunksHeld, InText
<1>8. n # 0 => Reached = chunks[n] /\ n \in 1 .. n /\ Reached \in Intervals
  BY <1>1 DEF Reached
<1>9. ASSUME NEW i \in 2 .. n + 1
      PROVE  chunks'[i - 1].from < chunks'[i].from /\ chunks'[i - 1].to < chunks'[i].to
  <2>1. CASE i = n + 1
    <3>1. n # 0 /\ i - 1 = n
      BY <1>1, <1>9, <2>1
    <3>2. chunks'[i - 1] = Reached /\ chunks'[i] = c
      BY <1>2, <1>8, <2>1, <3>1
    <3>3. QED
      BY <1>1, <3>1, <3>2 DEF Joins
  <2>2. CASE i # n + 1
    <3>1. i \in 2 .. n /\ i - 1 \in 1 .. n /\ i \in 1 .. n
      BY <1>1, <1>9, <2>2
    <3>2. QED
      BY <1>2, <3>1 DEF ChunksHeld, n
  <2>3. QED
    BY <2>1, <2>2
<1>10. UNION {Tokens(chunks'[i]) : i \in 1 .. n + 1} = (UNION {Tokens(chunks[i]) : i \in 1 .. n}) \cup Tokens(c)
  <2>1. \A t : t \in UNION {Tokens(chunks'[i]) : i \in 1 .. n + 1} <=> (\E i \in 1 .. n : t \in Tokens(chunks[i])) \/ t \in Tokens(c)
    BY <1>2, <1>5
  <2>2. QED
    BY <2>1
<1>11. UNION {Tokens(chunks[i]) : i \in 1 .. n} = 1 .. Reached.to
  BY <1>1 DEF ChunksHeld
<1>12. (1 .. Reached.to) \cup Tokens(c) = 1 .. c.to
  <2>1. CASE n = 0
    <3>1. Reached.to = 0 /\ c.from = 1
      BY <1>1, <2>1, IntervalIs DEF Reached, Nothing, Joins
    <3>2. QED
      BY <1>6, <3>1 DEF Tokens
  <2>2. CASE n # 0
    <3> DEFINE r == Reached.to
    <3>1. r \in Nat /\ c.from <= r + 1 /\ r < c.to
      BY <1>1, <1>8, <2>2 DEF Joins, Intervals
    <3> HIDE DEF r
    <3>2. (1 .. r) \cup (c.from .. c.to) = 1 .. c.to
      BY <1>6, <3>1
    <3>3. QED
      BY <3>2 DEF r, Tokens
  <2>3. QED
    BY <2>1, <2>2
<1>13. UNION {Tokens(chunks'[i]) : i \in 1 .. n + 1} = 1 .. Reached'.to
  BY <1>4, <1>10, <1>11, <1>12
<1>14. QED
  BY <1>1, <1>2, <1>3, <1>4, <1>5, <1>7, <1>9, <1>13 DEF n

\* What was measured stays measured: only the step from "none" can forbid it.
LEMMA FitsStay ==
  ASSUME NEW c, Fits(c), UNCHANGED <<document, built>>, strategy' \in {"none", "token"} => strategy \in {"none", "token"}
  PROVE  Fits(c)'
BY DEF Fits, Sentences, Total

\* A chunk is added, and nothing has to be started again.
LEMMA Adds ==
  ASSUME ChunkingInv, NEW c \in Intervals, InText(c), Joins(c), Fits(c)', chunks' = Append(chunks, c),
         UNCHANGED <<document, built, vectors>>, strategy # "embedded", strategy' # "embedded", vectors = <<>>,
         strategy' \in {"none", "token"} => strategy \in {"none", "token"}
  PROVE  ChunksHeld' /\ chunks' \in Seq(Intervals) /\ chunks' # <<>> /\ Reached' = c
<1>0. CTypeOK /\ ChunksHeld
  BY DEF ChunkingInv
<1>1. /\ chunks' \in Seq(Intervals) /\ chunks' # <<>> /\ Reached' = c
      /\ DOMAIN chunks' = DOMAIN chunks \cup {Len(chunks) + 1} /\ chunks'[Len(chunks) + 1] = c
      /\ \A i \in DOMAIN chunks : chunks'[i] = chunks[i]
      /\ \A i \in DOMAIN chunks' : InText(chunks'[i])
      /\ \A i \in 2 .. Len(chunks') : chunks'[i - 1].from < chunks'[i].from /\ chunks'[i - 1].to < chunks'[i].to
      /\ UNION {Tokens(chunks'[i]) : i \in DOMAIN chunks'} = 1 .. Reached'.to
  BY <1>0, JoinsOn
<1>2. \A i \in DOMAIN chunks : Fits(chunks[i])
  BY <1>0 DEF ChunksHeld
<1>3. ASSUME NEW i \in DOMAIN chunks' PROVE Fits(chunks[i])'
  <2>1. CASE i \in DOMAIN chunks
    <3>1. PICK d : d = chunks[i]
      OBVIOUS
    <3>2. Fits(d)'
      BY <1>2, <2>1, <3>1, FitsStay
    <3>3. QED
      BY <1>1, <2>1, <3>1, <3>2 DEF Fits, Sentences, Total, Length
  <2>2. CASE i = Len(chunks) + 1
    BY <1>1, <2>2 DEF Fits, Sentences, Total, Length
  <2>3. QED
    BY <1>1, <2>1, <2>2
<1>4. ChunksHeld'
  BY <1>1, <1>3 DEF ChunksHeld, InText, Total, Tokens
<1>5. QED
  BY <1>1, <1>4

\* Nothing is added.
LEMMA Waits ==
  ASSUME ChunkingInv, UNCHANGED <<document, built, chunks>>, strategy' \in {"none", "token"} => strategy \in {"none", "token"}
  PROVE  ChunksHeld'
<1>1. ChunksHeld
  BY DEF ChunkingInv
<1>2. \A i \in DOMAIN chunks : Fits(chunks[i])
  BY <1>1 DEF ChunksHeld
<1>3. ASSUME NEW i \in DOMAIN chunks PROVE Fits(chunks[i])'
  BY <1>2, <1>3 DEF Fits, Sentences, Total, Length
<1>4. QED
  BY <1>1, <1>3 DEF ChunksHeld, InText, Total, Tokens, Reached

LEMMA RouteStep ==
  ASSUME ChunkingInv, Route
  PROVE  ChunkingInv'
<1>0. CTypeOK /\ ChunksHeld /\ StagesHeld
  BY DEF ChunkingInv
<1>1. /\ strategy = "none" /\ strategy' \in {"token", "recursive", "semantic", "failed"}
      /\ piece' = IF strategy' = "token" THEN Interval(1, Total) ELSE Nothing
      /\ current' \in (IF strategy' = "semantic" THEN {c \in Sentences : c.from = 1} ELSE {Nothing})
      /\ UNCHANGED <<document, built, chunks, vectors>>
  <2>1. \A k \in Kinds : Wanted(k) \in {"token", "recursive", "semantic"}
    BY ChunkingAssumption DEF Wanted, Kinds
  <2>2. document.kind \in Kinds
    BY <1>0 DEF CTypeOK, Documents, Readings
  <2>3. QED
    BY <2>1, <2>2, ChunkingAssumption DEF Route, Chosen
<1>2. chunks = <<>> /\ vectors = <<>> /\ DOMAIN chunks = {}
  BY <1>0, <1>1 DEF StagesHeld
<1>3. Total \in Nat /\ Total >= 1 /\ Interval(1, Total) \in Intervals /\ Interval(1, Total).from = 1 /\ Interval(1, Total).to = Total
  BY <1>0, DocumentIs, IntervalIs DEF CTypeOK
<1>4. Nothing \in Intervals /\ Nothing.to = 0 /\ Interval(1, Total) # Nothing
  BY <1>3, IntervalIs DEF Nothing
<1>5. piece' \in Intervals /\ current' \in Intervals
  BY <1>0, <1>1, <1>3, <1>4, SentencesAre DEF CTypeOK
<1>6. CTypeOK'
  BY <1>0, <1>1, <1>5 DEF CTypeOK
<1>7. ChunksHeld'
  BY <1>1, <1>2, <1>0 DEF ChunksHeld, Reached, Tokens
<1>8. PieceHeld'
  BY <1>1, <1>2, <1>3 DEF PieceHeld, InText, Joins, Total
<1>9. CurrentHeld'
  <2>1. SUFFICES ASSUME strategy' = "semantic"
                 PROVE  InText(current)' /\ Joins(current)' /\ current' \in Sentences'
    BY DEF CurrentHeld
  <2>2. PICK c \in Sentences : c = current' /\ c.from = 1
    BY <1>1, <2>1
  <2>3. InText(c)
    BY <1>0, SentencesAre DEF CTypeOK
  <2>4. QED
    BY <1>1, <1>2, <2>2, <2>3 DEF InText, Joins, Total, Sentences
<1>10. StagesHeld'
  BY <1>1, <1>2, <1>3, <1>4 DEF StagesHeld, Total
<1>11. QED
  BY <1>6, <1>7, <1>8, <1>9, <1>10 DEF ChunkingInv

LEMMA WindowStep ==
  ASSUME ChunkingInv, Window
  PROVE  ChunkingInv'
<1>0. CTypeOK /\ ChunksHeld /\ PieceHeld /\ StagesHeld
  BY DEF ChunkingInv
<1> DEFINE rest == piece.from + MaxTokens - 1
           to == IF rest < piece.to THEN rest ELSE piece.to
<1>1. PICK w : w = Interval(piece.from, to)
  OBVIOUS
<1>2. /\ strategy \in {"token", "recursive"} /\ piece # Nothing /\ chunks' = Append(chunks, w)
      /\ piece' = IF w.to = piece.to THEN Nothing ELSE [piece EXCEPT !.from = @ + MaxTokens - Overlap]
      /\ strategy' = IF piece' = Nothing /\ w.to = Total THEN "cut" ELSE strategy
      /\ UNCHANGED <<document, built, current, vectors>>
  BY <1>1 DEF Window, IsLast
<1>3. /\ piece \in Intervals /\ InText(piece) /\ Joins(piece)
      /\ chunks # <<>> => Reached.to + 1 <= piece.from + Overlap
  BY <1>0, <1>2 DEF CTypeOK, PieceHeld
<1>4. /\ MaxTokens \in Nat /\ Overlap \in Nat /\ Overlap < MaxTokens /\ Total \in Nat
      /\ piece.from \in Nat /\ piece.to \in Nat /\ 1 <= piece.from /\ piece.from <= piece.to /\ piece.to <= Total
  BY <1>0, <1>3, ChunkingAssumption, DocumentIs DEF CTypeOK, Intervals, InText
<1>5. rest \in Nat /\ to \in Nat /\ piece.from <= to /\ to <= piece.to /\ to <= rest
  BY <1>4
<1>6. w \in Intervals /\ w.from = piece.from /\ w.to = to
  BY <1>1, <1>4, <1>5, IntervalIs
<1> HIDE DEF to
<1>7. InText(w)
  BY <1>4, <1>5, <1>6 DEF InText
<1>8. Joins(w)
  <2>1. CASE chunks = <<>>
    BY <1>3, <1>6, <2>1 DEF Joins
  <2>2. CASE chunks # <<>>
    <3> DEFINE r == Reached.to
    <3>1. Reached \in Intervals
      BY <1>0, <2>2 DEF CTypeOK, Reached
    <3>2. r \in Nat /\ r < piece.to /\ r + 1 <= piece.from + Overlap
      BY <1>3, <2>2, <3>1 DEF Joins, Intervals
    <3> HIDE DEF r
    <3>3. r < to
      BY <1>4, <3>2 DEF to
    <3>4. QED
      BY <1>3, <1>6, <2>2, <3>3 DEF Joins, r
  <2>3. QED
    BY <2>1, <2>2
<1>9. Length(w) <= MaxTokens /\ Length(w) \in Nat
  BY <1>4, <1>5, <1>6 DEF Length
<1>10. Fits(w)'
  BY <1>4, <1>9 DEF Fits, Length
<1>11. vectors = <<>>
  BY <1>0, <1>2 DEF StagesHeld
<1>12. ChunksHeld' /\ chunks' \in Seq(Intervals) /\ chunks' # <<>> /\ Reached' = w
  <2>1. strategy # "embedded" /\ strategy' # "embedded" /\ (strategy' \in {"none", "token"} => strategy \in {"none", "token"})
    BY <1>2
  <2>2. QED
    BY <1>2, <1>6, <1>7, <1>8, <1>10, <1>11, <2>1, Adds
<1>13. CASE w.to = piece.to
  <2>1. piece' = Nothing /\ Nothing \in Intervals /\ strategy' = IF w.to = Total THEN "cut" ELSE strategy
    BY <1>2, <1>13, IntervalIs DEF Nothing
  <2>2. strategy = "token" => w.to = Total
    BY <1>0, <1>13 DEF StagesHeld
  <2>3. CTypeOK'
    BY <1>0, <1>2, <1>12, <2>1 DEF CTypeOK
  <2>4. PieceHeld' /\ CurrentHeld'
    BY <1>2, <2>1 DEF PieceHeld, CurrentHeld, Nothing, Interval
  <2>5. StagesHeld'
    BY <1>0, <1>2, <1>11, <1>12, <2>1, <2>2 DEF StagesHeld, Total
  <2>6. QED
    BY <1>12, <2>3, <2>4, <2>5 DEF ChunkingInv
<1>14. CASE w.to # piece.to
  <2>1. piece' = [piece EXCEPT !.from = @ + MaxTokens - Overlap]
    BY <1>2, <1>14
  <2>2. w.to = rest /\ rest < piece.to
    BY <1>6, <1>14 DEF to
  <2>3. piece.from + MaxTokens - Overlap \in Nat
    BY <1>4
  <2>4. piece' \in Intervals /\ piece'.from = piece.from + MaxTokens - Overlap /\ piece'.to = piece.to
    BY <1>3, <2>1, <2>3 DEF Intervals
  <2>5. /\ w.from < piece'.from /\ piece'.from <= w.to + 1 /\ w.to < piece'.to /\ w.to + 1 <= piece'.from + Overlap
        /\ 1 <= piece'.from /\ piece'.from <= piece'.to /\ piece'.to <= Total
    BY <1>4, <1>6, <2>2, <2>4
  <2>6. piece' # Nothing
    BY <1>4, <2>4, <2>5, IntervalIs DEF Nothing
  <2>7. strategy' = strategy
    BY <1>2, <2>6
  <2>8. CTypeOK'
    BY <1>0, <1>2, <1>12, <2>4, <2>7 DEF CTypeOK
  <2>9. PieceHeld'
    BY <1>2, <1>12, <2>5 DEF PieceHeld, InText, Joins, Total
  <2>10. CurrentHeld'
    BY <1>2, <2>7 DEF CurrentHeld
  <2>11. StagesHeld'
    BY <1>0, <1>2, <1>11, <2>4, <2>6, <2>7 DEF StagesHeld, Total
  <2>12. QED
    BY <1>12, <2>8, <2>9, <2>10, <2>11 DEF ChunkingInv
<1>15. QED
  BY <1>13, <1>14

LEMMA SplitStep ==
  ASSUME ChunkingInv, NEW from \in 1 .. Total, NEW to \in 1 .. Total, SplitPiece(Interval(from, to))
  PROVE  ChunkingInv'
<1>0. CTypeOK /\ ChunksHeld /\ StagesHeld
  BY DEF ChunkingInv
<1>1. PICK p : p = Interval(from, to)
  OBVIOUS
<1>2. /\ strategy = "recursive" /\ piece = Nothing
      /\ p.from \in Reached.from + 1 .. Reached.to + 1 \/ (chunks = <<>> /\ p.from = 1)
      /\ Reached.to - p.from + 1 <= Overlap
      /\ p.to > Reached.to /\ Length(p) \in 1 .. MaxTokens + Excess
      /\ IF HardCut(p) THEN piece' = p /\ UNCHANGED <<chunks, strategy>>
         ELSE /\ chunks' = Append(chunks, p)
              /\ strategy' = IF p.to = Total THEN "cut" ELSE strategy
              /\ UNCHANGED piece
      /\ UNCHANGED <<document, built, current, vectors>>
  BY <1>1 DEF SplitPiece
<1>3. Total \in Nat /\ Overlap \in Nat /\ MaxTokens \in Nat /\ from \in Nat /\ to \in Nat
  BY <1>0, ChunkingAssumption, DocumentIs DEF CTypeOK
<1>4. p \in Intervals /\ p.from = from /\ p.to = to
  BY <1>1, <1>3, IntervalIs
<1>5. InText(p)
  BY <1>2, <1>3, <1>4 DEF InText, Length
<1>6. Joins(p) /\ (chunks # <<>> => Reached.to + 1 <= p.from + Overlap)
  <2>1. CASE chunks = <<>>
    BY <1>2, <2>1, IntervalIs DEF Joins, Reached, Nothing
  <2>2. CASE chunks # <<>>
    <3>1. Reached \in Intervals
      BY <1>0, <2>2 DEF CTypeOK, Reached
    <3> DEFINE a == Reached.from
               b == Reached.to
    <3>2. a \in Nat /\ b \in Nat /\ from \in a + 1 .. b + 1 /\ b - from + 1 <= Overlap /\ to > b
      BY <1>2, <1>4, <2>2, <3>1 DEF Intervals
    <3> HIDE DEF a, b
    <3>3. a < from /\ from <= b + 1 /\ b < to /\ b + 1 <= from + Overlap
      BY <1>3, <3>2
    <3>4. QED
      BY <1>4, <2>2, <3>3 DEF Joins, a, b
  <2>3. QED
    BY <2>1, <2>2
<1>7. vectors = <<>>
  BY <1>0, <1>2 DEF StagesHeld
<1>8. CASE HardCut(p)
  <2>1. piece' = p /\ UNCHANGED <<chunks, strategy, document, built, current, vectors>>
    BY <1>2, <1>8
  <2>2. ChunksHeld'
    BY <2>1, Waits
  <2>3. CTypeOK'
    BY <1>0, <1>4, <2>1 DEF CTypeOK
  <2>4. PieceHeld' /\ CurrentHeld' /\ StagesHeld'
    BY <1>0, <1>2, <1>5, <1>6, <2>1 DEF PieceHeld, CurrentHeld, StagesHeld, InText, Joins, Total, Reached
  <2>5. QED
    BY <2>2, <2>3, <2>4 DEF ChunkingInv
<1>9. CASE ~HardCut(p)
  <2>1. /\ chunks' = Append(chunks, p) /\ strategy' = (IF p.to = Total THEN "cut" ELSE strategy)
        /\ UNCHANGED <<piece, document, built, current, vectors>>
    BY <1>2, <1>9
  <2>2. Length(p) > MaxTokens => "token" \notin built
    BY <1>9 DEF HardCut
  <2>3. Fits(p)'
    BY <1>2, <2>1, <2>2 DEF Fits, Length
  <2>4. strategy # "embedded" /\ strategy' # "embedded" /\ strategy' \notin {"none", "token"}
    BY <1>2, <2>1
  <2>5. ChunksHeld' /\ chunks' \in Seq(Intervals) /\ chunks' # <<>> /\ Reached' = p
    BY <1>4, <1>5, <1>6, <1>7, <2>1, <2>3, <2>4, Adds
  <2>6. CTypeOK'
    BY <1>0, <1>2, <2>1, <2>5 DEF CTypeOK
  <2>7. PieceHeld' /\ CurrentHeld'
    BY <1>2, <2>1 DEF PieceHeld, CurrentHeld, Nothing, Interval
  <2>8. StagesHeld'
    BY <1>2, <1>7, <2>1, <2>5 DEF StagesHeld, Total
  <2>9. QED
    BY <2>5, <2>6, <2>7, <2>8 DEF ChunkingInv
<1>10. QED
  BY <1>8, <1>9

\* A sentence that follows the current chunk joins it while both fit together.
LEMMA SentenceStep ==
  ASSUME ChunkingInv, AddSentence
  PROVE  ChunkingInv'
<1>0. CTypeOK /\ ChunksHeld /\ PieceHeld /\ CurrentHeld /\ StagesHeld
  BY DEF ChunkingInv
<1>1. PICK sent \in Sentences :
        /\ strategy = "semantic" /\ sent.from = current.to + 1
        /\ IF Boundary \/ TooBig(sent) THEN chunks' = Append(chunks, current) /\ current' = sent
           ELSE current' = [current EXCEPT !.to = sent.to] /\ UNCHANGED chunks
        /\ UNCHANGED <<document, built, strategy, piece, vectors>>
  BY DEF AddSentence
<1>2. /\ InText(current) /\ Joins(current) /\ current \in Intervals
      /\ Length(current) > MaxTokens => current \in Sentences
  BY <1>0, <1>1 DEF CurrentHeld, CTypeOK
<1>3. sent \in Intervals /\ InText(sent)
  BY <1>0, SentencesAre DEF CTypeOK
<1>4. /\ Total \in Nat /\ MaxTokens \in Nat /\ current.from \in Nat /\ current.to \in Nat /\ sent.from \in Nat /\ sent.to \in Nat
      /\ 1 <= current.from /\ current.from <= current.to /\ sent.from <= sent.to /\ sent.to <= Total
  BY <1>0, <1>2, <1>3, ChunkingAssumption, DocumentIs DEF CTypeOK, Intervals, InText
<1>5. vectors = <<>>
  BY <1>0, <1>1 DEF StagesHeld
<1>6. CASE Boundary \/ TooBig(sent)
  <2>1. chunks' = Append(chunks, current) /\ current' = sent
    BY <1>1, <1>6
  <2>2. PICK c : c = current
    OBVIOUS
  <2>3. c \in Intervals /\ InText(c) /\ Joins(c) /\ chunks' = Append(chunks, c) /\ (Length(c) > MaxTokens => c \in Sentences)
    BY <1>2, <2>1, <2>2
  <2>4. Fits(c)'
    BY <1>1, <2>3 DEF Fits, Length, Sentences, Total
  <2>5. ChunksHeld' /\ chunks' \in Seq(Intervals) /\ chunks' # <<>> /\ Reached' = c
    BY <1>1, <1>5, <2>3, <2>4, Adds
  <2>6. CTypeOK'
    BY <1>0, <1>1, <1>3, <2>1, <2>5 DEF CTypeOK
  <2>7. CurrentHeld'
    <3>1. InText(sent)' /\ Joins(sent)'
      BY <1>1, <1>3, <1>4, <2>2, <2>5 DEF InText, Joins, Total
    <3>2. sent \in Sentences'
      BY <1>1 DEF Sentences, Total
    <3>3. QED
      BY <2>1, <3>1, <3>2 DEF CurrentHeld, InText, Joins
  <2>8. PieceHeld'
    BY <1>0, <1>1 DEF PieceHeld, StagesHeld
  <2>9. StagesHeld'
    BY <1>0, <1>1, <1>5 DEF StagesHeld
  <2>10. QED
    BY <2>5, <2>6, <2>7, <2>8, <2>9 DEF ChunkingInv
<1>7. CASE ~(Boundary \/ TooBig(sent))
  <2>1. current' = [current EXCEPT !.to = sent.to] /\ chunks' = chunks
    BY <1>1, <1>7
  <2>2. current' \in Intervals /\ current'.from = current.from /\ current'.to = sent.to
    BY <1>2, <1>4, <2>1 DEF Intervals
  <2>3. ~TooBig(sent)
    BY <1>7
  <2>4. Length(current') <= MaxTokens
    BY <1>1, <1>4, <2>2, <2>3 DEF TooBig, Length
  <2>5. ChunksHeld'
    BY <1>1, <2>1, Waits
  <2>6. CTypeOK'
    BY <1>0, <1>1, <2>1, <2>2 DEF CTypeOK
  <2>7. InText(current)'
    BY <1>1, <1>4, <2>2 DEF InText, Total
  <2>8. Joins(current)'
    <3>1. CASE chunks = <<>>
      BY <1>2, <2>1, <2>2, <3>1 DEF Joins
    <3>2. CASE chunks # <<>>
      <4>1. Reached \in Intervals /\ Reached' = Reached
        BY <1>0, <2>1, <3>2 DEF CTypeOK, Reached
      <4>2. Reached.to \in Nat
        BY <4>1 DEF Intervals
      <4>3. QED
        BY <1>1, <1>2, <1>4, <2>1, <2>2, <3>2, <4>1, <4>2 DEF Joins
    <3>3. QED
      BY <3>1, <3>2
  <2>9. CurrentHeld'
    BY <1>4, <2>2, <2>4, <2>7, <2>8 DEF CurrentHeld, Length
  <2>10. PieceHeld' /\ StagesHeld'
    BY <1>0, <1>1, <2>1 DEF PieceHeld, StagesHeld, InText, Joins, Total, Reached
  <2>11. QED
    BY <2>5, <2>6, <2>9, <2>10 DEF ChunkingInv
<1>8. QED
  BY <1>6, <1>7

LEMMA FlushStep ==
  ASSUME ChunkingInv, LastSentence
  PROVE  ChunkingInv'
<1>0. CTypeOK /\ PieceHeld /\ CurrentHeld /\ StagesHeld
  BY DEF ChunkingInv
<1>1. PICK c : c = current
  OBVIOUS
<1>2. /\ strategy = "semantic" /\ c.to = Total /\ chunks' = Append(chunks, c) /\ strategy' = "cut"
      /\ UNCHANGED <<document, built, piece, current, vectors>>
  BY <1>1 DEF LastSentence, Flushed
<1>3. c \in Intervals /\ InText(c) /\ Joins(c) /\ (Length(c) > MaxTokens => c \in Sentences)
  BY <1>0, <1>1, <1>2 DEF CurrentHeld, CTypeOK
<1>4. vectors = <<>> /\ Fits(c)'
  BY <1>0, <1>2, <1>3 DEF StagesHeld, Fits, Length, Sentences, Total
<1>5. ChunksHeld' /\ chunks' \in Seq(Intervals) /\ chunks' # <<>> /\ Reached' = c
  BY <1>2, <1>3, <1>4, Adds
<1>6. CTypeOK'
  BY <1>0, <1>2, <1>5 DEF CTypeOK
<1>7. PieceHeld'
  BY <1>0, <1>2 DEF PieceHeld, StagesHeld
<1>8. CurrentHeld' /\ StagesHeld'
  BY <1>2, <1>4, <1>5 DEF CurrentHeld, StagesHeld, Total
<1>9. QED
  BY <1>5, <1>6, <1>7, <1>8 DEF ChunkingInv

\* Whatever is in the cache, a vector goes where its text is.
LEMMA EmbedStep ==
  ASSUME ChunkingInv, Embed
  PROVE  ChunkingInv'
<1>0. CTypeOK /\ PieceHeld /\ StagesHeld
  BY DEF ChunkingInv
<1>1. strategy = "cut" /\ strategy' = "embedded" /\ UNCHANGED <<document, built, piece, current, chunks>>
  BY DEF Embed
<1>2. PICK hits \in SUBSET DOMAIN chunks :
        LET misses  == Keep([i \in DOMAIN chunks |-> i], DOMAIN chunks \ hits)
            fresh   == [k \in DOMAIN misses |-> chunks[misses[k]]]
            With(i) == {k \in DOMAIN misses : Place(misses, k) = i} IN
        vectors' = [i \in DOMAIN chunks |-> IF With(i) = {} THEN chunks[i] ELSE fresh[CHOOSE k \in With(i) : TRUE]]
  BY DEF Embed
<1> DEFINE misses  == Keep([i \in DOMAIN chunks |-> i], DOMAIN chunks \ hits)
           fresh   == [k \in DOMAIN misses |-> chunks[misses[k]]]
           With(i) == {k \in DOMAIN misses : misses[k] = i}
<1>3. vectors' = [i \in DOMAIN chunks |-> IF With(i) = {} THEN chunks[i] ELSE fresh[CHOOSE k \in With(i) : TRUE]]
  BY <1>2 DEF Place
<1> HIDE DEF misses
<1>4. ASSUME NEW i \in DOMAIN chunks, With(i) # {}
      PROVE  fresh[CHOOSE k \in With(i) : TRUE] = chunks[i]
  <2>1. PICK k : k = CHOOSE j \in With(i) : TRUE
    OBVIOUS
  <2>2. k \in With(i)
    BY <1>4, <2>1
  <2>3. QED
    BY <2>1, <2>2
<1>5. chunks \in Seq(Intervals)
  BY <1>0 DEF CTypeOK
<1>6. vectors' = [i \in DOMAIN chunks |-> chunks[i]]
  BY <1>3, <1>4
<1>7. vectors' = chunks
  BY <1>5, <1>6
<1>8. ChunksHeld'
  BY <1>1, Waits
<1>9. CTypeOK'
  BY <1>0, <1>1, <1>5, <1>7 DEF CTypeOK
<1>10. PieceHeld' /\ CurrentHeld' /\ StagesHeld'
  BY <1>0, <1>1, <1>7 DEF PieceHeld, CurrentHeld, StagesHeld, InText, Joins, Total, Reached
<1>11. QED
  BY <1>8, <1>9, <1>10 DEF ChunkingInv

LEMMA ChunkingInit ==
  ASSUME CInit
  PROVE  ChunkingInv
<1>1. chunks = <<>> /\ vectors = <<>> /\ DOMAIN chunks = {} /\ Len(chunks) = 0 /\ piece = Nothing /\ strategy = "none"
  BY DEF CInit
<1>2. Nothing \in Intervals /\ Nothing.to = 0
  BY IntervalIs DEF Nothing
<1>3. CTypeOK
  BY <1>1, <1>2 DEF CInit, CTypeOK
<1>4. ChunksHeld
  BY <1>1, <1>2 DEF ChunksHeld, Reached
<1>5. QED
  BY <1>1, <1>3, <1>4 DEF PieceHeld, CurrentHeld, StagesHeld, ChunkingInv

LEMMA ChunkingNext ==
  ASSUME ChunkingInv, [CNext]_cvars
  PROVE  ChunkingInv'
<1>1. CASE CNext
  BY <1>1, RouteStep, WindowStep, SplitStep, SentenceStep, FlushStep, EmbedStep DEF CNext
<1>2. CASE UNCHANGED cvars
  <2>1. UNCHANGED <<document, built, strategy, piece, current, chunks, vectors>>
    BY <1>2 DEF cvars
  <2>2. ChunksHeld'
    BY <2>1, Waits
  <2>3. CTypeOK /\ PieceHeld /\ CurrentHeld /\ StagesHeld
    BY DEF ChunkingInv
  <2>4. CurrentHeld'
    BY <2>1, <2>3 DEF CurrentHeld, InText, Joins, Total, Reached, Length, Sentences
  <2>5. CTypeOK' /\ PieceHeld' /\ StagesHeld'
    BY <2>1, <2>3 DEF CTypeOK, PieceHeld, StagesHeld, InText, Joins, Total, Reached
  <2>6. QED
    BY <2>2, <2>4, <2>5 DEF ChunkingInv
<1>3. QED
  BY <1>1, <1>2

\* ingestion/chunking: whatever the strategy, what has been cut covers the text
\* from its start without a gap, and what is still to be cut joins on.
THEOREM ChunkingInvHolds == CSpec => []ChunkingInv
<1>1. CInit => ChunkingInv
  BY ChunkingInit
<1>2. ChunkingInv /\ [CNext]_cvars => ChunkingInv'
  BY ChunkingNext
<1>3. QED
  BY <1>1, <1>2, PTL DEF CSpec

\* The chunks of a document that is cut are its whole text, no window repeats its
\* neighbour, and each vector is that of its own chunk, whatever the cache held.
THEOREM TextHolds == CSpec => []ChunksAreTheText
<1>1. ChunkingInv => ChunksAreTheText
  BY DEF ChunkingInv, ChunksHeld, StagesHeld, ChunksAreTheText, IsCut
<1>2. QED
  BY <1>1, ChunkingInvHolds, PTL

\* Only one long sentence, or a long piece where there is no tokenizer, is more
\* than the embedding model takes.
THEOREM FitsHolds == CSpec => []FitsEmbedder
<1>1. ChunkingInv => FitsEmbedder
  BY DEF ChunkingInv, ChunksHeld, FitsEmbedder, Fits
<1>2. QED
  BY <1>1, ChunkingInvHolds, PTL

-----------------------------------------------------------------------------
(* The knowledge graph of one corpus, whatever is ingested and deleted     *)
(* together and wherever it fails.                                         *)

\* Two names that resolution takes for one.
SameName(x, y) == \E g \in Groups(Entities, Alike) : x \in g /\ y \in g

GraphHeld ==
  /\ \A m \in mentions : m[1] \in chunk /\ m[2] \in entity /\ \E y \in Says[m[1]].entities : SameName(m[2], y)
  /\ \A e \in next : e[1] \in chunk /\ e[2] \in chunk /\ \E d \in Docs : e \in InOrder(Pieces[d])

\* What an actor has left to do belongs to its document, and what it read of the graph to one name.
ActorSound(r) ==
  /\ r.at # "idle" => r.doc \in Docs /\ Range(r.left) \subseteq Range(Pieces[r.doc])
  /\ r.at \in {"relate", "mention"} => r.left # <<>>
  /\ r.at = "merge" => \A g \in r.groups : g # {} /\ \E h \in Groups(Entities, Alike) : g \subseteq h

ActorsHeld == \A a \in Actors : ActorSound(doing[a])

\* Entities of one name are met.
Apart == \A p \in Compared : p[1] \in entity /\ p[2] \in entity => p[1] = p[2]

\* What an actor finds that has had the corpus to itself.
AloneSound(r) ==
  /\ r.at \in {"drop", "upsert", "link", "add", "merge", "replace"} => entity \subseteq Mentioned
  /\ r.at \in {"link", "add", "relate", "mention"} => Range(r.left) \subseteq chunk
  /\ r.at \in {"relate", "mention"} => entity \subseteq Mentioned \cup Says[Head(r.left)].entities
  /\ r.at = "merge" =>
       /\ \A g \in r.groups : g \subseteq entity
       /\ \A g, h \in r.groups : g = h \/ g \cap h = {}
       /\ r.groups # {} \/ Cardinality(entity) <= MaxEntities =>
            \A p \in Compared : p[1] \in entity /\ p[2] \in entity /\ p[1] # p[2] => \E g \in r.groups : p[1] \in g /\ p[2] \in g
  /\ r.at = "replace" => r.groups = Communities /\ (Cardinality(entity) <= MaxEntities => Apart)

AloneHeld ==
  alone # None => (\A b \in Actors \ {alone} : doing[b].at = "idle") /\ AloneSound(doing[alone])

KnowledgeInv == KTypeOK /\ GraphHeld /\ ActorsHeld /\ AloneHeld /\ IngestAloneRepairs

-----------------------------------------------------------------------------
(* The groups a union-find makes.                                          *)

LEMMA GroupIs ==
  ASSUME NEW V, NEW E, NEW g \in Groups(V, E)
  PROVE  g # {} /\ g \subseteq V /\ \A p \in E : p[1] \in V /\ p[2] \in V => (p[1] \in g) = (p[2] \in g)
BY DEF Groups, Joined

LEMMA GroupLeast ==
  ASSUME NEW V, NEW E, NEW g \in Groups(V, E), NEW T \in SUBSET g, T # {},
         \A p \in E : p[1] \in V /\ p[2] \in V => (p[1] \in T) = (p[2] \in T)
  PROVE  T = g
<1> DEFINE edges == {e \in E : e[1] \in V /\ e[2] \in V}
           closed == {S \in (SUBSET V) \ {{}} : Joined(S, edges)}
<1>1. \A S \in closed : S \subseteq g => S = g
  BY DEF Groups
<1>2. Joined(T, edges)
  BY DEF Joined
<1>3. T \in SUBSET V
  BY GroupIs
<1>4. T \in closed
  BY <1>2, <1>3
<1> HIDE DEF closed
<1>5. QED
  BY <1>1, <1>4

LEMMA GroupsApart ==
  ASSUME NEW V, NEW E, NEW g \in Groups(V, E), NEW h \in Groups(V, E), g \cap h # {}
  PROVE  g = h
<1> DEFINE T == g \cap h
<1>1. \A p \in E : p[1] \in V /\ p[2] \in V => (p[1] \in T) = (p[2] \in T)
  BY GroupIs
<1>2. T = g
  <2> HIDE DEF T
  <2>1. T \in SUBSET g /\ T # {}
    BY DEF T
  <2>2. QED
    BY <1>1, <2>1, GroupLeast
<1>3. T = h
  <2> HIDE DEF T
  <2>1. T \in SUBSET h /\ T # {}
    BY DEF T
  <2>2. QED
    BY <1>1, <2>1, GroupLeast
<1>4. QED
  BY <1>2, <1>3

LEMMA GroupOf ==
  ASSUME NEW V, NEW E, NEW x \in V
  PROVE  \E g \in Groups(V, E) : x \in g
<1> DEFINE Shut(S) == \A p \in E : p[1] \in V /\ p[2] \in V => (p[1] \in S) = (p[2] \in S)
           Around  == {S \in SUBSET V : x \in S /\ Shut(S)}
           g       == {y \in V : \A S \in Around : y \in S}
<1>1. V \in Around
  OBVIOUS
<1>2. x \in g /\ g \in SUBSET V /\ \A S \in Around : g \subseteq S
  OBVIOUS
<1>3. Shut(g)
  <2>1. SUFFICES ASSUME NEW p \in E, p[1] \in V, p[2] \in V PROVE (p[1] \in g) = (p[2] \in g)
    OBVIOUS
  <2>2. \A S \in Around : (p[1] \in S) = (p[2] \in S)
    BY <2>1
  <2> HIDE DEF Around
  <2>3. (p[1] \in g) <=> (p[2] \in g)
    BY <2>1, <2>2
  <2>4. QED
    BY <2>3
<1>4. ASSUME NEW T \in SUBSET g, T # {}, Shut(T) PROVE T = g
  <2>1. CASE x \in T
    <3>1. T \in Around
      BY <1>2, <1>4, <2>1
    <3>2. QED
      BY <1>2, <3>1
  <2>2. CASE x \notin T
    <3> DEFINE U == V \ T
    <3>1. U \in Around
      <4>1. Shut(U)
        BY <1>4
      <4>2. QED
        BY <2>2, <4>1
    <3> HIDE DEF Around, g
    <3>2. g \subseteq U
      BY <1>2, <3>1
    <3>3. QED
      BY <1>4, <3>2
  <2>3. QED
    BY <2>1, <2>2
<1> HIDE DEF g
<1>5. g \in Groups(V, E)
  BY <1>2, <1>3, <1>4 DEF Groups, Joined
<1>6. QED
  BY <1>2, <1>5

LEMMA GroupWithin ==
  ASSUME NEW V, NEW W, V \subseteq W, NEW E, NEW F, E \subseteq F, NEW g \in Groups(V, E)
  PROVE  \E h \in Groups(W, F) : g \subseteq h
<1>1. PICK x \in g : x \in V
  BY GroupIs
<1>2. PICK h \in Groups(W, F) : x \in h
  BY <1>1, GroupOf
<1> DEFINE T == g \cap h
<1>3. T \in SUBSET g /\ T # {}
  BY <1>2
<1>4. \A p \in E : p[1] \in V /\ p[2] \in V => (p[1] \in T) = (p[2] \in T)
  <2>1. \A p \in E : p[1] \in V /\ p[2] \in V => (p[1] \in g) = (p[2] \in g)
    BY GroupIs
  <2>2. \A p \in E : p[1] \in W /\ p[2] \in W => (p[1] \in h) = (p[2] \in h)
    BY GroupIs
  <2>3. QED
    BY <2>1, <2>2
<1>5. T = g
  <2> HIDE DEF T
  <2>1. QED
    BY <1>3, <1>4, GroupLeast
<1>6. QED
  BY <1>5

\* The longest name of a group.
LEMMA WinnerIs ==
  ASSUME NEW g \in SUBSET Entities, g # {}
  PROVE  Winner(g) \in g
<1> DEFINE Longest(S) == \E w \in S : \A x \in S : NameLength[x] <= NameLength[w]
           P == {n \in Nat : \A S \in SUBSET Entities : IsFiniteSet(S) /\ Cardinality(S) = n /\ S # {} => Longest(S)}
<1>1. 0 \in P
  BY FS_EmptySet
<1>2. ASSUME NEW n \in Nat, n \in P PROVE n + 1 \in P
  <2>1. SUFFICES ASSUME NEW S \in SUBSET Entities, IsFiniteSet(S), Cardinality(S) = n + 1, S # {} PROVE Longest(S)
    BY <1>2
  <2>2. PICK x : x \in S
    BY <2>1
  <2> DEFINE T == S \ {x}
  <2>3. IsFiniteSet(T) /\ Cardinality(T) = n
    BY <2>1, <2>2, FS_RemoveElement
  <2>4. \A y \in S : NameLength[y] \in Nat
    BY NamesAssumption
  <2>5. CASE T = {}
    BY <2>2, <2>4, <2>5
  <2>6. CASE T # {}
    <3>1. T \in SUBSET Entities
      OBVIOUS
    <3>2. Longest(T)
      BY <1>2, <2>3, <2>6, <3>1
    <3>3. PICK w \in T : \A y \in T : NameLength[y] <= NameLength[w]
      BY <3>2
    <3>4. QED
      BY <2>2, <2>4, <3>3
  <2>7. QED
    BY <2>5, <2>6
<1>3. Nat \subseteq P
  <2> HIDE DEF P
  <2>1. QED
    BY <1>1, <1>2, SetInduction
<1>4. IsFiniteSet(g) /\ Cardinality(g) \in Nat
  BY NamesAssumption, FS_Subset, FS_CardinalityType
<1>5. Longest(g)
  BY <1>3, <1>4
<1>6. QED
  BY <1>5 DEF Winner

-----------------------------------------------------------------------------
(* The steps.                                                              *)

\* Whoever else acts, whoever was alone no longer is.
LEMMA Moves ==
  ASSUME KnowledgeInv, NEW a \in Actors, NEW r \in Doings, Becomes(a, r), ActorSound(r),
         alone = a => AloneSound(r)'
  PROVE  /\ doing' \in [Actors -> Doings] /\ alone' \in Actors \cup {None} /\ sound' \in BOOLEAN
         /\ ActorsHeld' /\ AloneHeld' /\ (sound' => r.at = "idle" /\ alone = a /\ At(a, "replace"))
<1>1. doing' = [doing EXCEPT ![a] = r] /\ alone' = IF alone = a THEN a ELSE None
  BY DEF Becomes
<1>2. sound' = (r.at = "idle" /\ alone = a /\ a \in Jobs /\ At(a, "replace"))
  BY DEF Becomes
<1>3. doing \in [Actors -> Doings]
  BY DEF KnowledgeInv, KTypeOK
<1>4. doing' \in [Actors -> Doings] /\ \A b \in Actors : doing'[b] = IF b = a THEN r ELSE doing[b]
  BY <1>1, <1>3
<1>5. ActorsHeld'
  BY <1>4 DEF KnowledgeInv, ActorsHeld, ActorSound
<1>6. AloneHeld'
  <2>1. SUFFICES ASSUME alone' # None
                 PROVE  (\A b \in Actors \ {alone'} : doing'[b].at = "idle") /\ AloneSound(doing[alone])'
    BY DEF AloneHeld
  <2>2. alone = a /\ alone' = a /\ a # None
    BY <1>1, <2>1, NamesAssumption
  <2>3. \A b \in Actors \ {a} : doing'[b].at = "idle"
    BY <1>4, <2>2 DEF KnowledgeInv, AloneHeld
  <2>4. doing'[alone'] = r
    BY <1>4, <2>2
  <2>5. AloneSound(doing[alone])'
    BY <2>2, <2>4 DEF AloneSound
  <2>6. QED
    BY <2>2, <2>3, <2>5
<1>7. QED
  BY <1>1, <1>2, <1>4, <1>5, <1>6

LEMMA ActorBegins ==
  ASSUME KnowledgeInv, NEW a \in Actors, NEW d \in Docs, Begin(a, d)
  PROVE  KnowledgeInv'
<1>1. PICK r : r = [Resting EXCEPT !.at = "delete", !.doc = d, !.left = Pieces[d]]
  OBVIOUS
<1>2. Pieces[d] \in Seq(Chunks) /\ Range(Pieces[d]) \subseteq Chunks
  <2>1. Pieces[d] \in Seq(Range(Pieces[d])) /\ Range(Pieces[d]) \subseteq Chunks
    BY PiecesAssumption DEF Chunks
  <2>2. QED
    BY <2>1
<1>3. r \in Doings /\ r.at = "delete" /\ r.doc = d /\ r.left = Pieces[d]
  <2> DEFINE none == <<>>
  <2>1. none \in Seq(Chunks)
    OBVIOUS
  <2>2. Resting = [at |-> "idle", doc |-> None, removed |-> FALSE, left |-> none, groups |-> {}]
    BY DEF Resting
  <2> HIDE DEF none
  <2>3. QED
    BY <1>1, <1>2, <2>1, <2>2 DEF Doings, Stages
<1>4. /\ doing' = [doing EXCEPT ![a] = r] /\ alone' = (IF \A b \in Actors : At(b, "idle") THEN a ELSE None)
      /\ sound' = FALSE /\ UNCHANGED <<chunk, next, entity, mentions, related, summaries, embedded>>
  BY <1>1 DEF Begin
<1>5. doing' \in [Actors -> Doings] /\ \A b \in Actors : doing'[b] = IF b = a THEN r ELSE doing[b]
  BY <1>3, <1>4 DEF KnowledgeInv, KTypeOK
<1>6. KTypeOK'
  BY <1>4, <1>5 DEF KnowledgeInv, KTypeOK
<1>7. GraphHeld'
  BY <1>4 DEF KnowledgeInv, GraphHeld
<1>8. ActorSound(r)
  BY <1>3 DEF ActorSound
<1>9. ActorsHeld'
  BY <1>5, <1>8 DEF KnowledgeInv, ActorsHeld, ActorSound
<1>10. AloneHeld'
  <2>1. SUFFICES ASSUME alone' # None
                 PROVE  (\A b \in Actors \ {alone'} : doing'[b].at = "idle") /\ AloneSound(doing[alone])'
    BY DEF AloneHeld
  <2>2. alone' = a /\ \A b \in Actors : At(b, "idle")
    BY <1>4, <2>1
  <2>3. \A b \in Actors \ {a} : doing'[b].at = "idle"
    BY <1>5, <2>2 DEF At
  <2>4. doing'[alone'] = r
    BY <1>5, <2>2
  <2>5. AloneSound(doing[alone])'
    BY <1>3, <2>4 DEF AloneSound
  <2>6. QED
    BY <2>2, <2>3, <2>5
<1>11. QED
  BY <1>4, <1>6, <1>7, <1>9, <1>10 DEF KnowledgeInv, IngestAloneRepairs

\* What an actor moves to, when it changes its stage and leaves the list or the groups.
LEMMA StageIs ==
  ASSUME NEW x \in Doings, NEW here \in Stages
  PROVE  LET r == [x EXCEPT !.at = here] IN
         r \in Doings /\ r.at = here /\ r.doc = x.doc /\ r.removed = x.removed /\ r.left = x.left /\ r.groups = x.groups
BY DEF Doings

LEMMA DeleteChunksStep ==
  ASSUME KnowledgeInv, NEW a \in Actors, DeleteChunks(a)
  PROVE  KnowledgeInv'
<1> DEFINE gone == chunk \cap Range(Pieces[doing[a].doc])
           rid  == gone # {}
<1>1. PICK r : r = [doing[a] EXCEPT !.at = "prune", !.removed = rid]
  OBVIOUS
<1>2. doing[a] \in Doings /\ ActorSound(doing[a]) /\ doing[a].at = "delete"
  BY DEF KnowledgeInv, KTypeOK, ActorsHeld, DeleteChunks, At
<1>3. /\ chunk' = chunk \ gone
      /\ next' = {e \in next : e[1] \notin gone /\ e[2] \notin gone}
      /\ mentions' = {m \in mentions : m[1] \notin gone}
      /\ Becomes(a, r) /\ UNCHANGED <<entity, related, summaries, embedded>>
  BY <1>1 DEF DeleteChunks
<1>4. rid \in BOOLEAN
  OBVIOUS
<1> HIDE DEF gone, rid
<1>5. r \in Doings /\ r.at = "prune" /\ r.doc = doing[a].doc /\ r.left = doing[a].left
  BY <1>1, <1>2, <1>4 DEF Doings, Stages
<1>6. ActorSound(r)
  BY <1>2, <1>5 DEF ActorSound
<1>7. AloneSound(r)'
  BY <1>5 DEF AloneSound
<1>8. /\ doing' \in [Actors -> Doings] /\ alone' \in Actors \cup {None} /\ sound' \in BOOLEAN
      /\ ActorsHeld' /\ AloneHeld' /\ ~sound'
  BY <1>3, <1>5, <1>6, <1>7, Moves
<1>9. KTypeOK'
  BY <1>3, <1>8 DEF KnowledgeInv, KTypeOK
<1>10. GraphHeld'
  BY <1>3 DEF KnowledgeInv, GraphHeld
<1>11. QED
  BY <1>8, <1>9, <1>10 DEF KnowledgeInv, IngestAloneRepairs

LEMMA PruneStep ==
  ASSUME KnowledgeInv, NEW a \in Actors, Prune(a)
  PROVE  KnowledgeInv'
<1> DEFINE here == IF doing[a].removed THEN "drop" ELSE IF a = Deleter THEN "end" ELSE "upsert"
<1>1. PICK r : r = [doing[a] EXCEPT !.at = here]
  OBVIOUS
<1>2. doing[a] \in Doings /\ ActorSound(doing[a]) /\ doing[a].at = "prune"
  BY DEF KnowledgeInv, KTypeOK, ActorsHeld, Prune, At
<1>3. /\ entity' = entity \cap Mentioned /\ related' = related \cap (entity' \X entity')
      /\ Becomes(a, r) /\ UNCHANGED <<chunk, next, mentions, summaries, embedded>>
  BY <1>1 DEF Prune, Then
<1>4. here \in {"drop", "end", "upsert"}
  OBVIOUS
<1> HIDE DEF here
<1>5. r \in Doings /\ r.at \in {"drop", "end", "upsert"} /\ r.doc = doing[a].doc /\ r.left = doing[a].left
  BY <1>1, <1>2, <1>4 DEF Doings, Stages
<1>6. ActorSound(r)
  BY <1>2, <1>5 DEF ActorSound
<1>7. AloneSound(r)'
  BY <1>3, <1>5 DEF AloneSound, Mentioned
<1>8. /\ doing' \in [Actors -> Doings] /\ alone' \in Actors \cup {None} /\ sound' \in BOOLEAN
      /\ ActorsHeld' /\ AloneHeld' /\ ~sound'
  BY <1>3, <1>5, <1>6, <1>7, Moves
<1>9. KTypeOK'
  BY <1>3, <1>8 DEF KnowledgeInv, KTypeOK
<1>10. GraphHeld'
  BY <1>3 DEF KnowledgeInv, GraphHeld, Mentioned
<1>11. QED
  BY <1>8, <1>9, <1>10 DEF KnowledgeInv, IngestAloneRepairs

LEMMA DropSummariesStep ==
  ASSUME KnowledgeInv, NEW a \in Actors, DropSummaries(a)
  PROVE  KnowledgeInv'
<1> DEFINE here == IF a = Deleter THEN "end" ELSE "upsert"
<1>1. PICK r : r = [doing[a] EXCEPT !.at = here]
  OBVIOUS
<1>2. doing[a] \in Doings /\ ActorSound(doing[a]) /\ doing[a].at = "drop"
  BY DEF KnowledgeInv, KTypeOK, ActorsHeld, DropSummaries, At
<1>3. summaries' = {} /\ Becomes(a, r) /\ UNCHANGED <<chunk, next, entity, mentions, related, embedded>>
  BY <1>1 DEF DropSummaries, Then
<1>4. here \in {"end", "upsert"}
  OBVIOUS
<1> HIDE DEF here
<1>5. r \in Doings /\ r.at \in {"end", "upsert"} /\ r.doc = doing[a].doc /\ r.left = doing[a].left
  BY <1>1, <1>2, <1>4 DEF Doings, Stages
<1>6. ActorSound(r)
  BY <1>2, <1>5 DEF ActorSound
<1>7. alone = a => AloneSound(r)'
  BY <1>2, <1>3, <1>5, NamesAssumption DEF KnowledgeInv, AloneHeld, AloneSound, Mentioned
<1>8. /\ doing' \in [Actors -> Doings] /\ alone' \in Actors \cup {None} /\ sound' \in BOOLEAN
      /\ ActorsHeld' /\ AloneHeld' /\ ~sound'
  BY <1>3, <1>5, <1>6, <1>7, Moves
<1>9. KTypeOK' /\ GraphHeld'
  BY <1>3, <1>8 DEF KnowledgeInv, KTypeOK, GraphHeld
<1>10. QED
  BY <1>8, <1>9 DEF KnowledgeInv, IngestAloneRepairs

LEMMA UpsertChunksStep ==
  ASSUME KnowledgeInv, NEW a \in Actors, UpsertChunks(a)
  PROVE  KnowledgeInv'
<1>1. PICK r : r = [doing[a] EXCEPT !.at = "link"]
  OBVIOUS
<1>2. doing[a] \in Doings /\ ActorSound(doing[a]) /\ doing[a].at = "upsert"
  BY DEF KnowledgeInv, KTypeOK, ActorsHeld, UpsertChunks, At
<1>3. /\ chunk' = chunk \cup Range(Pieces[doing[a].doc])
      /\ Becomes(a, r) /\ UNCHANGED <<next, entity, mentions, related, summaries, embedded>>
  BY <1>1 DEF UpsertChunks, Then
<1>4. r \in Doings /\ r.at = "link" /\ r.doc = doing[a].doc /\ r.left = doing[a].left
  BY <1>1, <1>2, StageIs DEF Stages
<1>5. r.doc \in Docs /\ Range(r.left) \subseteq Range(Pieces[r.doc]) /\ Range(Pieces[r.doc]) \subseteq Chunks
  BY <1>2, <1>4 DEF ActorSound, Chunks
<1>6. ActorSound(r)
  BY <1>4, <1>5 DEF ActorSound
<1>7. alone = a => AloneSound(r)'
  <2>1. SUFFICES ASSUME alone = a PROVE AloneSound(r)'
    OBVIOUS
  <2>2. entity \subseteq Mentioned
    BY <1>2, <2>1, NamesAssumption DEF KnowledgeInv, AloneHeld, AloneSound
  <2>3. QED
    BY <1>3, <1>4, <1>5, <2>2 DEF AloneSound, Mentioned
<1>8. /\ doing' \in [Actors -> Doings] /\ alone' \in Actors \cup {None} /\ sound' \in BOOLEAN
      /\ ActorsHeld' /\ AloneHeld' /\ ~sound'
  BY <1>3, <1>4, <1>6, <1>7, Moves
<1>9. chunk' \subseteq Chunks
  BY <1>3, <1>4, <1>5 DEF KnowledgeInv, KTypeOK
<1>10. KTypeOK' /\ GraphHeld'
  BY <1>3, <1>8, <1>9 DEF KnowledgeInv, KTypeOK, GraphHeld
<1>11. QED
  BY <1>8, <1>10 DEF KnowledgeInv, IngestAloneRepairs

LEMMA LinkSequenceStep ==
  ASSUME KnowledgeInv, NEW a \in Actors, LinkSequence(a)
  PROVE  KnowledgeInv'
<1>1. PICK r : r = [doing[a] EXCEPT !.at = "add"]
  OBVIOUS
<1>2. doing[a] \in Doings /\ ActorSound(doing[a]) /\ doing[a].at = "link"
  BY DEF KnowledgeInv, KTypeOK, ActorsHeld, LinkSequence, At
<1>3. /\ next' = next \cup (InOrder(Pieces[doing[a].doc]) \cap (chunk \X chunk))
      /\ Becomes(a, r) /\ UNCHANGED <<chunk, entity, mentions, related, summaries, embedded>>
  BY <1>1 DEF LinkSequence, Then
<1>4. r \in Doings /\ r.at = "add" /\ r.doc = doing[a].doc /\ r.left = doing[a].left
  BY <1>1, <1>2, StageIs DEF Stages
<1>5. ActorSound(r) /\ doing[a].doc \in Docs
  BY <1>2, <1>4 DEF ActorSound
<1>6. alone = a => AloneSound(r)'
  <2>1. SUFFICES ASSUME alone = a PROVE AloneSound(r)'
    OBVIOUS
  <2>2. entity \subseteq Mentioned /\ Range(r.left) \subseteq chunk
    BY <1>2, <1>4, <2>1, NamesAssumption DEF KnowledgeInv, AloneHeld, AloneSound
  <2>3. QED
    BY <1>3, <1>4, <2>2 DEF AloneSound, Mentioned
<1>7. /\ doing' \in [Actors -> Doings] /\ alone' \in Actors \cup {None} /\ sound' \in BOOLEAN
      /\ ActorsHeld' /\ AloneHeld' /\ ~sound'
  BY <1>3, <1>4, <1>5, <1>6, Moves
<1>8. KTypeOK'
  BY <1>3, <1>7 DEF KnowledgeInv, KTypeOK
<1>9. GraphHeld'
  <2>1. \A e \in next' : e[1] \in chunk /\ e[2] \in chunk /\ \E d \in Docs : e \in InOrder(Pieces[d])
    BY <1>3, <1>5 DEF KnowledgeInv, GraphHeld
  <2>2. QED
    BY <1>3, <2>1 DEF KnowledgeInv, GraphHeld
<1>10. QED
  BY <1>7, <1>8, <1>9 DEF KnowledgeInv, IngestAloneRepairs

\* The list gets shorter.
LEMMA TailIs ==
  ASSUME NEW x \in Doings, x.left # <<>>
  PROVE  /\ Head(x.left) \in Chunks /\ Tail(x.left) \in Seq(Chunks)
         /\ Range(x.left) = {Head(x.left)} \cup Range(Tail(x.left))
<1>1. x.left \in Seq(Chunks)
  BY DEF Doings
<1>2. QED
  BY <1>1, RangeHead

LEMMA ActorSkips ==
  ASSUME KnowledgeInv, NEW a \in Actors, Skip(a)
  PROVE  KnowledgeInv'
<1> DEFINE tail == Tail(doing[a].left)
<1>1. PICK r : r = [doing[a] EXCEPT !.left = tail]
  OBVIOUS
<1>2. doing[a] \in Doings /\ ActorSound(doing[a]) /\ doing[a].at = "add" /\ doing[a].left # <<>>
  BY DEF KnowledgeInv, KTypeOK, ActorsHeld, Skip, At
<1>3. Becomes(a, r) /\ UNCHANGED <<chunk, next, entity, mentions, related, summaries, embedded>>
  BY <1>1 DEF Skip
<1>4. tail \in Seq(Chunks) /\ Range(tail) \subseteq Range(doing[a].left)
  BY <1>2, TailIs
<1> HIDE DEF tail
<1>5. r \in Doings /\ r.at = "add" /\ r.doc = doing[a].doc /\ r.left = tail
  BY <1>1, <1>2, <1>4 DEF Doings
<1>6. ActorSound(r)
  BY <1>2, <1>4, <1>5 DEF ActorSound
<1>7. alone = a => AloneSound(r)'
  <2>1. SUFFICES ASSUME alone = a PROVE AloneSound(r)'
    OBVIOUS
  <2>2. entity \subseteq Mentioned /\ Range(r.left) \subseteq chunk
    BY <1>2, <1>4, <1>5, <2>1, NamesAssumption DEF KnowledgeInv, AloneHeld, AloneSound
  <2>3. QED
    BY <1>3, <1>5, <2>2 DEF AloneSound, Mentioned
<1>8. /\ doing' \in [Actors -> Doings] /\ alone' \in Actors \cup {None} /\ sound' \in BOOLEAN
      /\ ActorsHeld' /\ AloneHeld' /\ ~sound'
  BY <1>3, <1>5, <1>6, <1>7, Moves
<1>9. KTypeOK' /\ GraphHeld'
  BY <1>3, <1>8 DEF KnowledgeInv, KTypeOK, GraphHeld
<1>10. QED
  BY <1>8, <1>9 DEF KnowledgeInv, IngestAloneRepairs

LEMMA AddEntitiesStep ==
  ASSUME KnowledgeInv, NEW a \in Actors, AddEntities(a)
  PROVE  KnowledgeInv'
<1> DEFINE c == Head(doing[a].left)
<1>1. PICK r : r = [doing[a] EXCEPT !.at = "relate"]
  OBVIOUS
<1>2. doing[a] \in Doings /\ ActorSound(doing[a]) /\ doing[a].at = "add" /\ doing[a].left # <<>>
  BY DEF KnowledgeInv, KTypeOK, ActorsHeld, AddEntities, At
<1>3. entity' = entity \cup Says[c].entities /\ Becomes(a, r) /\ UNCHANGED <<chunk, next, mentions, related, summaries, embedded>>
  BY <1>1 DEF AddEntities, Then
<1>4. c \in Chunks /\ Says[c].entities \subseteq Entities
  BY <1>2, TailIs, SaysAssumption
<1>5. r \in Doings /\ r.at = "relate" /\ r.doc = doing[a].doc /\ r.left = doing[a].left
  BY <1>1, <1>2 DEF Doings, Stages
<1>6. ActorSound(r)
  BY <1>2, <1>5 DEF ActorSound
<1>7. alone = a => AloneSound(r)'
  <2>1. SUFFICES ASSUME alone = a PROVE AloneSound(r)'
    OBVIOUS
  <2>2. entity \subseteq Mentioned /\ Range(r.left) \subseteq chunk
    BY <1>2, <1>5, <2>1, NamesAssumption DEF KnowledgeInv, AloneHeld, AloneSound
  <2>3. entity' \subseteq Mentioned \cup Says[Head(r.left)].entities
    BY <1>3, <1>5, <2>2
  <2>4. QED
    BY <1>3, <1>5, <2>2, <2>3 DEF AloneSound, Mentioned
<1>8. /\ doing' \in [Actors -> Doings] /\ alone' \in Actors \cup {None} /\ sound' \in BOOLEAN
      /\ ActorsHeld' /\ AloneHeld' /\ ~sound'
  BY <1>3, <1>5, <1>6, <1>7, Moves
<1> HIDE DEF c
<1>9. KTypeOK' /\ GraphHeld'
  BY <1>3, <1>4, <1>8 DEF KnowledgeInv, KTypeOK, GraphHeld
<1>10. QED
  BY <1>8, <1>9 DEF KnowledgeInv, IngestAloneRepairs

LEMMA AddRelationsStep ==
  ASSUME KnowledgeInv, NEW a \in Actors, AddRelations(a)
  PROVE  KnowledgeInv'
<1> DEFINE R == Says[Head(doing[a].left)].relations
<1>1. PICK r : r = [doing[a] EXCEPT !.at = "mention"]
  OBVIOUS
<1>2. doing[a] \in Doings /\ ActorSound(doing[a]) /\ doing[a].at = "relate"
  BY DEF KnowledgeInv, KTypeOK, ActorsHeld, AddRelations, At
<1>3. related' = related \cup (R \cap (entity \X entity)) /\ Becomes(a, r) /\ UNCHANGED <<chunk, next, entity, mentions, summaries, embedded>>
  BY <1>1 DEF AddRelations, Then
<1> HIDE DEF R
<1>4. r \in Doings /\ r.at = "mention" /\ r.doc = doing[a].doc /\ r.left = doing[a].left
  BY <1>1, <1>2 DEF Doings, Stages
<1>5. ActorSound(r)
  BY <1>2, <1>4 DEF ActorSound
<1>6. alone = a => AloneSound(r)'
  <2>1. SUFFICES ASSUME alone = a PROVE AloneSound(r)'
    OBVIOUS
  <2>2. entity \subseteq Mentioned \cup Says[Head(r.left)].entities /\ Range(r.left) \subseteq chunk
    BY <1>2, <1>4, <2>1, NamesAssumption DEF KnowledgeInv, AloneHeld, AloneSound
  <2>3. QED
    BY <1>3, <1>4, <2>2 DEF AloneSound, Mentioned
<1>7. /\ doing' \in [Actors -> Doings] /\ alone' \in Actors \cup {None} /\ sound' \in BOOLEAN
      /\ ActorsHeld' /\ AloneHeld' /\ ~sound'
  BY <1>3, <1>4, <1>5, <1>6, Moves
<1>8. related' \subseteq Entities \X Entities
  BY <1>3 DEF KnowledgeInv, KTypeOK
<1>9. KTypeOK' /\ GraphHeld'
  BY <1>3, <1>7, <1>8 DEF KnowledgeInv, KTypeOK, GraphHeld
<1>10. QED
  BY <1>7, <1>9 DEF KnowledgeInv, IngestAloneRepairs

LEMMA LinkEntitiesStep ==
  ASSUME KnowledgeInv, NEW a \in Actors, LinkEntities(a)
  PROVE  KnowledgeInv'
<1> DEFINE c == Head(doing[a].left)
           tail == Tail(doing[a].left)
           new == ({c} \cap chunk) \X Keys(c)
<1>1. PICK r : r = [doing[a] EXCEPT !.at = "add", !.left = tail]
  OBVIOUS
<1>2. doing[a] \in Doings /\ ActorSound(doing[a]) /\ doing[a].at = "mention" /\ doing[a].left # <<>>
  BY DEF KnowledgeInv, KTypeOK, ActorsHeld, ActorSound, LinkEntities, At
<1>3. mentions' = mentions \cup new /\ Becomes(a, r) /\ UNCHANGED <<chunk, next, entity, related, summaries, embedded>>
  BY <1>1 DEF LinkEntities
<1>4. /\ c \in Chunks /\ tail \in Seq(Chunks) /\ Range(doing[a].left) = {c} \cup Range(tail)
      /\ Says[c].entities \subseteq Entities
  BY <1>2, TailIs, SaysAssumption
<1> HIDE DEF tail
<1>5. r \in Doings /\ r.at = "add" /\ r.doc = doing[a].doc /\ r.left = tail
  BY <1>1, <1>2, <1>4 DEF Doings, Stages
<1>6. ActorSound(r)
  BY <1>2, <1>4, <1>5 DEF ActorSound
<1>7. \A m \in new : m \in chunk \X entity /\ m[1] = c /\ m[2] \in Says[c].entities
  BY DEF Keys
<1>8. alone = a => AloneSound(r)'
  <2>1. SUFFICES ASSUME alone = a PROVE AloneSound(r)'
    OBVIOUS
  <2>2. entity \subseteq Mentioned \cup Says[c].entities /\ Range(doing[a].left) \subseteq chunk
    BY <1>2, <2>1, NamesAssumption DEF KnowledgeInv, AloneHeld, AloneSound
  <2>3. c \in chunk /\ Range(tail) \subseteq chunk
    BY <1>4, <2>2
  <2>4. \A e \in entity : e \in Mentioned'
    <3>1. SUFFICES ASSUME NEW e \in entity PROVE \E m \in mentions' : e = m[2]
      BY DEF Mentioned
    <3>2. CASE e \in Mentioned
      BY <1>3, <3>2 DEF Mentioned
    <3>3. CASE e \in Says[c].entities
      <4>1. <<c, e>> \in new
        BY <2>3, <3>3 DEF Keys
      <4>2. QED
        BY <1>3, <4>1
    <3>4. QED
      BY <2>2, <3>2, <3>3
  <2>5. QED
    BY <1>3, <1>5, <2>3, <2>4 DEF AloneSound
<1>9. /\ doing' \in [Actors -> Doings] /\ alone' \in Actors \cup {None} /\ sound' \in BOOLEAN
      /\ ActorsHeld' /\ AloneHeld' /\ ~sound'
  BY <1>3, <1>5, <1>6, <1>8, Moves
<1>10. \A y \in Says[c].entities : SameName(y, y)
  BY <1>4, GroupOf DEF SameName
<1> HIDE DEF c, new
<1>11. mentions' \subseteq Chunks \X Entities
  BY <1>3, <1>7 DEF KnowledgeInv, KTypeOK
<1>12. KTypeOK'
  BY <1>3, <1>9, <1>11 DEF KnowledgeInv, KTypeOK
<1>13. GraphHeld'
  <2>1. \A m \in mentions' : m[1] \in chunk /\ m[2] \in entity /\ \E y \in Says[m[1]].entities : SameName(m[2], y)
    BY <1>3, <1>7, <1>10 DEF KnowledgeInv, GraphHeld
  <2>2. QED
    BY <1>3, <2>1 DEF KnowledgeInv, GraphHeld
<1>14. QED
  BY <1>9, <1>12, <1>13 DEF KnowledgeInv, IngestAloneRepairs

LEMMA ReadEntitiesStep ==
  ASSUME KnowledgeInv, NEW a \in Actors, ReadEntities(a)
  PROVE  KnowledgeInv'
<1> DEFINE found == IF Cardinality(entity) > MaxEntities THEN {} ELSE Groups(entity, Compared')
           G == {g \in found : Cardinality(g) > 1}
<1>1. PICK r : r = [doing[a] EXCEPT !.at = "merge", !.groups = G]
  OBVIOUS
<1>2. doing[a] \in Doings /\ ActorSound(doing[a]) /\ doing[a].at = "add" /\ entity \subseteq Entities
  BY DEF KnowledgeInv, KTypeOK, ActorsHeld, ReadEntities, At
<1>3. Becomes(a, r) /\ embedded' \in BOOLEAN /\ UNCHANGED <<chunk, next, entity, mentions, related, summaries>>
  BY <1>1 DEF ReadEntities
<1>4. \A g \in G : g \in Groups(entity, Compared')
  OBVIOUS
<1>5. \A g \in G : g # {} /\ g \subseteq entity /\ \E h \in Groups(Entities, Alike) : g \subseteq h
  <2>1. Compared' \subseteq Alike
    BY NamesAssumption DEF Compared
  <2> HIDE DEF G
  <2>2. QED
    BY <1>2, <1>4, <2>1, GroupIs, GroupWithin
<1>6. \A g, h \in G : g = h \/ g \cap h = {}
  <2> HIDE DEF G
  <2>1. QED
    BY <1>4, GroupsApart
<1>7. ASSUME G # {} \/ Cardinality(entity) <= MaxEntities,
             NEW p \in Compared', p[1] \in entity, p[2] \in entity, p[1] # p[2]
      PROVE  \E g \in G : p[1] \in g /\ p[2] \in g
  <2>1. PICK g \in Groups(entity, Compared') : p[1] \in g
    BY <1>7, GroupOf
  <2>2. p[2] \in g /\ g \subseteq entity
    BY <1>7, <2>1, GroupIs
  <2>3. IsFiniteSet(g) /\ IsFiniteSet(entity)
    BY <1>2, <2>2, NamesAssumption, FS_Subset
  <2>4. Cardinality(g) \in Nat /\ Cardinality(g) # 0 /\ Cardinality(g) # 1
    BY <1>7, <2>1, <2>2, <2>3, FS_CardinalityType, FS_EmptySet, FS_Singleton
  <2>5. Cardinality(entity) \in Nat /\ MaxEntities \in Nat
    BY <2>3, FS_CardinalityType, NamesAssumption
  <2>6. ~(Cardinality(entity) > MaxEntities)
    BY <1>7, <2>5
  <2>7. QED
    BY <2>1, <2>2, <2>4, <2>6
<1> HIDE DEF G
<1>8. G \subseteq SUBSET Entities
  BY <1>2, <1>5
<1>9. r \in Doings /\ r.at = "merge" /\ r.doc = doing[a].doc /\ r.left = doing[a].left /\ r.groups = G
  BY <1>1, <1>2, <1>8 DEF Doings, Stages
<1>10. ActorSound(r)
  BY <1>2, <1>5, <1>9 DEF ActorSound
<1>11. alone = a => AloneSound(r)'
  <2>1. SUFFICES ASSUME alone = a PROVE AloneSound(r)'
    OBVIOUS
  <2>2. entity \subseteq Mentioned
    BY <1>2, <2>1, NamesAssumption DEF KnowledgeInv, AloneHeld, AloneSound
  <2>3. G # {} \/ Cardinality(entity) <= MaxEntities =>
          \A p \in Compared' : p[1] \in entity /\ p[2] \in entity /\ p[1] # p[2] => \E g \in G : p[1] \in g /\ p[2] \in g
    BY <1>7
  <2> HIDE DEF Compared
  <2>4. QED
    BY <1>3, <1>5, <1>6, <1>9, <2>2, <2>3 DEF AloneSound, Mentioned
<1>12. /\ doing' \in [Actors -> Doings] /\ alone' \in Actors \cup {None} /\ sound' \in BOOLEAN
       /\ ActorsHeld' /\ AloneHeld' /\ ~sound'
  BY <1>3, <1>9, <1>10, <1>11, Moves
<1>13. KTypeOK' /\ GraphHeld'
  BY <1>3, <1>12 DEF KnowledgeInv, KTypeOK, GraphHeld
<1>14. QED
  BY <1>12, <1>13 DEF KnowledgeInv, IngestAloneRepairs

\* Folding keeps a mention within the name, and what is left to fold apart.
LEMMA MergeStep ==
  ASSUME KnowledgeInv, NEW a \in Actors, NEW g \in doing[a].groups, Merge(a, g)
  PROVE  KnowledgeInv'
<1> DEFINE w == Winner(g)
           losers == (g \ {w}) \cap entity
           Fold(x) == IF x \in losers THEN w ELSE x
           G == doing[a].groups \ {g}
<1>1. PICK r : r = [doing[a] EXCEPT !.groups = G]
  OBVIOUS
<1>2. doing[a] \in Doings /\ ActorSound(doing[a]) /\ doing[a].at = "merge"
  BY DEF KnowledgeInv, KTypeOK, ActorsHeld, Merge, At
<1>3. /\ Becomes(a, r) /\ UNCHANGED <<chunk, next, summaries, embedded>>
      /\ IF w \notin entity THEN UNCHANGED <<entity, mentions, related>>
         ELSE /\ entity' = entity \ losers
              /\ mentions' = {<<m[1], Fold(m[2])>> : m \in mentions}
              /\ related' = {<<Fold(p[1]), Fold(p[2])>> : p \in related} \ {<<w, w>>}
  BY <1>1 DEF Merge
<1>4. g \in SUBSET Entities /\ g # {} /\ w \in g /\ losers \subseteq g /\ losers \subseteq entity /\ w \notin losers
  BY <1>2, WinnerIs DEF Doings, ActorSound
<1>5. r \in Doings /\ r.at = "merge" /\ r.doc = doing[a].doc /\ r.left = doing[a].left /\ r.groups = G
  BY <1>1, <1>2 DEF Doings
<1>6. ActorSound(r)
  BY <1>2, <1>5 DEF ActorSound
<1>7. KTypeOK /\ GraphHeld
  BY DEF KnowledgeInv
<1>8. alone = a => /\ entity \subseteq Mentioned /\ \A h \in doing[a].groups : h \subseteq entity
                   /\ \A h, k \in doing[a].groups : h = k \/ h \cap k = {}
                   /\ \A p \in Compared : p[1] \in entity /\ p[2] \in entity /\ p[1] # p[2]
                        => \E h \in doing[a].groups : p[1] \in h /\ p[2] \in h
  BY <1>2, NamesAssumption DEF KnowledgeInv, AloneHeld, AloneSound
<1>9. CASE w \notin entity
  <2>1. UNCHANGED <<chunk, next, entity, mentions, related, summaries, embedded>>
    BY <1>3, <1>9
  <2>2. alone # a
    BY <1>4, <1>8, <1>9
  <2>3. /\ doing' \in [Actors -> Doings] /\ alone' \in Actors \cup {None} /\ sound' \in BOOLEAN
        /\ ActorsHeld' /\ AloneHeld' /\ ~sound'
    BY <1>3, <1>5, <1>6, <2>2, Moves
  <2>4. KTypeOK' /\ GraphHeld'
    BY <1>7, <2>1, <2>3 DEF KTypeOK, GraphHeld
  <2>5. QED
    BY <2>3, <2>4 DEF KnowledgeInv, IngestAloneRepairs
<1>10. CASE w \in entity
  <2>1. /\ entity' = entity \ losers
        /\ mentions' = {<<m[1], Fold(m[2])>> : m \in mentions}
        /\ related' = {<<Fold(p[1]), Fold(p[2])>> : p \in related} \ {<<w, w>>}
    BY <1>3, <1>10
  <2>2. w \in Entities /\ w \in entity' /\ \A x \in Entities : Fold(x) \in Entities
    BY <1>4, <1>10, <2>1
  <2>3. entity' \subseteq Entities /\ mentions' \subseteq Chunks \X Entities /\ related' \subseteq Entities \X Entities
    BY <1>7, <2>1, <2>2 DEF KTypeOK
  <2>4. \A m \in mentions : /\ m[1] \in chunk /\ Fold(m[2]) \in entity'
                            /\ \E y \in Says[m[1]].entities : SameName(Fold(m[2]), y)
    <3>1. SUFFICES ASSUME NEW m \in mentions
                   PROVE  /\ m[1] \in chunk /\ Fold(m[2]) \in entity'
                          /\ \E y \in Says[m[1]].entities : SameName(Fold(m[2]), y)
      OBVIOUS
    <3>2. m[1] \in chunk /\ m[2] \in entity
      BY <1>7 DEF GraphHeld
    <3>3. PICK y \in Says[m[1]].entities : SameName(m[2], y)
      BY <1>7 DEF GraphHeld
    <3>4. CASE m[2] \in losers
      <4>1. PICK h \in Groups(Entities, Alike) : g \subseteq h
        BY <1>2 DEF ActorSound
      <4>2. PICK k \in Groups(Entities, Alike) : m[2] \in k /\ y \in k
        BY <3>3 DEF SameName
      <4>3. h \cap k # {}
        BY <1>4, <3>4, <4>1, <4>2
      <4>4. h = k
        BY <4>3, GroupsApart
      <4>5. SameName(w, y)
        BY <1>4, <4>1, <4>2, <4>4 DEF SameName
      <4>6. Fold(m[2]) = w
        BY <3>4
      <4>7. QED
        BY <2>2, <3>2, <4>5, <4>6
    <3>5. CASE m[2] \notin losers
      <4>1. Fold(m[2]) = m[2] /\ m[2] \in entity'
        BY <2>1, <3>2, <3>5
      <4>2. QED
        BY <3>2, <3>3, <4>1
    <3>6. QED
      BY <3>4, <3>5
  <2>5. GraphHeld'
    <3>1. \A n \in mentions' : n[1] \in chunk /\ n[2] \in entity' /\ \E y \in Says[n[1]].entities : SameName(n[2], y)
      <4>1. SUFFICES ASSUME NEW n \in mentions'
                     PROVE  n[1] \in chunk /\ n[2] \in entity' /\ \E y \in Says[n[1]].entities : SameName(n[2], y)
        OBVIOUS
      <4> HIDE DEF Fold
      <4>2. PICK m \in mentions : n = <<m[1], Fold(m[2])>>
        BY <2>1
      <4>3. n[1] = m[1] /\ n[2] = Fold(m[2])
        BY <4>2
      <4>4. QED
        BY <2>4, <4>3
    <3>2. QED
      BY <1>3, <1>7, <3>1 DEF GraphHeld
  <2>6. alone = a => AloneSound(r)'
    <3>1. SUFFICES ASSUME alone = a PROVE AloneSound(r)'
      OBVIOUS
    <3>2. entity' \subseteq Mentioned'
      <4>1. SUFFICES ASSUME NEW e \in entity' PROVE \E n \in mentions' : e = n[2]
        BY DEF Mentioned
      <4>2. e \in entity /\ e \notin losers
        BY <2>1
      <4>3. PICK m \in mentions : e = m[2]
        BY <1>8, <3>1, <4>2 DEF Mentioned
      <4>4. Fold(m[2]) = e
        BY <4>2, <4>3
      <4> HIDE DEF Fold
      <4>5. <<m[1], Fold(m[2])>> \in mentions'
        BY <2>1
      <4>6. QED
        BY <4>4, <4>5
    <3>3. \A h \in G : h \subseteq entity'
      BY <1>4, <1>8, <2>1, <3>1
    <3>4. \A p \in Compared : p[1] \in entity' /\ p[2] \in entity' /\ p[1] # p[2] => \E h \in G : p[1] \in h /\ p[2] \in h
      <4>1. SUFFICES ASSUME NEW p \in Compared, p[1] \in entity', p[2] \in entity', p[1] # p[2]
                     PROVE  \E h \in G : p[1] \in h /\ p[2] \in h
        OBVIOUS
      <4>2. PICK h \in doing[a].groups : p[1] \in h /\ p[2] \in h
        BY <1>8, <2>1, <3>1, <4>1
      <4>3. h # g
        BY <2>1, <4>1, <4>2
      <4>4. QED
        BY <4>2, <4>3
    <3>5. \A h, k \in G : h = k \/ h \cap k = {}
      BY <1>8, <3>1
    <3>6. Compared' = Compared
      BY <1>3 DEF Compared
    <3> HIDE DEF G
    <3>7. QED
      BY <1>5, <3>2, <3>3, <3>4, <3>5, <3>6 DEF AloneSound
  <2>7. /\ doing' \in [Actors -> Doings] /\ alone' \in Actors \cup {None} /\ sound' \in BOOLEAN
        /\ ActorsHeld' /\ AloneHeld' /\ ~sound'
    BY <1>3, <1>5, <1>6, <2>6, Moves
  <2>8. KTypeOK'
    BY <1>3, <1>7, <2>3, <2>7 DEF KTypeOK
  <2>9. QED
    BY <2>5, <2>7, <2>8 DEF KnowledgeInv, IngestAloneRepairs
<1>11. QED
  BY <1>9, <1>10

LEMMA ReadEdgesStep ==
  ASSUME KnowledgeInv, NEW a \in Actors, ReadEdges(a)
  PROVE  KnowledgeInv'
<1>1. PICK r : r = [doing[a] EXCEPT !.at = "replace", !.groups = Communities]
  OBVIOUS
<1>2. doing[a] \in Doings /\ ActorSound(doing[a]) /\ doing[a].at = "merge" /\ doing[a].groups = {} /\ entity \subseteq Entities
  BY DEF KnowledgeInv, KTypeOK, ActorsHeld, ReadEdges, At
<1>3. Becomes(a, r) /\ UNCHANGED <<chunk, next, entity, mentions, related, summaries, embedded>>
  BY <1>1 DEF ReadEdges
<1>4. Communities \subseteq SUBSET Entities
  BY <1>2, GroupIs DEF Communities
<1>5. r \in Doings /\ r.at = "replace" /\ r.doc = doing[a].doc /\ r.left = doing[a].left /\ r.groups = Communities
  BY <1>1, <1>2, <1>4 DEF Doings, Stages
<1>6. ActorSound(r)
  BY <1>2, <1>5 DEF ActorSound
<1>7. alone = a => AloneSound(r)'
  <2>1. SUFFICES ASSUME alone = a PROVE AloneSound(r)'
    OBVIOUS
  <2>2. entity \subseteq Mentioned /\ (Cardinality(entity) <= MaxEntities => Apart)
    BY <1>2, <2>1, NamesAssumption DEF KnowledgeInv, AloneHeld, AloneSound, Apart
  <2>3. Communities' = Communities /\ Compared' = Compared
    BY <1>3 DEF Communities, Compared
  <2>4. QED
    BY <1>3, <1>5, <2>2, <2>3 DEF AloneSound, Mentioned, Apart
<1>8. /\ doing' \in [Actors -> Doings] /\ alone' \in Actors \cup {None} /\ sound' \in BOOLEAN
      /\ ActorsHeld' /\ AloneHeld' /\ ~sound'
  BY <1>3, <1>5, <1>6, <1>7, Moves
<1>9. KTypeOK' /\ GraphHeld'
  BY <1>3, <1>8 DEF KnowledgeInv, KTypeOK, GraphHeld
<1>10. QED
  BY <1>8, <1>9 DEF KnowledgeInv, IngestAloneRepairs

\* What an actor at rest is.
LEMMA RestingIs == Resting \in Doings /\ Resting.at = "idle" /\ ActorSound(Resting) /\ AloneSound(Resting)
<1> DEFINE none == <<>>
<1>1. none \in Seq(Chunks)
  OBVIOUS
<1>2. Resting = [at |-> "idle", doc |-> None, removed |-> FALSE, left |-> none, groups |-> {}]
  BY DEF Resting
<1> HIDE DEF none
<1>3. Resting \in Doings /\ Resting.at = "idle"
  BY <1>1, <1>2 DEF Doings, Stages
<1>4. QED
  BY <1>3 DEF ActorSound, AloneSound

LEMMA ReplaceSummariesStep ==
  ASSUME KnowledgeInv, NEW a \in Actors, ReplaceSummaries(a)
  PROVE  KnowledgeInv'
<1>1. PICK r : r = Resting
  OBVIOUS
<1>2. doing[a] \in Doings /\ doing[a].at = "replace"
  BY DEF KnowledgeInv, KTypeOK, ReplaceSummaries, At
<1>3. summaries' \in SUBSET doing[a].groups /\ Becomes(a, r) /\ UNCHANGED <<chunk, next, entity, mentions, related, embedded>>
  BY <1>1 DEF ReplaceSummaries
<1>4. r \in Doings /\ r.at = "idle" /\ ActorSound(r)
  BY <1>1, RestingIs
<1>5. AloneSound(r)'
  BY <1>4 DEF AloneSound
<1>6. /\ doing' \in [Actors -> Doings] /\ alone' \in Actors \cup {None} /\ sound' \in BOOLEAN
      /\ ActorsHeld' /\ AloneHeld' /\ (sound' => alone = a)
  BY <1>3, <1>4, <1>5, Moves
<1>7. summaries' \subseteq SUBSET Entities
  BY <1>2, <1>3 DEF Doings
<1>8. KTypeOK' /\ GraphHeld'
  BY <1>3, <1>6, <1>7 DEF KnowledgeInv, KTypeOK, GraphHeld
<1>9. IngestAloneRepairs'
  <2>1. SUFFICES ASSUME sound'
                 PROVE  /\ \A e \in entity : \E c \in chunk : <<c, e>> \in mentions
                        /\ Cardinality(entity) <= MaxEntities =>
                             \A p \in Compared : p[1] \in entity /\ p[2] \in entity => p[1] = p[2]
                        /\ summaries' \subseteq Communities'
    BY <1>3 DEF IngestAloneRepairs, Compared
  <2>2. entity \subseteq Mentioned /\ doing[a].groups = Communities /\ (Cardinality(entity) <= MaxEntities => Apart)
    BY <1>2, <1>6, <2>1, NamesAssumption DEF KnowledgeInv, AloneHeld, AloneSound
  <2>3. \A m \in mentions : m = <<m[1], m[2]>> /\ m[1] \in chunk
    BY DEF KnowledgeInv, KTypeOK, GraphHeld
  <2>4. \A e \in entity : \E c \in chunk : <<c, e>> \in mentions
    BY <2>2, <2>3 DEF Mentioned
  <2>5. Communities' = Communities
    BY <1>3 DEF Communities
  <2>6. QED
    BY <1>3, <2>2, <2>4, <2>5 DEF Apart
<1>10. QED
  BY <1>6, <1>8, <1>9 DEF KnowledgeInv

\* A failure: nobody is alone with the corpus after it.
LEMMA Fails ==
  ASSUME KnowledgeInv, NEW a \in Actors, NEW r \in Doings, doing' = [doing EXCEPT ![a] = r], ActorSound(r),
         alone' = None, sound' = FALSE, UNCHANGED <<chunk, next, entity, mentions, related, summaries, embedded>>
  PROVE  KnowledgeInv'
<1>1. doing' \in [Actors -> Doings] /\ \A b \in Actors : doing'[b] = IF b = a THEN r ELSE doing[b]
  BY DEF KnowledgeInv, KTypeOK
<1>2. KTypeOK' /\ GraphHeld'
  BY <1>1 DEF KnowledgeInv, KTypeOK, GraphHeld
<1>3. ActorsHeld'
  BY <1>1 DEF KnowledgeInv, ActorsHeld, ActorSound
<1>4. QED
  BY <1>2, <1>3 DEF KnowledgeInv, AloneHeld, IngestAloneRepairs

LEMMA ResolveFailsStep ==
  ASSUME KnowledgeInv, NEW a \in Actors, ResolveFails(a)
  PROVE  KnowledgeInv'
<1>1. PICK r : r = [doing[a] EXCEPT !.groups = {}]
  OBVIOUS
<1>2. doing[a] \in Doings /\ ActorSound(doing[a]) /\ doing[a].at = "merge"
  BY DEF KnowledgeInv, KTypeOK, ActorsHeld, ResolveFails, At
<1>3. r \in Doings /\ r.at = "merge" /\ r.doc = doing[a].doc /\ r.left = doing[a].left /\ r.groups = {}
  BY <1>1, <1>2 DEF Doings
<1>4. ActorSound(r)
  BY <1>2, <1>3 DEF ActorSound
<1>5. /\ doing' = [doing EXCEPT ![a] = r] /\ alone' = None /\ sound' = FALSE
      /\ UNCHANGED <<chunk, next, entity, mentions, related, summaries, embedded>>
  BY <1>1 DEF ResolveFails
<1>6. QED
  BY <1>3, <1>4, <1>5, Fails

LEMMA EndsStep ==
  ASSUME KnowledgeInv, NEW a \in Actors, Ends(a)
  PROVE  KnowledgeInv'
BY RestingIs, Fails DEF Ends

LEMMA KnowledgeStarts == KInit => KnowledgeInv
BY RestingIs DEF KInit, KnowledgeInv, KTypeOK, GraphHeld, ActorsHeld, AloneHeld, IngestAloneRepairs

LEMMA KnowledgeStep == KnowledgeInv /\ [KNext]_kvars => KnowledgeInv'
<1> SUFFICES ASSUME KnowledgeInv, [KNext]_kvars PROVE KnowledgeInv'
  OBVIOUS
<1>1. CASE UNCHANGED kvars
  <2>1. KTypeOK' /\ GraphHeld' /\ ActorsHeld'
    BY <1>1 DEF KnowledgeInv, kvars, KTypeOK, GraphHeld, ActorsHeld
  <2>2. Communities' = Communities /\ Mentioned' = Mentioned /\ Compared' = Compared
    BY <1>1 DEF kvars, Communities, Mentioned, Compared
  <2>3. AloneHeld'
    BY <1>1, <2>2 DEF KnowledgeInv, kvars, AloneHeld, AloneSound, Apart
  <2>4. IngestAloneRepairs'
    BY <1>1, <2>2 DEF KnowledgeInv, kvars, IngestAloneRepairs
  <2>5. QED
    BY <2>1, <2>3, <2>4 DEF KnowledgeInv
<1>2. CASE \E a \in Actors : Acts(a)
  BY <1>2, ActorBegins, DeleteChunksStep, PruneStep, DropSummariesStep, UpsertChunksStep, LinkSequenceStep, ActorSkips,
     AddEntitiesStep, AddRelationsStep, LinkEntitiesStep, ReadEntitiesStep, MergeStep, ResolveFailsStep, ReadEdgesStep,
     ReplaceSummariesStep, EndsStep
  DEF Acts
<1>3. QED
  BY <1>1, <1>2 DEF KNext

\* Jobs and deletions of one corpus interleave query by query and fail anywhere:
\* the graph keeps its types, a mention joins a chunk and an entity that are
\* there, and whoever has had the corpus to itself finds it consistent.
THEOREM KnowledgeInvHolds == KSpec => []KnowledgeInv
<1>1. QED
  BY KnowledgeStarts, KnowledgeStep, PTL DEF KSpec

\* A chunk mentions what was extracted from it or another name for it, and :NEXT
\* never leaves a document or skips a chunk, for any documents and any relation
\* of alike names (neo4j_store.py merge_entities, link_chunk_sequence).
THEOREM GraphHolds == KSpec => []GraphFollowsDocuments
<1>1. KnowledgeInv => GraphFollowsDocuments
  <2>1. SUFFICES ASSUME KnowledgeInv
                 PROVE  /\ \A m \in mentions : \E g \in Groups(Entities, Alike) : m[2] \in g /\ Says[m[1]].entities \cap g # {}
                        /\ \A e \in next : /\ e[1] \in chunk /\ e[2] \in chunk
                                           /\ \E d \in Docs : \E i \in 2 .. Len(Pieces[d]) : e = <<Pieces[d][i - 1], Pieces[d][i]>>
    BY DEF GraphFollowsDocuments
  <2>2. \A m \in mentions : \E g \in Groups(Entities, Alike) : m[2] \in g /\ Says[m[1]].entities \cap g # {}
    BY <2>1 DEF KnowledgeInv, GraphHeld, SameName
  <2>3. ASSUME NEW e \in next
        PROVE  \E d \in Docs : \E i \in 2 .. Len(Pieces[d]) : e = <<Pieces[d][i - 1], Pieces[d][i]>>
    <3>1. PICK d \in Docs : e \in InOrder(Pieces[d])
      BY <2>1 DEF KnowledgeInv, GraphHeld
    <3>2. PICK i \in 1 .. Len(Pieces[d]) - 1 : e = <<Pieces[d][i], Pieces[d][i + 1]>>
      BY <3>1 DEF InOrder
    <3>3. Len(Pieces[d]) \in Nat
      BY PiecesAssumption
    <3>4. i + 1 \in 2 .. Len(Pieces[d]) /\ (i + 1) - 1 = i
      BY <3>2, <3>3
    <3>5. QED
      BY <3>2, <3>4
  <2>4. QED
    BY <2>1, <2>2, <2>3 DEF KnowledgeInv, GraphHeld
<1>2. QED
  BY <1>1, KnowledgeInvHolds, PTL

\* Whatever overlapping or failed jobs left behind, the ingest that has the
\* corpus to itself repairs, duplicates as far as resolution compares them
\* (pipelines/ingest.py run, ingestion/enrich.py).
THEOREM RepairHolds == KSpec => []IngestAloneRepairs
<1>1. KnowledgeInv => IngestAloneRepairs
  BY DEF KnowledgeInv
<1>2. QED
  BY <1>1, KnowledgeInvHolds, PTL

-----------------------------------------------------------------------------
(* The chain of models and its breakers, for any chain and any callers.    *)

(* Chains.                                                                 *)

LEMMA ChainIs ==
  ASSUME NEW l \in Models
  PROVE  Len(Chain(l)) \in Nat \ {0} /\ Members(l) = 1 .. Len(Chain(l)) /\ Members(l) # {}
<1> DEFINE A == {l} \cup Range(Fallbacks)
           rest == Keep(Fallbacks, Usable \ {l})
<1>1. Fallbacks \in Seq(Range(Fallbacks))
  BY FailoverAssumption
<1>2. rest \in Seq(Range(Fallbacks))
  BY <1>1, KeepRange
<1> HIDE DEF rest
<1>3. Len(rest) \in Nat /\ rest \in Seq(A) /\ <<l>> \in Seq(A) /\ Len(<<l>>) = 1
  BY <1>2
<1>4. Len(<<l>> \o rest) = 1 + Len(rest)
  BY <1>3, ConcatProperties
<1>5. Chain(l) = <<l>> \o rest
  BY DEF Chain, rest
<1>6. QED
  BY <1>3, <1>4, <1>5 DEF Members

\* Health.order() leaves no member out, whichever are in cooldown.
LEMMA OrderIs ==
  ASSUME NEW l \in Models, cooling[l] \subseteq Members(l)
  PROVE  Order(l) \in Seq(Members(l)) /\ Range(Order(l)) = Members(l) /\ Order(l) # <<>>
<1> DEFINE all == [i \in Members(l) |-> i]
           S   == Members(l) \ cooling[l]
           T   == cooling[l]
           q   == Keep(all, S) \o Keep(all, T)
<1>1. all \in Seq(Members(l)) /\ Range(all) = Members(l)
  BY ChainIs DEF Range
<1>2. S \cup T = Members(l)
  OBVIOUS
<1>3. Order(l) = q
  BY DEF Order
<1> HIDE DEF all, S, T
<1>4. Range(q) = Range(all) \cap (S \cup T) /\ q \in Seq(Range(all) \cap (S \cup T))
  BY <1>1, KeepParts
<1> HIDE DEF q
<1>5. Range(all) \cap (S \cup T) = Members(l)
  BY <1>1, <1>2
<1>6. Range(q) = Members(l) /\ q \in Seq(Members(l))
  BY <1>4, <1>5
<1>7. q # <<>>
  BY <1>6, ChainIs DEF Range
<1>8. QED
  BY <1>3, <1>6, <1>7

LEMMA LeadIs ==
  ASSUME FTypeOK, NEW r
  PROVE  Lead(r) \subseteq Models
  BY FailoverAssumption DEF Lead, FTypeOK

-----------------------------------------------------------------------------
(* The calls.  Tokens come from the member that is being asked, and each    *)
(* member of the chain was tried or is still to be asked.                   *)

CallSound(k) ==
  /\ k.at \in {"trying", "failing"} =>
       k.order # <<>> /\ Range(k.tokens) \subseteq {Head(k.order)} /\ k.tried \cup Range(k.order) = Members(k.lead)
  /\ k.at = "failing" => Head(k.order) \in k.tried
  /\ k.at \notin {"trying", "failing"} => k.tokens = <<>>
  /\ k.at = "exhausted" => k.tried = Members(k.lead)

CallInv == FTypeOK /\ \A c \in Callers : CallSound(call[c])

LEMMA FreshIs == Fresh \in CallsOf(Default) /\ CallSound(Fresh)
<1>1. <<>> \in Seq(Members(Default)) /\ {} \in SUBSET Members(Default) /\ 0 \in 0 .. MaxFailures
  BY FailoverAssumption
<1>2. QED
  BY <1>1 DEF Fresh, CallsOf, CallSound

LEMMA EndedIs ==
  ASSUME NEW l \in Models, NEW k \in CallsOf(l), NEW how \in {"answered", "cut", "refused", "exhausted", "left"},
         how = "exhausted" => k.tried = Members(l)
  PROVE  Ended(k, how) \in CallsOf(l) /\ CallSound(Ended(k, how)) /\ Ended(k, how).at = how
<1> DEFINE none == <<>>
           f == [at |-> "none", lead |-> Default, stream |-> FALSE, order |-> none, tokens |-> none, tried |-> {}, count |-> 0]
           e == [f EXCEPT !.at = how, !.lead = k.lead, !.tried = k.tried]
<1>1. none \in Seq(Members(l)) /\ 0 \in 0 .. MaxFailures /\ none = <<>>
  BY FailoverAssumption
<1>2. Ended(k, how) = e
  BY DEF Ended, Fresh
<1>3. k.lead = l /\ k.tried \in SUBSET Members(l)
  BY DEF CallsOf
<1> HIDE DEF none
<1>4. e \in CallsOf(l) /\ CallSound(e) /\ e.at = how
  BY <1>1, <1>3 DEF CallsOf, CallSound
<1>5. QED
  BY <1>2, <1>4

\* One call moves.
LEMMA CallMoves ==
  ASSUME CallInv, NEW c \in Callers, NEW l \in Models, NEW k \in CallsOf(l), CallSound(k),
         call' = [call EXCEPT ![c] = k],
         enabled' = enabled,
         DOMAIN failures' = Models, DOMAIN cooling' = Models, DOMAIN probes' = Models,
         \A m \in Models : /\ failures'[m] \in [Members(m) -> 0 .. MaxFailures] /\ probes'[m] \in [Members(m) -> Nat]
                           /\ cooling'[m] \subseteq Members(m)
  PROVE  CallInv'
<1>1. DOMAIN call' = Callers /\ \A d \in Callers : call'[d] = IF d = c THEN k ELSE call[d]
  BY DEF CallInv, FTypeOK
<1>2. \A d \in Callers : (\E lead \in Models : call'[d] \in CallsOf(lead)) /\ CallSound(call'[d])
  BY <1>1 DEF CallInv, FTypeOK
<1>3. FTypeOK'
  BY <1>1, <1>2 DEF CallInv, FTypeOK
<1>4. QED
  BY <1>2, <1>3 DEF CallInv

LEMMA CallIs ==
  ASSUME CallInv, NEW c \in Callers
  PROVE  call[c].lead \in Models /\ call[c] \in CallsOf(call[c].lead) /\ CallSound(call[c])
  BY DEF CallInv, FTypeOK, CallsOf

LEMMA FailoverInit == FInit => CallInv
<1> SUFFICES ASSUME FInit PROVE CallInv
  OBVIOUS
<1>1. 0 \in 0 .. MaxFailures /\ Default \in Models
  BY FailoverAssumption
<1>2. FTypeOK
  BY <1>1, FreshIs DEF FInit, FTypeOK
<1>3. QED
  BY <1>2, FreshIs DEF FInit, CallInv

\* A function of functions changes at one place.
LEMMA At2 ==
  ASSUME NEW f, DOMAIN f = Models, NEW l \in Models, NEW i \in Members(l), NEW B, f[l] \in [Members(l) -> B], NEW v \in B,
         NEW g, g = [f EXCEPT ![l][i] = v]
  PROVE  /\ DOMAIN g = Models /\ g[l] \in [Members(l) -> B] /\ g[l][i] = v
         /\ \A j \in Members(l) \ {i} : g[l][j] = f[l][j]
         /\ \A m \in Models \ {l} : g[m] = f[m]
  OBVIOUS

LEMMA CallStep ==
  ASSUME CallInv, [FNext]_fvars
  PROVE  CallInv'
<1>0. FTypeOK
  BY DEF CallInv
<1>1. ASSUME NEW c \in Callers, NEW l \in Models, NEW k \in CallsOf(l), CallSound(k),
             call' = [call EXCEPT ![c] = k], UNCHANGED <<enabled, failures, cooling, probes>>
      PROVE  CallInv'
  BY <1>0, <1>1, CallMoves DEF FTypeOK
<1>2. ASSUME NEW S \in SUBSET Models, SetModels(S) PROVE CallInv'
  BY <1>2 DEF SetModels, CallInv, FTypeOK
<1>3. ASSUME NEW c \in Callers, NEW r, NEW s \in BOOLEAN, Start(c, r, s) PROVE CallInv'
  <2>1. PICK l \in Lead(r) :
          call' = [call EXCEPT ![c] = [Fresh EXCEPT !.at = "trying", !.lead = l, !.stream = s, !.order = Order(l)]]
    BY <1>3 DEF Start
  <2>2. l \in Models /\ UNCHANGED <<enabled, failures, cooling, probes>>
    BY <1>0, <1>3, <2>1, LeadIs DEF Start
  <2> DEFINE none == <<>>
             f == [at |-> "none", lead |-> Default, stream |-> FALSE, order |-> none, tokens |-> none, tried |-> {}, count |-> 0]
             k == [f EXCEPT !.at = "trying", !.lead = l, !.stream = s, !.order = Order(l)]
  <2>3. call' = [call EXCEPT ![c] = k]
    BY <2>1 DEF Fresh
  <2>4. none \in Seq(Members(l)) /\ Range(none) = {} /\ 0 \in 0 .. MaxFailures
    BY FailoverAssumption DEF Range
  <2>5. Order(l) \in Seq(Members(l)) /\ Range(Order(l)) = Members(l) /\ Order(l) # <<>>
    BY <1>0, <2>2, OrderIs DEF FTypeOK
  <2> HIDE DEF none
  <2>6. k \in CallsOf(l) /\ CallSound(k)
    BY <2>4, <2>5 DEF CallsOf, CallSound
  <2> HIDE DEF k
  <2>7. QED
    BY <1>1, <2>2, <2>3, <2>6
<1>4. ASSUME NEW c \in Callers, Chunk(c) PROVE CallInv'
  <2> DEFINE l == call[c].lead
             i == Head(call[c].order)
             k == [call[c] EXCEPT !.tokens = Append(call[c].tokens, i)]
  <2>1. l \in Models /\ call[c] \in CallsOf(l) /\ CallSound(call[c]) /\ call[c].at = "trying"
    BY <1>4, CallIs DEF Chunk
  <2>2. i \in Members(l) /\ call[c].tokens \in Seq(Members(l))
    BY <2>1, RangeHead DEF CallsOf, CallSound
  <2> DEFINE more == Append(call[c].tokens, i)
  <2>3. more \in Seq(Members(l)) /\ Range(more) \subseteq {i}
    <3>1. Range(call[c].tokens) \subseteq {i}
      BY <2>1 DEF CallSound
    <3> HIDE DEF i
    <3>2. QED
      BY <2>2, <3>1, RangeAppend
  <2>4. call' = [call EXCEPT ![c] = [call[c] EXCEPT !.tokens = more]]
    BY <1>0, <1>4 DEF Chunk, FTypeOK
  <2> HIDE DEF more
  <2> DEFINE h == [call[c] EXCEPT !.tokens = more]
  <2>5. h \in CallsOf(l) /\ CallSound(h)
    BY <2>1, <2>3 DEF CallsOf, CallSound
  <2> HIDE DEF h
  <2>6. call' = [call EXCEPT ![c] = h] /\ UNCHANGED <<enabled, failures, cooling, probes>>
    BY <1>4, <2>4 DEF Chunk, h
  <2> HIDE DEF l
  <2>7. QED
    BY <1>1, <2>1, <2>5, <2>6
<1>5. ASSUME NEW c \in Callers, Answer(c) PROVE CallInv'
  <2> DEFINE l == call[c].lead
             i == Head(call[c].order)
             k == Ended(call[c], "answered")
  <2>1. l \in Models /\ call[c] \in CallsOf(l) /\ CallSound(call[c]) /\ call[c].at = "trying"
    BY <1>5, CallIs DEF Answer
  <2>2. i \in Members(l)
    BY <2>1, RangeHead DEF CallsOf, CallSound
  <2>3. /\ failures' = [failures EXCEPT ![l][i] = 0] /\ probes' = [probes EXCEPT ![l][i] = 0]
        /\ cooling' = [cooling EXCEPT ![l] = cooling[l] \ {i}]
        /\ call' = [call EXCEPT ![c] = k] /\ enabled' = enabled
    BY <1>5 DEF Answer
  <2> HIDE DEF i, l
  <2>4. k \in CallsOf(l) /\ CallSound(k)
    BY <2>1, EndedIs
  <2>5. 0 \in 0 .. MaxFailures
    BY FailoverAssumption
  <2>6. DOMAIN failures' = Models /\ \A m \in Models : failures'[m] \in [Members(m) -> 0 .. MaxFailures]
    BY <1>0, <2>1, <2>2, <2>3, <2>5 DEF FTypeOK
  <2>7. DOMAIN probes' = Models /\ \A m \in Models : probes'[m] \in [Members(m) -> Nat]
    BY <1>0, <2>1, <2>2, <2>3 DEF FTypeOK
  <2>8. DOMAIN cooling' = Models /\ \A m \in Models : cooling'[m] \subseteq Members(m)
    BY <1>0, <2>1, <2>3 DEF FTypeOK
  <2> HIDE DEF k
  <2>9. QED
    BY <2>1, <2>3, <2>4, <2>6, <2>7, <2>8, CallMoves
<1>6. ASSUME NEW c \in Callers, Fail(c) PROVE CallInv'
  <2> DEFINE l == call[c].lead
             i == Head(call[c].order)
             n == failures[call[c].lead][i]
             k == [call[c] EXCEPT !.at = "failing", !.tried = call[c].tried \cup {i}, !.count = n]
  <2>1. l \in Models /\ call[c] \in CallsOf(l) /\ CallSound(call[c]) /\ call[c].at = "trying"
    BY <1>6, CallIs DEF Fail
  <2>2. i \in Members(l)
    BY <2>1, RangeHead DEF CallsOf, CallSound
  <2>3. n \in 0 .. MaxFailures
    BY <1>0, <2>1, <2>2 DEF FTypeOK
  <2>4. call' = [call EXCEPT ![c] = k] /\ UNCHANGED <<enabled, failures, cooling, probes>>
    BY <1>0, <1>6 DEF Fail, FTypeOK
  <2> HIDE DEF n
  <2>5. k \in CallsOf(l) /\ CallSound(k)
    <3>1. call[c].order # <<>> /\ call[c].tried \cup Range(call[c].order) = Members(l)
      BY <2>1 DEF CallSound
    <3>2. call[c].tried \cup {i} \subseteq Members(l) /\ call[c].tried \cup {i} \cup Range(call[c].order) = Members(l)
      BY <2>2, <3>1
    <3>3. QED
      BY <2>1, <2>3, <3>1, <3>2 DEF CallsOf, CallSound
  <2> HIDE DEF k, l
  <2>6. QED
    BY <1>1, <2>1, <2>4, <2>5
<1>7. ASSUME NEW c \in Callers, Leave(c) PROVE CallInv'
  <2> DEFINE l == call[c].lead
             k == Ended(call[c], "left")
  <2>1. l \in Models /\ call[c] \in CallsOf(l)
    BY CallIs
  <2>2. call' = [call EXCEPT ![c] = k] /\ UNCHANGED <<enabled, failures, cooling, probes>>
    BY <1>7 DEF Leave
  <2> HIDE DEF l
  <2>3. k \in CallsOf(l) /\ CallSound(k)
    BY <2>1, EndedIs
  <2> HIDE DEF k
  <2>4. QED
    BY <1>1, <2>1, <2>2, <2>3
<1>8. ASSUME NEW c \in Callers, NEW p \in BOOLEAN, NoteFailure(c, p) PROVE CallInv'
  <2> DEFINE l == call[c].lead
             i == Head(call[c].order)
             rest == Tail(call[c].order)
             n == IF Wrapped(l) THEN Counted(call[c].count) ELSE 0
             b == IF i \in cooling[l] \/ probes[l][i] = 0 THEN probes[l][i] ELSE probes[l][i] + 1
             k == IF ~MayFailOver(c) THEN Ended(call[c], "cut")
                  ELSE IF p \/ ~Wrapped(l) THEN Ended(call[c], "refused")
                  ELSE IF rest = <<>> THEN Ended(call[c], "exhausted")
                  ELSE [call[c] EXCEPT !.at = "trying", !.order = rest, !.count = 0]
  <2>1. l \in Models /\ call[c] \in CallsOf(l) /\ CallSound(call[c]) /\ call[c].at = "failing"
    BY <1>8, CallIs DEF NoteFailure
  <2>2. /\ call[c].order # <<>> /\ call[c].order \in Seq(Members(l)) /\ i \in Members(l) /\ rest \in Seq(Members(l))
        /\ Range(call[c].order) = {i} \cup Range(rest)
    BY <2>1, RangeHead DEF CallsOf, CallSound
  <2>3. /\ failures' = [failures EXCEPT ![l][i] = n] /\ enabled' = enabled
        /\ cooling' = IF Wrapped(l) /\ call[c].count + 1 >= MaxFailures THEN [cooling EXCEPT ![l] = cooling[l] \cup {i}] ELSE cooling
    BY <1>8 DEF NoteFailure
  <2>4. probes' = [probes EXCEPT ![l][i] = b]
    BY <1>8 DEF NoteFailure
  <2>5. call' = [call EXCEPT ![c] = k]
    BY <1>8 DEF NoteFailure
  <2>6. n \in 0 .. MaxFailures
    BY <2>1, FailoverAssumption DEF Counted, CallsOf
  <2>7. b \in Nat
    BY <1>0, <2>1, <2>2 DEF FTypeOK
  <2>8. k \in CallsOf(l) /\ CallSound(k)
    <3>1. i \in call[c].tried /\ call[c].tried \cup Range(call[c].order) = Members(l)
      BY <2>1 DEF CallSound
    <3>2. call[c].tried \cup Range(rest) = Members(l)
      BY <2>2, <3>1
    <3>3. CASE ~MayFailOver(c) \/ p \/ ~Wrapped(l)
      <4>1. k = Ended(call[c], "cut") \/ k = Ended(call[c], "refused")
        BY <3>3
      <4> HIDE DEF k, l
      <4>2. QED
        BY <2>1, <4>1, EndedIs
    <3>4. CASE MayFailOver(c) /\ ~(p \/ ~Wrapped(l)) /\ rest = <<>>
      <4>1. k = Ended(call[c], "exhausted")
        BY <3>4
      <4>2. Range(rest) = {}
        BY <3>4 DEF Range
      <4>3. call[c].tried = Members(l)
        BY <3>2, <4>2
      <4> HIDE DEF k, l
      <4>4. QED
        BY <2>1, <4>1, <4>3, EndedIs
    <3>5. CASE MayFailOver(c) /\ ~(p \/ ~Wrapped(l)) /\ rest # <<>>
      <4>1. k = [call[c] EXCEPT !.at = "trying", !.order = rest, !.count = 0]
        BY <3>5
      <4>2. call[c].tokens = <<>> /\ Range(call[c].tokens) = {}
        BY <3>5 DEF MayFailOver, Range
      <4>3. 0 \in 0 .. MaxFailures
        BY FailoverAssumption
      <4> HIDE DEF k, rest
      <4>4. QED
        BY <2>1, <2>2, <3>2, <3>5, <4>1, <4>2, <4>3 DEF CallsOf, CallSound
    <3>6. QED
      BY <3>3, <3>4, <3>5
  <2> HIDE DEF k, n, b, i, l
  <2>9. DOMAIN failures' = Models /\ \A m \in Models : failures'[m] \in [Members(m) -> 0 .. MaxFailures]
    BY <1>0, <2>1, <2>2, <2>3, <2>6 DEF FTypeOK
  <2>10. DOMAIN probes' = Models /\ \A m \in Models : probes'[m] \in [Members(m) -> Nat]
    BY <1>0, <2>1, <2>2, <2>4, <2>7 DEF FTypeOK
  <2>11. DOMAIN cooling' = Models /\ \A m \in Models : cooling'[m] \subseteq Members(m)
    BY <1>0, <2>1, <2>2, <2>3 DEF FTypeOK
  <2>12. QED
    BY <2>1, <2>3, <2>5, <2>8, <2>9, <2>10, <2>11, CallMoves
<1>9. ASSUME NEW l \in Models, NEW i \in cooling[l], CoolDown(l, i) PROVE CallInv'
  <2>1. i \in Members(l)
    BY <1>0 DEF FTypeOK
  <2>2. DOMAIN probes' = Models /\ \A m \in Models : probes'[m] \in [Members(m) -> Nat]
    BY <1>0, <1>9, <2>1 DEF CoolDown, FTypeOK
  <2>3. DOMAIN cooling' = Models /\ \A m \in Models : cooling'[m] \subseteq Members(m)
    BY <1>0, <1>9 DEF CoolDown, FTypeOK
  <2>4. QED
    BY <1>9, <2>2, <2>3 DEF CoolDown, CallInv, FTypeOK
<1>10. CASE UNCHANGED fvars
  BY <1>10 DEF fvars, CallInv, FTypeOK
<1>11. QED
  BY <1>2, <1>3, <1>4, <1>5, <1>6, <1>7, <1>8, <1>9, <1>10 DEF FNext

\* A call of FallbackChatModel is where its state says: its tokens are the member's it is
\* asking, and each member of its chain was tried or is still to be asked.
THEOREM FailoverTypeCorrect == FSpec => []CallInv
  BY FailoverInit, CallStep, PTL DEF FSpec

\* No answer mixes the tokens of two members, and a caller is told that every one
\* failed only when every one was asked (fallback.py, _generate() and _stream()).
THEOREM CallersHold == FSpec => []CallersAreNotMisled
<1>1. CallInv => CallersAreNotMisled
  <2> SUFFICES ASSUME CallInv, NEW c \in Callers
               PROVE  /\ Cardinality(Range(call[c].tokens)) <= 1
                      /\ call[c].at = "exhausted" => call[c].tried = Members(call[c].lead)
    BY DEF CallersAreNotMisled
  <2>1. CallSound(call[c])
    BY CallIs
  <2>2. Range(call[c].tokens) = {} \/ \E i : Range(call[c].tokens) = {i}
    <3>1. CASE call[c].at \in {"trying", "failing"}
      BY <2>1, <3>1 DEF CallSound
    <3>2. CASE call[c].at \notin {"trying", "failing"}
      BY <2>1, <3>2 DEF CallSound, Range
    <3>3. QED
      BY <3>1, <3>2
  <2>3. Cardinality(Range(call[c].tokens)) \in {0, 1}
    BY <2>2, FS_EmptySet, FS_Singleton
  <2>4. QED
    BY <2>1, <2>3 DEF CallSound
<1>2. QED
  BY <1>1, FailoverTypeCorrect, PTL

-----------------------------------------------------------------------------
(* The breaker of one member.  A call that has read the counter below the   *)
(* threshold and not written it back yet is stale: it can still count as a   *)
(* failure that does not open the breaker.  While the member is in rotation  *)
(* after a cooldown each failure uses up one of these calls, and each of     *)
(* the others reads the threshold, and opens it.                             *)

IsStale(k, l, i) == k.at = "failing" /\ k.lead = l /\ Head(k.order) = i /\ k.count + 1 < MaxFailures

Stale(calls, l, i) == {c \in Callers : IsStale(calls[c], l, i)}

InFlight == Cardinality(Callers)

ProbeOk(l, ajar, n, p, s) ==
  (ajar \/ p # 0) => /\ Wrapped(l) /\ n + 1 >= MaxFailures
                     /\ IF ajar THEN s + 1 <= InFlight /\ p <= InFlight + 1 ELSE p + s <= InFlight

ProbeInv ==
  \A l \in Models : \A i \in Members(l) :
    ProbeOk(l, i \in cooling[l], failures[l][i], probes[l][i], Cardinality(Stale(call, l, i)))

LEMMA StaleIs ==
  ASSUME NEW calls, NEW l, NEW i
  PROVE  /\ IsFiniteSet(Stale(calls, l, i)) /\ Cardinality(Stale(calls, l, i)) \in Nat /\ InFlight \in Nat
         /\ \A c \in Callers : c \notin Stale(calls, l, i) => Cardinality(Stale(calls, l, i)) + 1 <= InFlight
<1>1. IsFiniteSet(Callers) /\ Stale(calls, l, i) \subseteq Callers
  BY FailoverAssumption DEF Stale
<1>2. IsFiniteSet(Stale(calls, l, i)) /\ Cardinality(Stale(calls, l, i)) \in Nat /\ InFlight \in Nat
  BY <1>1, FS_Subset, FS_CardinalityType DEF InFlight
<1>3. ASSUME NEW c \in Callers, c \notin Stale(calls, l, i) PROVE Cardinality(Stale(calls, l, i)) + 1 <= InFlight
  <2> DEFINE T == Callers \ {c}
  <2>1. IsFiniteSet(T) /\ Cardinality(T) = InFlight - 1 /\ Stale(calls, l, i) \subseteq T
    BY <1>1, <1>3, FS_RemoveElement DEF InFlight
  <2>2. Cardinality(Stale(calls, l, i)) <= Cardinality(T)
    BY <2>1, FS_Subset
  <2>3. QED
    BY <1>2, <2>1, <2>2
<1>4. QED
  BY <1>2, <1>3

\* One call moves.
LEMMA StaleMoves ==
  ASSUME NEW c \in Callers, \A d \in Callers \ {c} : call'[d] = call[d]
  PROVE  \A l, i : /\ ~IsStale(call'[c], l, i) => Stale(call', l, i) = Stale(call, l, i) \ {c}
                   /\ c \notin Stale(call, l, i) /\ ~IsStale(call'[c], l, i) => Stale(call', l, i) = Stale(call, l, i)
  BY DEF Stale

LEMMA StaleLess ==
  ASSUME NEW calls, NEW l, NEW i, NEW c \in Stale(calls, l, i)
  PROVE  Cardinality(Stale(calls, l, i) \ {c}) = Cardinality(Stale(calls, l, i)) - 1
<1> DEFINE T == Stale(calls, l, i)
<1>1. IsFiniteSet(T) /\ c \in T
  BY StaleIs
<1> HIDE DEF T
<1>2. Cardinality(T \ {c}) = Cardinality(T) - 1
  BY <1>1, FS_RemoveElement
<1>3. QED
  BY <1>2 DEF T

\* The breakers do not move, and neither does who is stale.
LEMMA ProbeQuiet ==
  ASSUME ProbeInv, UNCHANGED <<failures, cooling, probes>>,
         \A l \in Models : \A i \in Members(l) :
           i \in cooling[l] \/ probes[l][i] # 0 => Stale(call', l, i) = Stale(call, l, i)
  PROVE  ProbeInv'
<1> SUFFICES ASSUME NEW l \in Models, NEW i \in Members(l)
             PROVE  ProbeOk(l, i \in cooling[l], failures[l][i], probes[l][i], Cardinality(Stale(call', l, i)))
  BY DEF ProbeInv
<1>1. ProbeOk(l, i \in cooling[l], failures[l][i], probes[l][i], Cardinality(Stale(call, l, i)))
  BY DEF ProbeInv
<1>2. CASE i \in cooling[l] \/ probes[l][i] # 0
  BY <1>1, <1>2
<1>3. CASE ~(i \in cooling[l] \/ probes[l][i] # 0)
  BY <1>3 DEF ProbeOk
<1>4. QED
  BY <1>2, <1>3

\* The breaker of one member moves, and nobody becomes stale elsewhere.
LEMMA ProbeMoves ==
  ASSUME ProbeInv, NEW l \in Models, NEW i \in Members(l),
         \A m \in Models : \A j \in Members(m) : (m # l \/ j # i) =>
           /\ failures'[m][j] = failures[m][j] /\ probes'[m][j] = probes[m][j]
           /\ j \in cooling'[m] <=> j \in cooling[m]
           /\ Stale(call', m, j) = Stale(call, m, j),
         ProbeOk(l, i \in cooling'[l], failures'[l][i], probes'[l][i], Cardinality(Stale(call', l, i)))
  PROVE  ProbeInv'
<1> SUFFICES ASSUME NEW m \in Models, NEW j \in Members(m)
             PROVE  ProbeOk(m, j \in cooling'[m], failures'[m][j], probes'[m][j], Cardinality(Stale(call', m, j)))
  BY DEF ProbeInv
<1>1. ProbeOk(m, j \in cooling[m], failures[m][j], probes[m][j], Cardinality(Stale(call, m, j)))
  BY DEF ProbeInv
<1>2. QED
  BY <1>1 DEF ProbeOk

LEMMA ProbeStep ==
  ASSUME MaxFailures <= 2, CallInv, ProbeInv, [FNext]_fvars
  PROVE  ProbeInv'
<1>0. FTypeOK /\ MaxFailures \in {1, 2}
  BY FailoverAssumption DEF CallInv
<1>1. ASSUME NEW c \in Callers, NEW k, k.at # "failing", call[c].at # "failing", call' = [call EXCEPT ![c] = k],
             UNCHANGED <<failures, cooling, probes>>
      PROVE  ProbeInv'
  <2>1. \A l \in Models : \A i \in Members(l) : c \notin Stale(call, l, i) /\ ~IsStale(k, l, i)
    BY <1>1 DEF Stale, IsStale
  <2>2. call'[c] = k /\ \A d \in Callers \ {c} : call'[d] = call[d]
    BY <1>0, <1>1 DEF FTypeOK
  <2>3. \A l \in Models : \A i \in Members(l) : Stale(call', l, i) = Stale(call, l, i)
    BY <2>1, <2>2, StaleMoves
  <2>4. QED
    BY <1>1, <2>3, ProbeQuiet
<1>2. ASSUME NEW S \in SUBSET Models, SetModels(S) PROVE ProbeInv'
  BY <1>2, ProbeQuiet DEF SetModels, Stale
<1>3. ASSUME NEW c \in Callers, NEW r, NEW s \in BOOLEAN, Start(c, r, s) PROVE ProbeInv'
  <2>1. PICK l \in Lead(r) :
          call' = [call EXCEPT ![c] = [Fresh EXCEPT !.at = "trying", !.lead = l, !.stream = s, !.order = Order(l)]]
    BY <1>3 DEF Start
  <2> DEFINE k == [Fresh EXCEPT !.at = "trying", !.lead = l, !.stream = s, !.order = Order(l)]
  <2>2. k.at # "failing"
    BY DEF Fresh
  <2>3. call' = [call EXCEPT ![c] = k]
    BY <2>1
  <2> HIDE DEF k
  <2>4. QED
    BY <1>1, <1>3, <2>2, <2>3 DEF Start, Over
<1>4. ASSUME NEW c \in Callers, Chunk(c) PROVE ProbeInv'
  <2> DEFINE k == [call[c] EXCEPT !.tokens = Append(call[c].tokens, Head(call[c].order))]
  <2>1. call' = [call EXCEPT ![c] = k] /\ k.at # "failing" /\ call[c].at # "failing"
    BY <1>0, <1>4, CallIs DEF Chunk, FTypeOK, CallsOf
  <2> HIDE DEF k
  <2>2. QED
    BY <1>1, <1>4, <2>1 DEF Chunk
<1>5. ASSUME NEW c \in Callers, Answer(c) PROVE ProbeInv'
  <2>0. PICK l, i : l \in Models /\ l = call[c].lead /\ i = Head(call[c].order)
    BY CallIs
  <2> DEFINE k == Ended(call[c], "answered")
  <2>1. call[c] \in CallsOf(l) /\ CallSound(call[c]) /\ call[c].at = "trying"
    BY <1>5, <2>0, CallIs DEF Answer
  <2>2. i \in Members(l)
    BY <2>0, <2>1, RangeHead DEF CallsOf, CallSound
  <2>3. /\ failures' = [failures EXCEPT ![l][i] = 0] /\ probes' = [probes EXCEPT ![l][i] = 0]
        /\ cooling' = [cooling EXCEPT ![l] = cooling[l] \ {i}]
        /\ call' = [call EXCEPT ![c] = k]
    BY <1>5, <2>0 DEF Answer
  <2>4. k.at # "failing"
    BY DEF Ended, Fresh
  <2> HIDE DEF k
  <2>5. \A m \in Models : \A j \in Members(m) : Stale(call', m, j) = Stale(call, m, j)
    <3>1. \A m \in Models : \A j \in Members(m) : c \notin Stale(call, m, j) /\ ~IsStale(k, m, j)
      BY <2>1, <2>4 DEF Stale, IsStale
    <3>2. call'[c] = k /\ \A d \in Callers \ {c} : call'[d] = call[d]
      BY <1>0, <2>3 DEF FTypeOK
    <3>3. QED
      BY <3>1, <3>2, StaleMoves
  <2>6. \A m \in Models : \A j \in Members(m) : (m # l \/ j # i) =>
          failures'[m][j] = failures[m][j] /\ probes'[m][j] = probes[m][j] /\ (j \in cooling'[m] <=> j \in cooling[m])
    BY <1>0, <2>0, <2>2, <2>3 DEF FTypeOK
  <2>7. i \notin cooling'[l] /\ probes'[l][i] = 0
    BY <1>0, <2>0, <2>2, <2>3 DEF FTypeOK
  <2>8. ProbeOk(l, i \in cooling'[l], failures'[l][i], probes'[l][i], Cardinality(Stale(call', l, i)))
    BY <2>7 DEF ProbeOk
  <2>9. QED
    BY <2>0, <2>2, <2>5, <2>6, <2>8, ProbeMoves
<1>6. ASSUME NEW c \in Callers, Fail(c) PROVE ProbeInv'
  <2>0. PICK l, i : l \in Models /\ l = call[c].lead /\ i = Head(call[c].order)
    BY CallIs
  <2> DEFINE n == failures[l][i]
             k == [call[c] EXCEPT !.at = "failing", !.tried = call[c].tried \cup {i}, !.count = n]
  <2>1. call[c] \in CallsOf(l) /\ CallSound(call[c]) /\ call[c].at = "trying"
    BY <1>6, <2>0, CallIs DEF Fail
  <2>2. i \in Members(l)
    BY <2>0, <2>1, RangeHead DEF CallsOf, CallSound
  <2>3. call' = [call EXCEPT ![c] = k] /\ UNCHANGED <<failures, cooling, probes>>
    BY <1>0, <1>6, <2>0 DEF Fail, FTypeOK
  <2>4. k.lead = l /\ Head(k.order) = i /\ k.count = failures[l][i]
    BY <2>0, <2>1 DEF CallsOf
  <2> HIDE DEF n, k
  <2>5. ASSUME NEW m \in Models, NEW j \in Members(m), j \in cooling[m] \/ probes[m][j] # 0
        PROVE  Stale(call', m, j) = Stale(call, m, j)
    <3>1. failures[m][j] + 1 >= MaxFailures
      BY <2>5 DEF ProbeInv, ProbeOk
    <3>2. failures[m][j] \in Nat
      BY <1>0 DEF FTypeOK
    <3>3. ~IsStale(k, m, j)
      BY <1>0, <2>4, <3>1, <3>2 DEF IsStale
    <3>4. c \notin Stale(call, m, j)
      BY <2>1 DEF Stale, IsStale
    <3>5. call'[c] = k /\ \A d \in Callers \ {c} : call'[d] = call[d]
      BY <1>0, <2>3 DEF FTypeOK
    <3>6. QED
      BY <3>3, <3>4, <3>5, StaleMoves
  <2>6. QED
    BY <2>3, <2>5, ProbeQuiet
<1>7. ASSUME NEW c \in Callers, Leave(c) PROVE ProbeInv'
  <2> DEFINE k == Ended(call[c], "left")
  <2>1. call' = [call EXCEPT ![c] = k] /\ k.at # "failing" /\ call[c].at # "failing"
    BY <1>7 DEF Leave, Ended, Fresh
  <2> HIDE DEF k
  <2>2. QED
    BY <1>1, <1>7, <2>1 DEF Leave
<1>8. ASSUME NEW c \in Callers, NEW x \in BOOLEAN, NoteFailure(c, x) PROVE ProbeInv'
  <2>0. PICK l, i : l \in Models /\ l = call[c].lead /\ i = Head(call[c].order)
    BY CallIs
  <2> DEFINE rest == Tail(call[c].order)
             opens == Wrapped(l) /\ call[c].count + 1 >= MaxFailures
             n == IF Wrapped(l) THEN Counted(call[c].count) ELSE 0
             p == IF i \in cooling[l] \/ probes[l][i] = 0 THEN probes[l][i] ELSE probes[l][i] + 1
             k == IF ~MayFailOver(c) THEN Ended(call[c], "cut")
                  ELSE IF x \/ ~Wrapped(l) THEN Ended(call[c], "refused")
                  ELSE IF rest = <<>> THEN Ended(call[c], "exhausted")
                  ELSE [call[c] EXCEPT !.at = "trying", !.order = rest, !.count = 0]
  <2>1. /\ l \in Models /\ call[c] \in CallsOf(l) /\ CallSound(call[c]) /\ call[c].at = "failing"
        /\ call[c].count \in 0 .. MaxFailures /\ call[c].lead = l
    BY <1>8, <2>0, CallIs DEF NoteFailure, CallsOf
  <2>2. i \in Members(l)
    BY <2>0, <2>1, RangeHead DEF CallsOf, CallSound
  <2>3. /\ failures' = [failures EXCEPT ![l][i] = n]
        /\ cooling' = IF Wrapped(l) /\ call[c].count + 1 >= MaxFailures THEN [cooling EXCEPT ![l] = cooling[l] \cup {i}] ELSE cooling
    BY <1>8, <2>0 DEF NoteFailure
  <2>4. probes' = [probes EXCEPT ![l][i] = p] /\ call' = [call EXCEPT ![c] = k]
    BY <1>8, <2>0 DEF NoteFailure
  <2>5. k.at # "failing"
    BY <2>1 DEF Ended, Fresh, CallsOf
  <2>6. n = IF Wrapped(l) THEN (IF opens THEN MaxFailures ELSE call[c].count + 1) ELSE 0
    BY DEF Counted
  <2>7. p = IF i \in cooling[l] \/ probes[l][i] = 0 THEN probes[l][i] ELSE probes[l][i] + 1
    OBVIOUS
  <2>8. i = Head(call[c].order) /\ (opens <=> Wrapped(l) /\ call[c].count + 1 >= MaxFailures)
    BY <2>0
  <2> HIDE DEF n, p, k, rest, opens
  <2>9. \A m \in Models : \A j \in Members(m) : ~IsStale(k, m, j)
    BY <2>5 DEF IsStale
  <2>10. ASSUME NEW m \in Models, NEW j \in Members(m), m # l \/ j # i PROVE Stale(call', m, j) = Stale(call, m, j)
    <3>1. c \notin Stale(call, m, j)
      BY <2>1, <2>8, <2>10 DEF Stale, IsStale
    <3>2. call'[c] = k /\ \A d \in Callers \ {c} : call'[d] = call[d]
      BY <1>0, <2>4 DEF FTypeOK
    <3>3. QED
      BY <2>9, <3>1, <3>2, StaleMoves
  <2>11. c \in Stale(call, l, i) <=> call[c].count + 1 < MaxFailures
    BY <2>1, <2>8 DEF Stale, IsStale
  <2> DEFINE s == Cardinality(Stale(call, l, i))
             t == Cardinality(Stale(call', l, i))
             ajar == opens \/ i \in cooling[l]
             was == probes[l][i]
             shut == i \in cooling[l]
  <2>12. ProbeOk(l, shut, failures[l][i], was, s)
    BY <2>1, <2>2 DEF ProbeInv
  <2>13. s \in Nat /\ InFlight \in Nat /\ was \in Nat /\ (c \notin Stale(call, l, i) => s + 1 <= InFlight)
    <3>1. probes[l][i] \in Nat
      BY <1>0, <2>1, <2>2 DEF FTypeOK
    <3>2. QED
      BY <3>1, StaleIs
  <2>14. IF call[c].count + 1 < MaxFailures THEN t = s - 1 ELSE t = s
    <3>0. call'[c] = k /\ \A d \in Callers \ {c} : call'[d] = call[d]
      BY <1>0, <2>4 DEF FTypeOK
    <3>1. ~IsStale(call'[c], l, i)
      BY <2>0, <2>2, <2>9, <3>0
    <3>2. CASE c \in Stale(call, l, i)
      <4>1. Stale(call', l, i) = Stale(call, l, i) \ {c}
        BY <3>0, <3>1, StaleMoves
      <4>2. QED
        BY <2>11, <3>2, <4>1, StaleLess
    <3>3. CASE c \notin Stale(call, l, i)
      <4>1. Stale(call', l, i) = Stale(call, l, i)
        BY <3>0, <3>1, <3>3, StaleMoves
      <4>2. QED
        BY <2>11, <3>3, <4>1
    <3>4. QED
      BY <3>2, <3>3
  <2>15. shut \in BOOLEAN /\ ajar \in BOOLEAN /\ opens \in BOOLEAN /\ Wrapped(l) \in BOOLEAN /\ (ajar <=> opens \/ shut)
    BY DEF opens, Wrapped
  <2>16. p = IF shut \/ was = 0 THEN was ELSE was + 1
    BY <2>7
  <2>17. call[c].count \in Nat
    BY <2>1
  <2>18. c \notin Stale(call, l, i) <=> ~(call[c].count + 1 < MaxFailures)
    BY <2>11
  <2>19. \A m \in Models : \A j \in Members(m) : (m # l \/ j # i) =>
           failures'[m][j] = failures[m][j] /\ probes'[m][j] = probes[m][j] /\ (j \in cooling'[m] <=> j \in cooling[m])
    BY <1>0, <2>0, <2>2, <2>3, <2>4 DEF FTypeOK
  <2> HIDE DEF s, t, ajar, was, shut
  <2>20. ProbeOk(l, ajar, n, p, t)
    <3>1. CASE ~Wrapped(l)
      <4>1. ~ajar /\ p = 0
        BY <2>8, <2>12, <2>15, <2>16, <2>13, <3>1 DEF ProbeOk
      <4>2. QED
        BY <4>1 DEF ProbeOk
    <3>2. CASE Wrapped(l) /\ opens
      <4>1. t = s /\ s + 1 <= InFlight /\ n = MaxFailures /\ ajar
        BY <1>0, <2>6, <2>8, <2>13, <2>14, <2>15, <2>17, <2>18, <3>2
      <4>2. p <= InFlight + 1
        BY <2>12, <2>13, <2>16 DEF ProbeOk
      <4>3. QED
        BY <1>0, <3>2, <4>1, <4>2 DEF ProbeOk
    <3>3. CASE Wrapped(l) /\ ~opens
      <4>1. t = s - 1 /\ n = call[c].count + 1 /\ (ajar <=> shut)
        BY <1>0, <2>6, <2>8, <2>14, <2>15, <2>17, <3>3
      <4>2. n + 1 >= MaxFailures
        BY <1>0, <2>17, <4>1
      <4>3. QED
        BY <2>12, <2>13, <2>15, <2>16, <3>3, <4>1, <4>2 DEF ProbeOk
    <3>4. QED
      BY <2>15, <3>1, <3>2, <3>3
  <2>21. failures'[l][i] = n /\ probes'[l][i] = p
    BY <1>0, <2>0, <2>2, <2>3, <2>4 DEF FTypeOK
  <2>22. i \in cooling'[l] <=> ajar
    BY <1>0, <2>0, <2>2, <2>3, <2>8 DEF FTypeOK, ajar
  <2>23. ProbeOk(l, i \in cooling'[l], failures'[l][i], probes'[l][i], Cardinality(Stale(call', l, i)))
    BY <2>20, <2>21, <2>22 DEF t, ProbeOk
  <2>24. QED
    BY <2>0, <2>2, <2>10, <2>19, <2>23, ProbeMoves
<1>9. ASSUME NEW l \in Models, NEW i \in cooling[l], CoolDown(l, i) PROVE ProbeInv'
  <2>1. i \in Members(l)
    BY <1>0 DEF FTypeOK
  <2>2. \A m \in Models : \A j \in Members(m) : Stale(call', m, j) = Stale(call, m, j)
    BY <1>9 DEF CoolDown, Stale
  <2>3. ProbeOk(l, TRUE, failures[l][i], probes[l][i], Cardinality(Stale(call, l, i)))
    BY <2>1 DEF ProbeInv
  <2>4. Cardinality(Stale(call, l, i)) \in Nat /\ InFlight \in Nat
    BY StaleIs
  <2>5. \A m \in Models : \A j \in Members(m) : (m # l \/ j # i) =>
          failures'[m][j] = failures[m][j] /\ probes'[m][j] = probes[m][j] /\ (j \in cooling'[m] <=> j \in cooling[m])
    BY <1>0, <1>9, <2>1 DEF CoolDown, FTypeOK
  <2>6. i \notin cooling'[l] /\ probes'[l][i] = 1 /\ failures' = failures
    BY <1>0, <1>9, <2>1 DEF CoolDown, FTypeOK
  <2>7. Stale(call', l, i) = Stale(call, l, i)
    BY <2>1, <2>2
  <2>8. ProbeOk(l, i \in cooling'[l], failures'[l][i], probes'[l][i], Cardinality(Stale(call', l, i)))
    BY <1>9, <2>3, <2>4, <2>6, <2>7 DEF ProbeOk
  <2>9. QED
    BY <2>1, <2>2, <2>5, <2>8, ProbeMoves
<1>10. CASE UNCHANGED fvars
  BY <1>10, ProbeQuiet DEF fvars, Stale
<1>11. QED
  BY <1>2, <1>3, <1>4, <1>5, <1>6, <1>7, <1>8, <1>9, <1>10 DEF FNext

\* With the threshold that ships, a dead member costs at most a probe for each call in
\* flight and one more a cooldown, though counts are read and written apart.
THEOREM ProbedOnce == FSpec => []DeadIsProbedOnce
<1>1. CASE MaxFailures <= 2
  <2>1. FInit => ProbeInv
    BY DEF FInit, ProbeInv, ProbeOk
  <2>2. CallInv /\ ProbeInv /\ [FNext]_fvars => ProbeInv'
    BY <1>1, ProbeStep
  <2>3. CallInv /\ ProbeInv => DeadIsProbedOnce
    <3> SUFFICES ASSUME CallInv, ProbeInv, NEW l \in Models, NEW i \in Members(l) PROVE probes[l][i] <= InFlight + 1
      BY DEF DeadIsProbedOnce, InFlight
    <3>1. probes[l][i] \in Nat
      BY DEF CallInv, FTypeOK
    <3>2. Cardinality(Stale(call, l, i)) \in Nat /\ InFlight \in Nat
      BY StaleIs
    <3>3. ProbeOk(l, i \in cooling[l], failures[l][i], probes[l][i], Cardinality(Stale(call, l, i)))
      BY DEF ProbeInv
    <3>4. QED
      BY <3>1, <3>2, <3>3 DEF ProbeOk
  <2>4. QED
    BY <2>1, <2>2, <2>3, FailoverTypeCorrect, PTL DEF FSpec
<1>2. CASE ~(MaxFailures <= 2)
  <2>1. DeadIsProbedOnce
    BY <1>2 DEF DeadIsProbedOnce
  <2>2. QED
    BY <2>1, PTL
<1>3. QED
  BY <1>1, <1>2

-----------------------------------------------------------------------------
(* Retrieval: legs, fusion, rerankers and the gate.                        *)

LEMMA FirstOfIs ==
  ASSUME NEW S, NEW l \in Seq(S), NEW n \in Nat
  PROVE  FirstOf(l, n) \in Seq(S) /\ Range(FirstOf(l, n)) \subseteq Range(l)
<1> DEFINE m == IF Len(l) < n THEN Len(l) ELSE n
           q == SubSeq(l, 1, m)
<1>1. Len(l) \in Nat /\ m \in Nat /\ m <= Len(l)
  OBVIOUS
<1> HIDE DEF m
<1>2. q \in Seq(S) /\ Len(q) = m /\ DOMAIN q = 1 .. m
  BY <1>1
<1>3. \A i \in 1 .. m : q[i] = l[i] /\ i \in DOMAIN l
  BY <1>1
<1>4. Range(q) \subseteq Range(l)
  <2> HIDE DEF q
  <2>1. QED
    BY <1>2, <1>3 DEF Range
<1>5. QED
  BY <1>2, <1>4 DEF FirstOf, m

LEMMA ListsAre == Lists \subseteq Seq(Passages)
<1> SUFFICES ASSUME NEW l \in Lists PROVE l \in Seq(Passages)
  OBVIOUS
<1>1. PICK n \in 0 .. Cardinality(Passages) : l \in [1 .. n -> Passages]
  BY DEF Lists
<1>2. n \in Nat
  OBVIOUS
<1>3. QED
  BY <1>1, <1>2, SeqDef

LEMMA OrdersAre ==
  ASSUME NEW S, NEW l \in Orders(S)
  PROVE  l \in Seq(Passages) /\ Range(l) = S
  BY ListsAre DEF Orders

-----------------------------------------------------------------------------
(* A search is judged by the stamp its own copies carry, and they carry     *)
(* what its reranker put there.                                            *)

\* What is true of one search.
Judged(q) ==
  /\ q.at # "judged" => q.gate = "none"
  /\ q.gate \in {"passed", "refused"} => q.scale = "relevance"
  /\ q.gate = "bypassed" => q.scale # "relevance"

RequestSound(q) ==
  /\ Judged(q)
  /\ q.at = "ranked" => \A p \in Range(q.ranked) : q.own[p] = Calibrated(q.scale)

Within(q) == Range(q.ranked) \subseteq Range(q.fused)

SearchInv == RTypeOK /\ (~SharesMetadata => \A s \in Searchers : RequestSound(search[s]))

LEMMA SearchMoves ==
  ASSUME SearchInv, NEW s \in Searchers, NEW q \in Searches, search' = [search EXCEPT ![s] = q], Within(q),
         ~SharesMetadata => RequestSound(q), stamp' \in [Passages -> BOOLEAN]
  PROVE  SearchInv'
<1>1. \A t \in Searchers : search'[t] = IF t = s THEN q ELSE search[t]
  BY DEF SearchInv, RTypeOK
<1>2. RTypeOK'
  BY <1>1 DEF SearchInv, RTypeOK, Within
<1>3. QED
  BY <1>1, <1>2 DEF SearchInv

LEMMA IdleIs == Idle \in Searches /\ RequestSound(Idle) /\ Within(Idle) /\ Idle.at = "idle" /\ Idle.gate = "none"
<1> DEFINE none == <<>>
           i == [at |-> "idle", lists |-> <<none, none, none>>, fused |-> none, link |-> 1,
                 ranked |-> none, scale |-> "none", own |-> Unstamped, gate |-> "none"]
<1>1. none \in Seq(Passages) /\ Range(none) = {} /\ none = <<>>
  BY DEF Range
<1>2. Idle = i
  BY DEF Idle
<1>3. 1 \in 1 .. Len(Links) + 1 /\ Unstamped \in [Passages -> BOOLEAN]
  BY RetrievalAssumption DEF Unstamped
<1> HIDE DEF none
<1>4. <<none, none, none>> \in Seq(Seq(Passages))
  BY <1>1
<1>5. i \in Searches /\ RequestSound(i) /\ Within(i) /\ i.at = "idle" /\ i.gate = "none"
  BY <1>1, <1>3, <1>4 DEF Searches, RequestSound, Judged, Within
<1>6. QED
  BY <1>2, <1>5

\* A reranker, or the order of retrieval.
LEMMA RankedIs ==
  ASSUME SearchInv, NEW s \in Searchers, search[s].at = "fused", NEW l \in Seq(Passages), Range(l) \subseteq Range(search[s].fused),
         NEW sc \in {"raw", "grade", "relevance"}, Ranked(s, l, sc), stamp' = stamp
  PROVE  SearchInv'
<1> DEFINE first == FirstOf(l, TopK)
           q == search[s]
           lists == [i \in DOMAIN q.lists |-> IF i = 1 THEN q.lists[i] ELSE <<>>]
           r == [q EXCEPT !.at = "stamping", !.ranked = first, !.scale = sc, !.lists = lists]
<1>1. search \in [Searchers -> Searches] /\ q \in Searches
  BY DEF SearchInv, RTypeOK
<1>2. search' = [search EXCEPT ![s] = r]
  BY <1>1 DEF Ranked
<1>3. first \in Seq(Passages) /\ Range(first) \subseteq Range(q.fused)
  BY RetrievalAssumption, FirstOfIs
<1>4. lists \in Seq(Seq(Passages))
  <2>1. q.lists \in Seq(Seq(Passages))
    BY <1>1 DEF Searches
  <2>2. DOMAIN q.lists = 1 .. Len(q.lists) /\ Len(q.lists) \in Nat /\ \A i \in DOMAIN q.lists : q.lists[i] \in Seq(Passages)
    BY <2>1
  <2>3. \A i \in DOMAIN q.lists : (IF i = 1 THEN q.lists[i] ELSE <<>>) \in Seq(Passages)
    BY <2>2
  <2>4. lists \in [1 .. Len(q.lists) -> Seq(Passages)]
    BY <2>2, <2>3
  <2>5. QED
    BY <2>2, <2>4, SeqDef
<1> HIDE DEF first, lists
<1>5. r \in Searches /\ Within(r)
  BY <1>1, <1>3, <1>4 DEF Searches, Within
<1>6. ~SharesMetadata => RequestSound(r)
  <2>1. ~SharesMetadata => q.gate = "none"
    BY DEF SearchInv, RequestSound, Judged
  <2>2. r.gate = q.gate /\ r.at = "stamping"
    BY <1>1 DEF Searches
  <2>3. QED
    BY <2>1, <2>2 DEF RequestSound, Judged
<1> HIDE DEF r
<1>7. QED
  BY <1>2, <1>5, <1>6, SearchMoves DEF SearchInv, RTypeOK

LEMMA RetrievalInit == RInit => SearchInv
<1> SUFFICES ASSUME RInit PROVE SearchInv
  OBVIOUS
<1>1. stamp \in [Passages -> BOOLEAN] /\ search = [s \in Searchers |-> Idle]
  BY DEF RInit, Unstamped
<1>2. QED
  BY <1>1, IdleIs DEF SearchInv, RTypeOK, Within

LEMMA SearchStep ==
  ASSUME SearchInv, [RNext]_rvars
  PROVE  SearchInv'
<1>0. RTypeOK /\ \A s \in Searchers : search[s] \in Searches /\ search[s].fused \in Seq(Passages) /\ search[s].ranked \in Seq(Passages) /\ Within(search[s])
  BY DEF SearchInv, RTypeOK, Searches, Within
<1>1. ASSUME NEW s \in Searchers, NEW a \in Lists, NEW b \in Lists, NEW c \in Lists, Search(s, <<a, b, c>>) PROVE SearchInv'
  <2> DEFINE lists == <<a, b, c>>
  <2>1. lists \in Seq(Seq(Passages)) /\ lists \in Lists \X Lists \X Lists
    BY ListsAre
  <2>2. PICK l \in Fusions[lists] :
          search' = [search EXCEPT ![s] = [Idle EXCEPT !.at = "fused", !.lists = lists, !.fused = FirstOf(l, CandidateK)]]
    BY <1>1 DEF Search
  <2> HIDE DEF lists
  <2>3. l \in Seq(Passages)
    BY <2>1, <2>2, OrdersAre DEF Fusions
  <2> DEFINE first == FirstOf(l, CandidateK)
             r == [Idle EXCEPT !.at = "fused", !.lists = lists, !.fused = first]
  <2>4. first \in Seq(Passages)
    BY <2>3, RetrievalAssumption, FirstOfIs
  <2> HIDE DEF first
  <2>5. Range(Idle.ranked) = {} /\ Idle \in Searches /\ Idle.gate = "none"
    BY IdleIs DEF Idle, Range
  <2>6. r \in Searches
    BY <2>1, <2>4, <2>5 DEF Searches
  <2>7. r.ranked = Idle.ranked /\ r.gate = "none" /\ r.at = "fused"
    BY <2>5 DEF Searches
  <2>8. RequestSound(r) /\ Within(r)
    BY <2>5, <2>7 DEF RequestSound, Judged, Within
  <2>9. search' = [search EXCEPT ![s] = r] /\ stamp' = stamp
    BY <1>1, <2>2 DEF first, Search
  <2> HIDE DEF r
  <2>10. QED
    BY <1>0, <2>6, <2>8, <2>9, SearchMoves DEF RTypeOK
<1>2. ASSUME NEW s \in Searchers, SearchFails(s) PROVE SearchInv'
  <2> DEFINE r == [Idle EXCEPT !.at = "failed"]
  <2>1. Range(Idle.ranked) = {} /\ Idle \in Searches /\ Idle.gate = "none"
    BY IdleIs DEF Idle, Range
  <2>2. r \in Searches
    BY <2>1 DEF Searches
  <2>3. r.ranked = Idle.ranked /\ r.gate = "none" /\ r.at = "failed"
    BY <2>1 DEF Searches
  <2>4. RequestSound(r) /\ Within(r)
    BY <2>1, <2>3 DEF RequestSound, Judged, Within
  <2>5. search' = [search EXCEPT ![s] = r] /\ stamp' = stamp
    BY <1>2 DEF SearchFails
  <2> HIDE DEF r
  <2>6. QED
    BY <1>0, <2>2, <2>4, <2>5, SearchMoves DEF RTypeOK
<1>3. ASSUME NEW s \in Searchers, RerankApi(s) PROVE SearchInv'
  <2>1. PICK l \in Orders(Range(search[s].fused)) : Ranked(s, l, "relevance")
    BY <1>3 DEF RerankApi
  <2>2. search[s].at = "fused" /\ stamp' = stamp
    BY <1>3 DEF RerankApi
  <2>3. QED
    BY <2>1, <2>2, OrdersAre, RankedIs
<1>4. ASSUME NEW s \in Searchers, RerankLlm(s) PROVE SearchInv'
  <2>0. PICK graded \in SUBSET Range(search[s].fused) :
          \E l \in Orders(graded) : Ranked(s, l \o Keep(search[s].fused, Passages \ graded), "grade")
    BY <1>4 DEF RerankLlm
  <2>1. PICK l \in Orders(graded) :
          Ranked(s, l \o Keep(search[s].fused, Passages \ graded), "grade")
    BY <2>0
  <2>2. search[s].at = "fused" /\ stamp' = stamp
    BY <1>4 DEF RerankLlm
  <2> DEFINE left == Passages \ graded
             rest == Keep(search[s].fused, left)
             q == l \o rest
  <2>3. rest \in Seq(Passages) /\ Range(rest) \subseteq Range(search[s].fused)
    <3> HIDE DEF left
    <3>1. QED
      BY <1>0, KeepRange
  <2>4. l \in Seq(Passages) /\ Range(l) = graded
    BY <2>1, OrdersAre
  <2> HIDE DEF rest
  <2>5. q \in Seq(Passages) /\ Range(q) = Range(l) \cup Range(rest)
    BY <2>3, <2>4, RangeConcatenation
  <2>6. Ranked(s, q, "grade")
    BY <2>1 DEF rest
  <2> HIDE DEF q
  <2>7. QED
    BY <2>1, <2>2, <2>3, <2>4, <2>5, <2>6, RankedIs
<1>5. ASSUME NEW s \in Searchers, LinkFails(s) PROVE SearchInv'
  <2> DEFINE n == search[s].link + 1
             r == [search[s] EXCEPT !.link = n]
  <2>1. search[s] \in Searches /\ search[s].link \in 1 .. Len(Links) + 1 /\ search[s].link <= Len(Links) /\ Len(Links) \in Nat
    BY <1>0, <1>5, RetrievalAssumption DEF LinkFails, Searches
  <2>2. n \in 1 .. Len(Links) + 1
    BY <2>1
  <2> HIDE DEF n
  <2>3. r \in Searches /\ r.ranked = search[s].ranked /\ r.fused = search[s].fused /\ r.gate = search[s].gate /\ r.at = search[s].at
        /\ r.scale = search[s].scale /\ r.own = search[s].own
    BY <2>1, <2>2 DEF Searches
  <2>4. Within(r) /\ (~SharesMetadata => RequestSound(r))
    BY <1>0, <2>3 DEF Within, RequestSound, Judged, SearchInv
  <2>5. search' = [search EXCEPT ![s] = r] /\ stamp' = stamp
    BY <1>0, <1>5 DEF LinkFails, n, RTypeOK
  <2> HIDE DEF r
  <2>6. QED
    BY <1>0, <2>3, <2>4, <2>5, SearchMoves DEF RTypeOK
<1>6. ASSUME NEW s \in Searchers, RetrievalOrder(s) PROVE SearchInv'
  BY <1>0, <1>6, RankedIs DEF RetrievalOrder
<1>7. ASSUME NEW s \in Searchers, Stamp(s) PROVE SearchInv'
  <2> DEFINE q == search[s]
             mark == Calibrated(q.scale)
             mine == [p \in Passages |-> IF p \in Range(q.ranked) /\ IsShared(q, p) = FALSE THEN mark ELSE q.own[p]]
             r == [q EXCEPT !.at = "ranked", !.own = mine]
  <2>1. search' = [search EXCEPT ![s] = r] /\ q.at = "stamping"
        /\ stamp' = [p \in Passages |-> IF p \in Range(q.ranked) /\ IsShared(q, p) = TRUE THEN mark ELSE stamp[p]]
    BY <1>0, <1>7 DEF Stamp, RTypeOK
  <2>2. mark \in BOOLEAN /\ q \in Searches /\ q.own \in [Passages -> BOOLEAN] /\ stamp \in [Passages -> BOOLEAN] /\ q.ranked \in Seq(Passages)
    BY <1>0 DEF Calibrated, RTypeOK, Searches
  <2>3. stamp' \in [Passages -> BOOLEAN] /\ mine \in [Passages -> BOOLEAN]
    <3> HIDE DEF mark
    <3>1. QED
      BY <2>1, <2>2
  <2>4. ~SharesMetadata => \A p \in Range(q.ranked) : mine[p] = mark
    <3>1. \A p \in Range(q.ranked) : p \in Passages
      BY <2>2 DEF Range
    <3>2. ~SharesMetadata => \A p : IsShared(q, p) = FALSE
      BY DEF IsShared
    <3> HIDE DEF mark
    <3>3. QED
      BY <3>1, <3>2
  <2> HIDE DEF mine
  <2>5. r \in Searches /\ r.ranked = q.ranked /\ r.fused = q.fused /\ r.gate = q.gate /\ r.at = "ranked" /\ r.scale = q.scale /\ r.own = mine
    BY <2>2, <2>3 DEF Searches
  <2>6. Within(r) /\ (~SharesMetadata => RequestSound(r))
    BY <1>0, <2>1, <2>4, <2>5 DEF Within, RequestSound, Judged, SearchInv
  <2> HIDE DEF r
  <2>7. QED
    BY <2>1, <2>3, <2>5, <2>6, SearchMoves
<1>8. ASSUME NEW s \in Searchers, NEW clears \in BOOLEAN, Judge(s, clears) PROVE SearchInv'
  <2> DEFINE q == search[s]
             h == Head(q.ranked)
             applies == IF IsShared(q, h) THEN stamp[h] ELSE q.own[h]
             g == IF q.ranked = <<>> THEN "empty" ELSE IF ~applies THEN "bypassed" ELSE IF clears THEN "passed" ELSE "refused"
             r == [Idle EXCEPT !.at = "judged", !.scale = q.scale, !.gate = g]
  <2>1. search' = [search EXCEPT ![s] = r] /\ q.at = "ranked" /\ stamp' = stamp
    BY <1>8 DEF Judge
  <2>2. q \in Searches /\ q.ranked \in Seq(Passages) /\ q.scale \in {"none", "raw", "grade", "relevance"}
    BY <1>0 DEF Searches
  <2>3. ~SharesMetadata => /\ g \in {"passed", "refused"} => q.scale = "relevance"
                           /\ g = "bypassed" => q.scale # "relevance"
    <3>1. SUFFICES ASSUME ~SharesMetadata, q.ranked # <<>> PROVE applies = (q.scale = "relevance")
      OBVIOUS
    <3>2. h \in Range(q.ranked)
      BY <2>2, <3>1, RangeHead
    <3>3. ~IsShared(q, h)
      BY <3>1 DEF IsShared
    <3>4. q.own[h] = Calibrated(q.scale)
      BY <2>1, <3>1, <3>2 DEF SearchInv, RequestSound
    <3>5. QED
      BY <3>3, <3>4 DEF Calibrated
  <2>4. g \in {"none", "empty", "bypassed", "passed", "refused"}
    OBVIOUS
  <2> HIDE DEF g
  <2>5. Range(Idle.ranked) = {} /\ Idle \in Searches
    BY IdleIs DEF Idle, Range
  <2>6. r \in Searches /\ r.ranked = Idle.ranked /\ r.gate = g /\ r.scale = q.scale /\ r.at = "judged"
    BY <2>2, <2>4, <2>5 DEF Searches
  <2>7. Within(r) /\ (~SharesMetadata => RequestSound(r))
    BY <2>3, <2>5, <2>6 DEF Within, RequestSound, Judged
  <2> HIDE DEF r
  <2>8. QED
    BY <1>0, <2>1, <2>6, <2>7, SearchMoves DEF RTypeOK
<1>9. CASE UNCHANGED rvars
  BY <1>9 DEF rvars, SearchInv, RTypeOK
<1>10. QED
  BY <1>1, <1>2, <1>3, <1>4, <1>5, <1>6, <1>7, <1>8, <1>9 DEF RNext

\* Searches, their ranked lists and the stamps have their types, with any store and
\* any chain of rerankers.
THEOREM RetrievalTypeCorrect == RSpec => []RTypeOK
<1>1. SearchInv => RTypeOK
  BY DEF SearchInv
<1>2. QED
  BY <1>1, RetrievalInit, SearchStep, PTL DEF RSpec

\* Where each search has its own copies of the passages, the gate refuses or passes a
\* question only by a score of relevance, and bypasses it only when there is none.
THEOREM GateHolds == ~SharesMetadata => (RSpec => []GateJudgesRelevance)
<1> SUFFICES ASSUME ~SharesMetadata PROVE RSpec => []GateJudgesRelevance
  OBVIOUS
<1>1. SearchInv => GateJudgesRelevance
  BY DEF SearchInv, GateJudgesRelevance, RequestSound, Judged
<1>2. QED
  BY <1>1, RetrievalInit, SearchStep, PTL DEF RSpec

-----------------------------------------------------------------------------
(* The trace store, its streams and what an account may see.               *)

(* drain() stops somewhere: before the first step that still runs, or at    *)
(* the end.                                                                *)

StopsAt(fresh, n) == (\A i \in 1 .. n : fresh[i] # "running") /\ (n < Len(fresh) => fresh[n + 1] = "running")

LEMMA SettledIs ==
  ASSUME NEW S, NEW fresh \in Seq(S)
  PROVE  Settled(fresh) \in 0 .. Len(fresh) /\ StopsAt(fresh, Settled(fresh))
<1> DEFINE P == {n \in Nat : n <= Len(fresh) =>
                   (\A i \in 1 .. n : fresh[i] # "running") \/ \E k \in 0 .. Len(fresh) : StopsAt(fresh, k)}
<1>1. Len(fresh) \in Nat
  OBVIOUS
<1>2. 0 \in P
  OBVIOUS
<1>3. ASSUME NEW n \in Nat, n \in P PROVE n + 1 \in P
  <2>1. SUFFICES ASSUME n + 1 <= Len(fresh), ~\E k \in 0 .. Len(fresh) : StopsAt(fresh, k)
                 PROVE  \A i \in 1 .. n + 1 : fresh[i] # "running"
    OBVIOUS
  <2>2. n \in 0 .. Len(fresh) /\ n < Len(fresh)
    BY <1>1, <2>1
  <2>3. \A i \in 1 .. n : fresh[i] # "running"
    BY <1>3, <2>1, <2>2
  <2>4. fresh[n + 1] # "running"
    BY <2>1, <2>2, <2>3 DEF StopsAt
  <2>5. \A i \in 1 .. n + 1 : i \in 1 .. n \/ i = n + 1
    OBVIOUS
  <2>6. QED
    BY <2>3, <2>4, <2>5
<1>4. Nat \subseteq P
  <2> HIDE DEF P
  <2>1. QED
    BY <1>2, <1>3, SetInduction
<1>5. \E k \in 0 .. Len(fresh) : StopsAt(fresh, k)
  <2>1. Len(fresh) \in P
    BY <1>1, <1>4
  <2>2. (\A i \in 1 .. Len(fresh) : fresh[i] # "running") => StopsAt(fresh, Len(fresh))
    BY <1>1 DEF StopsAt
  <2>3. QED
    BY <1>1, <2>1, <2>2
<1>6. QED
  BY <1>5 DEF Settled, StopsAt

-----------------------------------------------------------------------------
(* The store.                                                              *)

Records == [trace : Traces, owned : BOOLEAN]

LEMMA SaveIs ==
  ASSUME TTypeOK, NEW r \in Traces, NEW reached \in BOOLEAN, SaveHere(r, reached)
  PROVE  memory' \in Seq(Records) /\ Len(memory') <= MemMax /\ kept' \subseteq Traces
<1> DEFINE S == {x \in Range(memory) : x.trace # r}
           left == Keep(memory, S)
           rec == Record(r)
           mem == Append(left, rec)
<1>1. memory \in Seq(Records) /\ MemMax \in Nat
  BY TracingAssumption DEF TTypeOK, Records
<1>2. left \in Seq(Records)
  <2> HIDE DEF S
  <2>1. QED
    BY <1>1, KeepRange
<1>3. rec \in Records
  BY DEF Record, Records
<1>4. mem \in Seq(Records)
  <2> HIDE DEF left, rec
  <2>1. QED
    BY <1>2, <1>3
<1>5. memory' = SubSeq(mem, 1 + (IF Len(mem) > MemMax THEN Len(mem) - MemMax ELSE 0), Len(mem))
  BY DEF SaveHere, Without
<1> HIDE DEF mem
<1>6. memory' \in Seq(Records) /\ Len(memory') <= MemMax
  BY <1>1, <1>4, <1>5, RangeLatest
<1>7. kept' \subseteq Traces
  BY DEF SaveHere, TTypeOK
<1>8. QED
  BY <1>6, <1>7

-----------------------------------------------------------------------------
(* The stream.  A step that runs is the one some thread is in, so that none *)
(* runs once a run is over that did not fail; the steps the run ended with  *)
(* keep their ends; and the client was told of each step before the cursor, *)
(* or is about to be, in the status it ended with.                         *)

StepsHeld ==
  /\ \A i \in DOMAIN steps : steps[i] = "running" => \E t \in Threads : open[t] = i
  /\ \A t \in Threads : open[t] # 0 => open[t] \in DOMAIN steps /\ steps[open[t]] \in {"running", "skipped"}
  /\ \A t, u \in Threads : open[t] # 0 /\ open[t] = open[u] => t = u
  /\ task \in {"ok", "blocked"} => \A t \in Threads : open[t] = 0
  /\ task = "cancelled" => stream.at = "left"

BeforeHeld ==
  /\ Len(before) <= Len(steps)
  /\ \A i \in DOMAIN before : before[i] # "running" => steps[i] = before[i]

RunEnded == {"ok", "blocked", "failed"}
Closing == {"last", "done", "cut"}

ToldHeld ==
  /\ stream.at # "left" => \A i \in 1 .. cursor :
       steps[i] # "running" /\ (i \in Range(stream.left) \/ (i \in DOMAIN told /\ told[i] = steps[i]))
  /\ stream.at \notin {"sending", "last"} => stream.left = <<>>
  /\ stream.left # <<>> => /\ Head(stream.left) <= Len(told) + 1
                           /\ \A k \in DOMAIN stream.left : stream.left[k] = Head(stream.left) + k - 1
  /\ stream.at \in Closing => task \in RunEnded /\ (task # "failed" => cursor = Len(steps))

ToldTrue ==
  /\ \A i \in DOMAIN told : told[i] \in {"running", steps[i]}
  /\ stream.at \in Closing => \A i \in DOMAIN before :
       i \in Range(stream.left) \/ (i \in DOMAIN told /\ (before[i] # "running" => told[i] = before[i]))

StreamInv == TTypeOK /\ StepsHeld /\ BeforeHeld /\ ToldHeld /\ ToldTrue

LEMMA BoundsAre ==
  ASSUME TTypeOK
  PROVE  /\ Len(steps) \in Nat /\ DOMAIN steps = 1 .. Len(steps) /\ cursor \in Nat /\ cursor <= Len(steps)
         /\ Len(told) \in Nat /\ Len(told) <= Len(steps) /\ \A i \in 1 .. cursor : i \in DOMAIN steps
         /\ DOMAIN told = 1 .. Len(told) /\ Len(before) \in Nat /\ DOMAIN before = 1 .. Len(before)
         /\ \A n \in Nat : Len(steps) <= n => Len(told) <= n /\ cursor \in 0 .. n /\ DOMAIN steps \subseteq 1 .. n
<1>1. steps \in Seq(Statuses) /\ told \in Seq(Statuses) /\ before \in Seq(Statuses) /\ cursor \in 0 .. Len(steps) /\ Len(told) <= Len(steps)
  BY DEF TTypeOK
<1>2. QED
  BY <1>1

\* The steps, the threads and the run move; the cursor and the client do not.
LEMMA RecorderMoves ==
  ASSUME StreamInv, UNCHANGED <<cursor, stream, told, store>>,
         steps' \in Seq(Statuses), Len(steps) <= Len(steps'), Len(steps') <= MaxSteps + 1,
         \A i \in DOMAIN steps : steps[i] # "running" => steps'[i] = steps[i],
         open' \in [Threads -> 0 .. MaxSteps], task' \in RunEnded \cup {"running", "cancelled"},
         task \in RunEnded => task' = task, task \in {"ok", "blocked"} => Len(steps') = Len(steps),
         before' = before \/ (task = "running" /\ before' = steps /\ steps' = steps),
         StepsHeld'
  PROVE  StreamInv'
<1>0. TTypeOK
  BY DEF StreamInv
<1>1. Len(steps') \in Nat /\ DOMAIN steps' = 1 .. Len(steps')
  OBVIOUS
<1>2. DOMAIN steps \subseteq DOMAIN steps' /\ cursor \in 0 .. Len(steps') /\ Len(told) <= Len(steps')
  BY <1>0, <1>1, BoundsAre
<1>3. stream.left \in Seq(DOMAIN steps)
  BY DEF StreamInv, TTypeOK
<1>4. stream.left \in Seq(DOMAIN steps')
  BY <1>2, <1>3
<1>5. TTypeOK'
  <2>1. stream \in [at : {"asleep", "sending", "last", "done", "cut", "left"}, left : Seq(DOMAIN steps')]
    BY <1>4 DEF StreamInv, TTypeOK
  <2>3. memory' = memory /\ kept' = kept /\ served' = served
    BY DEF store
  <2>2. before' \in Seq(Statuses)
    BY <1>0 DEF TTypeOK
  <2>4. QED
    BY <1>2, <2>1, <2>2, <2>3 DEF StreamInv, TTypeOK, RunEnded
<1>8. BeforeHeld'
  <2>1. CASE before' = before
    <3>1. DOMAIN before \subseteq DOMAIN steps /\ Len(before) <= Len(steps')
      <4>1. Len(before) <= Len(steps)
        BY DEF StreamInv, BeforeHeld
      <4>2. /\ Len(steps) \in Nat /\ Len(before) \in Nat /\ DOMAIN steps = 1 .. Len(steps)
            /\ DOMAIN before = 1 .. Len(before)
        BY <1>0, BoundsAre
      <4>3. \A a, b, d \in Nat : a <= b /\ b <= d => a <= d /\ 1 .. a \subseteq 1 .. b
        OBVIOUS
      <4>4. Len(steps) <= Len(steps')
        OBVIOUS
      <4>5. QED
        BY <1>1, <4>1, <4>2, <4>3, <4>4
    <3>2. QED
      BY <2>1, <3>1 DEF StreamInv, BeforeHeld
  <2>2. CASE task = "running" /\ before' = steps /\ steps' = steps
    BY <1>1, <2>2 DEF BeforeHeld
  <2>3. QED
    BY <2>1, <2>2
<1>9. ToldTrue'
  <2>1. ASSUME NEW i \in DOMAIN told PROVE told[i] \in {"running", steps'[i]}
    <3>1. i \in DOMAIN steps /\ told[i] \in {"running", steps[i]}
      BY <1>0, BoundsAre DEF StreamInv, ToldTrue
    <3>2. QED
      BY <3>1
  <2>2. stream.at \in Closing => before' = before
    BY DEF StreamInv, ToldHeld, RunEnded
  <2>3. QED
    BY <2>1, <2>2 DEF StreamInv, ToldTrue
<1>6. ToldHeld'
  <2>1. \A i \in 1 .. cursor : i \in DOMAIN steps
    BY <1>0, BoundsAre
  <2>2. \A i \in 1 .. cursor : steps[i] # "running" => steps'[i] = steps[i]
    BY <2>1
  <2>3. QED
    BY <2>2 DEF StreamInv, ToldHeld, RunEnded
<1>7. QED
  BY <1>5, <1>6, <1>8, <1>9 DEF StreamInv

LEMMA RecorderStep ==
  ASSUME StreamInv, NEW t \in Threads,
         BeginStep(t) \/ SkipStep(t) \/ \E e \in {"ok", "error"} : FinishStep(t, e)
  PROVE  StreamInv'
<1>0. /\ TTypeOK /\ StepsHeld /\ MaxSteps \in Nat /\ Len(steps) \in Nat /\ DOMAIN steps = 1 .. Len(steps) /\ steps \in Seq(Statuses)
      /\ open \in [Threads -> 0 .. MaxSteps]
  BY TracingAssumption DEF StreamInv, TTypeOK
<1>1. ASSUME NEW s \in Statuses, open[t] # 0, s # "running", steps' = [steps EXCEPT ![open[t]] = s],
             steps[open[t]] = "running" \/ s = steps[open[t]],
             open' = [open EXCEPT ![t] = 0] \/ (s = "skipped" /\ open' = open),
             UNCHANGED <<task, before, cursor, stream, told, store>>
      PROVE  StreamInv'
  <2> DEFINE i == open[t]
  <2>1. i \in DOMAIN steps /\ task \notin {"ok", "blocked"}
    BY <1>0, <1>1 DEF StepsHeld
  <2>2. steps' \in Seq(Statuses) /\ Len(steps') = Len(steps) /\ DOMAIN steps' = DOMAIN steps /\ steps'[i] = s
        /\ \A j \in DOMAIN steps \ {i} : steps'[j] = steps[j]
    BY <1>0, <1>1, <2>1
  <2>3. /\ open' \in [Threads -> 0 .. MaxSteps] /\ \A u \in Threads \ {t} : open'[u] = open[u]
        /\ open'[t] = 0 \/ (open'[t] = i /\ s = "skipped")
    BY <1>0, <1>1
  <2>4. StepsHeld'
    <3>1. \A j \in DOMAIN steps' : steps'[j] = "running" => \E u \in Threads : open'[u] = j
      BY <1>0, <1>1, <2>2, <2>3 DEF StepsHeld
    <3>2. ASSUME NEW u \in Threads, open'[u] # 0 PROVE open'[u] \in DOMAIN steps' /\ steps'[open'[u]] \in {"running", "skipped"}
      <4>1. open'[u] = open[u] /\ open[u] \in DOMAIN steps /\ steps[open[u]] \in {"running", "skipped"}
        BY <1>0, <2>3, <3>2 DEF StepsHeld
      <4>2. CASE open[u] # i
        BY <2>2, <4>1, <4>2
      <4>3. CASE open[u] = i
        <5>1. u = t
          BY <1>0, <1>1, <4>3 DEF StepsHeld
        <5>2. QED
          BY <2>2, <2>3, <3>2, <4>1, <5>1
      <4>4. QED
        BY <4>2, <4>3
    <3>3. QED
      BY <1>0, <1>1, <2>1, <2>3, <3>1, <3>2 DEF StepsHeld
  <2>5. \A j \in DOMAIN steps : steps[j] # "running" => steps'[j] = steps[j]
    BY <1>1, <2>1, <2>2
  <2> HIDE DEF i
  <2>6. QED
    BY <1>0, <1>1, <2>1, <2>2, <2>3, <2>4, <2>5, RecorderMoves DEF TTypeOK, RunEnded
<1>2. CASE SkipStep(t)
  BY <1>1, <1>2 DEF SkipStep, Statuses
<1>3. ASSUME NEW e \in {"ok", "error"}, FinishStep(t, e) PROVE StreamInv'
  <2> DEFINE s == IF steps[open[t]] = "running" THEN e ELSE steps[open[t]]
  <2>1. open[t] # 0 /\ steps' = [steps EXCEPT ![open[t]] = s] /\ open' = [open EXCEPT ![t] = 0]
        /\ UNCHANGED <<task, before, cursor, stream, told, store>>
    BY <1>3 DEF FinishStep
  <2>2. s \in Statuses /\ s # "running" /\ (steps[open[t]] = "running" \/ s = steps[open[t]])
    BY <1>0, <2>1 DEF StepsHeld, Statuses
  <2> HIDE DEF s
  <2>3. QED
    BY <1>1, <2>1, <2>2
<1>4. CASE BeginStep(t)
  <2>1. CASE Len(steps) < MaxSteps
    <3> DEFINE n == Len(steps) + 1
    <3>1. task \notin {"ok", "blocked"} /\ open[t] = 0 /\ steps' = Append(steps, "running") /\ open' = [open EXCEPT ![t] = n]
          /\ UNCHANGED <<task, before, cursor, stream, told, store>>
      BY <1>4, <2>1 DEF BeginStep
    <3>2. "running" \in Statuses
      BY DEF Statuses
    <3>3. steps' \in Seq(Statuses) /\ Len(steps') = n /\ DOMAIN steps' = DOMAIN steps \cup {n} /\ n \notin DOMAIN steps
          /\ steps'[n] = "running" /\ \A i \in DOMAIN steps : steps'[i] = steps[i]
      BY <1>0, <3>1, <3>2
    <3>4. n \in 0 .. MaxSteps /\ open' \in [Threads -> 0 .. MaxSteps] /\ open'[t] = n /\ \A u \in Threads \ {t} : open'[u] = open[u]
      BY <1>0, <2>1, <3>1
    <3>5. StepsHeld'
      BY <1>0, <3>1, <3>3, <3>4 DEF StepsHeld
    <3>6. Len(steps) <= Len(steps') /\ Len(steps') <= MaxSteps + 1
      BY <1>0, <2>1, <3>3
    <3>7. QED
      BY <3>1, <3>3, <3>4, <3>5, <3>6, RecorderMoves DEF StreamInv, TTypeOK, RunEnded
  <2>2. CASE ~(Len(steps) < MaxSteps)
    <3> DEFINE n == Len(steps) + 1
    <3>1. task \notin {"ok", "blocked"} /\ Len(steps) = MaxSteps /\ steps' = Append(steps, "ok") /\ open' = open
          /\ UNCHANGED <<task, before, cursor, stream, told, store>>
      BY <1>4, <2>2 DEF BeginStep
    <3>2. "ok" \in Statuses
      BY DEF Statuses
    <3>3. steps' \in Seq(Statuses) /\ Len(steps') = n /\ DOMAIN steps' = DOMAIN steps \cup {n} /\ n \notin DOMAIN steps
          /\ steps'[n] = "ok" /\ \A i \in DOMAIN steps : steps'[i] = steps[i]
      BY <1>0, <3>1, <3>2
    <3>5. StepsHeld'
      BY <1>0, <3>1, <3>3 DEF StepsHeld
    <3>6. Len(steps) <= Len(steps') /\ Len(steps') <= MaxSteps + 1
      BY <1>0, <3>1, <3>3
    <3>7. QED
      BY <1>0, <3>1, <3>3, <3>5, <3>6, RecorderMoves DEF StreamInv, TTypeOK, RunEnded
  <2>3. QED
    BY <2>1, <2>2
<1>5. QED
  BY <1>2, <1>3, <1>4

LEMMA RunEndsStep ==
  ASSUME StreamInv, NEW o \in RunEnded, RunEnds(o)
  PROVE  StreamInv'
<1>1. /\ TTypeOK /\ StepsHeld /\ Len(steps) \in Nat /\ steps \in Seq(Statuses) /\ Len(steps) <= MaxSteps + 1
      /\ open \in [Threads -> 0 .. MaxSteps]
  BY DEF StreamInv, TTypeOK
<1>2. StepsHeld'
  BY <1>1 DEF RunEnds, StepsHeld, RunEnded
<1>3. QED
  BY <1>1, <1>2, RecorderMoves DEF RunEnds, RunEnded

LEMMA TickStep ==
  ASSUME StreamInv, Tick
  PROVE  StreamInv'
<1> DEFINE fresh == SubSeq(steps, cursor + 1, Len(steps))
           n == Settled(fresh)
           left == [i \in DOMAIN fresh |-> cursor + i]
           at == IF task = "running" THEN "sending" ELSE "last"
<1>0. TTypeOK /\ StepsHeld /\ BeforeHeld /\ ToldHeld /\ ToldTrue /\ steps \in Seq(Statuses)
  BY DEF StreamInv, TTypeOK
<1>1. Len(steps) \in Nat /\ DOMAIN steps = 1 .. Len(steps) /\ cursor \in Nat /\ cursor <= Len(steps)
  BY <1>0, BoundsAre
<1>2. /\ fresh \in Seq(Statuses) /\ Len(fresh) = Len(steps) - cursor /\ DOMAIN fresh = 1 .. Len(fresh)
      /\ \A i \in 1 .. Len(fresh) : fresh[i] = steps[cursor + i] /\ cursor + i \in DOMAIN steps
  BY <1>0, <1>1
<1>3. cursor' = cursor + n /\ stream' = [at |-> at, left |-> left] /\ UNCHANGED <<steps, open, task, before, told, memory, kept, served>>
  BY DEF Tick, store
<1> HIDE DEF fresh
<1>4. n \in 0 .. Len(fresh) /\ (\A i \in 1 .. n : fresh[i] # "running") /\ (n < Len(fresh) => fresh[n + 1] = "running")
  BY <1>2, SettledIs DEF StopsAt
<1> HIDE DEF n
<1>5. Len(fresh) \in Nat /\ n \in Nat /\ n <= Len(fresh) /\ cursor + n \in 0 .. Len(steps)
  BY <1>1, <1>2, <1>4
<1>6. left \in Seq(DOMAIN steps) /\ Len(left) = Len(fresh) /\ DOMAIN left = 1 .. Len(fresh) /\ \A i \in 1 .. Len(fresh) : left[i] = cursor + i
  BY <1>1, <1>2, <1>5
<1>7. at \in {"sending", "last"} /\ (at = "last" => task \in RunEnded /\ (task # "failed" => n = Len(fresh)))
  <2>1. task # "cancelled"
    BY <1>0 DEF Tick, StepsHeld
  <2>2. task \in {"ok", "blocked"} => \A i \in 1 .. Len(fresh) : fresh[i] # "running"
    <3>1. SUFFICES ASSUME task \in {"ok", "blocked"} PROVE \A i \in DOMAIN steps : steps[i] # "running"
      BY <1>2
    <3>2. \A t \in Threads : open[t] = 0
      BY <1>0, <3>1 DEF StepsHeld
    <3>3. \A i \in DOMAIN steps : i # 0
      BY <1>1
    <3>4. QED
      BY <1>0, <3>2, <3>3 DEF StepsHeld
  <2>3. task \in {"ok", "blocked"} => n = Len(fresh)
    <3>1. n < Len(fresh) => n + 1 \in 1 .. Len(fresh)
      BY <1>5
    <3>2. QED
      BY <1>4, <1>5, <2>2, <3>1
  <2>4. QED
    BY <1>0, <2>1, <2>3 DEF TTypeOK, RunEnded
<1> HIDE DEF left, at
<1>8. TTypeOK'
  BY <1>0, <1>3, <1>5, <1>6, <1>7 DEF TTypeOK
<1>9. StepsHeld'
  <2>1. task # "cancelled"
    BY <1>0 DEF Tick, StepsHeld
  <2>2. QED
    BY <1>0, <1>3, <2>1 DEF StepsHeld
<1>10. ASSUME NEW i \in 1 .. cursor + n
       PROVE  steps[i] # "running" /\ (i \in Range(left) \/ (i \in DOMAIN told /\ told[i] = steps[i]))
  <2>1. stream.left = <<>> /\ stream.at # "left"
    BY <1>0 DEF Tick, ToldHeld
  <2>2. CASE i \in 1 .. cursor
    <3>1. Range(stream.left) = {}
      BY <2>1 DEF Range
    <3>2. QED
      BY <1>0, <2>1, <2>2, <3>1 DEF ToldHeld
  <2>3. CASE i \notin 1 .. cursor
    <3>1. i - cursor \in 1 .. n /\ i - cursor \in 1 .. Len(fresh) /\ cursor + (i - cursor) = i
      BY <1>1, <1>5, <2>3
    <3>2. steps[i] = fresh[i - cursor] /\ left[i - cursor] = i
      BY <1>2, <1>6, <3>1
    <3>3. i \in Range(left)
      BY <1>6, <3>1, <3>2 DEF Range
    <3>4. QED
      BY <1>4, <3>1, <3>2, <3>3
  <2>4. QED
    BY <2>2, <2>3
<1>11. left # <<>> => /\ Head(left) <= Len(told) + 1 /\ \A k \in DOMAIN left : left[k] = Head(left) + k - 1
  <2>1. SUFFICES ASSUME left # <<>> PROVE Head(left) <= Len(told) + 1 /\ \A k \in DOMAIN left : left[k] = Head(left) + k - 1
    OBVIOUS
  <2>2. Len(left) # 0
    BY <1>6, <2>1, EmptySeq
  <2>3. 1 \in 1 .. Len(fresh)
    BY <1>5, <1>6, <2>2
  <2>4. Head(left) = cursor + 1
    BY <1>6, <2>3
  <2>5. cursor <= Len(told)
    <3>1. stream.left = <<>> /\ stream.at # "left" /\ Range(stream.left) = {}
      BY <1>0 DEF Tick, ToldHeld, Range
    <3>2. CASE cursor = 0
      BY <1>0, <3>2, BoundsAre
    <3>3. CASE cursor # 0
      <4>1. cursor \in 1 .. cursor
        BY <1>1, <3>3
      <4>2. cursor \in DOMAIN told
        BY <1>0, <3>1, <4>1 DEF ToldHeld
      <4>3. DOMAIN told = 1 .. Len(told) /\ Len(told) \in Nat
        BY <1>0 DEF TTypeOK
      <4>4. QED
        BY <4>2, <4>3
    <3>4. QED
      BY <3>2, <3>3
  <2>6. Len(told) \in Nat
    BY <1>0, BoundsAre
  <2>7. \A k \in 1 .. Len(fresh) : left[k] = (cursor + 1) + k - 1
    BY <1>1, <1>5, <1>6
  <2>8. Head(left) <= Len(told) + 1
    BY <1>1, <2>4, <2>5, <2>6
  <2>9. QED
    BY <1>6, <2>4, <2>7, <2>8
<1>12. at \in Closing => task \in RunEnded /\ (task # "failed" => cursor + n = Len(steps))
  <2>1. n = Len(fresh) => cursor + n = Len(steps)
    BY <1>1, <1>2
  <2>2. QED
    BY <1>7, <2>1 DEF Closing
<1>13. stream'.left = left /\ stream'.at = at
  BY <1>3
<1>14. ToldHeld'
  BY <1>3, <1>7, <1>10, <1>11, <1>12, <1>13 DEF ToldHeld
<1>16. ToldTrue'
  <2>1. ASSUME NEW i \in DOMAIN before
        PROVE  i \in Range(left) \/ (i \in DOMAIN told /\ (before[i] # "running" => told[i] = before[i]))
    <3>1. i \in 1 .. Len(steps)
      BY <1>0, <1>1, BoundsAre DEF BeforeHeld
    <3>2. CASE i \in 1 .. cursor
      <4>1. stream.at # "left" /\ Range(stream.left) = {}
        BY <1>0 DEF Tick, ToldHeld, Range
      <4>2. i \in DOMAIN told /\ told[i] = steps[i]
        BY <1>0, <3>2, <4>1 DEF ToldHeld
      <4>3. QED
        BY <1>0, <4>2 DEF BeforeHeld
    <3>3. CASE i \notin 1 .. cursor
      <4>1. i - cursor \in 1 .. Len(fresh) /\ cursor + (i - cursor) = i
        BY <1>1, <1>2, <3>1, <3>3
      <4>2. i \in Range(left)
        BY <1>6, <4>1 DEF Range
      <4>3. QED
        BY <4>2
    <3>4. QED
      BY <3>2, <3>3
  <2>2. QED
    BY <1>0, <1>3, <1>13, <2>1 DEF ToldTrue
<1>17. BeforeHeld'
  BY <1>0, <1>3 DEF BeforeHeld
<1>15. QED
  BY <1>8, <1>9, <1>14, <1>16, <1>17 DEF StreamInv

LEMMA SendStep ==
  ASSUME StreamInv, Send
  PROVE  StreamInv'
<1>0. TTypeOK /\ StepsHeld /\ BeforeHeld /\ ToldHeld /\ ToldTrue /\ steps \in Seq(Statuses) /\ told \in Seq(Statuses)
  BY DEF StreamInv, TTypeOK
<1>1. /\ Len(steps) \in Nat /\ DOMAIN steps = 1 .. Len(steps) /\ cursor \in Nat /\ cursor <= Len(steps)
      /\ Len(told) \in Nat /\ Len(told) <= Len(steps) /\ DOMAIN told = 1 .. Len(told)
  BY <1>0, BoundsAre
<1> DEFINE i == Head(stream.left)
           left == Tail(stream.left)
           m == IF i > Len(told) THEN i ELSE Len(told)
           now == [j \in 1 .. m |-> IF j = i THEN steps[i] ELSE told[j]]
<1>2. /\ stream.at \in {"sending", "last"} /\ stream.left # <<>> /\ stream.left \in Seq(DOMAIN steps)
      /\ told' = now /\ stream' = [stream EXCEPT !.left = left] /\ UNCHANGED <<steps, open, task, before, cursor, memory, kept, served>>
  BY <1>0 DEF Send, TTypeOK, store
<1>3. i \in DOMAIN steps /\ left \in Seq(DOMAIN steps) /\ Range(stream.left) = {i} \cup Range(left) /\ Len(left) = Len(stream.left) - 1
  BY <1>2, RangeHead
<1>4. /\ i <= Len(told) + 1
      /\ \A k \in DOMAIN stream.left : stream.left[k] = i + k - 1
  BY <1>0, <1>2 DEF ToldHeld
<1>5. Len(stream.left) \in Nat /\ Len(left) \in Nat /\ DOMAIN stream.left = 1 .. Len(stream.left) /\ DOMAIN left = 1 .. Len(left)
      /\ \A k \in 1 .. Len(left) : left[k] = stream.left[k + 1]
  BY <1>2, <1>3
<1> HIDE DEF i, left
<1>6. i \in Nat /\ i >= 1 /\ i <= Len(steps) /\ m \in Nat /\ m <= Len(steps) /\ i <= m /\ Len(told) <= m
      /\ \A j \in 1 .. m : j = i \/ j \in DOMAIN told
  BY <1>1, <1>3, <1>4
<1>7. now \in Seq(Statuses) /\ Len(now) = m /\ DOMAIN now = 1 .. m
  <2>1. \A j \in 1 .. m : (IF j = i THEN steps[i] ELSE told[j]) \in Statuses
    BY <1>0, <1>3, <1>6
  <2> HIDE DEF m
  <2>2. QED
    BY <1>6, <2>1
<1>8. now[i] = steps[i] /\ \A j \in DOMAIN told : j \in DOMAIN now /\ (j # i => now[j] = told[j])
  <2>1. i \in 1 .. m /\ \A j \in DOMAIN told : j \in 1 .. m
    BY <1>1, <1>6
  <2> HIDE DEF m
  <2>2. QED
    BY <2>1
<1> HIDE DEF m, now
<1>9. stream' \in [at : {"asleep", "sending", "last", "done", "cut", "left"}, left : Seq(DOMAIN steps)] /\ stream'.left = left /\ stream'.at = stream.at
  BY <1>0, <1>2, <1>3 DEF TTypeOK
<1>10. TTypeOK'
  BY <1>0, <1>2, <1>6, <1>7, <1>9 DEF TTypeOK
<1>11. StepsHeld'
  BY <1>0, <1>2, <1>9 DEF StepsHeld
<1>12. ASSUME NEW j \in 1 .. cursor
       PROVE  steps[j] # "running" /\ (j \in Range(left) \/ (j \in DOMAIN now /\ now[j] = steps[j]))
  <2>1. steps[j] # "running" /\ (j \in Range(stream.left) \/ (j \in DOMAIN told /\ told[j] = steps[j]))
    BY <1>0, <1>2 DEF ToldHeld
  <2>2. i \in DOMAIN now
    BY <1>6, <1>7
  <2>3. QED
    BY <1>3, <1>8, <2>1, <2>2
<1>13. left # <<>> => /\ Head(left) <= Len(now) + 1 /\ \A k \in DOMAIN left : left[k] = Head(left) + k - 1
  <2>1. SUFFICES ASSUME left # <<>> PROVE Head(left) <= Len(now) + 1 /\ \A k \in DOMAIN left : left[k] = Head(left) + k - 1
    OBVIOUS
  <2>2. 1 \in 1 .. Len(left)
    BY <1>3, <1>5, <2>1, EmptySeq
  <2>3. \A k \in 1 .. Len(left) : k + 1 \in DOMAIN stream.left
    BY <1>3, <1>5
  <2>4. \A k \in 1 .. Len(left) : left[k] = i + (k + 1) - 1
    BY <1>4, <1>5, <2>3
  <2>5. Head(left) = left[1] /\ left[1] = i + 1
    BY <1>3, <1>6, <2>2, <2>4
  <2>6. \A k \in 1 .. Len(left) : left[k] = (i + 1) + k - 1
    BY <1>6, <2>4
  <2>7. QED
    BY <1>5, <1>6, <1>7, <2>5, <2>6
<1>14. ToldHeld'
  BY <1>0, <1>2, <1>9, <1>12, <1>13 DEF ToldHeld, Closing
<1>16. ToldTrue'
  <2>1. \A j \in DOMAIN now : now[j] \in {"running", steps[j]}
    BY <1>0, <1>6, <1>7, <1>8 DEF ToldTrue
  <2>2. ASSUME stream.at \in Closing, NEW j \in DOMAIN before
        PROVE  j \in Range(left) \/ (j \in DOMAIN now /\ (before[j] # "running" => now[j] = before[j]))
    <3>1. j \in Range(stream.left) \/ (j \in DOMAIN told /\ (before[j] # "running" => told[j] = before[j]))
      BY <1>0, <2>2 DEF ToldTrue
    <3>2. i \in DOMAIN now
      BY <1>6, <1>7
    <3>3. QED
      BY <1>0, <1>3, <1>8, <3>1, <3>2 DEF BeforeHeld
  <2>3. QED
    BY <1>2, <1>9, <2>1, <2>2 DEF ToldTrue
<1>17. BeforeHeld'
  BY <1>0, <1>2 DEF BeforeHeld
<1>15. QED
  BY <1>10, <1>11, <1>14, <1>16, <1>17 DEF StreamInv

LEMMA StreamRest ==
  ASSUME StreamInv, Sleep \/ ClientLeaves
  PROVE  StreamInv'
<1>0. TTypeOK /\ StepsHeld /\ BeforeHeld /\ ToldHeld /\ ToldTrue
  BY DEF StreamInv
<1>1. CASE Sleep
  <2>1. stream' = [stream EXCEPT !.at = "asleep"] /\ stream.at = "sending" /\ stream.left = <<>> /\ UNCHANGED <<steps, open, task, before, cursor, told, memory, kept, served>>
    BY <1>1 DEF Sleep, store
  <2>2. stream' \in [at : {"asleep", "sending", "last", "done", "cut", "left"}, left : Seq(DOMAIN steps)] /\ stream'.left = stream.left /\ stream'.at = "asleep"
    BY <1>0, <2>1 DEF TTypeOK
  <2>3. TTypeOK' /\ StepsHeld' /\ BeforeHeld' /\ ToldHeld' /\ ToldTrue'
    BY <1>0, <2>1, <2>2 DEF TTypeOK, StepsHeld, BeforeHeld, ToldHeld, ToldTrue, Closing
  <2>4. QED
    BY <2>3 DEF StreamInv
<1>2. CASE ClientLeaves
  <2> DEFINE none == <<>>
  <2>1. stream' = [at |-> "left", left |-> none] /\ task' = (IF task = "running" THEN "cancelled" ELSE task)
        /\ UNCHANGED <<steps, open, before, cursor, told, memory, kept, served>>
    BY <1>2 DEF ClientLeaves, store
  <2>2. none \in Seq(DOMAIN steps) /\ none = <<>>
    OBVIOUS
  <2> HIDE DEF none
  <2>3. stream' \in [at : {"asleep", "sending", "last", "done", "cut", "left"}, left : Seq(DOMAIN steps)] /\ stream'.left = <<>> /\ stream'.at = "left"
    BY <2>1, <2>2
  <2>4. TTypeOK' /\ StepsHeld' /\ BeforeHeld' /\ ToldHeld' /\ ToldTrue'
    BY <1>0, <2>1, <2>3 DEF TTypeOK, StepsHeld, BeforeHeld, ToldHeld, ToldTrue, Closing
  <2>5. QED
    BY <2>4 DEF StreamInv
<1>3. QED
  BY <1>1, <1>2

-----------------------------------------------------------------------------
\* The store moves, or the stream ends.
LEMMA StoreStep ==
  ASSUME StreamInv, NEW reached \in BOOLEAN, NEW r \in Traces, NEW caller \in Readers,
         Finished(reached) \/ (\E here \in BOOLEAN : IngestTraced(r, here, reached)) \/ Read(caller, r, reached)
           \/ Recent(caller) \/ Expire(r)
  PROVE  StreamInv'
<1>0. TTypeOK /\ StepsHeld /\ BeforeHeld /\ ToldHeld /\ ToldTrue /\ memory \in Seq(Records) /\ Question \in Traces
  BY DEF StreamInv, TTypeOK, Records, Traces
<1>1. ASSUME UNCHANGED recording, memory' \in Seq(Records), Len(memory') <= MemMax, kept' \subseteq Traces, served' \subseteq Readers \X Traces
      PROVE  StreamInv'
  <2>1. UNCHANGED <<steps, open, task, before, cursor, stream, told>>
    BY <1>1 DEF recording
  <2>2. QED
    BY <1>0, <1>1, <2>1 DEF StreamInv, TTypeOK, StepsHeld, BeforeHeld, ToldHeld, ToldTrue, Records
<1>2. CASE Finished(reached)
  <2>1. memory' \in Seq(Records) /\ Len(memory') <= MemMax /\ kept' \subseteq Traces /\ served' = served
    BY <1>0, <1>2, SaveIs DEF Finished, SaveHere
  <2>2. stream' = [stream EXCEPT !.at = IF task = "blocked" THEN "cut" ELSE "done"] /\ stream.at = "last" /\ stream.left = <<>>
        /\ UNCHANGED <<steps, open, task, before, cursor, told>>
    BY <1>2 DEF Finished
  <2>3. stream' \in [at : {"asleep", "sending", "last", "done", "cut", "left"}, left : Seq(DOMAIN steps)] /\ stream'.left = <<>> /\ stream'.at \in {"done", "cut"}
    BY <1>0, <2>2 DEF TTypeOK
  <2>4. TTypeOK' /\ StepsHeld' /\ BeforeHeld' /\ ToldHeld' /\ ToldTrue'
    BY <1>0, <2>1, <2>2, <2>3 DEF TTypeOK, StepsHeld, BeforeHeld, ToldHeld, ToldTrue, Closing, Records
  <2>5. QED
    BY <2>4 DEF StreamInv
<1>3. ASSUME NEW here \in BOOLEAN, IngestTraced(r, here, reached) PROVE StreamInv'
  <2>1. CASE here
    <3>1. UNCHANGED recording /\ SaveHere(r, reached) /\ served' = served
      BY <1>3, <2>1 DEF IngestTraced, SaveHere
    <3>2. QED
      BY <1>0, <1>1, <3>1, SaveIs DEF TTypeOK
  <2>2. CASE ~here
    BY <1>0, <1>1, <1>3, <2>2 DEF IngestTraced, TTypeOK
  <2>3. QED
    BY <2>1, <2>2
<1>4. CASE Read(caller, r, reached)
  <2>1. served' \subseteq Readers \X Traces /\ UNCHANGED recording /\ kept' = kept
    BY <1>0, <1>4 DEF Read, TTypeOK
  <2>2. memory' = memory \/ \E i \in DOMAIN memory : memory' = [memory EXCEPT ![i].owned = FALSE]
    BY <1>4 DEF Read, InMemory
  <2>3. memory' \in Seq(Records) /\ Len(memory') = Len(memory)
    <3>1. ASSUME NEW i \in DOMAIN memory, memory' = [memory EXCEPT ![i].owned = FALSE]
          PROVE  memory' \in Seq(Records) /\ Len(memory') = Len(memory)
      <4> DEFINE x == [memory[i] EXCEPT !.owned = FALSE]
      <4>1. memory[i] \in Records
        BY <1>0
      <4>2. x \in Records /\ memory' = [memory EXCEPT ![i] = x]
        BY <1>0, <3>1, <4>1 DEF Records
      <4> HIDE DEF x
      <4>3. QED
        BY <1>0, <4>2
    <3>2. QED
      BY <1>0, <2>2, <3>1
  <2>4. QED
    BY <1>0, <1>1, <2>1, <2>3 DEF TTypeOK
<1>5. CASE Recent(caller)
  <2>1. \A i \in DOMAIN memory : memory[i].trace \in Traces
    <3>1. \A i \in DOMAIN memory : memory[i] \in Records
      BY <1>0
    <3>2. QED
      BY <3>1 DEF Records
  <2>2. QED
    BY <1>0, <1>1, <1>5, <2>1 DEF Recent, TTypeOK
<1>6. CASE Expire(r)
  BY <1>0, <1>1, <1>6 DEF Expire, TTypeOK
<1>7. QED
  BY <1>2, <1>3, <1>4, <1>5, <1>6

\* While threads open and close steps and the loop drains them, a running step has its
\* thread and the client was told of every step behind the cursor.
THEOREM StreamHolds == TSpec => []StreamInv
<1>1. TInit => StreamInv
  <2> SUFFICES ASSUME TInit PROVE StreamInv
    OBVIOUS
  <2> DEFINE none == <<>>
  <2>1. MaxSteps \in Nat /\ MemMax \in Nat /\ MemMax > 0 /\ MaxSteps > 0
    BY TracingAssumption
  <2>2. none = <<>> /\ Len(none) = 0 /\ DOMAIN none = {} /\ none \in Seq(Statuses) /\ none \in Seq(Records) /\ none \in Seq(DOMAIN none)
    OBVIOUS
  <2>3. steps = none /\ told = none /\ memory = none /\ stream = [at |-> "asleep", left |-> none]
        /\ open = [t \in Threads |-> 0] /\ task = "running" /\ before = none /\ cursor = 0 /\ kept = {} /\ served = {}
    BY DEF TInit
  <2> HIDE DEF none
  <2>4. TTypeOK
    BY <2>1, <2>2, <2>3 DEF TTypeOK, Records
  <2>5. StepsHeld /\ BeforeHeld /\ ToldHeld /\ ToldTrue
    BY <2>2, <2>3 DEF StepsHeld, BeforeHeld, ToldHeld, ToldTrue, Closing
  <2>6. QED
    BY <2>4, <2>5 DEF StreamInv
<1>2. StreamInv /\ [TNext]_tvars => StreamInv'
  <2> SUFFICES ASSUME StreamInv, [TNext]_tvars PROVE StreamInv'
    OBVIOUS
  <2>1. ASSUME NEW reached \in BOOLEAN, Finished(reached) PROVE StreamInv'
    <3>1. Question \in Traces /\ Owner[Question] \in Readers
      BY TracingAssumption DEF Traces, Readers, Range
    <3>2. QED
      BY <2>1, <3>1, StoreStep
  <2>2. ASSUME NEW reached \in BOOLEAN, NEW r \in Ingests, NEW here \in BOOLEAN, IngestTraced(r, here, reached) PROVE StreamInv'
    <3>1. r \in Traces /\ Owner[r] \in Readers
      BY TracingAssumption DEF Traces, Readers, Range
    <3>2. QED
      BY <2>2, <3>1, StoreStep
  <2>3. ASSUME NEW c \in Readers, Recent(c) PROVE StreamInv'
    <3>1. Question \in Traces /\ TRUE \in BOOLEAN
      BY DEF Traces
    <3>2. QED
      BY <2>3, <3>1, StoreStep
  <2>4. ASSUME NEW r \in Traces, Expire(r) PROVE StreamInv'
    <3>1. Owner[r] \in Readers /\ TRUE \in BOOLEAN
      BY TracingAssumption DEF Readers, Range
    <3>2. QED
      BY <2>4, <3>1, StoreStep
  <2>5. CASE UNCHANGED tvars
    BY <2>5 DEF tvars, StreamInv, TTypeOK, StepsHeld, BeforeHeld, ToldHeld, ToldTrue
  <2>6. ASSUME NEW t \in Threads, BeginStep(t) \/ SkipStep(t) \/ \E e \in {"ok", "error"} : FinishStep(t, e) PROVE StreamInv'
    BY <2>6, RecorderStep
  <2>7. ASSUME NEW o \in {"ok", "blocked", "failed"}, RunEnds(o) PROVE StreamInv'
    BY <2>7, RunEndsStep DEF RunEnded
  <2>8. ASSUME NEW c \in Readers, NEW r \in Traces, NEW reached \in BOOLEAN, Read(c, r, reached) PROVE StreamInv'
    BY <2>8, StoreStep
  <2>9. CASE Tick \/ Send \/ Sleep \/ ClientLeaves
    BY <2>9, TickStep, SendStep, StreamRest
  <2>10. QED
    BY <2>1, <2>2, <2>3, <2>4, <2>5, <2>6, <2>7, <2>8, <2>9 DEF TNext
<1>3. QED
  BY <1>1, <1>2, PTL DEF TSpec

\* A client that stays until the end was told the end of every step that had ended
\* when the run did, everything if the run did not fail, and nothing false but that a
\* step runs.
THEOREM ClientSees == TSpec => []ClientSeesEveryEnd
<1>1. StreamInv => ClientSeesEveryEnd
  <2> SUFFICES ASSUME StreamInv, stream.at = "done" PROVE ClientSeesEveryEnd
    BY DEF ClientSeesEveryEnd
  <2>1. TTypeOK /\ ToldHeld /\ ToldTrue /\ told \in Seq(Statuses) /\ steps \in Seq(Statuses)
    BY DEF StreamInv, TTypeOK
  <2>2. Range(stream.left) = {}
    BY <2>1 DEF ToldHeld, Range
  <2>3. /\ Len(steps) \in Nat /\ Len(told) \in Nat /\ Len(told) <= Len(steps) /\ DOMAIN told = 1 .. Len(told)
        /\ Len(before) \in Nat /\ DOMAIN before = 1 .. Len(before)
    BY <2>1, BoundsAre
  <2>4. ASSUME NEW n \in Nat, 1 .. n \subseteq DOMAIN told PROVE n <= Len(told)
    <3>1. n = 0 \/ n \in 1 .. n
      OBVIOUS
    <3>2. QED
      BY <2>3, <2>4, <3>1
  <2>5. task = "ok" => told = steps
    <3>1. SUFFICES ASSUME task = "ok" PROVE told = steps
      OBVIOUS
    <3>2. cursor = Len(steps)
      BY <2>1, <3>1 DEF ToldHeld, Closing
    <3>3. \A i \in 1 .. Len(steps) : i \in DOMAIN told /\ told[i] = steps[i]
      BY <2>1, <2>2, <3>2 DEF ToldHeld
    <3>4. Len(told) = Len(steps)
      BY <2>3, <2>4, <3>3
    <3>5. QED
      BY <2>1, <3>3, <3>4, SeqEqual
  <2>6. \A i \in DOMAIN before : i \in DOMAIN told /\ (before[i] # "running" => told[i] = before[i])
    BY <2>1, <2>2 DEF ToldTrue, Closing
  <2>7. Len(before) <= Len(told)
    BY <2>3, <2>4, <2>6
  <2>8. QED
    BY <2>1, <2>5, <2>6, <2>7, <2>3 DEF ClientSeesEveryEnd, ToldTrue
<1>2. QED
  BY <1>1, StreamHolds, PTL

\* A trace is only ever given to its owner, from memory or from Redis, whatever was read before.
THEOREM PrivateHolds == TSpec => []TracesStayPrivate
<1>1. TInit => TracesStayPrivate
  BY DEF TInit, TracesStayPrivate
<1>2. TracesStayPrivate /\ [TNext]_tvars => TracesStayPrivate'
  <2> SUFFICES ASSUME TracesStayPrivate, [TNext]_tvars PROVE TracesStayPrivate'
    OBVIOUS
  <2>1. ASSUME NEW c \in Readers, NEW r \in Traces, NEW reached \in BOOLEAN, Read(c, r, reached) PROVE TracesStayPrivate'
    <3>1. Owner[r] = c /\ served' = served \cup {<<c, r>>}
      BY <2>1 DEF Read, May
    <3>2. QED
      BY <3>1 DEF TracesStayPrivate
  <2>2. ASSUME NEW c \in Readers, Recent(c) PROVE TracesStayPrivate'
    BY <2>2 DEF Recent, TracesStayPrivate
  <2>3. CASE served' = served
    BY <2>3 DEF TracesStayPrivate
  <2>4. QED
    BY <2>1, <2>2, <2>3 DEF TNext, tvars, store, recording, BeginStep, SkipStep, FinishStep, RunEnds, Tick, Send, Sleep,
       ClientLeaves, Finished, IngestTraced, SaveHere, Expire
<1>3. QED
  BY <1>1, <1>2, PTL DEF TSpec

-----------------------------------------------------------------------------
(* The guard: verdicts, their cache, the risk of a thread.                 *)

Verdict == [key : CacheKeys, score : 0 .. 100]

LEMMA ScoresAre ==
  /\ FlagAt \in Nat /\ BlockAt \in Nat /\ Verdicts \subseteq 0 .. 100 /\ Secret \subseteq Texts
  /\ \A t \in Texts : RuleScore(t) \in 0 .. 100
<1>1. \A t \in Texts : Tier[t] \in {"none", "flag", "block"}
  BY GuardAssumption
<1>2. \A t \in Texts : RuleScore(t) \in 0 .. 100
  BY <1>1 DEF RuleScore
<1>3. QED
  BY <1>2, GuardAssumption DEF Texts

\* What is decided is an action, no milder than what the rules require; it blocks what
\* could not be judged when the policy fails closed, and what a judge would block.
LEMMA Decided ==
  ASSUME NEW t \in Texts, NEW score \in 0 .. 100, NEW failed \in BOOLEAN
  PROVE  LET d == Decide(t, score, failed) IN
         /\ d \in {"allow", "flag", "block"}
         /\ Severity(d) >= Severity(ScoreAction(RuleScore(t)))
         /\ failed /\ FailMode = "closed" => d = "block"
         /\ score >= BlockAt => d = "block"
<1> DEFINE r == RuleScore(t)
           overall == ScoreAction(Combined(r, score))
<1>1. r \in Nat /\ score \in Nat /\ FlagAt \in Nat /\ BlockAt \in Nat
  BY ScoresAre
<1> HIDE DEF r
<1>2. /\ overall \in {"allow", "flag", "block"} /\ ScoreAction(r) \in {"allow", "flag", "block"}
      /\ score >= BlockAt => overall = "block"
      /\ ScoreAction(r) = "block" => overall = "block"
      /\ ScoreAction(r) = "flag" => overall # "allow"
  BY <1>1 DEF ScoreAction, Combined
<1>3. Decide(t, score, failed) = IF failed /\ FailMode = "closed" THEN "block"
                                 ELSE IF failed /\ FailMode = "flag" /\ overall = "allow" THEN "flag" ELSE overall
  BY DEF Decide, r
<1> HIDE DEF overall
<1>4. /\ Decide(t, score, failed) \in {"allow", "flag", "block"}
      /\ ScoreAction(r) = "block" => Decide(t, score, failed) = "block"
      /\ ScoreAction(r) = "flag" => Decide(t, score, failed) # "allow"
  BY <1>2, <1>3
<1>5. Severity("allow") = 0 /\ Severity("flag") = 1 /\ Severity("block") = 2
  BY DEF Severity
<1>6. Severity(Decide(t, score, failed)) >= Severity(ScoreAction(r))
  BY <1>2, <1>4, <1>5
<1>7. QED
  BY <1>2, <1>3, <1>4, <1>6 DEF r

LEMMA Replied ==
  ASSUME GTypeOK, NEW c \in Calls, NEW t \in Texts, NEW score \in 0 .. 100,
         NEW ended \in {"rules", "verdict", "failed", "late"},
         ended = "rules" => t \in Long \/ ShortCircuits(t) \/ ~ShouldJudge(t)
  PROVE  LET r == Reply(c, t, ended, score) IN
         /\ r \in Checks /\ r.at = "replied" /\ r.ended = ended /\ r.tried = check[c].tried
         /\ Severity(r.action) >= Severity(ScoreAction(RuleScore(t)))
         /\ FailMode = "closed" /\ ShouldJudge(t) /\ r.action # "block" => ended = "verdict" /\ score < BlockAt
<1> DEFINE action == IF ended # "rules" THEN Decide(t, score, ended \in {"failed", "late"})
                     ELSE IF t \in Long \/ ShortCircuits(t) THEN "block" ELSE Decide(t, 0, FALSE)
           r == Reply(c, t, ended, score)
<1>1. /\ action \in {"allow", "flag", "block"}
      /\ Severity(action) >= Severity(ScoreAction(RuleScore(t)))
      /\ FailMode = "closed" /\ ShouldJudge(t) /\ action # "block" => ended = "verdict" /\ score < BlockAt
  <2>1. CASE ended # "rules"
    <3>1. action = Decide(t, score, ended \in {"failed", "late"})
      BY <2>1
    <3>2. (ended \in {"failed", "late"}) \in BOOLEAN /\ score \in Nat /\ BlockAt \in Nat
      BY ScoresAre
    <3> DEFINE failed == ended \in {"failed", "late"}
    <3>3. failed \in BOOLEAN /\ (~failed => ended = "verdict")
      BY <2>1
    <3> HIDE DEF failed
    <3>4. /\ Decide(t, score, failed) \in {"allow", "flag", "block"}
          /\ Severity(Decide(t, score, failed)) >= Severity(ScoreAction(RuleScore(t)))
          /\ failed /\ FailMode = "closed" => Decide(t, score, failed) = "block"
          /\ score >= BlockAt => Decide(t, score, failed) = "block"
      BY <3>3, Decided
    <3>5. action = Decide(t, score, failed)
      BY <3>1 DEF failed
    <3> HIDE DEF action
    <3>6. QED
      BY <3>2, <3>3, <3>4, <3>5
  <2>2. CASE ended = "rules" /\ (t \in Long \/ ShortCircuits(t))
    <3>1. action = "block"
      BY <2>2
    <3>2. Severity("block") >= Severity(ScoreAction(RuleScore(t)))
      BY DEF Severity, ScoreAction
    <3> HIDE DEF action
    <3>3. QED
      BY <3>1, <3>2
  <2>3. CASE ended = "rules" /\ ~(t \in Long \/ ShortCircuits(t))
    <3>1. action = Decide(t, 0, FALSE) /\ ~ShouldJudge(t)
      BY <2>3
    <3>2. /\ Decide(t, 0, FALSE) \in {"allow", "flag", "block"}
          /\ Severity(Decide(t, 0, FALSE)) >= Severity(ScoreAction(RuleScore(t)))
      <4>1. 0 \in 0 .. 100 /\ FALSE \in BOOLEAN
        OBVIOUS
      <4>2. QED
        BY <4>1, Decided
    <3> HIDE DEF action
    <3>3. QED
      BY <3>1, <3>2
  <2>4. QED
    BY <2>1, <2>2, <2>3
<1>2. r = [check[c] EXCEPT !.at = "replied", !.left = <<>>, !.repair = FALSE, !.ended = ended, !.score = score, !.action = action]
  BY DEF Reply
<1> HIDE DEF action
<1>3. check[c] \in Checks
  BY DEF GTypeOK
<1>4. r \in Checks /\ r.at = "replied" /\ r.ended = ended /\ r.tried = check[c].tried /\ r.action = action
  <2>1. action \in {"allow", "flag", "block"} /\ <<>> \in Seq(ChainLinks)
    BY <1>1
  <2> DEFINE empty == <<>>
  <2>2. empty \in Seq(ChainLinks)
    BY <2>1
  <2> HIDE DEF empty
  <2>3. r = [check[c] EXCEPT !.at = "replied", !.left = empty, !.repair = FALSE, !.ended = ended, !.score = score, !.action = action]
    BY <1>2 DEF empty
  <2> HIDE DEF r
  <2>4. QED
    BY <1>3, <2>1, <2>2, <2>3 DEF Checks
<1> HIDE DEF r
<1>5. QED
  BY <1>1, <1>4 DEF r

LEMMA StoredIs ==
  ASSUME GTypeOK, NEW t \in Texts, NEW score \in 0 .. 100
  PROVE  /\ Uncached(t) \in Seq(Verdict) /\ Len(Uncached(t)) <= CacheSize
         /\ Range(Uncached(t)) \subseteq Range(cache)
         /\ Stored(t, score) \in Seq(Verdict) /\ Len(Stored(t, score)) <= CacheSize
         /\ Range(Stored(t, score)) \subseteq Range(cache) \cup {[key |-> Key[t], score |-> score]}
<1> DEFINE u   == Uncached(t)
           e   == [key |-> Key[t], score |-> score]
           all == Append(u, e)
<1>1. cache \in Seq(Verdict) /\ Len(cache) <= CacheSize /\ CacheSize \in Nat
  BY GuardAssumption DEF GTypeOK, Verdict
<1>2. u \in Seq(Verdict) /\ Len(u) <= Len(cache) /\ Range(u) \subseteq Range(cache)
  BY <1>1, KeepRange DEF Uncached
<1>3. e \in Verdict
  BY DEF Verdict, CacheKeys
<1>4. Stored(t, score) = SubSeq(all, 1 + (IF Len(all) > CacheSize THEN Len(all) - CacheSize ELSE 0), Len(all))
  BY DEF Stored
<1>5. Len(u) <= CacheSize
  BY <1>1, <1>2
<1> HIDE DEF u, e
<1>6. all \in Seq(Verdict) /\ Range(all) = Range(u) \cup {e}
  BY <1>2, <1>3, RangeAppend
<1> HIDE DEF all
<1>7. Stored(t, score) \in Seq(Verdict) /\ Len(Stored(t, score)) <= CacheSize /\ Range(Stored(t, score)) \subseteq Range(all)
  BY <1>1, <1>4, <1>6, RangeLatest
<1>8. QED
  BY <1>2, <1>5, <1>6, <1>7 DEF u, e

\* Every link of the chain is tried before the chain gives up, those in cooldown last.
LEMMA ChainOrderIs ==
  /\ Range(ChainOrder) \subseteq ChainLinks /\ ChainOrder \in Seq(ChainLinks)
  /\ tripped \subseteq ChainLinks => Range(ChainOrder) = ChainLinks
<1>1. Specs \in Seq(Range(Specs)) /\ DOMAIN Specs = 1 .. Len(Specs) /\ Len(Specs) \in Nat
  BY GuardAssumption
<1>2. Positions \in Seq(DOMAIN Specs) /\ Range(Positions) = DOMAIN Specs
  BY <1>1 DEF Positions, Range
<1> DEFINE S == ChainLinks \ tripped
           T == ChainLinks \cap tripped
<1>3. S \cup T = ChainLinks /\ DOMAIN Specs \cap ChainLinks = ChainLinks
  BY DEF ChainLinks
<1>4. ChainOrder = Keep(Positions, S) \o Keep(Positions, T)
  BY DEF ChainOrder, InRotation
<1> HIDE DEF S, T
<1>5. Range(ChainOrder) = Range(Positions) \cap (S \cup T) /\ ChainOrder \in Seq(Range(Positions) \cap (S \cup T))
  <2> DEFINE q == Keep(Positions, S) \o Keep(Positions, T)
  <2>1. Range(q) = Range(Positions) \cap (S \cup T) /\ q \in Seq(Range(Positions) \cap (S \cup T))
    BY <1>2, KeepParts
  <2>2. QED
    BY <1>4, <2>1
<1>6. Range(Positions) \cap (S \cup T) = ChainLinks
  BY <1>2, <1>3
<1>7. QED
  BY <1>5, <1>6

\* A screened text has a reply, from the rules or from a verdict in the cache, or is queued.
LEMMA Screened ==
  ASSUME GTypeOK, NEW c \in Calls, NEW t \in Texts, Screen(c, t)
  PROVE  /\ \E r \in Checks :
              /\ check' = [check EXCEPT ![c] = r] /\ r.at \in {"queued", "replied"} /\ r.ended # "failed"
              /\ r.at = "replied" => Severity(r.action) >= Severity(ScoreAction(RuleScore(t)))
              /\ r.at = "replied" /\ FailMode = "closed" /\ ShouldJudge(t) /\ r.action # "block" =>
                   \E x \in Range(cache) : x.key = Key[t] /\ x.score < BlockAt
         /\ cache' \in Seq(Verdict) /\ Len(cache') <= CacheSize /\ Range(cache') \subseteq Range(cache)
<1>0. cache \in Seq(Verdict) /\ Len(cache) <= CacheSize
  BY DEF GTypeOK, Verdict
<1>1. CASE t \in Long \/ ShortCircuits(t) \/ ~ShouldJudge(t)
  <2> DEFINE r == Reply(c, t, "rules", 0)
  <2>1. check' = [check EXCEPT ![c] = r] /\ cache' = cache
    BY <1>1 DEF Screen
  <2>2. /\ r \in Checks /\ r.at = "replied" /\ r.ended = "rules"
        /\ Severity(r.action) >= Severity(ScoreAction(RuleScore(t)))
        /\ FailMode = "closed" /\ ShouldJudge(t) /\ r.action # "block" => "rules" = "verdict"
    <3>1. 0 \in 0 .. 100 /\ "rules" \in {"rules", "verdict", "failed", "late"}
      OBVIOUS
    <3>2. QED
      BY <1>1, <3>1, Replied
  <2> HIDE DEF r
  <2>3. QED
    BY <1>0, <2>1, <2>2
<1>2. CASE ~(t \in Long \/ ShortCircuits(t) \/ ~ShouldJudge(t)) /\ InCache(t) # {}
  <2>1. PICK i \in InCache(t) :
          check' = [check EXCEPT ![c] = Reply(c, t, "verdict", cache[i].score)] /\ cache' = Stored(t, cache[i].score)
    BY <1>2 DEF Screen
  <2>2. cache[i] \in Range(cache) /\ cache[i] \in Verdict /\ cache[i].key = Key[t]
    BY <1>0, <2>1 DEF InCache, Range
  <2> DEFINE v == cache[i].score
             r == Reply(c, t, "verdict", v)
  <2>3. v \in 0 .. 100 /\ [key |-> Key[t], score |-> v] = cache[i]
    BY <2>2 DEF Verdict
  <2>4. check' = [check EXCEPT ![c] = r] /\ cache' = Stored(t, v)
    BY <2>1
  <2>5. v \in 0 .. 100 /\ v = cache[i].score
    BY <2>3
  <2> HIDE DEF v
  <2>6. /\ r \in Checks /\ r.at = "replied" /\ r.ended = "verdict"
        /\ Severity(r.action) >= Severity(ScoreAction(RuleScore(t)))
        /\ FailMode = "closed" /\ ShouldJudge(t) /\ r.action # "block" => v < BlockAt
    <3> DEFINE ended == "verdict"
    <3>1. ended \in {"rules", "verdict", "failed", "late"} /\ ended # "rules"
      OBVIOUS
    <3>2. r = Reply(c, t, ended, v)
      OBVIOUS
    <3> HIDE DEF r, ended
    <3>3. v \in 0 .. 100
      BY <2>5
    <3>4. LET q == Reply(c, t, ended, v) IN
          /\ q \in Checks /\ q.at = "replied" /\ q.ended = ended /\ q.tried = check[c].tried
          /\ Severity(q.action) >= Severity(ScoreAction(RuleScore(t)))
          /\ FailMode = "closed" /\ ShouldJudge(t) /\ q.action # "block" => ended = "verdict" /\ v < BlockAt
      BY <3>1, <3>3, Replied
    <3>5. QED
      BY <3>2, <3>4 DEF ended
  <2> HIDE DEF r
  <2>7. /\ Stored(t, v) \in Seq(Verdict) /\ Len(Stored(t, v)) <= CacheSize
        /\ Range(Stored(t, v)) \subseteq Range(cache) \cup {cache[i]}
    BY <2>3, <2>5, StoredIs
  <2>8. QED
    BY <2>2, <2>4, <2>5, <2>6, <2>7
<1>3. CASE ~(t \in Long \/ ShortCircuits(t) \/ ~ShouldJudge(t)) /\ InCache(t) = {}
  <2> DEFINE r == [Quiet EXCEPT !.at = "queued"]
  <2>1. check' = [check EXCEPT ![c] = r] /\ cache' = cache
    BY <1>3 DEF Screen
  <2>2. r \in Checks /\ r.at = "queued" /\ r.ended = "none"
    <3>1. <<>> \in Seq(ChainLinks) /\ {} \in SUBSET ChainLinks /\ 0 \in 0 .. 100
      OBVIOUS
    <3>2. QED
      BY <3>1 DEF Quiet, Checks
  <2> HIDE DEF r
  <2>3. QED
    BY <1>0, <2>1, <2>2
<1>4. QED
  BY <1>1, <1>2, <1>3

\* A reply of the judge, or of a chain that failed or ran out of time.
LEMMA JudgeReplies ==
  ASSUME GTypeOK, NEW c \in Calls, NEW score \in 0 .. 100, NEW ended \in {"verdict", "failed", "late"}
  PROVE  LET r == Reply(c, asked[c].text, ended, score) IN
         /\ asked[c].text \in Texts
         /\ r \in Checks /\ r.at = "replied" /\ r.ended = ended /\ r.tried = check[c].tried
         /\ Severity(r.action) >= Severity(ScoreAction(RuleScore(asked[c].text)))
         /\ FailMode = "closed" /\ ShouldJudge(asked[c].text) /\ r.action # "block" => ended = "verdict" /\ score < BlockAt
<1> DEFINE t == asked[c].text
<1>1. t \in Texts
  BY DEF GTypeOK, Askings
<1> HIDE DEF t
<1>2. LET r == Reply(c, t, ended, score) IN
         /\ r \in Checks /\ r.at = "replied" /\ r.ended = ended /\ r.tried = check[c].tried
         /\ Severity(r.action) >= Severity(ScoreAction(RuleScore(t)))
         /\ FailMode = "closed" /\ ShouldJudge(t) /\ r.action # "block" => ended = "verdict" /\ score < BlockAt
  <2>1. ended \in {"rules", "verdict", "failed", "late"} /\ ended # "rules"
    OBVIOUS
  <2>2. QED
    BY <1>1, <2>1, Replied
<1>3. QED
  BY <1>1, <1>2 DEF t

-----------------------------------------------------------------------------
(* Every check that is with a judge holds a permit, and no other does.     *)

Judging == {c \in Calls : check[c].at = "judging"}

PermitsHeld == permits \in 0 .. MaxJudge /\ IsFiniteSet(Judging) /\ permits + Cardinality(Judging) = MaxJudge

LEMMA PermitsInit == GInit => PermitsHeld
<1> SUFFICES ASSUME GInit PROVE PermitsHeld
  OBVIOUS
<1>1. Judging = {}
  BY DEF GInit, Judging, Quiet
<1>2. QED
  BY <1>1, FS_EmptySet, GuardAssumption DEF GInit, PermitsHeld

LEMMA PermitTaken ==
  ASSUME GTypeOK, PermitsHeld, NEW c \in Calls, NEW r,
         check[c].at # "judging", check' = [check EXCEPT ![c] = r], r.at = "judging",
         permits > 0, permits' = permits - 1
  PROVE  PermitsHeld'
<1>1. Judging' = Judging \cup {c} /\ c \notin Judging
  BY DEF GTypeOK, Judging
<1>2. IsFiniteSet(Judging') /\ Cardinality(Judging') = Cardinality(Judging) + 1
  BY <1>1, FS_AddElement DEF PermitsHeld
<1>3. Cardinality(Judging) \in Nat /\ MaxJudge \in Nat
  BY FS_CardinalityType, GuardAssumption DEF PermitsHeld
<1>4. QED
  BY <1>2, <1>3 DEF PermitsHeld

LEMMA PermitReturned ==
  ASSUME GTypeOK, PermitsHeld, NEW c \in Calls, NEW r,
         check[c].at = "judging", check' = [check EXCEPT ![c] = r], r.at # "judging",
         permits' = permits + 1
  PROVE  PermitsHeld'
<1>1. Judging' = Judging \ {c} /\ c \in Judging
  BY DEF GTypeOK, Judging
<1>2. IsFiniteSet(Judging') /\ Cardinality(Judging') = Cardinality(Judging) - 1
  BY <1>1, FS_RemoveElement DEF PermitsHeld
<1>3. Cardinality(Judging) \in Nat /\ Cardinality(Judging') \in Nat /\ MaxJudge \in Nat
  BY <1>2, FS_CardinalityType, GuardAssumption DEF PermitsHeld
<1>4. QED
  BY <1>2, <1>3 DEF PermitsHeld

LEMMA PermitKept ==
  ASSUME GTypeOK, PermitsHeld, NEW c \in Calls, NEW r,
         check' = [check EXCEPT ![c] = r], (check[c].at = "judging") = (r.at = "judging"), permits' = permits
  PROVE  PermitsHeld'
<1>1. Judging' = Judging
  BY DEF GTypeOK, Judging
<1>2. QED
  BY <1>1 DEF PermitsHeld

-----------------------------------------------------------------------------
(* The inductive invariant.  A reply is as severe as the rules; when the   *)
(* policy fails closed, a text that goes on was scored by a judge, then or *)
(* when the cache got its verdict; and a chain in use has every link still *)
(* ahead or behind it.                                                      *)

Sound(c) ==
  LET k == check[c]  t == asked[c].text IN
  /\ k.at = "replied" => Severity(k.action) >= Severity(ScoreAction(RuleScore(t)))
  /\ FailMode = "closed" /\ k.at = "replied" /\ k.action # "block" /\ ShouldJudge(t) => Key[t] \in passed
  /\ FailMode = "closed" /\ ~FailOpen /\ asked[c].at = "proceeds" /\ ShouldJudge(t) => Key[t] \in passed
  /\ k.at = "judging" => k.tried \cup Range(k.left) = ChainLinks
  /\ k.ended = "failed" => k.tried = ChainLinks

CacheSound == \A x \in Range(cache) : x.score < BlockAt => x.key \in passed
GuardInv   == GTypeOK /\ CacheSound /\ \A c \in Calls : Sound(c)

LEMMA QuietIs == Quiet \in Checks
<1>1. <<>> \in Seq(ChainLinks) /\ {} \in SUBSET ChainLinks /\ 0 \in 0 .. 100
  OBVIOUS
<1>2. QED
  BY <1>1 DEF Quiet, Checks

LEMMA GuardInit == GInit => GuardInv
<1> SUFFICES ASSUME GInit PROVE GuardInv
  OBVIOUS
<1>1. Quiet \in Checks
  BY QuietIs
<1>2. Unasked \in Askings
  <2>1. (CHOOSE t \in Texts : TRUE) \in Texts
    BY GuardAssumption DEF Texts
  <2>2. QED
    BY <2>1 DEF Unasked, Askings
<1>3. GTypeOK
  <2>1. permits \in 0 .. MaxJudge /\ fails \in [ChainLinks -> 0 .. MaxJudgeFailures - 1]
    BY GuardAssumption DEF GInit
  <2>2. cache \in Seq([key : CacheKeys, score : 0 .. 100]) /\ Len(cache) <= CacheSize
    BY GuardAssumption DEF GInit
  <2>3. QED
    BY <1>1, <1>2, <2>1, <2>2 DEF GInit, GTypeOK
<1>4. CacheSound
  BY DEF GInit, CacheSound, Range
<1>5. ASSUME NEW c \in Calls PROVE Sound(c)
  BY DEF GInit, Sound, Quiet, Unasked
<1>6. QED
  BY <1>3, <1>4, <1>5 DEF GuardInv

\* One call moves; the others are as sound as they were.
LEMMA GuardMoves ==
  ASSUME GuardInv, GTypeOK', NEW c \in Calls,
         \A d \in Calls \ {c} : asked'[d] = asked[d] /\ check'[d] = check[d],
         passed \subseteq passed', Sound(c)', CacheSound'
  PROVE  GuardInv'
<1>1. ASSUME NEW d \in Calls \ {c} PROVE Sound(d)'
  BY <1>1 DEF GuardInv, Sound
<1>2. QED
  BY <1>1 DEF GuardInv

LEMMA AskedSound ==
  ASSUME GuardInv, PermitsHeld, NEW c \in Calls, NEW t \in Texts, MayAsk(c), Screen(c, t),
         asked' = [asked EXCEPT ![c] = [Unasked EXCEPT !.text = t, !.at = "waiting"]],
         UNCHANGED <<permits, fails, tripped, passed>>
  PROVE  GuardInv' /\ PermitsHeld'
<1> DEFINE a == [Unasked EXCEPT !.text = t, !.at = "waiting"]
<1>1. a \in Askings /\ a.text = t /\ a.at = "waiting"
  BY DEF Unasked, Askings
<1>2. GTypeOK
  BY DEF GuardInv
<1>3. asked' = [asked EXCEPT ![c] = a]
  OBVIOUS
<1> HIDE DEF a
<1>4. asked'[c] = a /\ asked' \in [Calls -> Askings] /\ \A d \in Calls \ {c} : asked'[d] = asked[d]
  BY <1>1, <1>2, <1>3 DEF GTypeOK
<1>5. PICK r \in Checks :
        /\ check' = [check EXCEPT ![c] = r] /\ r.at \in {"queued", "replied"} /\ r.ended # "failed"
        /\ r.at = "replied" => Severity(r.action) >= Severity(ScoreAction(RuleScore(t)))
        /\ r.at = "replied" /\ FailMode = "closed" /\ ShouldJudge(t) /\ r.action # "block" =>
             \E x \in Range(cache) : x.key = Key[t] /\ x.score < BlockAt
  BY <1>2, Screened
<1>6. cache' \in Seq(Verdict) /\ Len(cache') <= CacheSize /\ Range(cache') \subseteq Range(cache)
  BY <1>2, Screened
<1>7. check'[c] = r /\ check' \in [Calls -> Checks] /\ \A d \in Calls \ {c} : check'[d] = check[d]
  BY <1>2, <1>5 DEF GTypeOK
<1>8. PermitsHeld'
  BY <1>2, <1>5, PermitKept DEF MayAsk
<1>9. GTypeOK'
  BY <1>2, <1>4, <1>6, <1>7 DEF GTypeOK, Verdict
<1>10. CacheSound'
  BY <1>6 DEF GuardInv, CacheSound
<1>11. Sound(c)'
  BY <1>1, <1>4, <1>5, <1>7 DEF GuardInv, CacheSound, Sound
<1>12. QED
  BY <1>4, <1>7, <1>8, <1>9, <1>10, <1>11, GuardMoves

LEMMA EnterSound ==
  ASSUME GuardInv, PermitsHeld, NEW c \in Calls, Enter(c)
  PROVE  GuardInv' /\ PermitsHeld'
<1> DEFINE r == [check[c] EXCEPT !.at = "judging", !.left = ChainOrder]
<1>1. GTypeOK /\ check[c] \in Checks
  BY DEF GuardInv, GTypeOK
<1>2. r \in Checks /\ r.at = "judging" /\ r.left = ChainOrder /\ r.ended = check[c].ended /\ r.tried = check[c].tried
  BY <1>1, ChainOrderIs DEF Checks
<1>3. check' = [check EXCEPT ![c] = r]
  BY <1>1 DEF Enter, GTypeOK
<1> HIDE DEF r
<1>4. check'[c] = r /\ check' \in [Calls -> Checks] /\ \A d \in Calls \ {c} : check'[d] = check[d]
  BY <1>1, <1>2, <1>3 DEF GTypeOK
<1>5. PermitsHeld'
  BY <1>1, <1>2, <1>3, PermitTaken DEF Enter
<1>6. GTypeOK'
  BY <1>1, <1>4, <1>5 DEF Enter, GTypeOK, PermitsHeld
<1>7. CacheSound'
  BY DEF Enter, GuardInv, CacheSound
<1>8. Sound(c)'
  <2>1. r.tried \cup Range(r.left) = ChainLinks
    BY <1>1, <1>2, ChainOrderIs DEF GTypeOK, Checks
  <2>2. QED
    BY <1>2, <1>4, <2>1 DEF Enter, GuardInv, Sound
<1>9. QED
  BY <1>4, <1>5, <1>6, <1>7, <1>8, GuardMoves DEF Enter

LEMMA UnreadableSound ==
  ASSUME GuardInv, PermitsHeld, NEW c \in Calls, Unreadable(c)
  PROVE  GuardInv' /\ PermitsHeld'
<1> DEFINE r == [check[c] EXCEPT !.repair = TRUE]
<1>1. GTypeOK /\ check[c] \in Checks
  BY DEF GuardInv, GTypeOK
<1>2. /\ r \in Checks /\ r.at = "judging" /\ r.left = check[c].left
      /\ r.ended = check[c].ended /\ r.tried = check[c].tried
  BY <1>1 DEF Unreadable, Checks
<1>3. check' = [check EXCEPT ![c] = r]
  BY <1>1 DEF Unreadable, GTypeOK
<1> HIDE DEF r
<1>4. check'[c] = r /\ check' \in [Calls -> Checks] /\ \A d \in Calls \ {c} : check'[d] = check[d]
  BY <1>1, <1>2, <1>3 DEF GTypeOK
<1>5. PermitsHeld'
  BY <1>1, <1>2, <1>3, PermitKept DEF Unreadable
<1>6. GTypeOK'
  BY <1>1, <1>4 DEF Unreadable, GTypeOK
<1>7. CacheSound'
  BY DEF Unreadable, GuardInv, CacheSound
<1>8. Sound(c)'
  BY <1>2, <1>4 DEF Unreadable, GuardInv, Sound
<1>9. QED
  BY <1>4, <1>5, <1>6, <1>7, <1>8, GuardMoves DEF Unreadable

LEMMA LinkAnswersSound ==
  ASSUME GuardInv, PermitsHeld, NEW c \in Calls, NEW score \in Verdicts, LinkAnswers(c, score)
  PROVE  GuardInv' /\ PermitsHeld'
<1> DEFINE t == asked[c].text
           r == Reply(c, t, "verdict", score)
           i == Head(check[c].left)
<1>1. GTypeOK /\ check[c] \in Checks /\ score \in 0 .. 100
  BY ScoresAre DEF GuardInv, GTypeOK
<1>2. /\ t \in Texts
      /\ r \in Checks /\ r.at = "replied" /\ r.ended = "verdict"
      /\ Severity(r.action) >= Severity(ScoreAction(RuleScore(t)))
      /\ FailMode = "closed" /\ ShouldJudge(t) /\ r.action # "block" => score < BlockAt
  BY <1>1, JudgeReplies
<1>3. /\ Stored(t, score) \in Seq(Verdict) /\ Len(Stored(t, score)) <= CacheSize
      /\ Range(Stored(t, score)) \subseteq Range(cache) \cup {[key |-> Key[t], score |-> score]}
  BY <1>1, <1>2, StoredIs
<1>4. i \in ChainLinks
  BY <1>1, RangeHead DEF LinkAnswers, Checks
<1>5. /\ check' = [check EXCEPT ![c] = r] /\ cache' = Stored(t, score)
      /\ passed' = IF score < BlockAt THEN passed \cup {Key[t]} ELSE passed
      /\ fails' = [fails EXCEPT ![i] = 0] /\ tripped' = tripped \ {i}
      /\ asked' = asked /\ permits' = permits + 1 /\ check[c].at = "judging"
  BY DEF LinkAnswers
<1> HIDE DEF r, i
<1>6. check'[c] = r /\ check' \in [Calls -> Checks] /\ \A d \in Calls \ {c} : check'[d] = check[d]
  BY <1>1, <1>2, <1>5 DEF GTypeOK
<1>7. PermitsHeld'
  BY <1>1, <1>2, <1>5, PermitReturned
<1>8. fails' \in [ChainLinks -> 0 .. MaxJudgeFailures - 1]
  BY <1>1, <1>4, <1>5, GuardAssumption DEF GTypeOK
<1>9. GTypeOK'
  <2> HIDE DEF t
  <2>1. Key[t] \in CacheKeys
    BY <1>2 DEF CacheKeys
  <2>2. passed' \subseteq CacheKeys
    BY <1>1, <1>5, <2>1 DEF GTypeOK
  <2>3. QED
    BY <1>1, <1>2, <1>3, <1>5, <1>6, <1>7, <1>8, <2>2 DEF GTypeOK, PermitsHeld, Verdict
<1>10. CacheSound'
  <2> HIDE DEF t
  <2>1. QED
    BY <1>3, <1>5 DEF GuardInv, CacheSound
<1>11. Sound(c)'
  BY <1>2, <1>5, <1>6 DEF GuardInv, Sound
<1>12. passed \subseteq passed'
  BY <1>5
<1>13. QED
  BY <1>5, <1>6, <1>7, <1>9, <1>10, <1>11, <1>12, GuardMoves

\* A chain without another link to try, or the time for it.
LEMMA ChainFailsSound ==
  ASSUME GuardInv, PermitsHeld, NEW c \in Calls, NEW tried \in SUBSET ChainLinks, NEW how \in {"failed", "late"},
         check[c].at = "judging", ChainFails(c, tried, how), UNCHANGED <<asked, passed>>,
         how = "failed" => tried = ChainLinks,
         fails' \in [ChainLinks -> 0 .. MaxJudgeFailures - 1], tripped' \subseteq ChainLinks
  PROVE  GuardInv' /\ PermitsHeld'
<1> DEFINE t == asked[c].text
           q == Reply(c, t, how, 0)
           r == [q EXCEPT !.tried = tried]
<1>1. GTypeOK /\ check[c] \in Checks
  BY DEF GuardInv, GTypeOK
<1>2. /\ t \in Texts
      /\ q \in Checks /\ q.at = "replied" /\ q.ended = how
      /\ Severity(q.action) >= Severity(ScoreAction(RuleScore(t)))
      /\ FailMode = "closed" /\ ShouldJudge(t) => q.action = "block"
  <2>1. 0 \in 0 .. 100 /\ how \in {"verdict", "failed", "late"} /\ how # "verdict"
    OBVIOUS
  <2>2. QED
    BY <1>1, <2>1, JudgeReplies
<1>3. check' = [check EXCEPT ![c] = r] /\ cache' = cache /\ permits' = permits + 1
  BY DEF ChainFails, OnFailure
<1> HIDE DEF q
<1>4. r \in Checks /\ r.at = "replied" /\ r.ended = how /\ r.tried = tried /\ r.action = q.action
  BY <1>2 DEF Checks
<1> HIDE DEF r
<1>5. check'[c] = r /\ check' \in [Calls -> Checks] /\ \A d \in Calls \ {c} : check'[d] = check[d]
  BY <1>1, <1>3, <1>4 DEF GTypeOK
<1>6. PermitsHeld'
  BY <1>1, <1>3, <1>4, PermitReturned
<1>7. GTypeOK'
  BY <1>1, <1>3, <1>5, <1>6 DEF GTypeOK, PermitsHeld
<1>8. CacheSound'
  BY <1>3 DEF GuardInv, CacheSound
<1>9. Sound(c)'
  BY <1>2, <1>4, <1>5 DEF GuardInv, Sound
<1>10. QED
  BY <1>5, <1>6, <1>7, <1>8, <1>9, GuardMoves

LEMMA LinkFailsSound ==
  ASSUME GuardInv, PermitsHeld, NEW c \in Calls, JudgeLinkFails(c)
  PROVE  GuardInv' /\ PermitsHeld'
<1> DEFINE left  == check[c].left
           i     == Head(left)
           tried == check[c].tried \cup {i}
           trips == fails[i] + 1 >= MaxJudgeFailures
<1>1. GTypeOK /\ check[c] \in Checks
  BY DEF GuardInv, GTypeOK
<1>2. /\ fails' = [fails EXCEPT ![i] = IF trips THEN 0 ELSE fails[i] + 1]
      /\ tripped' = IF trips THEN tripped \cup {i} ELSE tripped
      /\ IF Len(left) = 1 THEN ChainFails(c, tried, "failed")
         ELSE /\ check' = [check EXCEPT ![c].left = Tail(@), ![c].repair = FALSE, ![c].tried = tried]
              /\ UNCHANGED <<cache, permits>>
      /\ UNCHANGED <<asked, passed>> /\ check[c].at = "judging" /\ left # <<>>
  BY DEF JudgeLinkFails
<1>3. left \in Seq(ChainLinks) /\ check[c].tried \subseteq ChainLinks /\ check[c].tried \cup Range(left) = ChainLinks
  BY <1>1, <1>2 DEF Checks, GuardInv, Sound
<1>4. /\ i \in ChainLinks /\ Tail(left) \in Seq(ChainLinks) /\ Len(Tail(left)) = Len(left) - 1
      /\ Range(left) = {i} \cup Range(Tail(left))
  BY <1>2, <1>3, RangeHead
<1>5. tried \in SUBSET ChainLinks /\ tried \cup Range(Tail(left)) = ChainLinks
  BY <1>3, <1>4
<1>6. fails' \in [ChainLinks -> 0 .. MaxJudgeFailures - 1] /\ tripped' \subseteq ChainLinks
  <2> DEFINE n == IF trips THEN 0 ELSE fails[i] + 1
  <2>1. n \in 0 .. MaxJudgeFailures - 1
    BY <1>1, <1>4, GuardAssumption DEF GTypeOK
  <2>2. fails' = [fails EXCEPT ![i] = n]
    BY <1>2
  <2> HIDE DEF n
  <2>3. QED
    BY <1>1, <1>2, <1>4, <2>1, <2>2 DEF GTypeOK
<1>7. CASE Len(left) = 1
  <2>1. Range(Tail(left)) = {}
    BY <1>4, <1>7 DEF Range
  <2>2. tried = ChainLinks /\ ChainFails(c, tried, "failed")
    BY <1>2, <1>5, <1>7, <2>1
  <2>3. "failed" \in {"failed", "late"}
    OBVIOUS
  <2> HIDE DEF tried
  <2>4. QED
    BY <1>2, <1>5, <1>6, <2>2, <2>3, ChainFailsSound
<1>8. CASE Len(left) # 1
  <2> DEFINE r == [check[c] EXCEPT !.left = Tail(left), !.repair = FALSE, !.tried = tried]
  <2>1. check' = [check EXCEPT ![c] = r] /\ UNCHANGED <<cache, permits>>
    BY <1>1, <1>2, <1>8 DEF GTypeOK
  <2> HIDE DEF tried
  <2>2. r \in Checks /\ r.at = "judging" /\ r.left = Tail(left) /\ r.tried = tried /\ r.ended = check[c].ended
    BY <1>1, <1>2, <1>4, <1>5 DEF Checks
  <2> HIDE DEF r
  <2>3. check'[c] = r /\ check' \in [Calls -> Checks] /\ \A d \in Calls \ {c} : check'[d] = check[d]
    BY <1>1, <2>1, <2>2 DEF GTypeOK
  <2>4. PermitsHeld'
    BY <1>1, <1>2, <2>1, <2>2, PermitKept
  <2>5. GTypeOK'
    BY <1>1, <1>2, <1>6, <2>1, <2>3 DEF GTypeOK
  <2>6. CacheSound'
    BY <1>2, <2>1 DEF GuardInv, CacheSound
  <2>7. Sound(c)'
    <3>1. check[c].ended = "failed" => check[c].tried = ChainLinks
      BY DEF GuardInv, Sound
    <3>2. check[c].ended = "failed" => tried = ChainLinks
      BY <1>3, <1>5, <3>1 DEF tried
    <3>3. QED
      BY <1>2, <1>5, <2>2, <2>3, <3>2 DEF GuardInv, Sound
  <2>8. QED
    BY <1>2, <2>3, <2>4, <2>5, <2>6, <2>7, GuardMoves
<1>9. QED
  BY <1>7, <1>8

\* What no link handles ends the check: its permit is returned, and nothing is kept of it.
LEMMA LinkRaisesSound ==
  ASSUME GuardInv, PermitsHeld, NEW c \in Calls, LinkRaises(c)
  PROVE  GuardInv' /\ PermitsHeld'
<1> DEFINE r == [Quiet EXCEPT !.at = "raised"]
<1>1. GTypeOK /\ Quiet \in Checks
  BY QuietIs DEF GuardInv
<1>2. r \in Checks /\ r.at = "raised" /\ r.ended = "none"
  BY <1>1 DEF Quiet, Checks
<1>3. check' = [check EXCEPT ![c] = r] /\ permits' = permits + 1 /\ check[c].at = "judging"
      /\ UNCHANGED <<asked, fails, tripped, cache, passed>>
  BY DEF LinkRaises
<1> HIDE DEF r
<1>4. check'[c] = r /\ check' \in [Calls -> Checks] /\ \A d \in Calls \ {c} : check'[d] = check[d]
  BY <1>1, <1>2, <1>3 DEF GTypeOK
<1>5. PermitsHeld'
  BY <1>1, <1>2, <1>3, PermitReturned
<1>6. GTypeOK'
  BY <1>1, <1>3, <1>4, <1>5 DEF GTypeOK, PermitsHeld
<1>7. CacheSound'
  BY <1>3 DEF GuardInv, CacheSound
<1>8. Sound(c)'
  BY <1>2, <1>3, <1>4 DEF GuardInv, Sound
<1>9. QED
  BY <1>3, <1>4, <1>5, <1>6, <1>7, <1>8, GuardMoves

LEMMA ReceiveErrorSound ==
  ASSUME GuardInv, PermitsHeld, NEW c \in Calls, ReceiveError(c)
  PROVE  GuardInv' /\ PermitsHeld'
<1> DEFINE a == IF asked[c].at # "waiting" THEN asked[c]
                ELSE [asked[c] EXCEPT !.at = IF FailOpen THEN "proceeds" ELSE "refuses"]
<1>1. GTypeOK /\ asked[c] \in Askings /\ Quiet \in Checks
  BY QuietIs DEF GuardInv, GTypeOK
<1>2. /\ a \in Askings /\ a.text = asked[c].text
      /\ a.at = "proceeds" => asked[c].at = "proceeds" \/ FailOpen
  BY <1>1 DEF Askings
<1>3. asked' = [asked EXCEPT ![c] = a] /\ check' = [check EXCEPT ![c] = Quiet]
      /\ UNCHANGED <<permits, fails, tripped, cache, passed>> /\ check[c].at = "raised"
  BY <1>1 DEF ReceiveError, GTypeOK
<1> HIDE DEF a
<1>4. /\ asked'[c] = a /\ check'[c] = Quiet /\ asked' \in [Calls -> Askings] /\ check' \in [Calls -> Checks]
      /\ \A d \in Calls \ {c} : asked'[d] = asked[d] /\ check'[d] = check[d]
  BY <1>1, <1>2, <1>3 DEF GTypeOK
<1>5. PermitsHeld'
  BY <1>1, <1>3, PermitKept DEF Quiet
<1>6. GTypeOK'
  BY <1>1, <1>3, <1>4 DEF GTypeOK
<1>7. CacheSound'
  BY <1>3 DEF GuardInv, CacheSound
<1>8. Sound(c)'
  BY <1>2, <1>3, <1>4 DEF GuardInv, Sound, Quiet
<1>9. QED
  BY <1>3, <1>4, <1>5, <1>6, <1>7, <1>8, GuardMoves

LEMMA ReceiveSound ==
  ASSUME GuardInv, PermitsHeld, NEW c \in Calls, Receive(c)
  PROVE  GuardInv' /\ PermitsHeld'
<1> DEFINE a == IF asked[c].at # "waiting" THEN asked[c]
                ELSE [asked[c] EXCEPT !.at = IF check[c].action = "block" THEN "refuses" ELSE "proceeds",
                                      !.form = IF asked[c].text \in Secret THEN "redacted" ELSE "raw"]
<1>1. GTypeOK /\ asked[c] \in Askings /\ Quiet \in Checks
  BY QuietIs DEF GuardInv, GTypeOK
<1>2. /\ a \in Askings /\ a.text = asked[c].text
      /\ a.at = "proceeds" => asked[c].at = "proceeds" \/ check[c].action # "block"
  BY <1>1 DEF Askings
<1>3. asked' = [asked EXCEPT ![c] = a] /\ check' = [check EXCEPT ![c] = Quiet]
      /\ UNCHANGED <<permits, fails, tripped, cache, passed>> /\ check[c].at = "replied"
  BY <1>1 DEF Receive, GTypeOK
<1> HIDE DEF a
<1>4. /\ asked'[c] = a /\ check'[c] = Quiet /\ asked' \in [Calls -> Askings] /\ check' \in [Calls -> Checks]
      /\ \A d \in Calls \ {c} : asked'[d] = asked[d] /\ check'[d] = check[d]
  BY <1>1, <1>2, <1>3 DEF GTypeOK
<1>5. PermitsHeld'
  BY <1>1, <1>3, PermitKept DEF Quiet
<1>6. GTypeOK'
  BY <1>1, <1>3, <1>4 DEF GTypeOK
<1>7. CacheSound'
  BY <1>3 DEF GuardInv, CacheSound
<1>8. Sound(c)'
  BY <1>2, <1>3, <1>4 DEF GuardInv, Sound, Quiet
<1>9. QED
  BY <1>3, <1>4, <1>5, <1>6, <1>7, <1>8, GuardMoves

\* The application goes on without the service, or refuses.
LEMMA AbandonedSound ==
  ASSUME GuardInv, PermitsHeld, NEW c \in Calls, NEW a \in Askings,
         asked' = [asked EXCEPT ![c] = a], a.at = IF FailOpen THEN "proceeds" ELSE "refuses",
         a.text = asked[c].text \/ check[c].at = "idle",
         UNCHANGED <<check, permits, fails, tripped, cache, passed>>
  PROVE  GuardInv' /\ PermitsHeld'
<1>1. GTypeOK
  BY DEF GuardInv
<1>2. asked'[c] = a /\ asked' \in [Calls -> Askings] /\ \A d \in Calls \ {c} : asked'[d] = asked[d]
  BY <1>1 DEF GTypeOK
<1>3. PermitsHeld'
  BY DEF PermitsHeld, Judging
<1>4. GTypeOK'
  BY <1>1, <1>2 DEF GTypeOK
<1>5. CacheSound'
  BY DEF GuardInv, CacheSound
<1>6. Sound(c)'
  BY <1>2 DEF GuardInv, Sound
<1>7. QED
  BY <1>2, <1>3, <1>4, <1>5, <1>6, GuardMoves

LEMMA GuardStep ==
  ASSUME GuardInv, PermitsHeld, [GNext]_gvars
  PROVE  GuardInv' /\ PermitsHeld'
<1>0. GTypeOK
  BY DEF GuardInv
<1>1. ASSUME NEW c \in Calls, NEW t \in Texts, CheckInput(c, t) \/ CheckOutput(c, t) PROVE GuardInv' /\ PermitsHeld'
  BY <1>1, AskedSound DEF CheckInput, CheckOutput
<1>2. ASSUME NEW c \in Calls, NEW t \in Texts, TurnedAway(c, t) PROVE GuardInv' /\ PermitsHeld'
  <2> DEFINE a == [Unasked EXCEPT !.text = t, !.at = IF FailOpen THEN "proceeds" ELSE "refuses"]
  <2>1. a \in Askings /\ a.at = IF FailOpen THEN "proceeds" ELSE "refuses"
    BY DEF Unasked, Askings
  <2>2. asked' = [asked EXCEPT ![c] = a] /\ check[c].at = "idle"
        /\ UNCHANGED <<check, permits, fails, tripped, cache, passed>>
    BY <1>2 DEF TurnedAway, MayAsk
  <2> HIDE DEF a
  <2>3. QED
    BY <2>1, <2>2, AbandonedSound
<1>3. ASSUME NEW c \in Calls, GiveUp(c) PROVE GuardInv' /\ PermitsHeld'
  <2> DEFINE a == [asked[c] EXCEPT !.at = IF FailOpen THEN "proceeds" ELSE "refuses"]
  <2>1. asked[c] \in Askings
    BY <1>0 DEF GTypeOK
  <2>2. a \in Askings /\ a.text = asked[c].text /\ a.at = IF FailOpen THEN "proceeds" ELSE "refuses"
    BY <2>1 DEF Askings
  <2>3. asked' = [asked EXCEPT ![c] = a] /\ UNCHANGED <<check, permits, fails, tripped, cache, passed>>
    BY <1>0, <1>3 DEF GiveUp, GTypeOK
  <2> HIDE DEF a
  <2>4. QED
    BY <2>2, <2>3, AbandonedSound
<1>4. ASSUME NEW c \in Calls, BudgetOut(c) PROVE GuardInv' /\ PermitsHeld'
  <2>1. check[c].tried \in SUBSET ChainLinks /\ "late" \in {"failed", "late"} /\ "late" # "failed"
    BY <1>0 DEF GTypeOK, Checks
  <2>2. /\ fails' \in [ChainLinks -> 0 .. MaxJudgeFailures - 1] /\ tripped' \subseteq ChainLinks
        /\ check[c].at = "judging" /\ ChainFails(c, check[c].tried, "late") /\ UNCHANGED <<asked, passed>>
    BY <1>0, <1>4 DEF BudgetOut, GTypeOK
  <2>3. QED
    BY <2>1, <2>2, ChainFailsSound
<1>5. ASSUME NEW i \in ChainLinks, LinkCools(i) PROVE GuardInv' /\ PermitsHeld'
  <2>1. GTypeOK'
    BY <1>0, <1>5 DEF LinkCools, GTypeOK
  <2>2. QED
    BY <1>5, <2>1 DEF LinkCools, GuardInv, CacheSound, Sound, PermitsHeld, Judging
<1>6. ASSUME NEW t \in Texts, CacheForgets(t) PROVE GuardInv' /\ PermitsHeld'
  <2>1. 0 \in 0 .. 100
    OBVIOUS
  <2>2. cache' \in Seq(Verdict) /\ Len(cache') <= CacheSize /\ Range(cache') \subseteq Range(cache)
    BY <1>0, <1>6, <2>1, StoredIs DEF CacheForgets
  <2>3. GTypeOK'
    BY <1>0, <1>6, <2>2 DEF CacheForgets, GTypeOK, Verdict
  <2>4. CacheSound'
    BY <1>6, <2>2 DEF CacheForgets, GuardInv, CacheSound
  <2>5. QED
    BY <1>6, <2>3, <2>4 DEF CacheForgets, GuardInv, Sound, PermitsHeld, Judging
<1>7. CASE UNCHANGED gvars
  BY <1>7 DEF gvars, GuardInv, GTypeOK, CacheSound, Sound, PermitsHeld, Judging
<1>8. QED
  BY <1>1, <1>2, <1>3, <1>4, <1>5, <1>6, <1>7, EnterSound, UnreadableSound, LinkAnswersSound,
     LinkFailsSound, LinkRaisesSound, ReceiveSound, ReceiveErrorSound DEF GNext

\* The guard's reply is as severe as its rules, the cache holds what a judge said, and
\* every permit is free or with a check that is being judged.
THEOREM GuardInvHolds == GSpec => [](GuardInv /\ PermitsHeld)
<1>1. GInit => GuardInv /\ PermitsHeld
  BY GuardInit, PermitsInit
<1>2. GuardInv /\ PermitsHeld /\ [GNext]_gvars => (GuardInv /\ PermitsHeld)'
  BY GuardStep
<1>3. QED
  BY <1>1, <1>2, PTL DEF GSpec

\* No verdict, cached verdict or outage makes an outcome milder than the rules do.
THEOREM RiskHolds == GSpec => []RiskOnlyRises
<1>1. GuardInv => RiskOnlyRises
  BY DEF GuardInv, Sound, RiskOnlyRises
<1>2. QED
  BY <1>1, GuardInvHolds, PTL

\* With a policy and an application that fail closed, a text no judge scored, under the key
\* the cache has for it, does not go on, also after a 500, and a chain that fails for want
\* of links left none out because its breaker is open.
THEOREM UnjudgedHolds == GSpec => []UnjudgedNeverPasses
<1>1. GuardInv => UnjudgedNeverPasses
  BY DEF GuardInv, Sound, UnjudgedNeverPasses
<1>2. QED
  BY <1>1, GuardInvHolds, PTL
=============================================================================
