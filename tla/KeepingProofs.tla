--------------------------- MODULE KeepingProofs ---------------------------
(***************************************************************************)
(* What a filtered list holds, and the other facts about sequences that    *)
(* the proofs of the components share.                                     *)
(***************************************************************************)
EXTENDS Keeping, Functions, SequenceTheorems, WellFoundedInduction, TLAPS

\* Induction over the numbers, for a set that holds 0 and the successor of whatever it holds.
LEMMA SetInduction ==
  ASSUME NEW P, 0 \in P, \A n \in Nat : n \in P => n + 1 \in P
  PROVE  Nat \subseteq P
<1> DEFINE Below == {pair \in Nat \X Nat : pair[1] < pair[2]}
           Bad   == {n \in Nat : n \notin P}
<1>1. IsWellFoundedOn(Below, Nat)
  BY NatLessThanWellFounded DEF OpToRel
<1>2. SUFFICES ASSUME Bad # {} PROVE FALSE
  OBVIOUS
<1>3. PICK b \in Bad : \A k \in Bad : <<k, b>> \notin Below
  <2>1. Bad \subseteq Nat
    OBVIOUS
  <2>2. PICK x : x \in Bad
    BY <1>2
  <2> HIDE DEF Below, Bad
  <2>3. QED
    BY <1>1, <2>1, <2>2, WFMin
<1>4. b \in Nat /\ b # 0 /\ b \notin P
  BY <1>3
<1>5. b - 1 \in Nat /\ b - 1 < b
  BY <1>4
<1>6. b - 1 \in P
  BY <1>3, <1>5
<1>7. (b - 1) + 1 = b
  BY <1>4
<1>8. QED
  BY <1>4, <1>5, <1>6, <1>7

-----------------------------------------------------------------------------
(* Sequences.                                                              *)

LEMMA RangeAppend ==
  ASSUME NEW S, NEW q \in Seq(S), NEW e \in S
  PROVE  Range(Append(q, e)) = Range(q) \cup {e}
<1>1. DOMAIN Append(q, e) = DOMAIN q \cup {Len(q) + 1} /\ Append(q, e)[Len(q) + 1] = e
  OBVIOUS
<1>2. \A i \in DOMAIN q : Append(q, e)[i] = q[i]
  OBVIOUS
<1>3. Len(q) + 1 \notin DOMAIN q
  OBVIOUS
<1>4. QED
  BY <1>1, <1>2, <1>3 DEF Range

LEMMA RangeTail ==
  ASSUME NEW S, NEW q \in Seq(S), q # <<>>
  PROVE  Tail(q) \in Seq(S) /\ Len(Tail(q)) = Len(q) - 1 /\ Range(Tail(q)) \subseteq Range(q)
<1>1. Len(q) \in Nat /\ Len(q) # 0
  BY EmptySeq
<1>2. Tail(q) \in Seq(S) /\ Len(Tail(q)) = Len(q) - 1
  BY <1>1
<1>3. \A i \in 1..(Len(q) - 1) : Tail(q)[i] = q[i + 1] /\ i + 1 \in DOMAIN q
  BY <1>1
<1>4. QED
  BY <1>1, <1>2, <1>3 DEF Range

\* A batch taken from the front and what stays behind are the whole queue.
LEMMA RangeSplit ==
  ASSUME NEW S, NEW q \in Seq(S), NEW n \in 1..Len(q)
  PROVE  /\ SubSeq(q, 1, n) \in Seq(S) /\ Len(SubSeq(q, 1, n)) = n
         /\ SubSeq(q, n + 1, Len(q)) \in Seq(S) /\ Len(SubSeq(q, n + 1, Len(q))) = Len(q) - n
         /\ Range(q) = Range(SubSeq(q, 1, n)) \cup Range(SubSeq(q, n + 1, Len(q)))
<1> DEFINE front == SubSeq(q, 1, n)
           back  == SubSeq(q, n + 1, Len(q))
<1>1. n \in Nat /\ Len(q) \in Nat /\ n <= Len(q)
  OBVIOUS
<1>2. front \in Seq(S) /\ Len(front) = n /\ back \in Seq(S) /\ Len(back) = Len(q) - n
  BY <1>1
<1>3. q = front \o back
  <2>1. Len(front \o back) = Len(q) /\ front \o back \in Seq(S)
    BY <1>1, <1>2
  <2>2. ASSUME NEW i \in 1..Len(q) PROVE q[i] = (front \o back)[i]
    BY <1>1, <1>2
  <2>3. QED
    BY <2>1, <2>2, SeqEqual
<1>4. QED
  BY <1>2, <1>3, RangeConcatenation

LEMMA RangeHead ==
  ASSUME NEW S, NEW q \in Seq(S), q # <<>>
  PROVE  /\ Head(q) \in S /\ Tail(q) \in Seq(S) /\ Len(Tail(q)) = Len(q) - 1
         /\ Range(q) = {Head(q)} \cup Range(Tail(q))
<1>1. Len(q) \in Nat /\ Len(q) # 0
  BY EmptySeq
<1>2. Tail(q) \in Seq(S) /\ Len(Tail(q)) = Len(q) - 1 /\ Head(q) = q[1] /\ q[1] \in S /\ 1 \in DOMAIN q
  BY <1>1
<1>3. \A i \in 1..(Len(q) - 1) : Tail(q)[i] = q[i + 1] /\ i + 1 \in DOMAIN q
  BY <1>1
<1>4. \A i \in DOMAIN q : i = 1 \/ (i - 1 \in DOMAIN Tail(q) /\ q[i] = Tail(q)[i - 1])
  <2> SUFFICES ASSUME NEW i \in DOMAIN q, i # 1 PROVE i - 1 \in DOMAIN Tail(q) /\ q[i] = Tail(q)[i - 1]
    OBVIOUS
  <2>1. i - 1 \in 1..(Len(q) - 1) /\ (i - 1) + 1 = i
    BY <1>1
  <2>2. QED
    BY <1>2, <1>3, <2>1
<1>5. QED
  BY <1>1, <1>2, <1>3, <1>4 DEF Range

\* A cache that keeps the last n of a list.
LEMMA RangeLatest ==
  ASSUME NEW S, NEW q \in Seq(S), NEW n \in Nat
  PROVE  LET s == SubSeq(q, 1 + (IF Len(q) > n THEN Len(q) - n ELSE 0), Len(q)) IN
         /\ s \in Seq(S) /\ Len(s) <= n /\ Len(s) <= Len(q) /\ Range(s) \subseteq Range(q)
<1> DEFINE k == IF Len(q) > n THEN Len(q) - n ELSE 0
           s == SubSeq(q, 1 + k, Len(q))
<1>1. Len(q) \in Nat /\ k \in Nat /\ k <= Len(q) /\ Len(q) - k <= n
  OBVIOUS
<1> HIDE DEF k
<1>2. s \in Seq(S) /\ Len(s) = Len(q) - k
  BY <1>1
<1>3. \A i \in 1..Len(s) : s[i] = q[k + i] /\ k + i \in DOMAIN q
  BY <1>1, <1>2
<1>4. Range(s) \subseteq Range(q)
  <2> HIDE DEF s
  <2>1. QED
    BY <1>2, <1>3 DEF Range
<1>5. Len(s) <= n /\ Len(s) <= Len(q)
  BY <1>1, <1>2
<1>6. QED
  BY <1>2, <1>4, <1>5 DEF k

-----------------------------------------------------------------------------
(* What Keep leaves of the first n elements: `m' says where each of the     *)
(* elements stood.                                                          *)

Selects(s, S, n, q) ==
  \E m \in [1..Len(q) -> 1..n] :
    /\ \A j \in 1..Len(q) : q[j] = s[m[j]] /\ s[m[j]] \in S
    /\ \A j, k \in 1..Len(q) : j < k => m[j] < m[k]
    /\ \A i \in 1..n : s[i] \in S => \E j \in 1..Len(q) : m[j] = i

KeepStep(s, S, n, q) == IF s[n] \in S THEN Append(q, s[n]) ELSE q

LEMMA SelectsStep ==
  ASSUME NEW A, NEW s \in Seq(A), NEW S, NEW n \in Nat, n + 1 <= Len(s),
         NEW q \in Seq(A), Selects(s, S, n, q)
  PROVE  KeepStep(s, S, n + 1, q) \in Seq(A) /\ Selects(s, S, n + 1, KeepStep(s, S, n + 1, q))
<1>1. PICK m \in [1..Len(q) -> 1..n] :
        /\ \A j \in 1..Len(q) : q[j] = s[m[j]] /\ s[m[j]] \in S
        /\ \A j, k \in 1..Len(q) : j < k => m[j] < m[k]
        /\ \A i \in 1..n : s[i] \in S => \E j \in 1..Len(q) : m[j] = i
  BY DEF Selects
<1>2. Len(q) \in Nat /\ s[n + 1] \in A
  OBVIOUS
<1>3. CASE s[n + 1] \in S
  <2> DEFINE r == Append(q, s[n + 1])
             k == [j \in 1..Len(q) + 1 |-> IF j = Len(q) + 1 THEN n + 1 ELSE m[j]]
  <2>1. r \in Seq(A) /\ Len(r) = Len(q) + 1 /\ r[Len(q) + 1] = s[n + 1]
        /\ \A j \in 1..Len(q) : r[j] = q[j]
    BY <1>2
  <2>2. k \in [1..Len(r) -> 1..(n + 1)]
    BY <1>1, <1>2, <2>1
  <2>3. k[Len(q) + 1] = n + 1 /\ \A j \in 1..Len(q) : k[j] = m[j]
    BY <1>2
  <2> HIDE DEF r, k
  <2>4. \A j \in 1..Len(r) : j = Len(q) + 1 \/ j \in 1..Len(q)
    BY <1>2, <2>1
  <2>5. \A j \in 1..Len(r) : r[j] = s[k[j]] /\ s[k[j]] \in S
    BY <1>1, <1>3, <2>1, <2>3, <2>4
  <2>6. \A i, j \in 1..Len(r) : i < j => k[i] < k[j]
    <3> SUFFICES ASSUME NEW i \in 1..Len(r), NEW j \in 1..Len(r), i < j PROVE k[i] < k[j]
      OBVIOUS
    <3>1. i \in 1..Len(q)
      BY <1>2, <2>1
    <3>2. k[i] = m[i] /\ m[i] \in 1..n
      BY <1>1, <2>3, <3>1
    <3>3. CASE j = Len(q) + 1
      BY <2>3, <3>2, <3>3
    <3>4. CASE j \in 1..Len(q)
      BY <1>1, <2>3, <3>1, <3>4
    <3>5. QED
      BY <2>4, <3>3, <3>4
  <2>7. ASSUME NEW i \in 1..(n + 1), s[i] \in S PROVE \E j \in 1..Len(r) : k[j] = i
    <3>1. CASE i = n + 1
      BY <1>2, <2>1, <2>3, <3>1
    <3>2. CASE i # n + 1
      <4>1. i \in 1..n
        BY <3>2
      <4>2. PICK j \in 1..Len(q) : m[j] = i
        BY <1>1, <2>7, <4>1
      <4>3. QED
        BY <1>2, <2>1, <2>3, <4>2
    <3>3. QED
      BY <3>1, <3>2
  <2>8. Selects(s, S, n + 1, r)
    BY <2>2, <2>5, <2>6, <2>7 DEF Selects
  <2>9. KeepStep(s, S, n + 1, q) = r
    BY <1>3 DEF KeepStep, r
  <2>10. QED
    BY <2>1, <2>8, <2>9
<1>4. CASE s[n + 1] \notin S
  <2>1. m \in [1..Len(q) -> 1..(n + 1)]
    BY <1>1
  <2>2. \A i \in 1..(n + 1) : s[i] \in S => i \in 1..n
    BY <1>4
  <2>3. \A i \in 1..(n + 1) : s[i] \in S => \E j \in 1..Len(q) : m[j] = i
    BY <1>1, <2>2
  <2>4. Selects(s, S, n + 1, q)
    BY <1>1, <2>1, <2>3 DEF Selects
  <2>5. QED
    BY <1>4, <2>4 DEF KeepStep
<1>5. QED
  BY <1>3, <1>4

\* The function that Keep is defined by, on the first n elements.
KeepsUpTo(f, s, S, n) ==
  f = [i \in 0..n |-> IF i = 0 THEN <<>>
                      ELSE IF s[i] \in S THEN Append(f[i - 1], s[i])
                      ELSE f[i - 1]]

LEMMA KeepsUpToExists ==
  ASSUME NEW A, NEW s \in Seq(A), NEW S
  PROVE  \E f : KeepsUpTo(f, s, S, Len(s))
<1> DEFINE P == {n \in Nat : n <= Len(s) => \E f : KeepsUpTo(f, s, S, n)}
<1>1. Len(s) \in Nat
  OBVIOUS
<1>2. 0 \in P
  <2>1. KeepsUpTo([i \in 0..0 |-> <<>>], s, S, 0)
    BY DEF KeepsUpTo
  <2>2. QED
    BY <2>1
<1>3. ASSUME NEW n \in Nat, n \in P, n + 1 <= Len(s) PROVE \E f : KeepsUpTo(f, s, S, n + 1)
  <2>1. PICK f : KeepsUpTo(f, s, S, n)
    BY <1>1, <1>3
  <2> DEFINE g == [i \in 0..(n + 1) |-> IF i = n + 1 THEN KeepStep(s, S, n + 1, f[n]) ELSE f[i]]
  <2>2. \A i \in 0..n : g[i] = f[i]
    OBVIOUS
  <2>3. g[n + 1] = KeepStep(s, S, n + 1, f[n])
    OBVIOUS
  <2>4. \A i \in 0..n : f[i] = IF i = 0 THEN <<>> ELSE IF s[i] \in S THEN Append(f[i - 1], s[i]) ELSE f[i - 1]
    BY <2>1 DEF KeepsUpTo
  <2> DEFINE h == [i \in 0..(n + 1) |-> IF i = 0 THEN <<>>
                                        ELSE IF s[i] \in S THEN Append(g[i - 1], s[i])
                                        ELSE g[i - 1]]
  <2>5. ASSUME NEW i \in 0..(n + 1) PROVE g[i] = h[i]
    <3>1. CASE i = n + 1
      <4>1. h[n + 1] = IF s[n + 1] \in S THEN Append(g[n], s[n + 1]) ELSE g[n]
        OBVIOUS
      <4>2. QED
        BY <2>2, <2>3, <3>1, <4>1 DEF KeepStep
    <3>2. CASE i = 0
      BY <2>2, <2>4, <3>2
    <3>3. CASE i # n + 1 /\ i # 0
      <4>1. i \in 0..n /\ i - 1 \in 0..n
        BY <3>3
      <4>2. g[i] = f[i] /\ g[i - 1] = f[i - 1]
        BY <2>2, <4>1
      <4>3. h[i] = IF s[i] \in S THEN Append(g[i - 1], s[i]) ELSE g[i - 1]
        BY <3>3
      <4>4. QED
        BY <2>4, <3>3, <4>1, <4>2, <4>3
    <3>4. QED
      BY <3>1, <3>2, <3>3
  <2>6. DOMAIN g = 0..(n + 1) /\ DOMAIN h = 0..(n + 1) /\ g = [i \in DOMAIN g |-> g[i]] /\ h = [i \in DOMAIN h |-> h[i]]
    OBVIOUS
  <2>7. g = h
    <3> HIDE DEF g, h
    <3>1. QED
      BY <2>5, <2>6
  <2>8. KeepsUpTo(g, s, S, n + 1)
    BY <2>7 DEF KeepsUpTo
  <2>9. QED
    BY <2>8
<1>4. \A n \in Nat : n \in P => n + 1 \in P
  <2> SUFFICES ASSUME NEW n \in Nat, n \in P PROVE n + 1 \in P
    OBVIOUS
  <2>1. n + 1 \in Nat
    OBVIOUS
  <2>2. QED
    BY <1>3, <2>1
<1>5. Nat \subseteq P
  <2> HIDE DEF P
  <2>1. QED
    BY <1>2, <1>4, SetInduction
<1>6. QED
  BY <1>1, <1>5

\* What is kept of s: the elements in S, each where the order of s puts it.
LEMMA KeepLeaves ==
  ASSUME NEW A, NEW s \in Seq(A), NEW S
  PROVE  Keep(s, S) \in Seq(A) /\ Selects(s, S, Len(s), Keep(s, S))
<1> DEFINE f == CHOOSE g : KeepsUpTo(g, s, S, Len(s))
<1>1. Keep(s, S) = f[Len(s)]
  BY DEF Keep, KeepsUpTo
<1>2. KeepsUpTo(f, s, S, Len(s))
  BY KeepsUpToExists
<1> HIDE DEF f
<1>3. Len(s) \in Nat
  OBVIOUS
<1>4. f[0] = <<>> /\ \A n \in Nat : n + 1 <= Len(s) => f[n + 1] = KeepStep(s, S, n + 1, f[n])
  <2>1. f[0] = <<>>
    BY <1>2, <1>3 DEF KeepsUpTo
  <2>2. ASSUME NEW n \in Nat, n + 1 <= Len(s) PROVE f[n + 1] = KeepStep(s, S, n + 1, f[n])
    <3>1. n + 1 \in 0..Len(s) /\ n + 1 # 0 /\ (n + 1) - 1 = n
      BY <1>3, <2>2
    <3>2. f[n + 1] = IF s[n + 1] \in S THEN Append(f[(n + 1) - 1], s[n + 1]) ELSE f[(n + 1) - 1]
      BY <1>2, <3>1 DEF KeepsUpTo
    <3>3. QED
      BY <3>1, <3>2 DEF KeepStep
  <2>3. QED
    BY <2>1, <2>2
<1> DEFINE P == {n \in Nat : n <= Len(s) => f[n] \in Seq(A) /\ Selects(s, S, n, f[n])}
<1>5. 0 \in P
  <2>1. <<>> \in Seq(A) /\ Len(<<>>) = 0 /\ 1..0 = {}
    OBVIOUS
  <2>2. [j \in {} |-> 1] \in [1..Len(<<>>) -> 1..0]
    BY <2>1
  <2>3. Selects(s, S, 0, <<>>)
    BY <2>1, <2>2 DEF Selects
  <2>4. QED
    BY <1>4, <2>1, <2>3
<1>6. \A n \in Nat : n \in P => n + 1 \in P
  <2> SUFFICES ASSUME NEW n \in Nat, n \in P, n + 1 <= Len(s)
               PROVE  f[n + 1] \in Seq(A) /\ Selects(s, S, n + 1, f[n + 1])
    BY <1>3
  <2>1. f[n] \in Seq(A) /\ Selects(s, S, n, f[n])
    BY <1>3
  <2>2. QED
    BY <1>4, <2>1, SelectsStep
<1>7. Nat \subseteq P
  <2> HIDE DEF P
  <2>1. QED
    BY <1>5, <1>6, SetInduction
<1>8. QED
  BY <1>1, <1>3, <1>7

\* It is a list of the elements that are in S, no longer than s ...
LEMMA KeepRange ==
  ASSUME NEW A, NEW s \in Seq(A), NEW S
  PROVE  /\ Keep(s, S) \in Seq(A) /\ Len(Keep(s, S)) <= Len(s)
         /\ Range(Keep(s, S)) = Range(s) \cap S
<1> DEFINE q == Keep(s, S)
<1>1. q \in Seq(A) /\ Selects(s, S, Len(s), q)
  BY KeepLeaves
<1> HIDE DEF q
<1>2. PICK m \in [1..Len(q) -> 1..Len(s)] :
        /\ \A j \in 1..Len(q) : q[j] = s[m[j]] /\ s[m[j]] \in S
        /\ \A j, k \in 1..Len(q) : j < k => m[j] < m[k]
        /\ \A i \in 1..Len(s) : s[i] \in S => \E j \in 1..Len(q) : m[j] = i
  BY <1>1 DEF Selects
<1>3. Len(q) \in Nat /\ Len(s) \in Nat /\ DOMAIN q = 1..Len(q) /\ DOMAIN s = 1..Len(s)
  BY <1>1
<1>4. Range(q) = Range(s) \cap S
  <2>1. ASSUME NEW j \in 1..Len(q) PROVE q[j] \in Range(s) \cap S
    BY <1>2, <1>3 DEF Range
  <2>2. ASSUME NEW i \in 1..Len(s), s[i] \in S PROVE s[i] \in Range(q)
    <3>1. PICK j \in 1..Len(q) : m[j] = i
      BY <1>2, <2>2
    <3>2. QED
      BY <1>2, <1>3, <3>1 DEF Range
  <2>3. QED
    BY <1>3, <2>1, <2>2 DEF Range
<1>5. Len(q) <= Len(s)
  <2> DEFINE P == {n \in Nat : n + 1 <= Len(q) => n + 1 <= m[n + 1]}
  <2>1. 0 \in P
    BY <1>2, <1>3
  <2>2. ASSUME NEW n \in Nat, n \in P, (n + 1) + 1 <= Len(q) PROVE (n + 1) + 1 <= m[(n + 1) + 1]
    <3>1. n + 1 \in 1..Len(q) /\ (n + 1) + 1 \in 1..Len(q) /\ n + 1 < (n + 1) + 1
      BY <1>3, <2>2
    <3>2. n + 1 <= m[n + 1]
      BY <1>3, <2>2, <3>1
    <3>3. m[n + 1] < m[(n + 1) + 1] /\ m[n + 1] \in Nat /\ m[(n + 1) + 1] \in Nat
      BY <1>2, <1>3, <3>1
    <3>4. QED
      BY <3>2, <3>3
  <2>3. \A n \in Nat : n \in P => n + 1 \in P
    BY <2>2
  <2>4. Nat \subseteq P
    <3> HIDE DEF P
    <3>1. QED
      BY <2>1, <2>3, SetInduction
  <2>5. CASE Len(q) = 0
    BY <1>3, <2>5
  <2>6. CASE Len(q) # 0
    <3>1. Len(q) - 1 \in Nat /\ (Len(q) - 1) + 1 = Len(q) /\ Len(q) \in 1..Len(q)
      BY <1>3, <2>6
    <3>2. Len(q) <= m[Len(q)]
      BY <2>4, <3>1
    <3>3. QED
      BY <1>2, <1>3, <3>1, <3>2
  <2>7. QED
    BY <2>5, <2>6
<1>6. QED
  BY <1>1, <1>4, <1>5 DEF q

\* ... that repeats nothing that s does not repeat.
LEMMA KeepInjective ==
  ASSUME NEW A, NEW s \in Seq(A), NEW S, IsInjective(s)
  PROVE  IsInjective(Keep(s, S))
<1> DEFINE q == Keep(s, S)
<1>1. q \in Seq(A) /\ Selects(s, S, Len(s), q)
  BY KeepLeaves
<1> HIDE DEF q
<1>2. PICK m \in [1..Len(q) -> 1..Len(s)] :
        /\ \A j \in 1..Len(q) : q[j] = s[m[j]] /\ s[m[j]] \in S
        /\ \A j, k \in 1..Len(q) : j < k => m[j] < m[k]
  BY <1>1 DEF Selects
<1>3. Len(q) \in Nat /\ Len(s) \in Nat /\ DOMAIN q = 1..Len(q) /\ DOMAIN s = 1..Len(s)
  BY <1>1
<1>4. ASSUME NEW j \in 1..Len(q), NEW k \in 1..Len(q), q[j] = q[k] PROVE j = k
  <2>1. m[j] = m[k]
    <3>1. s[m[j]] = s[m[k]] /\ m[j] \in DOMAIN s /\ m[k] \in DOMAIN s
      BY <1>2, <1>3, <1>4
    <3>2. QED
      BY <3>1 DEF IsInjective
  <2>2. ~(j < k) /\ ~(k < j)
    BY <1>2, <1>3, <2>1
  <2>3. QED
    BY <1>3, <2>2
<1>5. QED
  BY <1>3, <1>4 DEF q, IsInjective

LEMMA SeqWithin ==
  ASSUME NEW A, NEW q \in Seq(A), NEW B, Range(q) \subseteq B
  PROVE  q \in Seq(B)
<1>1. q \in [1..Len(q) -> A] /\ Len(q) \in Nat /\ DOMAIN q = 1..Len(q)
  BY LenProperties
<1>2. \A i \in 1..Len(q) : q[i] \in B
  BY <1>1 DEF Range
<1>3. q \in [1..Len(q) -> B]
  BY <1>1, <1>2
<1>4. QED
  BY <1>1, <1>3, SeqDef

\* Some of the elements first and others after them, as in an order of preference.
LEMMA KeepParts ==
  ASSUME NEW A, NEW s \in Seq(A), NEW S, NEW T
  PROVE  LET q == Keep(s, S) \o Keep(s, T) IN
         Range(q) = Range(s) \cap (S \cup T) /\ q \in Seq(Range(s) \cap (S \cup T))
<1> DEFINE a == Keep(s, S)
           b == Keep(s, T)
           q == a \o b
<1>1. a \in Seq(A) /\ b \in Seq(A) /\ Range(a) = Range(s) \cap S /\ Range(b) = Range(s) \cap T
  BY KeepRange
<1> HIDE DEF a, b
<1>2. Range(q) = Range(a) \cup Range(b) /\ q \in Seq(A)
  BY <1>1, RangeConcatenation
<1>3. Range(q) = Range(s) \cap (S \cup T)
  BY <1>1, <1>2
<1> HIDE DEF q
<1>4. q \in Seq(Range(s) \cap (S \cup T))
  BY <1>2, <1>3, SeqWithin
<1>5. QED
  BY <1>3, <1>4 DEF q, a, b
=============================================================================
