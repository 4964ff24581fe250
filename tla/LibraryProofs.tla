--------------------------- MODULE LibraryProofs ---------------------------
(***************************************************************************)
(* The shelves, conversations and corpora of Library, for any number of    *)
(* shelves, conversations and requests.                                    *)
(***************************************************************************)
EXTENDS Library, KeepingProofs, FiniteSetTheorems, TLAPS

Allowed(t) == IF thread[t].shelf # Default THEN {slug[thread[t].shelf]} ELSE {thread[t].was, Default}

\* A corpus nothing is left of.
Bare(c) == stored[c] = {} /\ c \notin open \cup Range(cached)

\* A conversation is pinned to the corpus of its shelf.
ThreadHeld ==
  \A t \in Threads :
    /\ thread[t].row = "none" => memory[t] = {} /\ thread[t].shelf = Default
    /\ thread[t].shelf # Default => thread[t].shelf \in rows /\ thread[t].was = slug[thread[t].shelf]
    /\ memory[t] \subseteq Allowed(t)

\* What a request has read is still what its conversation is pinned to, or
\* its shelf is gone for good.
SlotSound(r) ==
  /\ r.thread # NoThread =>
       /\ thread[r.thread].row # "none"
       /\ r.at = "lookup" => \/ r.shelf = thread[r.thread].shelf
                             \/ thread[r.thread].shelf = Default /\ r.shelf \notin rows
       /\ r.at = "lookup" => r.corpus = Default
       /\ r.at \in {"search", "answer"} => r.corpus \in Allowed(r.thread)
  /\ r.at = "named" => r.corpus \in Range(Slugs)

SlotHeld == \A q \in Slots : SlotSound(slot[q])

\* What is being deleted was emptied, and whatever was put back since is tainted.
CorpusHeld ==
  /\ \A s \in rows \ {Default} : slug[s] \in Range(Slugs)
  /\ \A s, r \in rows \ {Default} : slug[s] = slug[r] => s = r
  /\ \A c \in Corpora \ tainted : /\ \A x \in stored[c] : Names(x.owner, c)
                                  /\ Named(c) \/ Bare(c)
                                  /\ purge # "none" => Bare(c)
                                  /\ doomed # Default /\ slug[doomed] = c => Bare(c)

LibraryInv == LTypeOK /\ ThreadHeld /\ SlotHeld /\ CorpusHeld

SlotRows ==
  [at : {"idle", "lookup", "search", "answer", "job", "thread", "pinned", "shelf", "named"},
   thread : Threads \cup {NoThread}, shelf : Rows, corpus : Corpora]

-----------------------------------------------------------------------------
(* The operators.                                                          *)

LEMMA NamesAre ==
  /\ Default \in Rows /\ Default \in Corpora /\ Default \notin Shelves /\ Default \notin Range(Slugs)
  /\ NoThread \notin Threads /\ Range(Slugs) \subseteq Corpora /\ Rows = Shelves \cup {Default}
  BY LibraryAssumption DEF Rows, Corpora

LEMMA CorpusOfIs ==
  ASSUME LTypeOK, NEW s \in Rows
  PROVE  CorpusOf(s) \in Corpora
  BY NamesAre DEF CorpusOf, LTypeOK, Rows

LEMMA IdleIs == Idle \in SlotRows /\ SlotSound(Idle) /\ Idle.thread = NoThread /\ Idle.corpus = Default
  BY NamesAre DEF Idle, SlotRows, SlotSound

LEMMA WarmIs ==
  ASSUME LTypeOK, NEW c \in Corpora, Warm(c)
  PROVE  cached' \in Seq(Corpora) /\ Len(cached') <= MaxActive /\ Range(cached') \subseteq Range(cached) \cup {c}
<1> DEFINE S == Corpora \ {c}
           rest == Keep(cached, S)
           warmer == Append(rest, c)
<1>1. cached \in Seq(Corpora) /\ Len(cached) \in Nat /\ Len(cached) <= MaxActive /\ MaxActive \in Nat
  BY LibraryAssumption DEF LTypeOK
<1>2. rest \in Seq(Corpora) /\ Len(rest) <= Len(cached) /\ Range(rest) \subseteq Range(cached)
  <2> HIDE DEF S
  <2>1. QED
    BY <1>1, KeepRange
<1>3. cached' = IF Len(warmer) > MaxActive THEN Tail(warmer) ELSE warmer
  BY DEF Warm
<1> HIDE DEF rest
<1>4. warmer \in Seq(Corpora) /\ Len(warmer) = Len(rest) + 1 /\ Len(rest) \in Nat /\ Range(warmer) \subseteq Range(cached) \cup {c}
  BY <1>2, RangeAppend
<1>5. warmer # <<>>
  BY <1>4
<1> HIDE DEF warmer
<1>6. Tail(warmer) \in Seq(Corpora) /\ Len(Tail(warmer)) = Len(rest) /\ Range(Tail(warmer)) \subseteq Range(warmer)
  BY <1>4, <1>5, RangeTail
<1>7. QED
  BY <1>1, <1>2, <1>3, <1>4, <1>6

LEMMA FailingIs ==
  ASSUME LTypeOK, NEW S \in SUBSET Corpora, NEW f \in Failing(S)
  PROVE  f \subseteq S /\ faults + Cardinality(f) \in 0 .. MaxFaults
<1>1. IsFiniteSet(Range(Slugs))
  <2>1. DOMAIN Slugs = 1 .. Len(Slugs) /\ Len(Slugs) \in Nat
    BY LibraryAssumption
  <2>2. IsFiniteSet(1 .. Len(Slugs))
    BY <2>1, FS_Interval
  <2>3. Slugs \in Surjection(1 .. Len(Slugs), Range(Slugs))
    BY <2>1, LibraryAssumption DEF Surjection, Range
  <2>4. QED
    BY <2>2, <2>3, FS_Surjection
<1>2. IsFiniteSet(Corpora)
  BY <1>1, FS_AddElement DEF Corpora
<1>3. f \subseteq S /\ faults + Cardinality(f) <= MaxFaults
  BY DEF Failing
<1>4. IsFiniteSet(f)
  BY <1>2, <1>3, FS_Subset
<1>5. Cardinality(f) \in Nat /\ faults \in Nat /\ MaxFaults \in Nat
  BY <1>4, LibraryAssumption, FS_CardinalityType DEF LTypeOK
<1>6. QED
  BY <1>3, <1>5

LEMMA EmptyIs ==
  ASSUME LTypeOK, NEW S \in SUBSET Corpora, NEW f \in Failing(S), Empty(S, f)
  PROVE  /\ stored' \in [Corpora -> SUBSET [in : Stores, owner : Rows]]
         /\ open' \subseteq Corpora /\ cached' \in Seq(Corpora) /\ Len(cached') <= MaxActive
         /\ tainted' \subseteq Corpora /\ faults' \in 0 .. MaxFaults
         /\ \A c \in S : c \in tainted' \/ (stored'[c] = {} /\ c \notin open' \cup Range(cached'))
         /\ \A c \in Corpora \ S : /\ stored'[c] = stored[c] /\ (c \in open' => c \in open) /\ (c \in tainted' <=> c \in tainted)
                                   /\ c \in Range(cached') => c \in Range(cached)
<1> DEFINE T == Corpora \ S
<1>1. f \subseteq S /\ faults' \in 0 .. MaxFaults
  BY FailingIs DEF Empty
<1>2. cached' \in Seq(Corpora) /\ Len(cached') <= Len(cached) /\ Range(cached') = Range(cached) \cap T
  <2>1. cached' = Keep(cached, T) /\ cached \in Seq(Corpora)
    BY DEF Empty, Evict, LTypeOK
  <2> HIDE DEF T
  <2>2. QED
    BY <2>1, KeepRange
<1>3. Len(cached') <= MaxActive
  <2>1. Len(cached) \in Nat /\ Len(cached) <= MaxActive /\ MaxActive \in Nat /\ Len(cached') \in Nat
    BY <1>2, LibraryAssumption DEF LTypeOK
  <2>2. QED
    BY <1>2, <2>1
<1>4. stored' = [c \in Corpora |-> IF c \in f THEN {x \in stored[c] : x.in = "graph"} ELSE IF c \in S THEN {} ELSE stored[c]]
  BY DEF Empty, PurgeCorpus
<1>5. stored' \in [Corpora -> SUBSET [in : Stores, owner : Rows]]
  BY <1>4 DEF LTypeOK
<1>6. open' = open \ S /\ tainted' = (tainted \ S) \cup f
  BY DEF Empty, CloseFile
<1>7. \A c \in S : c \in tainted' \/ (stored'[c] = {} /\ c \notin open' \cup Range(cached'))
  BY <1>2, <1>4, <1>6
<1>8. \A c \in Corpora \ S : /\ stored'[c] = stored[c] /\ (c \in open' => c \in open) /\ (c \in tainted' <=> c \in tainted)
                             /\ c \in Range(cached') => c \in Range(cached)
  BY <1>1, <1>2, <1>4, <1>6
<1>9. QED
  BY <1>1, <1>2, <1>3, <1>5, <1>6, <1>7, <1>8 DEF LTypeOK

-----------------------------------------------------------------------------
(* What the steps leave alone.                                             *)

\* A request moves, and shelves and conversations do not.
LEMMA SlotMoves ==
  ASSUME LTypeOK, SlotHeld, NEW q \in Slots, NEW r \in SlotRows, SlotSound(r), slot' = [slot EXCEPT ![q] = r],
         UNCHANGED <<rows, slug, thread>>
  PROVE  slot' \in [Slots -> SlotRows] /\ SlotHeld'
<1>1. slot \in [Slots -> SlotRows]
  BY DEF LTypeOK, SlotRows
<1>2. slot' \in [Slots -> SlotRows] /\ \A p \in Slots : slot'[p] = IF p = q THEN r ELSE slot[p]
  BY <1>1
<1>3. QED
  BY <1>2 DEF SlotHeld, SlotSound, Allowed

\* Only a request moves.
LEMMA OnlySlotMoves ==
  ASSUME LibraryInv, NEW q \in Slots, NEW r \in SlotRows, SlotSound(r), Goes(q, r),
         UNCHANGED <<account, rows, slug, thread, memory, stored, open, cached, doomed, purge, tainted, faults>>
  PROVE  LibraryInv'
<1>1. slot' \in [Slots -> SlotRows] /\ SlotHeld'
  BY SlotMoves DEF LibraryInv, Goes
<1>2. LTypeOK'
  BY <1>1 DEF LibraryInv, LTypeOK, SlotRows
<1>3. ThreadHeld' /\ CorpusHeld'
  BY DEF LibraryInv, ThreadHeld, CorpusHeld, Allowed, Names, Named, Exists, CorpusOf, Bare
<1>4. QED
  BY <1>1, <1>2, <1>3 DEF LibraryInv

\* A request without a conversation.
LEMMA PlainIs ==
  ASSUME NEW at \in {"job", "thread", "shelf"}, NEW s \in Rows, NEW c \in Corpora
  PROVE  LET r == [Idle EXCEPT !.at = at, !.shelf = s, !.corpus = c] IN r \in SlotRows /\ SlotSound(r)
<1> DEFINE r == [Idle EXCEPT !.at = at, !.shelf = s, !.corpus = c]
<1>1. r \in SlotRows /\ r.thread = NoThread /\ r.at = at
  BY IdleIs DEF SlotRows
<1> HIDE DEF r
<1>2. SlotSound(r)
  BY <1>1 DEF SlotSound
<1>3. QED
  BY <1>1, <1>2 DEF r

-----------------------------------------------------------------------------
(* The steps.                                                              *)

LEMMA AskStep ==
  ASSUME LibraryInv, NEW q \in Slots, NEW t \in Threads \cup {NoThread}, NEW s \in Rows, Ask(q, t, s)
  PROVE  LibraryInv'
<1> DEFINE x == ShelfFor(t, s)
           r == [Idle EXCEPT !.at = "lookup", !.thread = t, !.shelf = x]
<1>1. x \in Rows
  BY NamesAre DEF ShelfFor, LibraryInv, LTypeOK, ThreadRows
<1>2. t # NoThread => thread[t].row # "none" /\ x = thread[t].shelf
  BY DEF Ask, ShelfFor
<1>3. Goes(q, r) /\ UNCHANGED <<account, rows, slug, thread, memory, stored, open, cached, doomed, purge, tainted, faults>>
  BY DEF Ask
<1> HIDE DEF x
<1>4. r \in SlotRows /\ r.thread = t /\ r.at = "lookup" /\ r.shelf = x /\ r.corpus = Default
  BY <1>1, IdleIs, NamesAre DEF SlotRows
<1> HIDE DEF r
<1>5. SlotSound(r)
  BY <1>2, <1>4 DEF SlotSound
<1>6. QED
  BY <1>3, <1>4, <1>5, OnlySlotMoves

LEMMA LookUpStep ==
  ASSUME LibraryInv, NEW q \in Slots, LookUp(q)
  PROVE  LibraryInv'
<1> DEFINE s == slot[q].shelf
           t == slot[q].thread
<1>0. LTypeOK /\ ThreadHeld /\ SlotHeld
  BY DEF LibraryInv
<1>1. slot[q] \in SlotRows /\ s \in Rows /\ t \in Threads \cup {NoThread} /\ slot[q].at = "lookup" /\ SlotSound(slot[q])
  BY <1>0 DEF LookUp, At, LTypeOK, SlotRows, SlotHeld
<1>2. UNCHANGED <<account, rows, slug, thread, memory, stored, open, cached, doomed, purge, tainted, faults>>
  BY DEF LookUp
<1>3. CASE s = Default \/ s \in rows
  <2> DEFINE c == CorpusOf(s)
             r == [slot[q] EXCEPT !.at = "search", !.shelf = Default, !.corpus = c]
  <2>1. Goes(q, r) /\ c \in Corpora
    BY <1>0, <1>1, <1>3, CorpusOfIs DEF LookUp
  <2>2. t # NoThread => thread[t].row # "none" /\ c \in Allowed(t)
    <3>1. SUFFICES ASSUME t # NoThread PROVE thread[t].row # "none" /\ c \in Allowed(t)
      OBVIOUS
    <3>2. /\ t \in Threads /\ thread[t].row # "none"
          /\ s = thread[t].shelf \/ (thread[t].shelf = Default /\ s \notin rows)
      BY <1>1, <3>1 DEF SlotSound
    <3>3. QED
      BY <1>3, <3>2 DEF Allowed, CorpusOf
  <2> HIDE DEF c, s
  <2>3. r \in SlotRows /\ r.thread = t /\ r.at = "search" /\ r.corpus = c
    BY <1>1, <2>1, NamesAre DEF SlotRows
  <2> HIDE DEF r, t
  <2>4. SlotSound(r)
    BY <2>2, <2>3 DEF SlotSound
  <2>5. QED
    BY <1>2, <2>1, <2>3, <2>4, OnlySlotMoves
<1>4. CASE ~(s = Default \/ s \in rows) /\ t = NoThread
  <2>1. Goes(q, Idle)
    BY <1>4 DEF LookUp, Frees
  <2>2. QED
    BY <1>2, <2>1, IdleIs, OnlySlotMoves
<1>5. CASE ~(s = Default \/ s \in rows) /\ t # NoThread
  <2> DEFINE r == [slot[q] EXCEPT !.at = "search", !.shelf = Default]
  <2>1. Goes(q, r)
    BY <1>5 DEF LookUp
  <2>2. r \in SlotRows /\ r.thread = t /\ r.at = "search" /\ r.corpus = slot[q].corpus
    BY <1>1, NamesAre DEF SlotRows
  <2>3. thread[t].row # "none" /\ thread[t].shelf = Default /\ slot[q].corpus = Default
    BY <1>0, <1>1, <1>5 DEF SlotSound, ThreadHeld
  <2>4. Default \in Allowed(t)
    BY <2>3 DEF Allowed
  <2> HIDE DEF r, t
  <2>5. SlotSound(r)
    BY <2>2, <2>3, <2>4 DEF SlotSound
  <2>6. QED
    BY <1>2, <2>1, <2>2, <2>5, OnlySlotMoves
<1>6. QED
  BY <1>3, <1>4, <1>5

LEMMA UploadStep ==
  ASSUME LibraryInv, NEW q \in Slots, NEW s \in Rows, Upload(q, s)
  PROVE  LibraryInv'
<1> DEFINE c == CorpusOf(s)
           r == [Idle EXCEPT !.at = "job", !.shelf = s, !.corpus = c]
<1>1. c \in Corpora
  BY CorpusOfIs DEF LibraryInv
<1>2. Goes(q, r) /\ UNCHANGED <<account, rows, slug, thread, memory, stored, open, cached, doomed, purge, tainted, faults>>
  BY DEF Upload
<1> HIDE DEF c
<1>3. r \in SlotRows /\ SlotSound(r)
  BY <1>1, PlainIs
<1> HIDE DEF r
<1>4. QED
  BY <1>2, <1>3, OnlySlotMoves

LEMMA NewThreadStep ==
  ASSUME LibraryInv, NEW q \in Slots, NEW s \in Rows, NewThread(q, s)
  PROVE  LibraryInv'
<1> DEFINE r == [Idle EXCEPT !.at = "thread", !.shelf = s]
<1>1. Goes(q, r) /\ UNCHANGED <<account, rows, slug, thread, memory, stored, open, cached, doomed, purge, tainted, faults>>
  BY DEF NewThread
<1>2. r \in SlotRows /\ r.thread = NoThread /\ r.at = "thread"
  BY IdleIs DEF SlotRows
<1> HIDE DEF r
<1>3. SlotSound(r)
  BY <1>2 DEF SlotSound
<1>4. QED
  BY <1>1, <1>2, <1>3, OnlySlotMoves

LEMMA CountThreadsStep ==
  ASSUME LibraryInv, NEW q \in Slots, CountThreads(q)
  PROVE  LibraryInv'
<1> DEFINE r == [slot[q] EXCEPT !.at = "pinned"]
<1>1. slot[q] \in SlotRows /\ SlotSound(slot[q])
  BY DEF LibraryInv, LTypeOK, SlotRows, SlotHeld
<1>2. UNCHANGED <<account, rows, slug, thread, memory, stored, open, cached, doomed, purge, tainted, faults>>
  BY DEF CountThreads
<1>3. Goes(q, r) \/ Goes(q, Idle)
  BY DEF CountThreads, Frees
<1>4. r \in SlotRows /\ r.thread = slot[q].thread /\ r.at = "pinned"
  BY <1>1 DEF SlotRows
<1> HIDE DEF r
<1>5. SlotSound(r)
  BY <1>1, <1>4 DEF SlotSound
<1>6. QED
  BY <1>2, <1>3, <1>4, <1>5, IdleIs, OnlySlotMoves

LEMMA NameShelfStep ==
  ASSUME LibraryInv, NEW q \in Slots, NameShelf(q)
  PROVE  LibraryInv'
<1> DEFINE S == Range(Slugs) \ Taken
           free == Keep(Slugs, S)
           c == Head(free)
           r == [slot[q] EXCEPT !.at = "named", !.corpus = c]
<1>1. slot[q] \in SlotRows /\ SlotSound(slot[q])
  BY DEF LibraryInv, LTypeOK, SlotRows, SlotHeld
<1>2. UNCHANGED <<account, rows, slug, thread, memory, stored, open, cached, doomed, purge, tainted, faults>>
  BY DEF NameShelf
<1>3. CASE Full(Cardinality(rows), MaxShelves) \/ Range(Slugs) \subseteq Taken
  <2>1. Goes(q, Idle)
    BY <1>3 DEF NameShelf, Frees
  <2>2. QED
    BY <1>2, <2>1, IdleIs, OnlySlotMoves
<1>4. CASE ~(Full(Cardinality(rows), MaxShelves) \/ Range(Slugs) \subseteq Taken)
  <2>1. Goes(q, r) /\ S # {} /\ S \subseteq Range(Slugs)
    BY <1>4 DEF NameShelf
  <2>2. c \in Range(Slugs)
    <3>1. Slugs \in Seq(Range(Slugs))
      BY LibraryAssumption
    <3> HIDE DEF S
    <3>2. free \in Seq(Range(Slugs)) /\ Range(free) = Range(Slugs) \cap S
      BY <3>1, KeepRange
    <3>3. Range(free) # {}
      BY <2>1, <3>2
    <3>4. free # <<>>
      BY <3>3 DEF Range
    <3> HIDE DEF free
    <3>5. QED
      BY <3>2, <3>4, RangeHead
  <2> HIDE DEF c
  <2>3. r \in SlotRows /\ r.thread = slot[q].thread /\ r.at = "named" /\ r.corpus = c
    BY <1>1, <2>2, NamesAre DEF SlotRows
  <2> HIDE DEF r
  <2>4. SlotSound(r)
    BY <1>1, <2>2, <2>3 DEF SlotSound
  <2>5. QED
    BY <1>2, <2>1, <2>3, <2>4, OnlySlotMoves
<1>5. QED
  BY <1>3, <1>4

LEMMA SearchStep ==
  ASSUME LibraryInv, NEW q \in Slots, Search(q)
  PROVE  LibraryInv'
<1> DEFINE r == [slot[q] EXCEPT !.at = "answer"]
           c == slot[q].corpus
<1>0. LTypeOK /\ ThreadHeld /\ SlotHeld /\ CorpusHeld
  BY DEF LibraryInv
<1>1. slot[q] \in SlotRows /\ SlotSound(slot[q]) /\ slot[q].at = "search" /\ c \in Corpora
  BY <1>0 DEF LTypeOK, SlotRows, SlotHeld, Search, At
<1>2. r \in SlotRows /\ r.thread = slot[q].thread /\ r.at = "answer" /\ r.corpus = slot[q].corpus
  BY <1>1 DEF SlotRows
<1>3. /\ UNCHANGED <<account, rows, slug, thread, memory, stored, doomed, purge, faults>>
      /\ slot' = [slot EXCEPT ![q] = r] /\ open' = open \cup {c}
      /\ tainted' = IF Settled(c) THEN tainted ELSE tainted \cup {c}
  BY DEF Search, Goes, Connect, Taint
<1>4. cached' \in Seq(Corpora) /\ Len(cached') <= MaxActive /\ Range(cached') \subseteq Range(cached) \cup {c}
  BY <1>0, <1>1, WarmIs DEF Search
<1> HIDE DEF r, c
<1>5. SlotSound(r)
  BY <1>1, <1>2 DEF SlotSound
<1>6. slot' \in [Slots -> SlotRows] /\ SlotHeld'
  BY <1>0, <1>2, <1>3, <1>5, SlotMoves
<1>7. LTypeOK'
  BY <1>0, <1>1, <1>3, <1>4, <1>6 DEF LTypeOK, SlotRows
<1>8. ThreadHeld'
  BY <1>0, <1>3 DEF ThreadHeld, Allowed
<1>9. CorpusHeld'
  <2>1. \A d \in Corpora : (Named(d)' <=> Named(d)) /\ \A o : Names(o, d)' <=> Names(o, d)
    BY <1>3 DEF Named, Names, Exists, CorpusOf
  <2>2. \A d \in Corpora : d # c /\ Bare(d) => Bare(d)'
    BY <1>3, <1>4 DEF Bare
  <2>3. c \notin tainted' => Named(c) /\ purge = "none" /\ (doomed # Default => slug[doomed] # c)
    BY <1>3 DEF Settled
  <2>4. QED
    BY <1>0, <1>3, <2>1, <2>2, <2>3 DEF CorpusHeld
<1>10. QED
  BY <1>6, <1>7, <1>8, <1>9 DEF LibraryInv

LEMMA StoreStep ==
  ASSUME LibraryInv, NEW q \in Slots, Store(q)
  PROVE  LibraryInv'
<1> DEFINE c == slot[q].corpus
           s == slot[q].shelf
           N == [in : Stores, owner : {s}]
<1>0. LTypeOK /\ ThreadHeld /\ SlotHeld /\ CorpusHeld
  BY DEF LibraryInv
<1>1. c \in Corpora /\ s \in Rows
  BY <1>0 DEF LTypeOK
<1>2. /\ UNCHANGED <<account, rows, slug, thread, memory, doomed, purge, faults>>
      /\ slot' = [slot EXCEPT ![q] = Idle] /\ open' = open \cup {c}
      /\ stored' = [stored EXCEPT ![c] = @ \cup N]
      /\ tainted' = IF Settled(c) /\ Names(s, c) THEN tainted ELSE tainted \cup {c}
  BY DEF Store, Frees, Goes, Connect, Taint, Put
<1>3. cached' \in Seq(Corpora) /\ Len(cached') <= MaxActive /\ Range(cached') \subseteq Range(cached) \cup {c}
  BY <1>0, <1>1, WarmIs DEF Store
<1>4. N \subseteq [in : Stores, owner : Rows] /\ \A x \in N : x.owner = s
  BY <1>1
<1> HIDE DEF c, s, N
<1>5. slot' \in [Slots -> SlotRows] /\ SlotHeld'
  BY <1>0, <1>2, IdleIs, SlotMoves
<1>6. stored' \in [Corpora -> SUBSET [in : Stores, owner : Rows]]
  BY <1>0, <1>1, <1>2, <1>4 DEF LTypeOK
<1>7. LTypeOK'
  BY <1>0, <1>1, <1>2, <1>3, <1>5, <1>6 DEF LTypeOK, SlotRows
<1>8. ThreadHeld'
  BY <1>0, <1>2 DEF ThreadHeld, Allowed
<1>9. CorpusHeld'
  <2>1. \A d \in Corpora : (Named(d)' <=> Named(d)) /\ \A o : Names(o, d)' <=> Names(o, d)
    BY <1>2 DEF Named, Names, Exists, CorpusOf
  <2>2. \A d \in Corpora : d # c => stored'[d] = stored[d]
    BY <1>0, <1>2 DEF LTypeOK
  <2>3. \A d \in Corpora : d # c /\ Bare(d) => Bare(d)'
    BY <1>2, <1>3, <2>2 DEF Bare
  <2>4. stored'[c] = stored[c] \cup N
    BY <1>0, <1>1, <1>2 DEF LTypeOK
  <2>5. c \notin tainted' => Named(c) /\ purge = "none" /\ (doomed # Default => slug[doomed] # c) /\ Names(s, c)
    BY <1>2 DEF Settled
  <2>6. \A d \in Corpora \ tainted' : \A x \in stored'[d] : Names(x.owner, d)
    BY <1>0, <1>2, <1>4, <2>2, <2>4, <2>5 DEF CorpusHeld
  <2>7. QED
    BY <1>0, <1>2, <2>1, <2>3, <2>5, <2>6 DEF CorpusHeld
<1>10. QED
  BY <1>5, <1>7, <1>8, <1>9 DEF LibraryInv

\* Rows and stores as they were.
LEMMA CorpusSame ==
  ASSUME CorpusHeld, UNCHANGED <<account, rows, slug, stored, open, cached, doomed, purge, tainted>>
  PROVE  CorpusHeld'
BY DEF CorpusHeld, Names, Named, Exists, CorpusOf, Bare

LEMMA AnswerStep ==
  ASSUME LibraryInv, NEW q \in Slots, Answer(q)
  PROVE  LibraryInv'
<1> DEFINE t == slot[q].thread
           c == slot[q].corpus
<1>0. LTypeOK /\ ThreadHeld /\ SlotHeld /\ CorpusHeld
  BY DEF LibraryInv
<1>1. t \in Threads \cup {NoThread} /\ c \in Corpora
  BY <1>0 DEF LTypeOK
<1>2. t # NoThread => thread[t].row # "none" /\ c \in Allowed(t)
  BY <1>0 DEF SlotHeld, SlotSound, Answer, At
<1>3. /\ UNCHANGED <<account, rows, slug, thread, stored, open, cached, doomed, purge, tainted, faults>>
      /\ slot' = [slot EXCEPT ![q] = Idle]
      /\ memory' = IF t = NoThread THEN memory ELSE [memory EXCEPT ![t] = @ \cup {c}]
  BY DEF Answer, Frees, Goes
<1> HIDE DEF t, c
<1>4. slot' \in [Slots -> SlotRows] /\ SlotHeld'
  BY <1>0, <1>3, IdleIs, SlotMoves
<1>5. memory' \in [Threads -> SUBSET Corpora]
  BY <1>0, <1>1, <1>3 DEF LTypeOK
<1>6. LTypeOK'
  BY <1>0, <1>3, <1>4, <1>5 DEF LTypeOK, SlotRows
<1>7. \A u \in Threads : memory'[u] = IF u = t THEN memory[u] \cup {c} ELSE memory[u]
  BY <1>0, <1>1, <1>3, NamesAre DEF LTypeOK
<1>8. \A u \in Threads : Allowed(u)' = Allowed(u)
  BY <1>3 DEF Allowed
<1>9. ThreadHeld'
  <2>1. SUFFICES ASSUME NEW u \in Threads
                 PROVE  /\ thread[u].row = "none" => memory'[u] = {} /\ thread[u].shelf = Default
                        /\ thread[u].shelf # Default => thread[u].shelf \in rows /\ thread[u].was = slug[thread[u].shelf]
                        /\ memory'[u] \subseteq Allowed(u)
    BY <1>3, <1>8 DEF ThreadHeld
  <2>2. /\ thread[u].row = "none" => memory[u] = {} /\ thread[u].shelf = Default
        /\ thread[u].shelf # Default => thread[u].shelf \in rows /\ thread[u].was = slug[thread[u].shelf]
        /\ memory[u] \subseteq Allowed(u)
    BY <1>0 DEF ThreadHeld
  <2>3. u # NoThread
    BY NamesAre
  <2>4. memory'[u] = IF u = t THEN memory[u] \cup {c} ELSE memory[u]
    BY <1>7
  <2>5. QED
    BY <1>2, <2>2, <2>3, <2>4
<1>10. QED
  BY <1>0, <1>3, <1>4, <1>6, <1>9, CorpusSame DEF LibraryInv

LEMMA InsertThreadStep ==
  ASSUME LibraryInv, NEW q \in Slots, InsertThread(q)
  PROVE  LibraryInv'
<1> DEFINE s == slot[q].shelf
<1>0. LTypeOK /\ ThreadHeld /\ SlotHeld /\ CorpusHeld
  BY DEF LibraryInv
<1>1. s \in Rows
  BY <1>0 DEF LTypeOK
<1>2. /\ UNCHANGED <<account, rows, slug, memory, stored, open, cached, doomed, purge, tainted, faults>>
      /\ slot' = [slot EXCEPT ![q] = Idle]
  BY DEF InsertThread, Frees, Goes
<1>3. CASE UNCHANGED thread
  BY <1>2, <1>3, IdleIs, OnlySlotMoves DEF Goes
<1>4. CASE \E t \in Threads : /\ thread[t].row = "none" /\ (s = Default \/ s \in rows)
                              /\ thread' = [thread EXCEPT ![t] = [row |-> "live", shelf |-> s, was |-> CorpusOf(s)]]
  <2>1. PICK t \in Threads : /\ thread[t].row = "none" /\ (s = Default \/ s \in rows)
                             /\ thread' = [thread EXCEPT ![t] = [row |-> "live", shelf |-> s, was |-> CorpusOf(s)]]
    BY <1>4
  <2> DEFINE x == [row |-> "live", shelf |-> s, was |-> CorpusOf(s)]
  <2>2. x \in ThreadRows /\ x.row = "live" /\ x.shelf = s /\ x.was = CorpusOf(s)
    BY <1>0, <1>1, CorpusOfIs DEF ThreadRows
  <2>3. thread' = [thread EXCEPT ![t] = x]
    BY <2>1
  <2> HIDE DEF x, s
  <2>4. thread' \in [Threads -> ThreadRows] /\ \A u \in Threads : thread'[u] = IF u = t THEN x ELSE thread[u]
    BY <1>0, <2>2, <2>3 DEF LTypeOK
  <2>5. slot' \in [Slots -> SlotRows] /\ \A p \in Slots : slot'[p] = IF p = q THEN Idle ELSE slot[p]
    BY <1>0, <1>2, IdleIs DEF LTypeOK, SlotRows
  <2>6. LTypeOK'
    BY <1>0, <1>2, <2>4, <2>5 DEF LTypeOK, SlotRows
  <2>7. \A u \in Threads : u # t => Allowed(u)' = Allowed(u)
    BY <1>2, <2>4 DEF Allowed
  <2>8. ThreadHeld'
    <3>1. memory[t] = {}
      BY <1>0, <2>1 DEF ThreadHeld
    <3>2. s # Default => s \in rows /\ x.was = slug[s]
      BY <2>1, <2>2 DEF CorpusOf
    <3>3. QED
      BY <1>0, <1>2, <2>2, <2>4, <2>7, <3>1, <3>2 DEF ThreadHeld
  <2>9. SlotHeld'
    <3>1. SUFFICES ASSUME NEW p \in Slots PROVE SlotSound(slot[p])'
      BY DEF SlotHeld
    <3>2. CASE p = q
      BY <2>5, <3>2, IdleIs DEF SlotSound, Idle
    <3>3. CASE p # q
      <4>1. slot'[p] = slot[p] /\ SlotSound(slot[p]) /\ slot[p].thread \in Threads \cup {NoThread}
        BY <1>0, <2>5, <3>3 DEF SlotHeld, LTypeOK
      <4>2. slot[p].thread # t
        BY <2>1, <4>1, NamesAre DEF SlotSound
      <4>3. slot[p].thread # NoThread => /\ thread'[slot[p].thread] = thread[slot[p].thread]
                                         /\ Allowed(slot[p].thread)' = Allowed(slot[p].thread)
        BY <1>2, <2>4, <4>1, <4>2 DEF Allowed
      <4>4. QED
        BY <1>2, <4>1, <4>3 DEF SlotSound, Allowed
    <3>4. QED
      BY <3>2, <3>3
  <2>10. QED
    BY <1>0, <1>2, <2>6, <2>8, <2>9, CorpusSame DEF LibraryInv
<1>5. QED
  BY <1>3, <1>4 DEF InsertThread

LEMMA DeleteThreadStep ==
  ASSUME LibraryInv, NEW t \in Threads, DeleteThread(t)
  PROVE  LibraryInv'
<1> DEFINE x == [thread[t] EXCEPT !.row = "deleted"]
<1>0. LTypeOK /\ ThreadHeld /\ SlotHeld /\ CorpusHeld
  BY DEF LibraryInv
<1>1. /\ UNCHANGED <<account, rows, slug, memory, stored, open, cached, slot, doomed, purge, tainted, faults>>
      /\ thread' = [thread EXCEPT ![t] = x] /\ thread[t].row = "live"
  BY DEF DeleteThread, Live
<1>2. x \in ThreadRows /\ x.row = "deleted" /\ x.shelf = thread[t].shelf /\ x.was = thread[t].was
  BY <1>0 DEF LTypeOK, ThreadRows
<1> HIDE DEF x
<1>3. thread' \in [Threads -> ThreadRows] /\ \A u \in Threads : thread'[u] = IF u = t THEN x ELSE thread[u]
  BY <1>0, <1>1, <1>2 DEF LTypeOK
<1>4. \A u \in Threads : /\ thread'[u].shelf = thread[u].shelf /\ thread'[u].was = thread[u].was
                         /\ thread'[u].row = "none" <=> thread[u].row = "none"
  BY <1>1, <1>2, <1>3
<1>5. LTypeOK'
  BY <1>0, <1>1, <1>3 DEF LTypeOK
<1>6. ThreadHeld'
  <2>1. \A u \in Threads :
          /\ thread[u].row = "none" => memory[u] = {} /\ thread[u].shelf = Default
          /\ thread[u].shelf # Default => thread[u].shelf \in rows /\ thread[u].was = slug[thread[u].shelf]
          /\ memory[u] \subseteq Allowed(u)
    BY <1>0 DEF ThreadHeld
  <2>2. SUFFICES ASSUME NEW u \in Threads
                 PROVE  /\ thread'[u].row = "none" => memory[u] = {} /\ thread'[u].shelf = Default
                        /\ thread'[u].shelf # Default => thread'[u].shelf \in rows /\ thread'[u].was = slug[thread'[u].shelf]
                        /\ memory[u] \subseteq Allowed(u)'
    BY <1>1 DEF ThreadHeld
  <2>3. Allowed(u)' = Allowed(u)
    BY <1>1, <1>4 DEF Allowed
  <2>4. QED
    BY <1>4, <2>1, <2>3
<1>7. SlotHeld'
  <2>1. \A p \in Slots : slot[p].thread \in Threads \cup {NoThread}
    BY <1>0 DEF LTypeOK
  <2>2. SUFFICES ASSUME NEW p \in Slots PROVE SlotSound(slot[p])'
    BY DEF SlotHeld
  <2>3. SlotSound(slot[p]) /\ slot'[p] = slot[p]
    BY <1>0, <1>1 DEF SlotHeld
  <2>4. slot[p].thread # NoThread => /\ thread'[slot[p].thread].shelf = thread[slot[p].thread].shelf
                                     /\ thread'[slot[p].thread].was = thread[slot[p].thread].was
                                     /\ thread'[slot[p].thread].row = "none" <=> thread[slot[p].thread].row = "none"
    BY <1>4, <2>1
  <2>5. QED
    BY <1>1, <2>3, <2>4 DEF SlotSound, Allowed
<1>8. QED
  BY <1>0, <1>1, <1>5, <1>6, <1>7, CorpusSame DEF LibraryInv

\* The default shelf is there with or without its row.
LEMMA NewShelfStep ==
  ASSUME LibraryInv, NEW q \in Slots, NewShelf(q)
  PROVE  LibraryInv'
<1> DEFINE r == [Idle EXCEPT !.at = "shelf"]
<1>0. LTypeOK /\ ThreadHeld /\ SlotHeld /\ CorpusHeld
  BY DEF LibraryInv
<1>1. /\ UNCHANGED <<account, slug, thread, memory, stored, open, cached, doomed, purge, tainted, faults>>
      /\ rows' = rows \cup {Default} /\ account /\ slot' = [slot EXCEPT ![q] = r]
  BY DEF NewShelf, Goes
<1>2. r \in SlotRows /\ r.thread = NoThread /\ r.at = "shelf"
  BY IdleIs DEF SlotRows
<1> HIDE DEF r
<1>3. slot' \in [Slots -> SlotRows] /\ \A p \in Slots : slot'[p] = IF p = q THEN r ELSE slot[p]
  BY <1>0, <1>1, <1>2 DEF LTypeOK, SlotRows
<1>4. LTypeOK'
  BY <1>0, <1>1, <1>3, NamesAre DEF LTypeOK, SlotRows
<1>5. ThreadHeld'
  BY <1>0, <1>1 DEF ThreadHeld, Allowed
<1>6. SlotHeld'
  <2>1. SUFFICES ASSUME NEW p \in Slots PROVE SlotSound(slot[p])'
    BY DEF SlotHeld
  <2>2. CASE p = q
    BY <1>2, <1>3, <2>2 DEF SlotSound
  <2>3. CASE p # q
    <3>1. SlotSound(slot[p]) /\ slot'[p] = slot[p]
      BY <1>0, <1>3, <2>3 DEF SlotHeld
    <3>2. QED
      BY <1>1, <3>1 DEF SlotSound, Allowed
  <2>4. QED
    BY <2>2, <2>3
<1>7. CorpusHeld'
  <2>1. \A d \in Corpora : (Named(d)' <=> Named(d)) /\ \A o : Names(o, d)' <=> Names(o, d)
    BY <1>1 DEF Named, Names, Exists, CorpusOf
  <2>2. \A d \in Corpora : Bare(d)' <=> Bare(d)
    BY <1>1 DEF Bare
  <2>3. QED
    BY <1>0, <1>1, <2>1, <2>2 DEF CorpusHeld
<1>8. QED
  BY <1>4, <1>5, <1>6, <1>7 DEF LibraryInv

\* A new row names a corpus no row names.
LEMMA InsertShelfStep ==
  ASSUME LibraryInv, NEW q \in Slots, InsertShelf(q)
  PROVE  LibraryInv'
<1> DEFINE c == slot[q].corpus
<1>0. LTypeOK /\ ThreadHeld /\ SlotHeld /\ CorpusHeld
  BY DEF LibraryInv
<1>1. /\ UNCHANGED <<account, thread, memory, stored, open, cached, doomed, purge, tainted, faults>>
      /\ slot' = [slot EXCEPT ![q] = Idle]
  BY DEF InsertShelf, Frees, Goes
<1>2. CASE UNCHANGED <<rows, slug>>
  BY <1>1, <1>2, IdleIs, OnlySlotMoves DEF Goes
<1>3. CASE account /\ ~Conflicts(c) /\ \E s \in Shelves \ rows :
              /\ \A p \in Slots : slot[p].shelf # s
              /\ \A d \in Corpora : \A x \in stored[d] : x.owner # s
              /\ doomed # s
              /\ rows' = rows \cup {s} /\ slug' = [slug EXCEPT ![s] = c]
  <2>1. PICK s \in Shelves \ rows :
              /\ \A p \in Slots : slot[p].shelf # s
              /\ \A d \in Corpora : \A x \in stored[d] : x.owner # s
              /\ doomed # s
              /\ rows' = rows \cup {s} /\ slug' = [slug EXCEPT ![s] = c]
    BY <1>3
  <2>2. c \in Range(Slugs) /\ c \in Corpora /\ c # Default
    BY <1>0, NamesAre DEF SlotHeld, SlotSound, InsertShelf, At
  <2>3. \A p \in rows : CorpusOf(p) # c
    BY <1>3 DEF Conflicts, Taken
  <2> HIDE DEF c
  <2>4. slug' \in [Shelves -> Corpora] /\ \A p \in Shelves : slug'[p] = IF p = s THEN c ELSE slug[p]
    BY <1>0, <2>1, <2>2 DEF LTypeOK
  <2>5. slot' \in [Slots -> SlotRows] /\ \A p \in Slots : slot'[p] = IF p = q THEN Idle ELSE slot[p]
    BY <1>0, <1>1, IdleIs DEF LTypeOK, SlotRows
  <2>6. LTypeOK'
    BY <1>0, <1>1, <2>1, <2>4, <2>5, NamesAre DEF LTypeOK, SlotRows
  <2>7. s # Default /\ s \in Shelves /\ s \notin rows /\ rows \subseteq Rows
    BY <1>0, NamesAre DEF LTypeOK
  <2>8. \A t \in Threads : thread[t].shelf \in Rows /\ thread[t].shelf # s
    BY <1>0, <2>7 DEF ThreadHeld, LTypeOK, ThreadRows
  <2>9. \A t \in Threads : thread[t].shelf # Default => slug'[thread[t].shelf] = slug[thread[t].shelf]
    BY <2>4, <2>8, NamesAre
  <2>10. ThreadHeld'
    BY <1>0, <1>1, <2>1, <2>9 DEF ThreadHeld, Allowed
  <2>11. SlotHeld'
    <3>1. SUFFICES ASSUME NEW p \in Slots PROVE SlotSound(slot[p])'
      BY DEF SlotHeld
    <3>2. CASE p = q
      BY <2>5, <3>2, IdleIs DEF SlotSound, Idle
    <3>3. CASE p # q
      <4>1. SlotSound(slot[p]) /\ slot'[p] = slot[p] /\ slot[p].thread \in Threads \cup {NoThread} /\ slot[p].shelf # s
        BY <1>0, <2>1, <2>5, <3>3 DEF SlotHeld, LTypeOK
      <4>2. slot[p].thread # NoThread => Allowed(slot[p].thread)' = Allowed(slot[p].thread)
        BY <1>1, <2>9, <4>1 DEF Allowed
      <4>3. QED
        BY <1>1, <2>1, <4>1, <4>2 DEF SlotSound
    <3>4. QED
      BY <3>2, <3>3
  <2>12. CorpusHeld'
    <3>1. \A p \in rows : p # s /\ CorpusOf(p)' = CorpusOf(p) /\ CorpusOf(p) # c
      BY <2>3, <2>4, <2>7, NamesAre DEF CorpusOf
    <3>2. \A d \in Corpora : Named(d) => Named(d)'
      BY <1>1, <2>1, <3>1 DEF Named, Exists, CorpusOf
    <3>3. \A d \in Corpora : Bare(d)' <=> Bare(d)
      BY <1>1 DEF Bare
    <3>4. \A o, d : o # s /\ Names(o, d) => Names(o, d)'
      BY <1>1, <2>1, <3>1 DEF Names, Exists, CorpusOf
    <3>5. \A d \in Corpora \ tainted : \A x \in stored[d] : Names(x.owner, d)'
      BY <1>0, <2>1, <3>4 DEF CorpusHeld
    <3>6. \A p \in rows' \ {Default} : slug'[p] \in Range(Slugs)
      BY <1>0, <2>1, <2>2, <2>4, <2>7, NamesAre DEF CorpusHeld
    <3>7. \A p \in rows \ {Default} : slug'[p] = slug[p] /\ slug'[p] # c
      BY <2>4, <3>1, <2>7, NamesAre DEF CorpusOf
    <3>8. slug'[s] = c
      BY <2>4
    <3>9. \A p, r \in rows' \ {Default} : slug'[p] = slug'[r] => p = r
      BY <1>0, <2>1, <3>7, <3>8 DEF CorpusHeld
    <3>10. doomed # Default => slug'[doomed] = slug[doomed]
      BY <1>0, <2>1, <2>4, NamesAre DEF LTypeOK
    <3>11. \A d \in Corpora \ tainted : /\ Named(d)' \/ Bare(d)'
                                        /\ purge # "none" => Bare(d)'
                                        /\ doomed # Default /\ slug'[doomed] = d => Bare(d)'
      BY <1>0, <3>2, <3>3, <3>10 DEF CorpusHeld
    <3>12. QED
      BY <1>1, <3>5, <3>6, <3>9, <3>11 DEF CorpusHeld
  <2>13. QED
    BY <2>6, <2>10, <2>11, <2>12 DEF LibraryInv
<1>4. QED
  BY <1>2, <1>3 DEF InsertShelf

\* Rows and conversations as they were.
LEMMA SlotSame ==
  ASSUME SlotHeld, UNCHANGED <<rows, slug, thread, slot>>
  PROVE  SlotHeld'
BY DEF SlotHeld, SlotSound, Allowed

\* The corpora of S are emptied, before the rows that name them go.
LEMMA EmptyStep ==
  ASSUME LibraryInv, NEW S \in SUBSET Corpora, NEW f \in Failing(S), Empty(S, f),
         UNCHANGED <<account, rows, slug, thread, memory, slot>>,
         doomed' \in Rows, purge' \in {"none", "all", "content"},
         purge' # purge => \A c \in Corpora : Named(c) => c \in S,
         doomed' # doomed => slug[doomed'] \in S
  PROVE  LibraryInv'
<1>0. LTypeOK /\ ThreadHeld /\ SlotHeld /\ CorpusHeld
  BY DEF LibraryInv
<1>1. /\ stored' \in [Corpora -> SUBSET [in : Stores, owner : Rows]]
      /\ open' \subseteq Corpora /\ cached' \in Seq(Corpora) /\ Len(cached') <= MaxActive
      /\ tainted' \subseteq Corpora /\ faults' \in 0 .. MaxFaults
  BY <1>0, EmptyIs
<1>2. \A c \in S : c \in tainted' \/ (stored'[c] = {} /\ c \notin open' \cup Range(cached'))
  BY <1>0, EmptyIs
<1>3. \A c \in Corpora \ S : /\ stored'[c] = stored[c] /\ (c \in open' => c \in open) /\ (c \in tainted' <=> c \in tainted)
                             /\ c \in Range(cached') => c \in Range(cached)
  BY <1>0, EmptyIs
<1>4. LTypeOK'
  BY <1>0, <1>1 DEF LTypeOK
<1>5. ThreadHeld' /\ SlotHeld'
  BY <1>0, SlotSame DEF ThreadHeld, Allowed
<1>6. CorpusHeld'
  <2>1. \A d \in Corpora : (Named(d)' <=> Named(d)) /\ \A o : Names(o, d)' <=> Names(o, d)
    BY DEF Named, Names, Exists, CorpusOf
  <2>2. \A d \in S \ tainted' : stored'[d] = {} /\ Bare(d)'
    BY <1>2 DEF Bare
  <2>3. \A d \in Corpora \ S : Bare(d) => Bare(d)'
    BY <1>3 DEF Bare
  <2>4. \A d \in (Corpora \ S) \ tainted' :
           /\ \A x \in stored'[d] : Names(x.owner, d)
           /\ Named(d) \/ Bare(d)'
           /\ purge' # "none" => Bare(d)'
           /\ doomed' # Default /\ slug[doomed'] = d => Bare(d)'
    <3>1. SUFFICES ASSUME NEW d \in (Corpora \ S) \ tainted'
                   PROVE  /\ \A x \in stored'[d] : Names(x.owner, d)
                          /\ Named(d) \/ Bare(d)'
                          /\ purge' # "none" => Bare(d)'
                          /\ doomed' # Default /\ slug[doomed'] = d => Bare(d)'
      OBVIOUS
    <3>2. d \in Corpora \ tainted /\ stored'[d] = stored[d] /\ (Bare(d) => Bare(d)')
      BY <1>3, <2>3
    <3>3. /\ \A x \in stored[d] : Names(x.owner, d)
          /\ Named(d) \/ Bare(d)
          /\ purge # "none" => Bare(d)
          /\ doomed # Default /\ slug[doomed] = d => Bare(d)
      BY <1>0, <3>2 DEF CorpusHeld
    <3>4. QED
      BY <3>2, <3>3
  <2>5. \A d \in Corpora \ tainted' :
           /\ \A x \in stored'[d] : Names(x.owner, d)'
           /\ Named(d)' \/ Bare(d)'
           /\ purge' # "none" => Bare(d)'
           /\ doomed' # Default /\ slug'[doomed'] = d => Bare(d)'
    BY <2>1, <2>2, <2>4
  <2>6. QED
    BY <1>0, <2>5 DEF CorpusHeld
<1>7. QED
  BY <1>4, <1>5, <1>6 DEF LibraryInv

LEMMA DeleteShelfStep ==
  ASSUME LibraryInv, NEW s \in Shelves, DeleteShelf(s)
  PROVE  LibraryInv'
<1>1. PICK f \in Failing({slug[s]}) : Empty({slug[s]}, f)
  BY DEF DeleteShelf
<1>2. {slug[s]} \in SUBSET Corpora /\ purge \in {"none", "all", "content"}
  BY DEF LibraryInv, LTypeOK
<1>3. doomed' = s /\ s \in Rows /\ UNCHANGED <<account, rows, slug, thread, memory, slot, purge>>
  BY NamesAre DEF DeleteShelf
<1>4. QED
  BY <1>1, <1>2, <1>3, EmptyStep

LEMMA PurgeUserStep ==
  ASSUME LibraryInv, NEW scope \in {"all", "content"}, PurgeUser(scope)
  PROVE  LibraryInv'
<1>1. PICK f \in Failing(AllCorpora) : Empty(AllCorpora, f)
  BY DEF PurgeUser
<1>2. AllCorpora \in SUBSET Corpora /\ doomed \in Rows
  BY NamesAre, CorpusOfIs DEF LibraryInv, LTypeOK, AllCorpora
<1>3. \A c \in Corpora : Named(c) => c \in AllCorpora
  BY DEF Named, Exists, CorpusOf, AllCorpora
<1>4. purge' = scope /\ UNCHANGED <<account, rows, slug, thread, memory, slot, doomed>>
  BY DEF PurgeUser
<1>5. purge' \in {"none", "all", "content"} /\ doomed' = doomed
  BY <1>4
<1>6. QED
  BY <1>1, <1>2, <1>3, <1>4, <1>5, EmptyStep

\* The row goes, and with it the pin of its conversations.
LEMMA DropShelfStep ==
  ASSUME LibraryInv, DropShelf
  PROVE  LibraryInv'
<1>0. LTypeOK /\ ThreadHeld /\ SlotHeld /\ CorpusHeld
  BY DEF LibraryInv
<1>1. /\ doomed \in Shelves /\ rows' = rows \ {doomed} /\ doomed' = Default
      /\ slug' = [slug EXCEPT ![doomed] = Default]
      /\ UNCHANGED <<account, memory, stored, open, cached, slot, purge, tainted, faults>>
  BY <1>0 DEF DropShelf, LTypeOK, Rows
<1>2. \A s \in Shelves : slug'[s] = IF s = doomed THEN Default ELSE slug[s]
  BY <1>0, <1>1 DEF LTypeOK
<1>3. thread' = [t \in Threads |-> IF thread[t].shelf = doomed THEN [thread[t] EXCEPT !.shelf = Default] ELSE thread[t]]
  BY DEF DropShelf, Unshelve
<1>4. \A t \in Threads : /\ thread'[t] \in ThreadRows /\ thread'[t].row = thread[t].row /\ thread'[t].was = thread[t].was
                         /\ thread'[t].shelf = IF thread[t].shelf = doomed THEN Default ELSE thread[t].shelf
  BY <1>0, <1>3, NamesAre DEF LTypeOK, ThreadRows
<1>5. thread' \in [Threads -> ThreadRows] /\ slug' \in [Shelves -> Corpora]
  BY <1>0, <1>1, <1>3, <1>4, NamesAre DEF LTypeOK
<1>6. LTypeOK'
  BY <1>0, <1>1, <1>5, NamesAre DEF LTypeOK
<1>7. \A t \in Threads : /\ thread[t] \in ThreadRows /\ thread[t].shelf \in Rows
                         /\ thread[t].row = "none" => memory[t] = {} /\ thread[t].shelf = Default
                         /\ thread[t].shelf # Default => thread[t].shelf \in rows /\ thread[t].was = slug[thread[t].shelf]
                         /\ memory[t] \subseteq Allowed(t)
  BY <1>0 DEF ThreadHeld, LTypeOK, ThreadRows
<1>8. \A t \in Threads : \A c \in Allowed(t) :
         IF thread'[t].shelf # Default THEN c = slug'[thread'[t].shelf] ELSE c \in {thread'[t].was, Default}
  BY <1>2, <1>4, <1>7, NamesAre DEF Allowed
<1>9. ThreadHeld'
  <2>1. SUFFICES ASSUME NEW t \in Threads
                 PROVE  /\ thread'[t].row = "none" => memory'[t] = {} /\ thread'[t].shelf = Default
                        /\ thread'[t].shelf # Default => thread'[t].shelf \in rows' /\ thread'[t].was = slug'[thread'[t].shelf]
                        /\ memory'[t] \subseteq Allowed(t)'
    BY DEF ThreadHeld
  <2>2. thread'[t].row = "none" => memory'[t] = {} /\ thread'[t].shelf = Default
    BY <1>1, <1>4, <1>7
  <2>3. thread'[t].shelf # Default => thread'[t].shelf \in rows' /\ thread'[t].was = slug'[thread'[t].shelf]
    BY <1>1, <1>2, <1>4, <1>7, NamesAre
  <2>4. memory'[t] \subseteq Allowed(t)'
    BY <1>1, <1>7, <1>8 DEF Allowed
  <2>5. QED
    BY <2>2, <2>3, <2>4
<1>10. SlotHeld'
  <2>1. SUFFICES ASSUME NEW p \in Slots PROVE SlotSound(slot[p])'
    BY DEF SlotHeld
  <2>2. SlotSound(slot[p]) /\ slot'[p] = slot[p] /\ slot[p].thread \in Threads \cup {NoThread}
    BY <1>0, <1>1 DEF SlotHeld, LTypeOK
  <2>3. CASE slot[p].thread = NoThread
    BY <2>2, <2>3 DEF SlotSound
  <2>4. CASE slot[p].thread # NoThread
    <3> DEFINE t == slot[p].thread
    <3>1. t \in Threads /\ slot'[p].thread = t
      BY <2>2, <2>4
    <3>2. thread'[t].row = thread[t].row
      BY <1>4, <3>1
    <3>3. slot[p].at = "lookup" => \/ slot[p].shelf = thread'[t].shelf
                                   \/ thread'[t].shelf = Default /\ slot[p].shelf \notin rows'
      BY <1>1, <1>4, <2>2, <3>1, NamesAre DEF SlotSound
    <3>4. slot[p].at \in {"search", "answer"} => slot[p].corpus \in Allowed(t)'
      BY <1>8, <2>2, <2>4, <3>1 DEF SlotSound, Allowed
    <3>5. QED
      BY <2>2, <2>4, <3>2, <3>3, <3>4 DEF SlotSound
  <2>5. QED
    BY <2>3, <2>4
<1>11. CorpusHeld'
  <2>1. \A d \in Corpora : d # slug[doomed] => \A o \in Rows : Names(o, d) => Names(o, d)'
    BY <1>0, <1>1, <1>2, NamesAre DEF Names, Exists, CorpusOf
  <2>2. \A d \in Corpora : d # slug[doomed] /\ Named(d) => Named(d)'
    BY <2>1 DEF Named, Names
  <2>3. \A d \in Corpora : (Bare(d)' <=> Bare(d)) /\ (Bare(d) => stored[d] = {})
    BY <1>1 DEF Bare
  <2>4. \A d \in Corpora : \A x \in stored[d] : x.owner \in Rows
    BY <1>0 DEF LTypeOK
  <2>5. \A d \in Corpora \ tainted : /\ \A x \in stored[d] : Names(x.owner, d)'
                                     /\ Named(d)' \/ Bare(d)
                                     /\ purge # "none" => Bare(d)
    <3>1. SUFFICES ASSUME NEW d \in Corpora \ tainted
                   PROVE  /\ \A x \in stored[d] : Names(x.owner, d)'
                          /\ Named(d)' \/ Bare(d)
                          /\ purge # "none" => Bare(d)
      OBVIOUS
    <3>2. /\ \A x \in stored[d] : Names(x.owner, d)
          /\ Named(d) \/ Bare(d)
          /\ purge # "none" => Bare(d)
          /\ slug[doomed] = d => Bare(d)
      BY <1>0, <1>1, NamesAre DEF CorpusHeld
    <3>3. QED
      BY <2>1, <2>2, <2>3, <2>4, <3>2
  <2>6. /\ \A s \in rows' \ {Default} : s \in rows \ {Default} /\ slug'[s] = slug[s]
    BY <1>0, <1>1, <1>2, NamesAre DEF LTypeOK
  <2>7. /\ \A s \in rows' \ {Default} : slug'[s] \in Range(Slugs)
        /\ \A s, r \in rows' \ {Default} : slug'[s] = slug'[r] => s = r
    BY <1>0, <2>6 DEF CorpusHeld
  <2>8. QED
    BY <1>1, <2>3, <2>5, <2>7 DEF CorpusHeld
<1>12. QED
  BY <1>6, <1>9, <1>10, <1>11 DEF LibraryInv

\* The account's rows go, or only those of its files.
LEMMA PurgeRowsStep ==
  ASSUME LibraryInv, PurgeRows
  PROVE  LibraryInv'
<1>0. LTypeOK /\ ThreadHeld /\ SlotHeld /\ CorpusHeld
  BY DEF LibraryInv
<1>1. /\ purge # "none" /\ purge' = "none"
      /\ slug' = [s \in Shelves |-> IF s \in rows' \cup {doomed} THEN slug[s] ELSE Default]
      /\ UNCHANGED <<memory, stored, open, cached, slot, doomed, tainted, faults>>
  BY DEF PurgeRows
<1>2. slug' \in [Shelves -> Corpora] /\ \A s \in Shelves : s \in rows' \cup {doomed} => slug'[s] = slug[s]
  BY <1>0, <1>1, NamesAre DEF LTypeOK
<1>3. doomed # Default => slug'[doomed] = slug[doomed]
  BY <1>0, <1>2 DEF LTypeOK, Rows
<1>4. \A d \in Corpora : Bare(d)' <=> Bare(d)
  BY <1>1 DEF Bare
<1>5. CASE UNCHANGED <<account, rows, thread>>
  <2>1. LTypeOK'
    BY <1>0, <1>1, <1>2, <1>5 DEF LTypeOK
  <2>2. \A s \in rows : s # Default => s \in Shelves /\ slug'[s] = slug[s]
    BY <1>0, <1>2, <1>5 DEF LTypeOK, Rows
  <2>3. \A t \in Threads : thread[t].shelf # Default => slug'[thread[t].shelf] = slug[thread[t].shelf]
    BY <1>0, <2>2 DEF ThreadHeld
  <2>4. ThreadHeld'
    BY <1>0, <1>1, <1>5, <2>3 DEF ThreadHeld, Allowed
  <2>5. SlotHeld'
    <3>1. SUFFICES ASSUME NEW p \in Slots PROVE SlotSound(slot[p])'
      BY DEF SlotHeld
    <3>2. SlotSound(slot[p]) /\ slot'[p] = slot[p] /\ slot[p].thread \in Threads \cup {NoThread}
      BY <1>0, <1>1 DEF SlotHeld, LTypeOK
    <3>3. QED
      BY <1>5, <2>3, <3>2 DEF SlotSound, Allowed
  <2>6. \A d \in Corpora : (Named(d)' <=> Named(d)) /\ \A o : Names(o, d)' <=> Names(o, d)
    BY <1>5, <2>2 DEF Named, Names, Exists, CorpusOf
  <2>7. CorpusHeld'
    BY <1>0, <1>1, <1>3, <1>4, <1>5, <2>2, <2>6 DEF CorpusHeld
  <2>8. QED
    BY <2>1, <2>4, <2>5, <2>7 DEF LibraryInv
<1>6. CASE /\ account' = FALSE /\ rows' = {}
           /\ thread' = [t \in Threads |->
                IF thread[t].row = "none" THEN thread[t] ELSE [thread[t] EXCEPT !.row = "deleted", !.shelf = Default]]
  <2>1. \A t \in Threads : /\ thread[t] \in ThreadRows
                           /\ thread[t].row = "none" => memory[t] = {} /\ thread[t].shelf = Default
                           /\ thread[t].shelf # Default => thread[t].shelf \in rows /\ thread[t].was = slug[thread[t].shelf]
                           /\ memory[t] \subseteq Allowed(t)
    BY <1>0 DEF ThreadHeld, LTypeOK
  <2>2. \A t \in Threads : /\ thread'[t] \in ThreadRows /\ thread'[t].was = thread[t].was /\ thread'[t].shelf = Default
                           /\ (thread'[t].row = "none" <=> thread[t].row = "none")
    <3>1. SUFFICES ASSUME NEW t \in Threads
                   PROVE  /\ thread'[t] \in ThreadRows /\ thread'[t].was = thread[t].was /\ thread'[t].shelf = Default
                          /\ (thread'[t].row = "none" <=> thread[t].row = "none")
      OBVIOUS
    <3>2. CASE thread[t].row = "none"
      BY <1>6, <2>1, <3>2
    <3>3. CASE thread[t].row # "none"
      <4> DEFINE x == [thread[t] EXCEPT !.row = "deleted", !.shelf = Default]
      <4>1. thread'[t] = x
        BY <1>6, <3>3
      <4>2. x \in ThreadRows /\ x.was = thread[t].was /\ x.shelf = Default /\ x.row = "deleted"
        BY <2>1, NamesAre DEF ThreadRows
      <4>3. QED
        BY <3>3, <4>1, <4>2
    <3>4. QED
      BY <3>2, <3>3
  <2>3. thread' \in [Threads -> ThreadRows] /\ account' \in BOOLEAN /\ rows' \subseteq Rows
    BY <1>6, <2>2
  <2>4. LTypeOK'
    BY <1>0, <1>1, <1>2, <2>3 DEF LTypeOK
  <2>5. \A t \in Threads : \A c \in Allowed(t) : c \in {thread'[t].was, Default}
    BY <2>1, <2>2 DEF Allowed
  <2>6. ThreadHeld'
    <3>1. SUFFICES ASSUME NEW t \in Threads
                   PROVE  /\ thread'[t].row = "none" => memory'[t] = {} /\ thread'[t].shelf = Default
                          /\ thread'[t].shelf # Default => thread'[t].shelf \in rows' /\ thread'[t].was = slug'[thread'[t].shelf]
                          /\ memory'[t] \subseteq Allowed(t)'
      BY DEF ThreadHeld
    <3>2. thread'[t].row = "none" => memory'[t] = {} /\ thread'[t].shelf = Default
      BY <1>1, <2>1, <2>2
    <3>3. thread'[t].shelf = Default
      BY <2>2
    <3>4. memory'[t] \subseteq Allowed(t)'
      BY <1>1, <2>1, <2>5, <3>3 DEF Allowed
    <3>5. QED
      BY <3>2, <3>3, <3>4
  <2>7. SlotHeld'
    <3>1. SUFFICES ASSUME NEW p \in Slots PROVE SlotSound(slot[p])'
      BY DEF SlotHeld
    <3>2. SlotSound(slot[p]) /\ slot'[p] = slot[p] /\ slot[p].thread \in Threads \cup {NoThread}
      BY <1>0, <1>1 DEF SlotHeld, LTypeOK
    <3>3. CASE slot[p].thread = NoThread
      BY <3>2, <3>3 DEF SlotSound
    <3>4. CASE slot[p].thread # NoThread
      <4> DEFINE t == slot[p].thread
      <4>1. t \in Threads /\ thread'[t].shelf = Default /\ (thread'[t].row = "none" <=> thread[t].row = "none")
        BY <2>2, <3>2, <3>4
      <4>2. slot[p].at \in {"search", "answer"} => slot[p].corpus \in Allowed(t)'
        BY <2>5, <3>2, <3>4, <4>1 DEF SlotSound, Allowed
      <4>3. QED
        BY <1>6, <3>2, <3>4, <4>1, <4>2 DEF SlotSound
    <3>5. QED
      BY <3>3, <3>4
  <2>8. CorpusHeld'
    <3>1. \A d \in Corpora \ tainted : Bare(d) /\ stored[d] = {}
      BY <1>0, <1>1 DEF CorpusHeld, Bare
    <3>2. QED
      BY <1>1, <1>4, <1>6, <3>1 DEF CorpusHeld
  <2>9. QED
    BY <2>4, <2>6, <2>7, <2>8 DEF LibraryInv
<1>7. QED
  BY <1>5, <1>6 DEF PurgeRows

-----------------------------------------------------------------------------
(* The theorems.                                                           *)

LEMMA LibraryStarts == LInit => LibraryInv
<1> SUFFICES ASSUME LInit PROVE LibraryInv
  OBVIOUS
<1> DEFINE none == <<>>
           new == [row |-> "none", shelf |-> Default, was |-> Default]
<1>1. none \in Seq(Corpora) /\ Len(none) = 0 /\ Range(none) = {}
  BY DEF Range
<1>2. cached = none /\ MaxActive \in Nat /\ MaxFaults \in Nat
  BY LibraryAssumption DEF LInit
<1>3. new \in ThreadRows /\ new.row = "none" /\ new.shelf = Default
  BY NamesAre DEF ThreadRows
<1>4. thread = [t \in Threads |-> new]
  BY DEF LInit
<1> HIDE DEF none, new
<1>5. thread \in [Threads -> ThreadRows] /\ \A t \in Threads : thread[t].row = "none" /\ thread[t].shelf = Default
  BY <1>3, <1>4
<1>6. slot \in [Slots -> SlotRows] /\ \A q \in Slots : slot[q] = Idle
  BY IdleIs DEF LInit
<1>7. Len(cached) <= MaxActive /\ cached \in Seq(Corpora) /\ faults \in 0 .. MaxFaults
  BY <1>1, <1>2 DEF LInit
<1>8. LTypeOK
  BY <1>5, <1>6, <1>7, NamesAre DEF LInit, LTypeOK, SlotRows
<1>9. ThreadHeld
  BY <1>5, NamesAre DEF LInit, ThreadHeld
<1>10. SlotHeld
  BY <1>6, IdleIs DEF SlotHeld
<1>11. CorpusHeld
  BY <1>1, <1>2 DEF LInit, CorpusHeld, Bare
<1>12. QED
  BY <1>8, <1>9, <1>10, <1>11 DEF LibraryInv

LEMMA LibraryStep == LibraryInv /\ [LNext]_lvars => LibraryInv'
<1> SUFFICES ASSUME LibraryInv, [LNext]_lvars PROVE LibraryInv'
  OBVIOUS
<1>1. CASE UNCHANGED lvars
  <2>1. ThreadHeld' /\ SlotHeld' /\ CorpusHeld'
    BY <1>1, CorpusSame, SlotSame DEF LibraryInv, lvars, ThreadHeld, Allowed
  <2>2. LTypeOK'
    BY <1>1 DEF LibraryInv, lvars, LTypeOK
  <2>3. QED
    BY <2>1, <2>2 DEF LibraryInv
<1>2. CASE \E q \in Slots :
             \/ \E t \in Threads \cup {NoThread}, s \in Rows : Ask(q, t, s)
             \/ LookUp(q) \/ Search(q) \/ Answer(q)
             \/ (\E s \in Rows : Upload(q, s) \/ NewThread(q, s)) \/ Store(q)
             \/ CountThreads(q) \/ InsertThread(q)
             \/ NewShelf(q) \/ NameShelf(q) \/ InsertShelf(q)
  BY <1>2, AskStep, LookUpStep, SearchStep, AnswerStep, UploadStep, NewThreadStep, StoreStep, CountThreadsStep,
     InsertThreadStep, NewShelfStep, NameShelfStep, InsertShelfStep
<1>3. CASE \E t \in Threads : DeleteThread(t)
  BY <1>3, DeleteThreadStep
<1>4. CASE (\E s \in Shelves : DeleteShelf(s)) \/ DropShelf
  BY <1>4, DeleteShelfStep, DropShelfStep
<1>5. CASE (\E scope \in {"all", "content"} : PurgeUser(scope)) \/ PurgeRows
  BY <1>5, PurgeUserStep, PurgeRowsStep
<1>6. QED
  BY <1>1, <1>2, <1>3, <1>4, <1>5 DEF LNext

\* Whatever requests, deletions and purges are under way together, a
\* conversation is remembered only under the corpus it is pinned to, a request
\* carries the corpus its conversation had or has now, and a corpus that is
\* being deleted, or that no row names, is empty unless it is tainted.
THEOREM LibraryInvHolds == LSpec => []LibraryInv
<1>1. LInit => LibraryInv
  BY LibraryStarts
<1>2. LibraryInv /\ [LNext]_lvars => LibraryInv'
  BY LibraryStep
<1>3. QED
  BY <1>1, <1>2, PTL DEF LSpec

\* The shelf of a conversation, and not what the composer shows, decides under
\* which corpus the agent remembers it (api/routers/query.py), for any number
\* of conversations, requests and shelves.
THEOREM MemoryHolds == LSpec => []MemoryFollowsShelf
<1>1. LibraryInv => MemoryFollowsShelf
  BY DEF LibraryInv, ThreadHeld, Allowed, MemoryFollowsShelf
<1>2. QED
  BY <1>1, LibraryInvHolds, PTL

\* No two shelves share a corpus, and one whose purge met no failure and no
\* request at work leaves nothing behind: no passage, no open file, no cached
\* tenant (shelves.py, accounts/purge.py).
THEOREM StrandedHolds == LSpec => []NothingStranded
<1>1. LibraryInv => NothingStranded
  <2>1. SUFFICES ASSUME LibraryInv, NEW c \in Corpora
                 PROVE  /\ \A s, r \in rows : Names(s, c) /\ Names(r, c) => s = r
                        /\ c \in tainted \/ \A x \in stored[c] : Names(x.owner, c)
                        /\ c \in tainted \/ Named(c) \/ c \notin open \cup Range(cached)
    BY DEF NothingStranded
  <2>2. \A s, r \in rows : Names(s, c) /\ Names(r, c) => s = r
    BY <2>1, NamesAre DEF LibraryInv, CorpusHeld, Names, CorpusOf
  <2>3. QED
    BY <2>1, <2>2 DEF LibraryInv, CorpusHeld, Bare
<1>2. QED
  BY <1>1, LibraryInvHolds, PTL
=============================================================================
