---------------------------- MODULE SpansProofs ----------------------------
(***************************************************************************)
(* Theorems about Spans, for any number of spans, workers and faults, and  *)
(* any size of the queue, of a batch and of the stream.                    *)
(***************************************************************************)
EXTENDS Spans, KeepingProofs, TLAPS

Does     == {"rest", "read", "content", "ack", "dead"}
Batches  == [batch : Seq(emitted), left : 1 .. Retries]
Tasks    == [does : Does, batch : SUBSET DOMAIN stream]
Holders  == Workers \cup {NoWorker, "gone"}

LEMMA SeqGrows ==
  ASSUME NEW S, NEW T, S \subseteq T, NEW q \in Seq(S)
  PROVE  q \in Seq(T)
  OBVIOUS

-----------------------------------------------------------------------------
(* Types.                                                                  *)

\* Nothing is invented on the way, and the buffers keep their bounds.
LEMMA TypeInit == Init => TypeOK
  BY SpansAssumption DEF Init, TypeOK, Empty, Rest, Retries, Senders

\* A sender's batch after an attempt that failed, and what is lost by it.
LEMMA AgainType ==
  ASSUME TypeOK, NEW s \in Senders, Again(s)
  PROVE  /\ hand' \in [Senders -> Batches] /\ lost' \subseteq emitted
         /\ \A t \in Senders : Len(hand'[t].batch) <= BatchSize
<1>1. hand[s] \in Batches /\ Range(hand[s].batch) \subseteq emitted
  BY RangeOfSeq DEF TypeOK, Batches
<1>2. CASE hand[s].left = 1
  <2>1. hand' = [hand EXCEPT ![s] = Empty] /\ lost' = lost \cup Range(hand[s].batch)
    BY <1>2 DEF Again
  <2>2. Empty \in Batches /\ Len(Empty.batch) = 0
    BY DEF Empty, Batches, Retries
  <2>3. 0 <= BatchSize
    BY SpansAssumption
  <2>4. QED
    BY <1>1, <2>1, <2>2, <2>3 DEF TypeOK, Batches
<1>3. CASE hand[s].left # 1
  <2>1. hand' = [hand EXCEPT ![s].left = @ - 1] /\ lost' = lost
    BY <1>3 DEF Again
  <2>2. hand[s].left - 1 \in 1 .. Retries
    BY <1>1, <1>3 DEF Batches, Retries
  <2>3. [hand[s] EXCEPT !.left = @ - 1] \in Batches /\ [hand[s] EXCEPT !.left = @ - 1].batch = hand[s].batch
    BY <1>1, <2>2 DEF Batches
  <2>4. hand' = [hand EXCEPT ![s] = [hand[s] EXCEPT !.left = @ - 1]]
    BY <2>1 DEF TypeOK
  <2>5. QED
    BY <2>1, <2>3, <2>4 DEF TypeOK, Batches
<1>4. QED
  BY <1>2, <1>3

LEMMA EmptyType ==
  ASSUME TypeOK, NEW s \in Senders, hand' = [hand EXCEPT ![s] = Empty]
  PROVE  hand' \in [Senders -> Batches] /\ \A t \in Senders : Len(hand'[t].batch) <= BatchSize
<1>1. Empty \in Batches /\ Len(Empty.batch) = 0 /\ 0 <= BatchSize
  BY SpansAssumption DEF Empty, Batches, Retries
<1>2. QED
  BY <1>1 DEF TypeOK, Batches

\* The endpoint appends the batch; what was there keeps its place.
LEMMA AcceptType ==
  ASSUME TypeOK, NEW s \in Senders, Accept(s)
  PROVE  /\ stream' \in Seq(emitted) /\ holder' \in Seq(Holders)
         /\ Len(holder') = Len(stream') /\ acked' \subseteq DOMAIN stream'
         /\ DOMAIN stream \subseteq DOMAIN stream'
         /\ \A i \in DOMAIN stream : stream'[i] = stream[i]
         /\ Range(stream') = Range(stream) \cup Range(hand[s].batch)
<1> DEFINE b == hand[s].batch
           h == [i \in DOMAIN b |-> NoWorker]
<1>1. b \in Seq(emitted) /\ stream \in Seq(emitted) /\ holder \in Seq(Holders)
  BY DEF TypeOK, Holders
<1>2. h \in Seq(Holders) /\ Len(h) = Len(b)
  <2>1. Len(b) \in Nat /\ DOMAIN b = 1..Len(b)
    BY <1>1
  <2>2. \A i \in 1..Len(b) : NoWorker \in Holders
    BY DEF Holders
  <2> HIDE DEF b
  <2>3. h \in [1..Len(b) -> Holders]
    BY <2>1, <2>2
  <2>4. QED
    BY <2>1, <2>3
<1>3. stream' = stream \o b /\ holder' = holder \o h /\ acked' = acked
  BY DEF Accept
<1> HIDE DEF b, h
<1>4. stream' \in Seq(emitted) /\ holder' \in Seq(Holders)
  BY <1>1, <1>2, <1>3
<1>5. Len(holder') = Len(stream')
  <2>1. Len(holder') = Len(holder) + Len(h) /\ Len(stream') = Len(stream) + Len(b)
    BY <1>1, <1>2, <1>3, ConcatProperties
  <2>2. QED
    BY <1>2, <2>1 DEF TypeOK
<1>6. DOMAIN stream \subseteq DOMAIN stream' /\ \A i \in DOMAIN stream : stream'[i] = stream[i]
  BY <1>1, <1>3
<1>7. Range(stream') = Range(stream) \cup Range(b)
  BY <1>1, <1>3, RangeConcatenation
<1>8. QED
  BY <1>3, <1>4, <1>5, <1>6, <1>7 DEF TypeOK, b

LEMMA TypeStep ==
  ASSUME TypeOK, [Next]_vars
  PROVE  TypeOK'
<1> USE SpansAssumption
<1>1. ASSUME NEW e \in Events, Emit(e) PROVE TypeOK'
  <2> DEFINE E == emitted \cup {e}
  <2>1. emitted' = E /\ UNCHANGED <<hand, program, stream, holder, acked, worker, rows, content, faults>>
    BY <1>1 DEF Emit, server, tables
  <2>2. queue \in Seq(E) /\ stream \in Seq(E)
    BY SeqGrows DEF TypeOK
  <2>3. hand \in [Senders -> [batch : Seq(E), left : 1 .. Retries]]
    <3>1. Seq(emitted) \subseteq Seq(E)
      OBVIOUS
    <3>2. QED
      BY <3>1 DEF TypeOK
  <2>4. CASE Len(queue) < MaxQueue
    <3>1. queue' = Append(queue, e) /\ lost' = lost
      BY <1>1, <2>4 DEF Emit
    <3>2. queue' \in Seq(E) /\ Len(queue') <= MaxQueue
      BY <2>2, <2>4, <3>1
    <3>3. QED
      BY <2>1, <2>2, <2>3, <3>1, <3>2, <1>1 DEF TypeOK
  <2>5. CASE ~(Len(queue) < MaxQueue)
    <3>1. queue' = queue /\ lost' = lost \cup {e}
      BY <1>1, <2>5 DEF Emit
    <3>2. QED
      BY <2>1, <2>2, <2>3, <3>1, <1>1 DEF TypeOK
  <2>6. QED
    BY <2>4, <2>5
<1>2. ASSUME NEW s \in Senders, Drain(s) PROVE TypeOK'
  <2> DEFINE n == IF Len(queue) < BatchSize THEN Len(queue) ELSE BatchSize
  <2>1. /\ hand' = [hand EXCEPT ![s] = [batch |-> SubSeq(queue, 1, n), left |-> Retries]]
        /\ queue' = SubSeq(queue, n + 1, Len(queue))
    BY <1>2 DEF Drain
  <2>2. n \in 1..Len(queue) /\ n <= BatchSize /\ Len(queue) \in Nat
    <3>1. queue \in Seq(emitted) /\ queue # <<>>
      BY <1>2 DEF Drain, TypeOK
    <3>2. Len(queue) \in Nat /\ Len(queue) # 0
      BY <3>1, EmptySeq
    <3>3. QED
      BY <3>2
  <2> HIDE DEF n
  <2>3. /\ SubSeq(queue, 1, n) \in Seq(emitted) /\ Len(SubSeq(queue, 1, n)) = n
        /\ queue' \in Seq(emitted) /\ Len(queue') = Len(queue) - n
    BY <2>1, <2>2, RangeSplit DEF TypeOK
  <2>4. Len(queue') <= MaxQueue
    BY <2>2, <2>3 DEF TypeOK
  <2>5. hand' \in [Senders -> Batches] /\ \A t \in Senders : Len(hand'[t].batch) <= BatchSize
    <3>1. [batch |-> SubSeq(queue, 1, n), left |-> Retries] \in Batches
      BY <2>3 DEF Batches, Retries
    <3>2. QED
      BY <2>1, <2>2, <2>3, <3>1 DEF TypeOK, Batches
  <2>6. QED
    BY <1>2, <2>3, <2>4, <2>5 DEF Drain, TypeOK, Batches, server, tables
<1>3. ASSUME NEW s \in Senders, Post(s) PROVE TypeOK'
  <2>1. hand' \in [Senders -> Batches] /\ \A t \in Senders : Len(hand'[t].batch) <= BatchSize
    BY <1>3, EmptyType DEF Post
  <2>2. Accept(s) /\ UNCHANGED <<emitted, queue, program, lost, worker, rows, content, faults>>
    BY <1>3 DEF Post, tables
  <2>3. worker' \in [Workers -> [does : Does, batch : SUBSET DOMAIN stream']]
    BY <2>2, AcceptType DEF TypeOK, Does
  <2>4. QED
    BY <2>1, <2>2, <2>3, AcceptType DEF TypeOK, Batches, Holders, Does
<1>4. ASSUME NEW s \in Senders, PostUnanswered(s) PROVE TypeOK'
  <2>1. /\ hand' \in [Senders -> Batches] /\ lost' \subseteq emitted
        /\ \A t \in Senders : Len(hand'[t].batch) <= BatchSize
    BY <1>4, AgainType DEF PostUnanswered
  <2>2. /\ Accept(s) /\ UNCHANGED <<emitted, queue, program, worker, rows, content>>
        /\ faults' \in 0 .. MaxFaults
    BY <1>4 DEF PostUnanswered, tables, TypeOK
  <2>3. worker' \in [Workers -> [does : Does, batch : SUBSET DOMAIN stream']]
    BY <2>2, AcceptType DEF TypeOK, Does
  <2>4. QED
    BY <2>1, <2>2, <2>3, AcceptType DEF TypeOK, Batches, Holders, Does
<1>5. ASSUME NEW s \in Senders, PostFails(s) PROVE TypeOK'
  <2>1. /\ hand' \in [Senders -> Batches] /\ lost' \subseteq emitted
        /\ \A t \in Senders : Len(hand'[t].batch) <= BatchSize
    BY <1>5, AgainType DEF PostFails
  <2>2. QED
    BY <1>5, <2>1 DEF PostFails, TypeOK, Batches, server, tables
<1>6. ASSUME NEW s \in Senders, PostRejected(s) PROVE TypeOK'
  <2>1. hand' \in [Senders -> Batches] /\ \A t \in Senders : Len(hand'[t].batch) <= BatchSize
    BY <1>6, EmptyType DEF PostRejected
  <2>2. Range(hand[s].batch) \subseteq emitted
    BY RangeOfSeq DEF TypeOK
  <2>3. QED
    BY <1>6, <2>1, <2>2 DEF PostRejected, TypeOK, Batches, server, tables
<1>7. CASE BeginExit
  BY <1>7 DEF BeginExit, TypeOK, server, tables
<1>8. CASE Exit
  <2>1. Range(queue) \subseteq emitted /\ Range(hand["thread"].batch) \subseteq emitted
    BY RangeOfSeq DEF TypeOK, Senders
  <2>2. hand' \in [Senders -> Batches] /\ \A t \in Senders : Len(hand'[t].batch) <= BatchSize
    BY <1>8 DEF Exit, Batches, Empty, Retries
  <2>3. queue' \in Seq(emitted) /\ Len(queue') <= MaxQueue
    BY <1>8 DEF Exit
  <2>4. faults' \in 0 .. MaxFaults
    BY <1>8 DEF Exit, TypeOK
  <2>5. QED
    BY <1>8, <2>1, <2>2, <2>3, <2>4 DEF Exit, TypeOK, Batches, server, tables
<1>9. ASSUME NEW w \in Workers, NEW S \in SUBSET DOMAIN stream, Takes(w, S) PROVE TypeOK'
  <2>1. holder' \in Seq(Holders) /\ Len(holder') = Len(stream)
    <3>1. Len(stream) \in Nat /\ DOMAIN stream = 1..Len(stream) /\ DOMAIN holder = 1..Len(stream)
      BY DEF TypeOK
    <3>2. \A i \in 1..Len(stream) : (IF i \in S THEN w ELSE holder[i]) \in Holders
      BY <3>1 DEF TypeOK, Holders
    <3>3. holder' \in [1..Len(stream) -> Holders]
      BY <1>9, <3>1, <3>2 DEF Takes
    <3>4. QED
      BY <3>1, <3>3
  <2>2. worker' \in [Workers -> Tasks]
    BY <1>9 DEF Takes, TypeOK, Tasks, Does
  <2>3. QED
    BY <1>9, <2>1, <2>2 DEF Takes, TypeOK, Holders, Tasks, Does, sdk, tables
<1>10. ASSUME NEW w \in Workers, Read(w) \/ Claim(w) PROVE TypeOK'
  BY <1>9, <1>10 DEF Read, Claim, Stale
<1>11. ASSUME NEW w \in Workers, WriteSpans(w) \/ WriteContent(w) PROVE TypeOK'
  <2>1. Decoded(w) \subseteq emitted
    BY DEF Decoded, TypeOK
  <2>2. worker' \in [Workers -> Tasks]
    BY <1>11 DEF WriteSpans, WriteContent, Goes, TypeOK, Tasks, Does, server
  <2>3. QED
    BY <1>11, <2>1, <2>2 DEF WriteSpans, WriteContent, TypeOK, Tasks, Does, sdk, server
<1>12. ASSUME NEW w \in Workers, Ack(w) PROVE TypeOK'
  BY <1>12 DEF Ack, Rest, TypeOK, sdk, tables
<1>13. ASSUME NEW w \in Workers, WriteFails(w) \/ Unwritable(w) PROVE TypeOK'
  <2>1. CASE WriteFails(w)
    BY <2>1 DEF WriteFails, GiveUp, Rest, TypeOK, sdk, tables
  <2>2. CASE Unwritable(w)
    BY <2>2 DEF Unwritable, GiveUp, Rest, TypeOK, sdk, tables
  <2>3. QED
    BY <1>13, <2>1, <2>2
<1>14. ASSUME NEW w \in Workers, Crash(w) PROVE TypeOK'
  BY <1>14 DEF Crash, Rest, TypeOK, sdk, server, tables
<1>15. ASSUME NEW w \in Workers, Restart(w) PROVE TypeOK'
  <2>1. holder' \in Seq(Holders) /\ Len(holder') = Len(stream)
    <3>1. Len(stream) \in Nat /\ DOMAIN stream = 1..Len(stream) /\ DOMAIN holder = 1..Len(stream)
      BY DEF TypeOK
    <3>2. \A i \in 1..Len(stream) : (IF holder[i] = w THEN "gone" ELSE holder[i]) \in Holders
      BY <3>1 DEF TypeOK, Holders
    <3>3. holder' \in [1..Len(stream) -> Holders]
      BY <1>15, <3>1, <3>2 DEF Restart
    <3>4. QED
      BY <3>1, <3>3
  <2>2. worker' \in [Workers -> Tasks]
    BY <1>15 DEF Restart, Rest, TypeOK, Tasks, Does
  <2>3. QED
    BY <1>15, <2>1, <2>2 DEF Restart, TypeOK, Holders, Tasks, Does, sdk, tables
<1>16. CASE UNCHANGED vars
  BY <1>16 DEF vars, TypeOK
<1>17. QED
  BY <1>1, <1>2, <1>3, <1>4, <1>5, <1>6, <1>7, <1>8, <1>10, <1>11, <1>12, <1>13, <1>14, <1>15,
     <1>16 DEF Next, Works

\* What the SDK and the server hold is of the right kind and no larger than allowed.
THEOREM TypeCorrect == Spec => []TypeOK
  BY TypeInit, TypeStep, PTL DEF Spec

-----------------------------------------------------------------------------
(* Nothing vanishes.  On the program's side a span is in the queue, in a    *)
(* sender's hand, counted as lost or in the stream; an entry leaves the     *)
(* stream's care only by an acknowledgement, and what a worker is about to  *)
(* acknowledge it has written to both tables.                               *)

OnItsWay == emitted \subseteq Held \cup lost \cup Range(stream)

Written(S, T) == {stream[i] : i \in S} \ Malformed \subseteq T

HasWritten(w) ==
  /\ worker[w].does = "content" => Written(worker[w].batch, rows)
  /\ worker[w].does = "ack" => Written(worker[w].batch, rows \cap content)

WrittenFirst ==
  /\ \A w \in Workers : HasWritten(w)
  /\ Written(acked, rows \cap content)

SpansInv == TypeOK /\ OnItsWay /\ WrittenFirst

LEMMA HeldIs ==
  ASSUME NEW e
  PROVE  e \in Held <=> e \in Range(queue) \/ \E s \in Senders : e \in Range(hand[s].batch)
  BY DEF Held, Senders

\* A step that hands spans on leaves each of them somewhere.
LEMMA WayStep ==
  ASSUME TypeOK, TypeOK', OnItsWay, emitted' = emitted, lost \subseteq lost',
         Range(stream) \subseteq Range(stream)',
         \A e \in Range(queue) : e \in Held' \/ e \in lost' \/ e \in Range(stream)',
         \A s \in Senders : \A e \in Range(hand[s].batch) :
            e \in Held' \/ e \in lost' \/ e \in Range(stream)'
  PROVE  OnItsWay'
  BY HeldIs DEF OnItsWay

\* The tables and the stream only grow, so what was written stays written.
LEMMA WrittenStep ==
  ASSUME TypeOK, WrittenFirst, DOMAIN stream \subseteq DOMAIN stream',
         \A i \in DOMAIN stream : stream'[i] = stream[i],
         rows \subseteq rows', content \subseteq content',
         acked' = acked,
         \A w \in Workers : worker'[w] = worker[w] \/ HasWritten(w)'
  PROVE  WrittenFirst'
<1>1. ASSUME NEW S, S \subseteq DOMAIN stream, NEW T, NEW U, T \subseteq U, Written(S, T)
      PROVE  {stream'[i] : i \in S} \ Malformed \subseteq U
  BY <1>1 DEF Written
<1>2. rows \cap content \subseteq rows' \cap content'
  OBVIOUS
<1>3. acked \subseteq DOMAIN stream /\ \A w \in Workers : worker[w].batch \subseteq DOMAIN stream
  BY DEF TypeOK
<1>4. Written(acked, rows \cap content)'
  BY <1>1, <1>2, <1>3 DEF WrittenFirst, Written
<1>5. ASSUME NEW w \in Workers, worker'[w] = worker[w]
      PROVE  HasWritten(w)'
  <2>1. ASSUME worker[w].does = "content" PROVE {stream'[i] : i \in worker[w].batch} \ Malformed \subseteq rows'
    BY <1>1, <1>3, <2>1 DEF WrittenFirst, HasWritten
  <2>2. ASSUME worker[w].does = "ack"
        PROVE  {stream'[i] : i \in worker[w].batch} \ Malformed \subseteq rows' \cap content'
    BY <1>1, <1>2, <1>3, <2>2 DEF WrittenFirst, HasWritten
  <2>3. QED
    BY <1>5, <2>1, <2>2 DEF HasWritten, Written
<1>6. QED
  BY <1>4, <1>5 DEF WrittenFirst

LEMMA NothingInit == Init => SpansInv
<1>1. ASSUME Init PROVE OnItsWay /\ WrittenFirst
  BY <1>1 DEF Init, OnItsWay, WrittenFirst, HasWritten, Written, Rest
<1>2. QED
  BY <1>1, TypeInit DEF SpansInv

LEMMA NothingStep ==
  ASSUME SpansInv, [Next]_vars
  PROVE  SpansInv'
<1> USE DEF SpansInv
<1>0. TypeOK'
  BY TypeStep
<1>a. ASSUME UNCHANGED <<emitted, queue, hand, lost, stream>> PROVE OnItsWay'
  BY <1>a DEF OnItsWay, Held
<1>b. ASSUME UNCHANGED <<stream, acked, worker, rows, content>> PROVE WrittenFirst'
  BY <1>b DEF WrittenFirst, HasWritten, Written
<1>c. ASSUME NEW s \in Senders, Again(s)
      PROVE  /\ lost \subseteq lost'
             /\ \A t \in Senders : \A e \in Range(hand[t].batch) :
                  e \in Range(hand'[t].batch) \/ e \in lost'
  <2>1. CASE hand[s].left = 1
    BY <1>c, <2>1 DEF Again, TypeOK
  <2>2. CASE hand[s].left # 1
    <3>1. hand \in [Senders -> Batches] /\ hand' = [hand EXCEPT ![s].left = @ - 1]
      BY <1>c, <2>2 DEF Again, TypeOK, Batches
    <3>2. \A t \in Senders : hand'[t].batch = hand[t].batch
      BY <3>1 DEF Batches
    <3>3. QED
      BY <1>c, <2>2, <3>2 DEF Again
  <2>3. QED
    BY <2>1, <2>2
<1>1. ASSUME NEW e \in Events, Emit(e) PROVE SpansInv'
  <2>1. UNCHANGED <<hand, stream, acked, worker, rows, content>> /\ emitted' = emitted \cup {e}
    BY <1>1 DEF Emit, server, tables
  <2>2. Range(queue) \subseteq Range(queue') /\ lost \subseteq lost' /\ (e \in Range(queue') \/ e \in lost')
    <3>1. CASE Len(queue) < MaxQueue
      <4>1. queue \in Seq(Events) /\ queue' = Append(queue, e) /\ lost' = lost
        BY <1>1, <3>1, SeqGrows DEF Emit, TypeOK
      <4>2. QED
        BY <4>1, RangeAppend
    <3>2. CASE ~(Len(queue) < MaxQueue)
      BY <1>1, <3>2 DEF Emit
    <3>3. QED
      BY <3>1, <3>2
  <2>3. OnItsWay'
    BY <2>1, <2>2 DEF OnItsWay, Held
  <2>4. QED
    BY <1>0, <1>b, <2>1, <2>3
<1>2. ASSUME NEW s \in Senders, Drain(s) PROVE SpansInv'
  <2> DEFINE n == IF Len(queue) < BatchSize THEN Len(queue) ELSE BatchSize
  <2>1. /\ hand' = [hand EXCEPT ![s] = [batch |-> SubSeq(queue, 1, n), left |-> Retries]]
        /\ queue' = SubSeq(queue, n + 1, Len(queue)) /\ hand[s].batch = <<>>
        /\ UNCHANGED <<emitted, lost, stream, acked, worker, rows, content>>
    BY <1>2 DEF Drain, server, tables
  <2>2. n \in 1..Len(queue)
    <3>1. queue \in Seq(emitted) /\ queue # <<>>
      BY <1>2 DEF Drain, TypeOK
    <3>2. Len(queue) \in Nat /\ Len(queue) # 0
      BY <3>1, EmptySeq
    <3>3. QED
      BY <3>2, SpansAssumption
  <2> HIDE DEF n
  <2>3. Range(queue) = Range(hand'[s].batch) \cup Range(queue')
    BY <2>1, <2>2, RangeSplit DEF TypeOK
  <2>4. \A t \in Senders : \A e \in Range(hand[t].batch) : e \in Range(hand'[t].batch)
    BY <2>1 DEF TypeOK, Range
  <2>5. \A e \in Range(queue) : e \in Held'
    BY <2>3, HeldIs DEF Held, Senders
  <2>6. \A t \in Senders : \A e \in Range(hand[t].batch) : e \in Held'
    BY <2>4 DEF Held, Senders
  <2>7. OnItsWay'
    BY <1>0, <2>1, <2>5, <2>6, WayStep
  <2>8. QED
    BY <1>0, <1>b, <2>1, <2>7
<1>3. ASSUME NEW s \in Senders, Post(s) PROVE SpansInv'
  <2>1. Accept(s) /\ hand' = [hand EXCEPT ![s] = Empty]
        /\ UNCHANGED <<emitted, queue, lost, worker, rows, content>> /\ acked' = acked
    BY <1>3 DEF Post, tables, Accept
  <2>2. Range(stream') = Range(stream) \cup Range(hand[s].batch)
    BY <2>1, AcceptType
  <2>3. \A t \in Senders : \A e \in Range(hand[t].batch) : e \in Range(hand'[t].batch) \/ e \in Range(stream')
    BY <2>1, <2>2 DEF TypeOK
  <2>4. \A e \in Range(queue) : e \in Held'
    BY <2>1 DEF Held
  <2>5. \A t \in Senders : \A e \in Range(hand[t].batch) : e \in Held' \/ e \in Range(stream')
    BY <2>3 DEF Held, Senders
  <2>6. OnItsWay'
    BY <1>0, <2>1, <2>2, <2>4, <2>5, WayStep
  <2>7. WrittenFirst'
    BY <2>1, AcceptType, WrittenStep
  <2>8. QED
    BY <1>0, <2>6, <2>7
<1>4. ASSUME NEW s \in Senders, PostUnanswered(s) PROVE SpansInv'
  <2>1. Accept(s) /\ Again(s) /\ UNCHANGED <<emitted, queue, worker, rows, content>> /\ acked' = acked
    BY <1>4 DEF PostUnanswered, tables, Accept
  <2>2. Range(stream') = Range(stream) \cup Range(hand[s].batch)
    BY <2>1, AcceptType
  <2>3. \A e \in Range(queue) : e \in Held'
    BY <2>1 DEF Held
  <2>4. \A t \in Senders : \A e \in Range(hand[t].batch) : e \in Held' \/ e \in lost'
    BY <1>c, <2>1 DEF Held, Senders
  <2>5. OnItsWay'
    BY <1>0, <1>c, <2>1, <2>2, <2>3, <2>4, WayStep
  <2>6. WrittenFirst'
    BY <2>1, AcceptType, WrittenStep
  <2>7. QED
    BY <1>0, <2>5, <2>6
<1>5. ASSUME NEW s \in Senders, PostFails(s) PROVE SpansInv'
  <2>1. Again(s) /\ UNCHANGED <<emitted, queue, stream, acked, worker, rows, content>>
    BY <1>5 DEF PostFails, server, tables
  <2>2. \A e \in Range(queue) : e \in Held'
    BY <2>1 DEF Held
  <2>3. \A t \in Senders : \A e \in Range(hand[t].batch) : e \in Held' \/ e \in lost'
    BY <1>c, <2>1 DEF Held, Senders
  <2>4. OnItsWay'
    BY <1>0, <1>c, <2>1, <2>2, <2>3, WayStep
  <2>5. QED
    BY <1>0, <1>b, <2>1, <2>4
<1>6. ASSUME NEW s \in Senders, PostRejected(s) PROVE SpansInv'
  <2>1. /\ hand' = [hand EXCEPT ![s] = Empty] /\ lost' = lost \cup Range(hand[s].batch)
        /\ UNCHANGED <<emitted, queue, stream, acked, worker, rows, content>>
    BY <1>6 DEF PostRejected, server, tables
  <2>2. \A e \in Range(queue) : e \in Held'
    BY <2>1 DEF Held
  <2>3. \A t \in Senders : \A e \in Range(hand[t].batch) : e \in Range(hand'[t].batch) \/ e \in lost'
    BY <2>1 DEF TypeOK
  <2>4. \A t \in Senders : \A e \in Range(hand[t].batch) : e \in Held' \/ e \in lost'
    BY <2>3 DEF Held, Senders
  <2>5. OnItsWay'
    BY <1>0, <2>1, <2>2, <2>4, WayStep
  <2>6. QED
    BY <1>0, <1>b, <2>1, <2>5
<1>7. CASE BeginExit
  BY <1>0, <1>7, <1>a, <1>b DEF BeginExit, server, tables
<1>8. CASE Exit
  <2>1. /\ lost' = lost \cup Range(queue) \cup Range(hand["thread"].batch)
        /\ hand["flush"].batch = <<>>
        /\ UNCHANGED <<emitted, stream, acked, worker, rows, content>>
    BY <1>8 DEF Exit, server, tables
  <2>2. \A t \in Senders : \A e \in Range(hand[t].batch) : e \in lost'
    BY <2>1 DEF Senders, Range
  <2>3. OnItsWay'
    BY <1>0, <2>1, <2>2, WayStep
  <2>4. QED
    BY <1>0, <1>b, <2>1, <2>3
<1>9. ASSUME NEW w \in Workers,
             Read(w) \/ Claim(w) \/ WriteFails(w) \/ Unwritable(w) \/ Crash(w) \/ Restart(w)
      PROVE  SpansInv'
  <2>1. /\ UNCHANGED <<emitted, queue, hand, lost, stream, acked, rows, content>>
        /\ \A v \in Workers : worker'[v] = worker[v] \/ HasWritten(v)'
    BY <1>9 DEF HasWritten, Read, Claim, Takes, WriteFails, Unwritable, GiveUp, Crash, Restart, Rest, TypeOK,
                   sdk, server, tables
  <2>2. WrittenFirst'
    BY <2>1, WrittenStep
  <2>3. QED
    BY <1>0, <1>a, <2>1, <2>2
<1>10. ASSUME NEW w \in Workers, WriteSpans(w) PROVE SpansInv'
  <2>1. /\ UNCHANGED <<emitted, queue, hand, lost, stream, acked, content>>
        /\ rows' = rows \cup Decoded(w)
        /\ worker'[w].does = "content" /\ worker'[w].batch = worker[w].batch
        /\ \A v \in Workers \ {w} : worker'[v] = worker[v]
    BY <1>10 DEF WriteSpans, Goes, TypeOK, sdk, server
  <2>2. HasWritten(w)'
    BY <2>1 DEF HasWritten, Written, Decoded
  <2>3. WrittenFirst'
    BY <2>1, <2>2, WrittenStep
  <2>4. QED
    BY <1>0, <1>a, <2>1, <2>3
<1>11. ASSUME NEW w \in Workers, WriteContent(w) PROVE SpansInv'
  <2>1. /\ UNCHANGED <<emitted, queue, hand, lost, stream, acked, rows>>
        /\ content' = content \cup Decoded(w) /\ worker[w].does = "content"
        /\ worker'[w].does = "ack" /\ worker'[w].batch = worker[w].batch
        /\ \A v \in Workers \ {w} : worker'[v] = worker[v]
    BY <1>11 DEF WriteContent, Goes, TypeOK, sdk, server
  <2>2. HasWritten(w)'
    BY <2>1 DEF HasWritten, Written, Decoded, WrittenFirst
  <2>3. WrittenFirst'
    BY <2>1, <2>2, WrittenStep
  <2>4. QED
    BY <1>0, <1>a, <2>1, <2>3
<1>12. ASSUME NEW w \in Workers, Ack(w) PROVE SpansInv'
  <2>1. /\ UNCHANGED <<emitted, queue, hand, lost, stream, rows, content>>
        /\ acked' = acked \cup worker[w].batch /\ worker[w].does = "ack"
        /\ worker'[w].does = "rest"
        /\ \A v \in Workers \ {w} : worker'[v] = worker[v]
    BY <1>12 DEF Ack, Rest, TypeOK, sdk, tables
  <2>2. WrittenFirst'
    BY <2>1 DEF WrittenFirst, HasWritten, Written
  <2>3. QED
    BY <1>0, <1>a, <2>1, <2>2
<1>13. CASE UNCHANGED vars
  BY <1>0, <1>a, <1>b, <1>13 DEF vars
<1>14. QED
  BY <1>1, <1>2, <1>3, <1>4, <1>5, <1>6, <1>7, <1>8, <1>9, <1>10, <1>11, <1>12, <1>13
     DEF Next, Works

\* A finished span is held, lost for a stated reason, awaited in the stream, or in both tables.
THEOREM NothingVanishesHolds == Spec => []NothingVanishes
<1>1. SpansInv => NothingVanishes
  <2> SUFFICES ASSUME SpansInv, NEW e \in Range(stream)
               PROVE  e \in Awaited \cup (rows \cap content) \cup Malformed
    BY DEF SpansInv, OnItsWay, NothingVanishes
  <2>1. PICK i \in DOMAIN stream : stream[i] = e
    BY DEF Range
  <2>2. CASE i \in acked
    BY <2>1, <2>2 DEF SpansInv, WrittenFirst, Written
  <2>3. CASE i \notin acked
    BY <2>1, <2>3 DEF Awaited
  <2>4. QED
    BY <2>2, <2>3
<1>2. QED
  BY <1>1, NothingInit, NothingStep, PTL DEF Spec
=============================================================================
