------------------------------- MODULE Spans -------------------------------
(***************************************************************************)
(* The way of a span from the instrumented program to the dashboard's      *)
(* table: the exporter of the llmlens SDK, the ingest endpoint, the Redis  *)
(* stream with its consumer group, and the workers that write ClickHouse.  *)
(*                                                                         *)
(* Requests and answers get lost, inserts fail, the program exits, and     *)
(* workers die and come back at any point: Redis keeps what a worker read  *)
(* and did not acknowledge, until a worker claims it.  Faults are bounded. *)
(***************************************************************************)
EXTENDS Naturals, Sequences, FiniteSets, SequencesExt

CONSTANTS
  Events,      \* spans, each finished once
  Malformed,   \* those the worker cannot decode
  Poison,      \* those it decodes, and can make no row of
  Workers,     \* replicas of the worker process
  MaxQueue, BatchSize, MaxEntries,   \* of the SDK and, as a bound, of the stream
  MaxFaults,   \* bounds lost answers, failed inserts and crashes
  NoWorker

Retries == 3
Senders == {"thread", "flush"}   \* the daemon thread, and flush() at exit

ASSUME SpansAssumption ==
  /\ Malformed \subseteq Events /\ Poison \subseteq Events \ Malformed /\ NoWorker \notin Workers
  /\ {MaxQueue, BatchSize} \subseteq Nat \ {0} /\ {MaxEntries, MaxFaults} \subseteq Nat

VARIABLES
  emitted,   \* spans handed to emit()
  queue,     \* Exporter._q
  hand,      \* the batch each sender holds, and the attempts it has left
  program,   \* "up", "flushing" at exit, or "down"
  lost,      \* spans given up: overflow, a 4xx, retries exhausted, exit
  stream,    \* entries of the Redis stream; an acknowledged one stays
  holder,    \* the consumer an entry was delivered to, or "gone"
  acked,     \* entries acknowledged
  worker,    \* each worker's batch of entries and what it does with them
  rows, content,   \* spans in the tables
  faults

vars == <<emitted, queue, hand, program, lost, stream, holder, acked, worker, rows, content, faults>>
sdk    == <<emitted, queue, hand, program, lost>>
server == <<stream, holder, acked>>
tables == <<rows, content>>

Empty == [batch |-> <<>>, left |-> Retries]
Rest  == [does |-> "rest", batch |-> {}]

TypeOK ==
  /\ emitted \subseteq Events /\ lost \subseteq emitted /\ rows \subseteq emitted /\ content \subseteq emitted
  /\ queue \in Seq(emitted) /\ Len(queue) <= MaxQueue
  /\ hand \in [Senders -> [batch : Seq(emitted), left : 1 .. Retries]]
  /\ \A s \in Senders : Len(hand[s].batch) <= BatchSize
  /\ program \in {"up", "flushing", "down"}
  /\ stream \in Seq(emitted) /\ holder \in Seq(Workers \cup {NoWorker, "gone"})
  /\ Len(holder) = Len(stream) /\ acked \subseteq DOMAIN stream
  /\ worker \in [Workers -> [does : {"rest", "read", "content", "ack", "dead"}, batch : SUBSET DOMAIN stream]]
  /\ faults \in 0 .. MaxFaults
-----------------------------------------------------------------------------
\* emit(): a full queue drops rather than blocks.
Emit(e) ==
  /\ program = "up" /\ e \notin emitted
  /\ emitted' = emitted \cup {e}
  /\ IF Len(queue) < MaxQueue THEN queue' = Append(queue, e) /\ UNCHANGED lost
     ELSE lost' = lost \cup {e} /\ UNCHANGED queue
  /\ UNCHANGED <<hand, program, server, worker, tables, faults>>

\* _drain(), of the thread, or of flush().
Drain(s) ==
  /\ IF s = "thread" THEN program # "down" ELSE program = "flushing"
  /\ hand[s].batch = <<>> /\ queue # <<>>
  /\ LET n == IF Len(queue) < BatchSize THEN Len(queue) ELSE BatchSize IN
     /\ hand' = [hand EXCEPT ![s] = [batch |-> SubSeq(queue, 1, n), left |-> Retries]]
     /\ queue' = SubSeq(queue, n + 1, Len(queue))
  /\ UNCHANGED <<emitted, program, lost, server, worker, tables, faults>>

Sending(s) == hand[s].batch # <<>> /\ program # "down"
Accept(s) ==
  /\ Len(stream) + Len(hand[s].batch) <= MaxEntries
  /\ stream' = stream \o hand[s].batch
  /\ holder' = holder \o [i \in DOMAIN hand[s].batch |-> NoWorker]
  /\ UNCHANGED acked

\* Mutant: an attempt that failed counts as a delivery.
Delivered(s) == hand' = [hand EXCEPT ![s] = Empty] /\ UNCHANGED lost

Again(s) ==
  IF hand[s].left = 1 THEN hand' = [hand EXCEPT ![s] = Empty] /\ lost' = lost \cup Range(hand[s].batch)
  ELSE hand' = [hand EXCEPT ![s].left = @ - 1] /\ UNCHANGED lost

\* The endpoint enqueues the batch in one transaction and says so.
Post(s) ==
  /\ Sending(s) /\ Accept(s)
  /\ hand' = [hand EXCEPT ![s] = Empty]
  /\ UNCHANGED <<emitted, queue, program, lost, worker, tables, faults>>

\* It enqueues the batch, and its answer does not arrive: the batch is sent again.
PostUnanswered(s) ==
  /\ Sending(s) /\ Accept(s) /\ faults < MaxFaults
  /\ faults' = faults + 1
  /\ Again(s)
  /\ UNCHANGED <<emitted, queue, program, worker, tables>>

PostFails(s) ==
  /\ Sending(s) /\ faults < MaxFaults
  /\ faults' = faults + 1
  /\ Again(s)
  /\ UNCHANGED <<emitted, queue, program, server, worker, tables>>

\* A 4xx ends it, 429 included.
PostRejected(s) ==
  /\ Sending(s) /\ faults < MaxFaults
  /\ faults' = faults + 1
  /\ hand' = [hand EXCEPT ![s] = Empty] /\ lost' = lost \cup Range(hand[s].batch)
  /\ UNCHANGED <<emitted, queue, program, server, worker, tables>>

\* atexit: flush() runs beside the daemon thread, until the queue is empty or time is up.
BeginExit ==
  /\ program = "up" /\ program' = "flushing"
  /\ UNCHANGED <<emitted, queue, hand, lost, server, worker, tables, faults>>

Exit ==
  /\ program = "flushing" /\ hand["flush"].batch = <<>>
  /\ queue = <<>> \/ faults < MaxFaults
  /\ faults' = IF queue = <<>> THEN faults ELSE faults + 1
  /\ program' = "down" /\ queue' = <<>> /\ hand' = [s \in Senders |-> Empty]
  /\ lost' = lost \cup Range(queue) \cup Range(hand["thread"].batch)
  /\ UNCHANGED <<emitted, server, worker, tables>>
-----------------------------------------------------------------------------
Takes(w, S) ==
  /\ S # {} /\ worker[w].does = "rest"
  /\ holder' = [i \in DOMAIN stream |-> IF i \in S THEN w ELSE holder[i]]
  /\ worker' = [worker EXCEPT ![w] = [does |-> "read", batch |-> S]]
  /\ UNCHANGED <<sdk, stream, acked, tables, faults>>

\* consume_once(): what was delivered to nobody yet.
Read(w) == Takes(w, {i \in DOMAIN stream : holder[i] = NoWorker})

\* Mutant: entries of a worker that died are nobody's to claim.
OwnOnly(w) == {i \in DOMAIN stream \ acked : holder[i] = w}

\* Unacknowledged for a minute: its worker died, failed, or is slow.
Stale(w) == {i \in DOMAIN stream \ acked : holder[i] # NoWorker}

\* claim_stale(): any worker's entries, its own too.
Claim(w) == Takes(w, Stale(w))

Decoded(w) == {stream[i] : i \in worker[w].batch} \ Malformed
Goes(w, does) == worker' = [worker EXCEPT ![w].does = does]

WriteSpans(w) ==
  /\ worker[w].does = "read" /\ Decoded(w) \cap Poison = {}
  /\ rows' = rows \cup Decoded(w)
  /\ Goes(w, "content")
  /\ UNCHANGED <<sdk, server, content, faults>>

WriteContent(w) ==
  /\ worker[w].does = "content"
  /\ content' = content \cup Decoded(w)
  /\ Goes(w, "ack")
  /\ UNCHANGED <<sdk, server, rows, faults>>

Ack(w) ==
  /\ worker[w].does = "ack"
  /\ acked' = acked \cup worker[w].batch
  /\ worker' = [worker EXCEPT ![w] = Rest]
  /\ UNCHANGED <<sdk, stream, holder, tables, faults>>

\* Mutant: what could not be written is acknowledged all the same.
AckAnyway(w) == acked' = acked \cup worker[w].batch

GiveUp(w) == UNCHANGED acked

\* An insert fails: the batch stays unacknowledged.
WriteFails(w) ==
  /\ worker[w].does \in {"read", "content"} /\ faults < MaxFaults
  /\ faults' = faults + 1
  /\ worker' = [worker EXCEPT ![w] = Rest]
  /\ GiveUp(w)
  /\ UNCHANGED <<sdk, stream, holder, tables>>

\* Only decoding is tried event by event: one that decodes and has no row takes its batch
\* with it, before anything is inserted, at each claim anew.
Unwritable(w) ==
  /\ worker[w].does = "read" /\ Decoded(w) \cap Poison # {}
  /\ worker' = [worker EXCEPT ![w] = Rest]
  /\ GiveUp(w)
  /\ UNCHANGED <<sdk, stream, holder, tables, faults>>

Crash(w) ==
  /\ worker[w].does # "dead" /\ faults < MaxFaults
  /\ faults' = faults + 1
  /\ worker' = [worker EXCEPT ![w] = [Rest EXCEPT !.does = "dead"]]
  /\ UNCHANGED <<sdk, server, tables>>

\* A new process has a new name, hostname and pid: what the old one held is not its own.
Restart(w) ==
  /\ worker[w].does = "dead"
  /\ worker' = [worker EXCEPT ![w] = Rest]
  /\ holder' = [i \in DOMAIN stream |-> IF holder[i] = w THEN "gone" ELSE holder[i]]
  /\ UNCHANGED <<sdk, stream, acked, tables, faults>>
-----------------------------------------------------------------------------
Init ==
  /\ emitted = {} /\ queue = <<>> /\ hand = [s \in Senders |-> Empty] /\ program = "up" /\ lost = {}
  /\ stream = <<>> /\ holder = <<>> /\ acked = {} /\ worker = [w \in Workers |-> Rest]
  /\ rows = {} /\ content = {} /\ faults = 0

Works(w) == Read(w) \/ Claim(w) \/ WriteSpans(w) \/ Unwritable(w) \/ WriteContent(w) \/ Ack(w) \/ Restart(w)

Next ==
  \/ \E e \in Events : Emit(e)
  \/ \E s \in Senders : Drain(s) \/ Post(s) \/ PostUnanswered(s) \/ PostFails(s) \/ PostRejected(s)
  \/ BeginExit \/ Exit
  \/ \E w \in Workers : Works(w) \/ WriteFails(w) \/ Crash(w)

Spec == Init /\ [][Next]_vars

\* The worker's loop reads and claims by turns, and is restarted when it dies.
Fairness ==
  \A w \in Workers : /\ WF_vars(WriteSpans(w) \/ Unwritable(w) \/ WriteContent(w) \/ Ack(w) \/ Restart(w))
                     /\ SF_vars(Read(w)) /\ SF_vars(Claim(w))

FairSpec == Spec /\ Fairness
-----------------------------------------------------------------------------
(* Properties.                                                             *)

Held == Range(queue) \cup Range(hand["thread"].batch) \cup Range(hand["flush"].batch)
Awaited == {stream[i] : i \in DOMAIN stream \ acked}

\* A span handed to the SDK is on its way, given up for one of the stated reasons, or in
\* both tables: no retry, crash, claim or insert that failed half way makes one vanish.
NothingVanishes == emitted \subseteq Held \cup lost \cup Awaited \cup (rows \cap content) \cup Malformed

\* e waits for ever beside an event that no batch gets past.
HeldBack(e) == e \in Awaited /\ Poison \cap Awaited # {}

\* At-least-once: what the endpoint accepted reaches the tables, whichever worker dies, if
\* it is not held back for ever with an event that decodes and cannot be written.
AcceptedArrives ==
  \A e \in Events \ (Malformed \cup Poison) : ((e \in Range(stream)) ~> (e \in content)) \/ <>[]HeldBack(e)
=============================================================================
