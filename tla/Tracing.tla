------------------------------ MODULE Tracing ------------------------------
(***************************************************************************)
(* The pipeline inspector: trace/recorder.py, the stream of a traced run   *)
(* and the reads of api/routers/trace.py, run_traced of trace/ingest.py    *)
(* for an ingest, and trace/store.py.                                      *)
(*                                                                         *)
(* One question is traced and streamed; its steps are opened and closed by *)
(* several threads while the event loop drains them, and a run that fails  *)
(* leaves its tools' threads running.  Ingests are traced in another       *)
(* process.  Every operation on Redis may fail, silently.                  *)
(***************************************************************************)
EXTENDS Naturals, Sequences, Functions, Keeping

CONSTANTS
  Threads,      \* that record steps of the run
  MaxSteps,     \* trace.max_steps
  Question,     \* the trace of the streamed run
  Ingests,      \* traces of ingest jobs
  Owner,        \* of each trace
  HasRedis,
  MemMax        \* _MEM_MAX

Traces == Ingests \cup {Question}
Readers == Range(Owner)

ASSUME TracingAssumption ==
  /\ MaxSteps \in Nat \ {0} /\ MemMax \in Nat \ {0} /\ HasRedis \in BOOLEAN
  /\ DOMAIN Owner = Traces

VARIABLES
  steps,    \* statuses, in the order the steps began
  open,     \* the step each thread is in
  task,     \* the run itself
  before,   \* the steps when the run ended
  cursor,   \* _drained
  stream,   \* the response: where it is, and the steps it has yet to send
  told,     \* the last status of each step the client was sent
  memory,   \* TraceStore._mem, oldest first
  kept,     \* traces in Redis
  served    \* who was given, or listed, what

recording == <<steps, open, task, before, cursor, stream, told>>
store     == <<memory, kept, served>>
tvars     == <<steps, open, task, before, cursor, stream, told, memory, kept, served>>

Statuses == {"running", "ok", "error", "skipped"}

TTypeOK ==
  /\ steps \in Seq(Statuses) /\ Len(steps) <= MaxSteps + 1 /\ open \in [Threads -> 0 .. MaxSteps]
  /\ task \in {"running", "ok", "blocked", "failed", "cancelled"} /\ before \in Seq(Statuses)
  /\ cursor \in 0 .. Len(steps)
  /\ stream \in [at : {"asleep", "sending", "last", "done", "cut", "left"}, left : Seq(DOMAIN steps)]
  /\ told \in Seq(Statuses) /\ Len(told) <= Len(steps)
  /\ memory \in Seq([trace : Traces, owned : BOOLEAN]) /\ Len(memory) <= MemMax
  /\ kept \subseteq Traces /\ served \subseteq Readers \X Traces
-----------------------------------------------------------------------------
\* begin(): past the cap there is one marker and the step is not recorded.  A tool
\* runs in an executor: neither a failing run nor a cancelled one stops it.
BeginStep(t) ==
  /\ task \notin {"ok", "blocked"} /\ open[t] = 0
  /\ IF Len(steps) < MaxSteps
       THEN steps' = Append(steps, "running") /\ open' = [open EXCEPT ![t] = Len(steps) + 1]
       ELSE Len(steps) = MaxSteps /\ steps' = Append(steps, "ok") /\ UNCHANGED open
  /\ UNCHANGED <<task, before, cursor, stream, told, store>>

\* skip(): settled at once, though the block is left later.
SkipStep(t) ==
  /\ open[t] # 0 /\ steps[open[t]] = "running"
  /\ steps' = [steps EXCEPT ![open[t]] = "skipped"]
  /\ UNCHANGED <<open, task, before, cursor, stream, told, store>>

\* finish(); a block that called skip() returns next.
FinishStep(t, ended) ==
  /\ open[t] # 0 /\ ended \in {"ok", "error"} /\ (steps[open[t]] = "skipped" => ended = "ok")
  /\ steps' = [steps EXCEPT ![open[t]] = IF @ = "running" THEN ended ELSE @]
  /\ open' = [open EXCEPT ![t] = 0]
  /\ UNCHANGED <<task, before, cursor, stream, told, store>>

\* run() returns once the threads it awaits have, refused by the guard at its input
\* or not; it raises as soon as one of them does.
RunEnds(outcome) ==
  /\ task = "running" /\ (outcome # "failed" => \A t \in Threads : open[t] = 0)
  /\ task' = outcome /\ before' = steps
  /\ UNCHANGED <<steps, open, cursor, stream, told, store>>

\* Mutant: the cursor passes everything it returned.
AllOf(fresh) == Len(fresh)

\* It stops before the first step that still runs.
Settled(fresh) ==
  CHOOSE n \in 0 .. Len(fresh) :
    (\A i \in 1 .. n : fresh[i] # "running") /\ (n < Len(fresh) => fresh[n + 1] = "running")

\* One tick: is the task done? drain(), and the events are sent one by one.
Tick ==
  /\ stream.at = "asleep"
  /\ LET fresh == SubSeq(steps, cursor + 1, Len(steps)) IN
     /\ cursor' = cursor + Settled(fresh)
     /\ stream' = [at |-> IF task = "running" THEN "sending" ELSE "last",
                   left |-> [i \in DOMAIN fresh |-> cursor + i]]
  /\ UNCHANGED <<steps, open, task, before, told, store>>

\* A step is serialised when it is sent, without the lock.
Send ==
  /\ stream.at \in {"sending", "last"} /\ stream.left # <<>>
  /\ LET i == Head(stream.left) IN
     told' = [j \in 1 .. (IF i > Len(told) THEN i ELSE Len(told)) |-> IF j = i THEN steps[i] ELSE told[j]]
  /\ stream' = [stream EXCEPT !.left = Tail(@)]
  /\ UNCHANGED <<steps, open, task, before, cursor, store>>

Sleep ==
  /\ stream.at = "sending" /\ stream.left = <<>>
  /\ stream' = [stream EXCEPT !.at = "asleep"]
  /\ UNCHANGED <<steps, open, task, before, cursor, told, store>>

\* The client goes away: the task is cancelled and nothing is kept.
ClientLeaves ==
  /\ stream.at \in {"asleep", "sending", "last"}
  /\ stream' = [at |-> "left", left |-> <<>>]
  /\ task' = IF task = "running" THEN "cancelled" ELSE task
  /\ UNCHANGED <<steps, open, before, cursor, told, store>>
-----------------------------------------------------------------------------
Record(r) == [trace |-> r, owned |-> TRUE]
Without(mem, r) == Keep(mem, {x \in Range(mem) : x.trace # r})
InMemory(r) == {i \in DOMAIN memory : memory[i].trace = r}

\* save() by the API, which reads from the same memory ...
SaveHere(r, reached) ==
  LET mem == Append(Without(memory, r), Record(r)) IN
  /\ memory' = SubSeq(mem, 1 + (IF Len(mem) > MemMax THEN Len(mem) - MemMax ELSE 0), Len(mem))
  /\ kept' = IF HasRedis /\ reached THEN kept \cup {r} ELSE kept
  /\ UNCHANGED served

\* The last events are out: finalize(), save(), and the answer or the error.  The
\* result of a blocked run is no JSON, so its stream ends there, after the save.
Finished(reached) ==
  /\ stream.at = "last" /\ stream.left = <<>>
  /\ stream' = [stream EXCEPT !.at = IF task = "blocked" THEN "cut" ELSE "done"]
  /\ SaveHere(Question, reached)
  /\ UNCHANGED <<steps, open, task, before, cursor, told>>

\* run_traced() of a job in this process, or in the worker, whose memory is its own.
IngestTraced(r, here, reached) ==
  /\ r \notin kept /\ InMemory(r) = {}
  /\ IF here THEN SaveHere(r, reached)
     ELSE HasRedis /\ reached /\ kept' = kept \cup {r} /\ UNCHANGED <<memory, served>>
  /\ UNCHANGED recording

\* Mutant: only a record that names an owner is compared.
IfNamed(caller, r, owned) == owned => Owner[r] = caller

May(caller, r, owned) == owned /\ Owner[r] = caller

\* read(): the owner is taken out of the answer, which may be the record kept in memory.
Read(caller, r, reached) ==
  /\ IF HasRedis /\ reached /\ r \in kept
       THEN May(caller, r, TRUE) /\ UNCHANGED memory
       ELSE \E i \in InMemory(r) :
              May(caller, r, memory[i].owned) /\ memory' = [memory EXCEPT ![i].owned = FALSE]
  /\ served' = served \cup {<<caller, r>>}
  /\ UNCHANGED <<kept, recording>>

\* recent(): from the caller's index in Redis, or else from memory.
Recent(caller) ==
  /\ served' = served \cup {<<caller, memory[i].trace>> : i \in {j \in DOMAIN memory : memory[j].owned /\ Owner[memory[j].trace] = caller}}
  /\ UNCHANGED <<memory, kept, recording>>

Expire(r) ==
  /\ r \in kept
  /\ kept' = kept \ {r}
  /\ UNCHANGED <<memory, served, recording>>
-----------------------------------------------------------------------------
TInit ==
  /\ steps = <<>> /\ open = [t \in Threads |-> 0] /\ task = "running" /\ before = <<>> /\ cursor = 0
  /\ stream = [at |-> "asleep", left |-> <<>>] /\ told = <<>>
  /\ memory = <<>> /\ kept = {} /\ served = {}

TNext ==
  \/ \E t \in Threads : BeginStep(t) \/ SkipStep(t) \/ \E e \in {"ok", "error"} : FinishStep(t, e)
  \/ \E o \in {"ok", "blocked", "failed"} : RunEnds(o)
  \/ Tick \/ Send \/ Sleep \/ ClientLeaves
  \/ \E reached \in BOOLEAN :
       \/ Finished(reached)
       \/ \E r \in Ingests, here \in BOOLEAN : IngestTraced(r, here, reached)
       \/ \E c \in Readers, r \in Traces : Read(c, r, reached)
  \/ \E c \in Readers : Recent(c)
  \/ \E r \in Traces : Expire(r)

TSpec == TInit /\ [][TNext]_tvars
-----------------------------------------------------------------------------
(* Properties.                                                             *)

\* When the stream says it is done, the client was told the end of every step that had
\* ended when the run did, and of a run that did not fail it was told everything; what
\* it was told is the truth but for steps that a failed run left open.
ClientSeesEveryEnd ==
  stream.at = "done" =>
    /\ task = "ok" => told = steps
    /\ Len(told) >= Len(before)
    /\ \A i \in DOMAIN before : before[i] # "running" => told[i] = before[i]
    /\ \A i \in DOMAIN told : told[i] \in {"running", steps[i]}

\* A trace is only ever given to its owner, from Redis or from memory, also after reads
\* that took the owner's name out of the record.
TracesStayPrivate == \A pair \in served : Owner[pair[2]] = pair[1]
=============================================================================
