------------------------------- MODULE Asking -------------------------------
(***************************************************************************)
(* The life of one question, from the handler's first line to the last     *)
(* event: POST /query (streamed or whole), /compare and /trace/query of    *)
(* api/routers, the SSE generator of api/streaming.py, and the bill made   *)
(* out by usage/meter.py and usage/recorder.py.                            *)
(*                                                                         *)
(* A request shares nothing with another one but its account's counters,   *)
(* so one request is modelled, with everything that can happen to it.  An  *)
(* answer is what the handlers can tell of it; `sources' says whether any  *)
(* passage ships with it.  A model call costs one token of prompt and one  *)
(* of completion, and the estimates are exact: what is left of the meter   *)
(* is which of the two views of a call it counts.                          *)
(***************************************************************************)
EXTENDS Naturals, Sequences, FiniteSets, SequencesExt

CONSTANT MaxCalls   \* model calls explored in one request

ASSUME MaxCallsAssumption == MaxCalls \in Nat

Doors    == {"stream", "plain", "compare", "trace"}
Drafted  == {"empty", "text", "refusal"}
Answers  == {"none", "blocked", "off_topic", "redacted"} \cup Drafted
Refusals == {"blocked", "off_topic", "refusal"}
Verdicts == {"none", "allow", "flag", "modified", "block"}
Turns    == [answer : Answers, sources : BOOLEAN]
NoTurn   == [answer |-> "none", sources |-> FALSE]
Events   == {"tool", "token", "sources", "verification", "safety", "answer", "error", "done"}

VARIABLES
  door,      \* the endpoint, and for /query whether it streams
  at,        \* the await the handler (or the generator) is at, or how it ended
  calls, reported,     \* model calls made, and those whose usage was reported
  draft,     \* what the agent ended with
  answer, sources, fabricated,   \* what the handler means to send
  verdict,   \* the output guard's
  shown,     \* has any of the draft reached the client?
  events,    \* server-sent events so far
  reply,     \* the answer and sources as the client has them
  booked,    \* tokens charged to the account
  saved,     \* the turn in the transcript
  traced     \* the run as the trace store has it

run  == <<calls, reported>>
text == <<draft, answer, sources, fabricated>>
out  == <<shown, events, reply>>
kept == <<booked, saved, traced>>
vars == <<door, at, run, text, verdict, out, kept>>

Ended == {"done", "failed", "gone"}

TypeOK ==
  /\ door \in Doors
  /\ at \in {"resolve", "guard_in", "gate", "agent", "running", "sources", "guard_out",
             "book", "save", "reply"} \cup Ended
  /\ calls \in 0..MaxCalls /\ reported \in 0..calls
  /\ draft \in {"none"} \cup Drafted /\ answer \in Answers
  /\ sources \in BOOLEAN /\ fabricated \in BOOLEAN /\ shown \in BOOLEAN
  /\ verdict \in Verdicts
  /\ events \in Seq(Events)
  /\ reply \in Turns /\ saved \in Turns
  /\ booked \in Nat
  /\ traced \in {"none", "ok", "error"}

Init ==
  /\ door \in Doors /\ at = "resolve"
  /\ calls = 0 /\ reported = 0
  /\ draft = "none" /\ answer = "none" /\ sources = FALSE /\ fabricated = FALSE
  /\ verdict = "none"
  /\ shown = FALSE /\ events = <<>> /\ reply = NoTurn
  /\ booked = 0 /\ saved = NoTurn /\ traced = "none"

-----------------------------------------------------------------------------
(* Before the agent: the conversation and its shelf, the input guard and   *)
(* the closed-domain gate.                                                 *)

\* No such conversation, shelf or model: an HTTP error.
Resolve ==
  /\ at = "resolve"
  /\ at' \in {"guard_in", "failed"}
  /\ UNCHANGED <<door, run, text, verdict, out, kept>>

\* Only /query keeps a transcript.
Keeps == door \in {"stream", "plain"}

AllowInput ==
  /\ at = "guard_in" /\ at' = "gate"
  /\ UNCHANGED <<door, run, text, verdict, out, kept>>

BlockInput ==
  /\ at = "guard_in"
  /\ answer' = "blocked" /\ sources' = FALSE
  /\ at' = IF Keeps THEN "save" ELSE "reply"
  /\ UNCHANGED <<door, run, draft, fabricated, verdict, out, kept>>

\* One call of a model under this request's meter.
Call ==
  /\ calls < MaxCalls
  /\ calls' = calls + 1
  /\ reported' \in {reported, reported + 1}

\* The probe's reranker may be a model, called once per candidate.
Rerank ==
  /\ at = "gate"
  /\ Call
  /\ UNCHANGED <<door, at, text, verdict, out, kept>>

\* Covered, or the gate is off, or its scores cannot be compared.
PassGate ==
  /\ at = "gate" /\ at' = "agent"
  /\ UNCHANGED <<door, run, text, verdict, out, kept>>

\* The traced run leaves the probe off the bill.
BillsRefusal == door # "trace"

RefuseOffTopic ==
  /\ at = "gate"
  /\ answer' = "off_topic" /\ sources' = FALSE
  /\ at' = IF BillsRefusal THEN "book" ELSE "reply"
  /\ UNCHANGED <<door, run, draft, fabricated, verdict, out, kept>>

-----------------------------------------------------------------------------
(* The agent.                                                              *)

Emit(es) == events' = events \o es
Count(e) == Cardinality({i \in DOMAIN events : events[i] = e})

\* A streamed call may say which tool it chose, or a piece of the answer.
AgentCall ==
  /\ at \in {"agent", "running"}
  /\ Call
  /\ at' = "running"
  /\ \/ UNCHANGED <<shown, events>>
     \/ door = "stream" /\ Emit(<<"tool">>) /\ UNCHANGED shown
     \/ door = "stream" /\ Emit(<<"token">>) /\ shown' = TRUE
  /\ UNCHANGED <<door, text, verdict, reply, kept>>

\* What the stream adds up to is what was streamed.
Endings ==
  IF door = "stream" /\ ~Contains(events, "token") THEN {"empty"}
  ELSE IF door = "stream" THEN Drafted \ {"empty"} ELSE Drafted

\* The citation check drops the passages behind a refusal.
AllFound(ending, found) == found
Evidence(ending, found) == found /\ ending # "refusal"

AgentEnds ==
  /\ at = "running"
  /\ \E ending \in Endings, found \in BOOLEAN, invented \in BOOLEAN :
       /\ invented => ending = "text"
       /\ draft' = ending /\ answer' = ending
       /\ sources' = Evidence(ending, found)
       /\ fabricated' = invented
  /\ at' = IF door = "stream" THEN "sources" ELSE "guard_out"
  /\ UNCHANGED <<door, run, verdict, out, kept>>

\* Retrieval or a provider raises.  Until the stream is open that is a 500;
\* a traced run is a stream from the start.
Opened == door = "trace" \/ (door = "stream" /\ at # "gate")

GuardRaises == {"gate", "agent", "running", "guard_out"}
MayRaise    == {"gate", "agent", "running"}

Raise ==
  /\ at \in MayRaise
  /\ IF Opened THEN Emit(<<"error", "done">>) ELSE UNCHANGED events
  /\ traced' = IF door = "trace" THEN "error" ELSE traced
  /\ at' = "failed"
  /\ UNCHANGED <<door, run, text, verdict, shown, reply, booked, saved>>

-----------------------------------------------------------------------------
(* After the agent.                                                        *)

Sent == [answer |-> answer, sources |-> sources]

SendSources ==
  /\ at = "sources"
  /\ Emit(IF fabricated THEN <<"sources", "verification">> ELSE <<"sources">>)
  /\ reply' = Sent
  /\ at' = "guard_out"
  /\ UNCHANGED <<door, run, text, verdict, shown, kept>>

\* An empty answer is not sent to the guard.  A guard that is off, or that
\* cannot be reached while fail_open holds, lets everything pass.
Screens == IF answer = "empty" THEN {"allow"} ELSE Verdicts \ {"none"}

\* Tokens are out, so a stream is only told; a guard that raises tells nothing.
Advise ==
  /\ at = "guard_out" /\ door = "stream"
  /\ verdict' \in Screens
  /\ Emit(IF verdict' = "allow" THEN <<>> ELSE <<"safety">>)
  /\ at' = "book"
  /\ UNCHANGED <<door, run, text, shown, reply, kept>>

RedactOnly(v) == IF v = "modified" THEN "redacted" ELSE answer
Guarded(v)    == IF v = "block" THEN "blocked" ELSE RedactOnly(v)

Enforce ==
  /\ at = "guard_out" /\ door # "stream"
  /\ verdict' \in Screens
  /\ answer' = Guarded(verdict')
  /\ sources' = (sources /\ verdict' # "block")
  /\ at' = "book"
  /\ UNCHANGED <<door, run, draft, fabricated, out, kept>>

Larger(m, n) == IF m > n THEN m ELSE n

\* Prompts are estimated for every call, completions only for unreported ones.
TokensIn  == Larger(reported, calls)
TokensOut == Larger(reported, calls - reported)
Streamed  == Count("token")

OutputOnly == Larger(Streamed, TokensOut)
Bill == TokensIn + Larger(Streamed, TokensOut)

\* record_answer_tokens.
Book ==
  /\ at = "book"
  /\ booked' = booked + Bill
  /\ at' = IF Keeps THEN "save" ELSE "reply"
  /\ UNCHANGED <<door, run, text, verdict, out, saved, traced>>

DraftTurn == [Sent EXCEPT !.answer = IF draft = "none" THEN answer ELSE draft]
Turn      == Sent

\* There may be no thread or no database; a failure is logged.
Save ==
  /\ at = "save"
  /\ saved' \in {saved, Turn}
  /\ at' = "reply"
  /\ UNCHANGED <<door, run, text, verdict, out, booked, traced>>

\* The events the client is still owed.
Rest ==
  IF door \in {"plain", "compare"} THEN <<>>
  ELSE IF door = "trace" THEN <<"answer", "done">>
  ELSE IF Contains(events, "sources") THEN <<"done">>
  ELSE IF answer = "blocked" THEN <<"safety", "token", "sources", "done">>
  ELSE <<"token", "sources", "done">>

\* The result of a traced question blocked at input carries the guard's verdict
\* as an object that json.dumps does not take.
Unsendable == door = "trace" /\ answer = "blocked" /\ verdict = "none"

Reply ==
  /\ at = "reply" /\ ~Unsendable
  /\ reply' = Sent
  /\ Emit(Rest)
  /\ traced' = IF door = "trace" THEN "ok" ELSE traced
  /\ at' = "done"
  /\ UNCHANGED <<door, run, text, verdict, shown, booked, saved>>

\* json.dumps raises once the run is kept: the stream stops there.
ReplyRaises ==
  /\ at = "reply" /\ Unsendable
  /\ traced' = "ok"
  /\ at' = "failed"
  /\ UNCHANGED <<door, run, text, verdict, out, booked, saved>>

-----------------------------------------------------------------------------
(* Beside the handler.                                                     *)

\* The traced run's other coroutine drains its steps every tick.  Once the
\* agent has ended, its step and the citation check's carry the draft.
Tick ==
  /\ door = "trace" /\ at \notin Ended
  /\ draft # "none"
  /\ shown' = TRUE
  /\ UNCHANGED <<door, at, run, text, verdict, events, reply, kept>>

\* The client goes away, and the open stream is cancelled where it waits.
Leave ==
  /\ \/ door = "stream" /\ at \in {"agent", "running"}
     \/ door = "stream" /\ draft # "none" /\ at \notin Ended
     \/ door = "trace" /\ at \notin {"resolve"} \cup Ended
  /\ at' = "gone"
  /\ UNCHANGED <<door, run, text, verdict, out, kept>>

Over == at \in Ended /\ UNCHANGED vars

-----------------------------------------------------------------------------
Next ==
  \/ Resolve \/ AllowInput \/ BlockInput
  \/ Rerank \/ PassGate \/ RefuseOffTopic
  \/ AgentCall \/ AgentEnds \/ Raise
  \/ SendSources \/ Advise \/ Enforce \/ Book \/ Save
  \/ Reply \/ ReplyRaises
  \/ Tick \/ Leave
  \/ Over

Spec == Init /\ [][Next]_vars

-----------------------------------------------------------------------------
(* Properties.                                                             *)

\* The transcript holds what the client was given: the text after the guard
\* and the passages after the citation check, whichever way the answer took.
SavedIsSent == saved # NoTurn /\ reply # NoTurn => saved = reply

\* A refusal ships no passages, to the client or to the transcript, whether
\* the model refused, the gate did, or the guard did in their place.
RefusalShipsNothing ==
  \A turn \in {reply, saved} : turn.answer \in Refusals => ~turn.sources

\* Off the stream a draft is sent or kept only once the output guard has let
\* that very text pass.
GuardDecides ==
  door # "stream" /\ (reply.answer \in Drafted \/ saved.answer \in Drafted)
     => verdict \in {"allow", "flag"}

Before(e, f) == \A i, j \in DOMAIN events : events[i] = e /\ events[j] = f => i < j

\* What a client of the stream may rely on: text, then one `sources', then
\* `done' and nothing after it; an answer that is whole is not followed by an
\* error, and a stream that answers or fails says `done'.  The one stream that
\* just stops, kept as "ok" but never answered, is that of a traced question
\* blocked at input.
EventOrder ==
  /\ \A e \in {"sources", "answer", "error", "done"} : Count(e) <= 1
  /\ \A e \in Events \ {"done"} : Before(e, "done")
  /\ Before("token", "sources") /\ Before("tool", "sources")
  /\ Contains(events, "error") => ~Contains(events, "sources") /\ ~Contains(events, "answer")
  /\ at = "done" /\ door \in {"stream", "trace"} => Contains(events, "done")
  /\ at = "failed" /\ events # <<>> => Contains(events, "done")
  /\ traced = "ok" /\ ~Contains(events, "answer") => Unsendable /\ events = <<>>

\* A request that is answered is charged all its model calls, once: the gate's
\* probe as well as the agent's, prompts as well as completions, refused or
\* not, and whatever the guard put in the answer's place.  The meter is exact
\* when the provider reports every call or none, and a traced question that
\* is refused as off topic is left out: nobody books it.
BillCoversCalls ==
  at = "done" /\ reported \in {0, calls} /\ ~(door = "trace" /\ answer = "off_topic")
     => booked = 2 * calls

\* trace.py:16: the answer is emitted only after the output guard has run.
TracedAfterGuard == door = "trace" /\ shown /\ draft = "text" => verdict # "none"
=============================================================================
