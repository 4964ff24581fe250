------------------------------ MODULE AgentRun ------------------------------
(***************************************************************************)
(* The sessions of one AgentRunner (agent/graph.py) and what they share:   *)
(* the compiled agents, the collector of sources (agent/tools.py) and the  *)
(* token meter (usage/meter.py) of their request.  A review asks in up to  *)
(* two sessions, one after the other, that belong to one request.          *)
(*                                                                         *)
(* The tool calls of one turn run in threads, which outlive a run that is  *)
(* broken off.  Every call of a model costs one token of prompt and one of *)
(* completion, and estimates are exact.                                    *)
(***************************************************************************)
EXTENDS Naturals, Sequences, FiniteSets, SequencesExt, Keeping

CONSTANTS
  Sessions, Requests, RequestOf,
  ModelOf,            \* model, preset and style of a session, as one
  Remembers,          \* FALSE of a second pass
  ToolCalls,          \* the tool calls a session may have at once
  Passages,
  MaxIterations,      \* max_tool_iterations
  AgentCacheSize,
  MaxSpent            \* bounds the model calls of each request

ASSUME SessionAssumption ==
  /\ RequestOf \in [Sessions -> Requests] /\ Remembers \in [Sessions -> BOOLEAN]
  /\ MaxIterations \in Nat \ {0} /\ AgentCacheSize \in Nat \ {0} /\ MaxSpent \in [Requests -> Nat]

VARIABLES
  session,   \* each AgentSession
  sink,      \* the SourceSink of each request
  given,     \* the passages the stores gave the tools of each request
  compiled,  \* AgentRunner._agents, least recently used first
  history,   \* the sessions whose turns the checkpointer holds
  meter,     \* the TokenMeter of each request
  spent      \* the model calls made for each request

avars == <<session, sink, given, compiled, history, meter, spent>>

NoAgent   == [model |-> "none", remember |-> FALSE, maker |-> "none"]
Unstarted == [at |-> "new", agent |-> NoAgent, turns |-> 0, found |-> <<>>, final |-> <<>>]
NoTokens  == [input |-> 0, output |-> 0, estimatedInput |-> 0, estimatedOutput |-> 0]

\* The tool calls of the turn: what each has found, or that it is still searching.
Searching == [done |-> FALSE, passages |-> {}]

Keys    == [model : {ModelOf[x] : x \in Sessions}, remember : BOOLEAN]
Agents  == [model : {ModelOf[x] : x \in Sessions} \cup {"none"}, remember : BOOLEAN, maker : Sessions \cup {"none"}]
Results == [done : BOOLEAN, passages : {{}} \cup {{p} : p \in Passages}]
Meters  == [input : Nat, output : Nat, estimatedInput : Nat, estimatedOutput : Nat]
SessionsOf(x) ==
  [at : {"new", "model", "tools", "over", "broken"}, agent : Agents, turns : 0 .. MaxIterations,
   found : UNION {[T -> Results] : T \in SUBSET ToolCalls[x]}, final : Seq(Passages)]

ATypeOK ==
  /\ DOMAIN session = Sessions /\ \A x \in Sessions : session[x] \in SessionsOf(x)
  /\ sink \in [Requests -> Seq(Passages)] /\ given \in [Requests -> SUBSET Passages]
  /\ compiled \in Seq([key : Keys, agent : Agents]) /\ Len(compiled) <= AgentCacheSize /\ history \subseteq Sessions
  /\ meter \in [Requests -> Meters]
  /\ DOMAIN spent = Requests /\ \A r \in Requests : spent[r] \in 0 .. MaxSpent[r]
-----------------------------------------------------------------------------
\* Mutant: a second pass gets the agent of the first.
ModelOnly(x) == [model |-> ModelOf[x], remember |-> TRUE]

KeyOf(x)    == [model |-> ModelOf[x], remember |-> Remembers[x]]
Compiled(x) == [model |-> ModelOf[x], remember |-> Remembers[x], maker |-> x]

\* _agent_for(): the agent compiled for the key, or a new one; the oldest is evicted.
AgentFor(x) ==
  LET held == {i \in DOMAIN compiled : compiled[i].key = KeyOf(x)} IN
  IF held = {} THEN Compiled(x) ELSE compiled[CHOOSE i \in held : TRUE].agent
Refreshed(x) ==
  LET all == Append(Keep(compiled, {e \in Range(compiled) : e.key # KeyOf(x)}), [key |-> KeyOf(x), agent |-> AgentFor(x)]) IN
  IF Len(all) > AgentCacheSize THEN Tail(all) ELSE all

\* A review opens its second session when the first is over.
Open(x) ==
  /\ session[x].at = "new"
  /\ Remembers[x] \/ \E y \in Sessions : Remembers[y] /\ RequestOf[y] = RequestOf[x] /\ session[y].at = "over"
  /\ session' = [session EXCEPT ![x].at = "model", ![x].agent = AgentFor(x)]
  /\ compiled' = Refreshed(x)
  /\ UNCHANGED <<sink, given, history, meter, spent>>

\* Mutant: the collector is the one the agent was compiled with.
Compiler(x) == RequestOf[session[x].agent.maker]

\* collect_sources(): the tools find their collector in the context of the run.
Bound(x) == RequestOf[x]

Sources(x) == IF session[x].at \in {"model", "tools"} THEN sink[RequestOf[x]] ELSE session[x].final

\* The callbacks of one model call, whose usage the provider may not report.
Charged(m, reported) ==
  IF reported THEN [m EXCEPT !.estimatedInput = @ + 1, !.input = @ + 1, !.output = @ + 1]
  ELSE [m EXCEPT !.estimatedInput = @ + 1, !.estimatedOutput = @ + 1]

CallsModel(r, metered) ==
  /\ spent[r] < MaxSpent[r]
  /\ spent' = [spent EXCEPT ![r] = @ + 1]
  /\ IF metered THEN \E reported \in BOOLEAN : meter' = [meter EXCEPT ![r] = Charged(@, reported)]
     ELSE UNCHANGED meter

\* Mutant: what was collected is read once the collector is unbound.
Unbound(x) == <<>>

Snapshot(x) == sink[RequestOf[x]]

\* The run is over, and the sources stay readable (_collecting's finally).
Closed(x) == [session EXCEPT ![x].at = "over", ![x].found = <<>>, ![x].final = Snapshot(x)]

\* A turn of the loop ends in tool calls, up to the recursion limit, or in the answer.
ChooseTools(x) ==
  /\ session[x].at = "model" /\ session[x].turns < MaxIterations
  /\ CallsModel(RequestOf[x], TRUE)
  /\ \E chosen \in SUBSET ToolCalls[x] \ {{}} :
       session' = [session EXCEPT ![x].at = "tools", ![x].turns = @ + 1, ![x].found = [t \in chosen |-> Searching]]
  /\ UNCHANGED <<sink, given, compiled, history>>

GiveAnswer(x) ==
  /\ session[x].at = "model"
  /\ CallsModel(RequestOf[x], TRUE)
  /\ history' = IF session[x].agent.remember THEN history \cup {x} ELSE history
  /\ session' = Closed(x)
  /\ UNCHANGED <<sink, given, compiled>>

\* A provider or a store raises, or the client has gone.  The sources are read
\* at once; the tools that still search run on in their threads.
Breaks(x) ==
  /\ session[x].at \in {"model", "tools"}
  /\ session' = [session EXCEPT ![x].at = "broken", ![x].final = Snapshot(x)]
  /\ UNCHANGED <<sink, given, compiled, history, meter, spent>>
-----------------------------------------------------------------------------
(* The tools.                                                              *)

\* A thread keeps the collector and the meter it was started with.
Busy(x, t) ==
  session[x].at \in {"tools", "broken"} /\ t \in DOMAIN session[x].found /\ ~session[x].found[t].done

\* Mutant: only the calls the graph makes itself are metered.
GraphOnly == FALSE

\* use_meter(): a reranker inside a tool finds the meter in its context.
MeterBound == TRUE

RerankCall(x, t) ==
  /\ Busy(x, t)
  /\ CallsModel(RequestOf[x], MeterBound)
  /\ UNCHANGED <<session, sink, given, compiled, history>>

\* The store's answer, not collected yet: one passage stands for all it holds.
SearchStore(x, t) ==
  /\ Busy(x, t) /\ session[x].found[t].passages = {}
  /\ \E p \in Passages :
       /\ session' = [session EXCEPT ![x].found[t].passages = {p}]
       /\ given' = [given EXCEPT ![RequestOf[x]] = @ \cup {p}]
  /\ UNCHANGED <<sink, compiled, history, meter, spent>>

Unseen(r, found) == found \ Range(sink[r])

\* SourceSink.add(), under its lock; a search may also have found nothing.
Collect(x, t) ==
  /\ Busy(x, t)
  /\ LET r == Bound(x) IN
     sink' = [sink EXCEPT ![r] = @ \o SetToSeq(Unseen(r, session[x].found[t].passages))]
  /\ session' = [session EXCEPT ![x].found[t].done = TRUE]
  /\ UNCHANGED <<given, compiled, history, meter, spent>>

ToolsReturn(x) ==
  /\ session[x].at = "tools" /\ \A t \in DOMAIN session[x].found : session[x].found[t].done
  /\ session' = [session EXCEPT ![x].at = "model", ![x].found = <<>>]
  /\ UNCHANGED <<sink, given, compiled, history, meter, spent>>
-----------------------------------------------------------------------------
AInit ==
  /\ session = [x \in Sessions |-> Unstarted]
  /\ sink = [r \in Requests |-> <<>>] /\ given = [r \in Requests |-> {}]
  /\ compiled = <<>> /\ history = {}
  /\ meter = [r \in Requests |-> NoTokens] /\ spent = [r \in Requests |-> 0]

ANext == \E x \in Sessions :
  \/ Open(x) \/ ChooseTools(x) \/ GiveAnswer(x) \/ Breaks(x) \/ ToolsReturn(x)
  \/ \E t \in ToolCalls[x] : RerankCall(x, t) \/ SearchStore(x, t) \/ Collect(x, t)

ASpec == AInit /\ [][ANext]_avars
-----------------------------------------------------------------------------
(* Properties.                                                             *)

\* agent/tools.py:83: tools that run at once and find the same passage collect it once,
\* in both passes of a review, and never for the request next to it, though threads of a
\* run that was broken off still add to it; and when a run has given its answer, all of
\* it is still there to be cited (agent/graph.py:249).  Of a broken one nobody asks.
EvidenceIsOwn ==
  \A r \in Requests : LET runs == {x \in Sessions : RequestOf[x] = r /\ session[x].at # "new"} IN
    /\ IsInjective(sink[r]) /\ Range(sink[r]) \subseteq given[r]
    /\ runs # {} => \E x \in runs : session[x].at = "broken" \/ Sources(x) = sink[r]

\* agent/graph.py:412: whatever was compiled before and evicted since, a second pass runs
\* on its own model and leaves nothing in the conversation.
AgentFits ==
  /\ \A x \in Sessions : session[x].at # "new" =>
       session[x].agent.model = ModelOf[x] /\ session[x].agent.remember = Remembers[x]
  /\ \A x \in history : Remembers[x]

MaxOf(m, n) == IF m > n THEN m ELSE n
Totals(r) == [input  |-> MaxOf(meter[r].input, meter[r].estimatedInput),
              output |-> MaxOf(meter[r].output, meter[r].estimatedOutput)]

\* "Unmetered is the one outcome worth ruling out" (usage/meter.py:23): every prompt is
\* billed, a reranker's inside a tool too; of the completions, counted in two views of
\* which the larger is billed, never less than half.
EveryCallIsMetered == \A r \in Requests : Totals(r).input >= spent[r] /\ 2 * Totals(r).output >= spent[r]
=============================================================================
