----------------------------- MODULE ReviewLoop -----------------------------
(***************************************************************************)
(* One reviewed answer: the LangGraph state graph of agent/review/graph.py *)
(*                                                                         *)
(*      research --> check --> { widen --> research, revise, finalize }    *)
(*                                                                         *)
(* with the free citation check, the critic and the reviser it calls.  The *)
(* models are the environment: a research pass drafts any text of Texts,   *)
(* the critic gives any verdict, the reviser returns any text, and each of *)
(* them may fail.  A text is what the checks can tell of it: the names it  *)
(* cites, whether it holds the closed-domain refusal, how long it is, and  *)
(* whether it is nothing but citation tags.  Evidence is a set of chunks,  *)
(* each with the way it was found; the order of the list is left out.      *)
(***************************************************************************)
EXTENDS Naturals, FiniteSets

CONSTANTS
  Chunks,     \* chunk ids of the corpus
  Names,      \* everything a citation tag may name
  DocOf,      \* DocOf[c]: the document a chunk belongs to
  Labels,     \* the provenances of graph answers, citable like a document
  Drafts,     \* texts a research pass may end with
  Rewrites,   \* texts the reviser may answer with
  Calls,      \* how many tools one pass may call
  MaxRounds,  \* agent.review.max_rounds: extra research passes allowed
  FreeCalls   \* agent.review.critic_free_tool_calls

\* Lengths: 1 is up to 240 characters, 2 is more, 3 is past critic_free_chars.
Texts   == [cites : SUBSET Names, refusal : BOOLEAN, length : 0..3, bare : BOOLEAN]
Nothing == [cites |-> {}, refusal |-> FALSE, length |-> 0, bare |-> FALSE]
Blank   == [Nothing EXCEPT !.length = 1]

\* A chunk as a tool found it: retrieval scores it, the :NEXT walk does not.
Found    == [id : Chunks, via : {"search", "window"}]
Verdicts == [action : {"ship", "revise", "retrieve_more"}, complete : BOOLEAN]
Reports  == [refusal : BOOLEAN, cited : SUBSET Names, available : SUBSET Names,
             fabricated : SUBSET Names, uncited : BOOLEAN]

NoVerdict == [action |-> "none", complete |-> TRUE]
NoReport  == [refusal |-> FALSE, cited |-> {}, available |-> {},
              fabricated |-> {}, uncited |-> FALSE]

ASSUME TextsAssumption ==
  /\ DocOf \in [Chunks -> Names] /\ Labels \subseteq Names
  /\ Drafts \subseteq Texts /\ Nothing \in Drafts
  /\ Rewrites \subseteq Texts /\ Nothing \in Rewrites

ASSUME BoundsAssumption ==
  MaxRounds \in Nat /\ FreeCalls \in Nat /\ Calls \subseteq Nat

VARIABLES
  at,        \* the node about to run, or how the run ended
  steps,     \* supersteps taken
  rounds,    \* completed research passes
  sink,      \* what the tools surfaced, all passes together
  labels,    \* the labels they noted
  gain,      \* window_gain: what the last widen added
  sources, draft, tools,             \* what research produced
  report, verdict, action,           \* what check concluded
  answer, outcome,
  critics, revisions, remembered     \* model calls and turns written to memory

vars == <<at, steps, rounds, sink, labels, gain, sources, draft, tools, report,
          verdict, action, answer, outcome, critics, revisions, remembered>>

Outcomes == {"none", "ok", "revised", "refused", "flagged", "escalated"}

TypeOK ==
  /\ at \in {"research", "check", "widen", "revise", "finalize", "done", "failed"}
  /\ steps \in Nat /\ rounds \in Nat /\ tools \in Nat
  /\ critics \in Nat /\ revisions \in Nat /\ remembered \in Nat
  /\ sink \subseteq Found /\ gain \subseteq Found /\ sources \subseteq Found
  /\ labels \subseteq Labels
  /\ draft \in Texts /\ answer \in Texts
  /\ report \in Reports /\ verdict \in Verdicts \cup {NoVerdict}
  /\ action \in {"ship", "revise", "retrieve_more"}
  /\ outcome \in Outcomes

Init ==
  /\ at = "research" /\ steps = 0 /\ rounds = 0
  /\ sink = {} /\ labels = {} /\ gain = {} /\ sources = {}
  /\ draft = Nothing /\ tools = 0
  /\ report = NoReport /\ verdict = NoVerdict /\ action = "ship"
  /\ answer = Nothing /\ outcome = "none"
  /\ critics = 0 /\ revisions = 0 /\ remembered = 0

-----------------------------------------------------------------------------
(* The free citation check.                                                *)

Ids(S) == {c.id : c \in S}
Available(S, L) == {DocOf[c.id] : c \in S} \cup L
Citable == Available(sources, labels)

\* A refusal is reported before its tags are read.
Verify(text, available) ==
  IF text.refusal
  THEN [NoReport EXCEPT !.refusal = TRUE, !.available = available]
  ELSE [refusal    |-> FALSE,
        cited      |-> text.cites,
        available  |-> available,
        fabricated |-> text.cites \ available,
        uncited    |-> text.cites = {} /\ text.length > 1]

Clean(r) == r.fabricated = {} /\ ~r.uncited

NeedsCritic(r) == ~Clean(r) \/ tools > FreeCalls \/ draft.length > 2

-----------------------------------------------------------------------------
(* Research: the ReAct agent runs and leaves a draft and its evidence.     *)

\* The sink drops a chunk it has seen, whichever way it comes the second time.
FreshSink(S, hits) == hits
Absorb(S, hits) == S \cup {c \in hits : c.id \notin Ids(S)}

\* Window chunks are compared with the sink's as whole records.
Merged(S) == S \cup gain

\* Only the first pass is written to the conversation's memory.
Remember == IF rounds > 0 THEN 0 ELSE 1

Research ==
  /\ at = "research"
  /\ \E hits \in SUBSET Found, noted \in SUBSET Labels, text \in Drafts, n \in Calls :
       /\ \A c, e \in hits : c.id = e.id => c = e
       /\ sink' = Absorb(sink, hits)
       /\ labels' = labels \cup noted
       /\ draft' = text
       /\ tools' = tools + n
  /\ sources' = Merged(sink')
  /\ rounds' = rounds + 1
  /\ remembered' = remembered + Remember
  /\ steps' = steps + 1
  /\ at' = "check"
  /\ UNCHANGED <<gain, report, verdict, action, answer, outcome, critics, revisions>>

\* The agent raises (a dead provider, its own recursion limit): nothing in the
\* graph catches it, and the request fails.
ResearchFails ==
  /\ at = "research"
  /\ at' = "failed"
  /\ steps' = steps + 1
  /\ UNCHANGED <<rounds, sink, labels, gain, sources, draft, tools, report, verdict,
                 action, answer, outcome, critics, revisions, remembered>>

-----------------------------------------------------------------------------
(* Check: free first, the critic only if that settles nothing.             *)

EscalateOnceMore == rounds <= MaxRounds + 1
CanEscalate == rounds <= MaxRounds

Route(act) == CASE act = "retrieve_more" /\ CanEscalate -> "widen"
                [] act = "revise"                       -> "revise"
                [] OTHER                                -> "finalize"

Checked ==
  /\ at = "check"
  /\ report' = Verify(draft, Citable)
  /\ steps' = steps + 1
  /\ UNCHANGED <<rounds, sink, labels, gain, sources, draft, tools, answer,
                 revisions, remembered>>

CheckRefused ==
  /\ Checked
  /\ report'.refusal
  /\ action' = "ship" /\ outcome' = "refused"
  /\ at' = Route("ship")
  /\ UNCHANGED <<verdict, critics>>

CheckSettled ==
  /\ Checked
  /\ ~report'.refusal /\ ~NeedsCritic(report')
  /\ action' = "ship"
  /\ at' = Route("ship")
  /\ UNCHANGED <<verdict, outcome, critics>>

\* What the critic's action comes to once the research budget is spent.
Capped(v, r) == IF ~Clean(r) \/ ~v.complete THEN "revise" ELSE "ship"
Spent(v) == v.action = "retrieve_more" /\ ~CanEscalate

\* A critic that fails, or answers anything odd, gives a verdict to ship.
CheckCritic ==
  /\ Checked
  /\ ~report'.refusal /\ NeedsCritic(report')
  /\ \E v \in Verdicts :
       /\ verdict' = v
       /\ action' = IF Spent(v) THEN Capped(v, report') ELSE v.action
       /\ outcome' = IF Spent(v) THEN "escalated" ELSE outcome
  /\ critics' = critics + 1
  /\ at' = Route(action')

-----------------------------------------------------------------------------
(* Widen: neighbours of what is known, in the same documents.              *)

Neighbours(S) ==
  {c \in Found : /\ c.via = "window"
                 /\ c.id \notin Ids(S)
                 /\ \E e \in S : DocOf[e.id] = DocOf[c.id]}

\* A store that fails gains nothing.
Widen ==
  /\ at = "widen"
  /\ gain' \in SUBSET Neighbours(sources)
  /\ steps' = steps + 1
  /\ at' = "research"
  /\ UNCHANGED <<rounds, sink, labels, sources, draft, tools, report, verdict, action,
                 answer, outcome, critics, revisions, remembered>>

-----------------------------------------------------------------------------
(* Revise: one attempt, then deterministic repair.                         *)

\* A text without its fabricated tags.  Of a text that was nothing but such
\* tags, nothing is left, or the blanks between them.
Strip(text, fabricated) ==
  IF text.bare /\ text.cites \subseteq fabricated
  THEN {Nothing, Blank}
  ELSE {[text EXCEPT !.cites = @ \ fabricated, !.length = n] : n \in 1..text.length}

TrustRevised(text, available) == {[answer |-> text, outcome |-> "revised"]}
Revised(text, available) ==
  IF text = Nothing
  THEN {[answer |-> draft, outcome |-> "ok"]}
  ELSE LET fabricated == Verify(text, available).fabricated IN
       IF fabricated # {}
       THEN {[answer |-> t, outcome |-> "flagged"] : t \in Strip(text, fabricated)}
       ELSE {[answer |-> text, outcome |-> "revised"]}

\* Rewrites holds Nothing: a reviser that raises, or answers nothing.
Revise ==
  /\ at = "revise"
  /\ \E text \in Rewrites : \E r \in Revised(text, Citable) :
       answer' = r.answer /\ outcome' = r.outcome
  /\ revisions' = revisions + 1
  /\ steps' = steps + 1
  /\ at' = "finalize"
  /\ UNCHANGED <<rounds, sink, labels, gain, sources, draft, tools, report, verdict,
                 action, critics, remembered>>

-----------------------------------------------------------------------------
(* Finalize: the answer sent, and the report that describes it.            *)

KeptUnlessFlagged == {"ok", "refused", "revised", "escalated"}
Kept == {"ok", "refused"}

FinalAnswer  == IF answer # Nothing THEN answer ELSE draft
FinalOutcome == IF outcome = "none" THEN "ok" ELSE outcome

Finalize ==
  /\ at = "finalize"
  /\ answer' = FinalAnswer
  /\ outcome' = FinalOutcome
  /\ report' = IF FinalOutcome \in Kept THEN report ELSE Verify(FinalAnswer, Citable)
  /\ sources' = IF FinalOutcome = "refused" THEN {} ELSE sources
  /\ steps' = steps + 1
  /\ at' = "done"
  /\ UNCHANGED <<rounds, sink, labels, gain, draft, tools, verdict, action,
                 critics, revisions, remembered>>

Finished == at \in {"done", "failed"} /\ UNCHANGED vars

-----------------------------------------------------------------------------
Next ==
  \/ Research \/ ResearchFails
  \/ CheckRefused \/ CheckSettled \/ CheckCritic
  \/ Widen \/ Revise \/ Finalize
  \/ Finished

Spec == Init /\ [][Next]_vars

-----------------------------------------------------------------------------
(* Properties.                                                             *)

RecursionLimit == 3 * (MaxRounds + 1) + 4

\* The worst case is fixed by the wiring: max_rounds extra passes, a critic
\* call for each pass, one revision, and never so many supersteps that
\* LangGraph's recursion limit turns the answer into an error.
WorstCase ==
  /\ rounds <= MaxRounds + 1
  /\ critics <= rounds
  /\ revisions <= 1
  /\ steps <= RecursionLimit

\* The report that leaves the loop (its `cited` marks the sources the client
\* shows as evidence) is the report of the text that is sent, against the
\* evidence that is sent with it, however often either changed on the way.
ReportDescribesAnswer ==
  at = "done" =>
    /\ report = Verify(answer, report.available)
    /\ outcome # "refused" => report.available = Citable

\* An answer handed out as revised cites nothing that was never retrieved.
RevisedIsHonest ==
  at = "done" /\ outcome = "revised" => report.fabricated = {}

\* A name the draft was once allowed to cite stays citable: evidence of an
\* earlier pass is not lost when the net is widened.  Only a refusal drops it.
CitableNeverShrinks ==
  [][outcome' = "refused" \/ Citable \subseteq Citable']_vars
=============================================================================
