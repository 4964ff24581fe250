---------------------------- MODULE ReviewProofs ----------------------------
(* Proofs about the review loop, for every corpus, every set of texts the   *)
(* models may produce and every max_rounds.                                 *)
EXTENDS ReviewLoop, TLAPS

\* Every node leaves the state of one answer well-typed.
THEOREM TypeCorrect == Spec => []TypeOK
<1>1. Init => TypeOK
  <2>1. Nothing \in Texts
    BY DEF Nothing, Texts
  <2>2. NoReport \in Reports
    BY DEF NoReport, Reports
  <2>3. ASSUME Init PROVE TypeOK
    <3>1. draft \in Texts /\ answer \in Texts /\ report \in Reports
      BY <2>1, <2>2, <2>3 DEF Init
    <3>2. verdict \in Verdicts \cup {NoVerdict}
      BY <2>3 DEF Init
    <3> QED BY <2>3, <3>1, <3>2 DEF Init, TypeOK, Outcomes
  <2> QED BY <2>3
<1>2. ASSUME TypeOK, [Next]_vars PROVE TypeOK'
  <2> USE <1>2, TextsAssumption, BoundsAssumption
  <2>a. Citable \subseteq Names
    BY DEF Citable, Available, TypeOK, Found
  <2>b. ASSUME NEW t \in Texts, NEW A \in SUBSET Names PROVE Verify(t, A) \in Reports
    BY DEF Verify, Texts, Reports, NoReport
  <2>c. Nothing \in Texts /\ Blank \in Texts
    BY DEF Nothing, Blank, Texts
  <2>1. CASE Research
    <3>1. PICK hits \in SUBSET Found, noted \in SUBSET Labels, text \in Drafts, n \in Calls :
            /\ sink' = Absorb(sink, hits) /\ labels' = labels \cup noted
            /\ draft' = text /\ tools' = tools + n
      BY <2>1 DEF Research
    <3>2. sink' \subseteq Found
      BY <3>1 DEF TypeOK, Absorb
    <3>3. sources' \subseteq Found
      BY <2>1, <3>2 DEF Research, Merged, TypeOK
    <3>4. draft' \in Texts /\ tools' \in Nat /\ labels' \subseteq Labels
      BY <3>1 DEF TypeOK
    <3>5. remembered' \in Nat /\ rounds' \in Nat /\ steps' \in Nat
      BY <2>1 DEF Research, Remember, TypeOK
    <3> QED BY <2>1, <3>2, <3>3, <3>4, <3>5 DEF Research, TypeOK
  <2>2. CASE ResearchFails
    BY <2>2 DEF ResearchFails, TypeOK
  <2>3. ASSUME Checked PROVE report' \in Reports /\ steps' \in Nat
    BY <2>3, <2>a, <2>b DEF Checked, TypeOK
  <2>4. ASSUME NEW act \in {"ship", "revise", "retrieve_more"}
        PROVE Route(act) \in {"widen", "revise", "finalize"}
    BY DEF Route
  <2>5. CASE CheckRefused
    BY <2>5, <2>3, <2>4 DEF CheckRefused, Checked, TypeOK, Outcomes
  <2>6. CASE CheckSettled
    BY <2>6, <2>3, <2>4 DEF CheckSettled, Checked, TypeOK
  <2>7. CASE CheckCritic
    <3>1. PICK v \in Verdicts :
            /\ verdict' = v
            /\ action' = IF Spent(v) THEN Capped(v, report') ELSE v.action
            /\ outcome' = IF Spent(v) THEN "escalated" ELSE outcome
      BY <2>7 DEF CheckCritic
    <3>2. action' \in {"ship", "revise", "retrieve_more"}
      BY <3>1 DEF Verdicts, Capped
    <3>3. outcome' \in Outcomes
      BY <3>1 DEF Outcomes, TypeOK
    <3>4. at' \in {"widen", "revise", "finalize"}
      BY <2>7, <2>4, <3>2 DEF CheckCritic
    <3> QED BY <2>7, <2>3, <3>1, <3>2, <3>3, <3>4 DEF CheckCritic, Checked, TypeOK
  <2>8. CASE Widen
    BY <2>8 DEF Widen, Neighbours, TypeOK
  <2>9. CASE Revise
    <3>0. PICK text \in Rewrites : \E r \in Revised(text, Citable) :
            answer' = r.answer /\ outcome' = r.outcome
      BY <2>9 DEF Revise
    <3>1. PICK r \in Revised(text, Citable) : answer' = r.answer /\ outcome' = r.outcome
      BY <3>0
    <3>2. text \in Texts
      OBVIOUS
    <3>3. ASSUME NEW F, NEW t \in Strip(text, F) PROVE t \in Texts
      <4>1. CASE t \in {Nothing, Blank}
        BY <4>1, <2>c
      <4>2. CASE \E n \in 1..text.length : t = [text EXCEPT !.cites = @ \ F, !.length = n]
        <5>1. PICK n \in 1..text.length : t = [text EXCEPT !.cites = @ \ F, !.length = n]
          BY <4>2
        <5>2. text.length \in 0..3 /\ text.cites \in SUBSET Names
          BY <3>2 DEF Texts
        <5>3. n \in 0..3 /\ text.cites \ F \in SUBSET Names
          BY <5>1, <5>2
        <5>4. t = [cites |-> text.cites \ F, refusal |-> text.refusal, length |-> n, bare |-> text.bare]
          BY <5>1, <3>2 DEF Texts
        <5> QED BY <5>3, <5>4, <3>2 DEF Texts
      <4> QED BY <3>3, <4>1, <4>2 DEF Strip
    <3>4. r.answer \in Texts /\ r.outcome \in Outcomes
      BY <3>1, <3>2, <3>3 DEF Revised, Outcomes, TypeOK
    <3> QED BY <2>9, <3>1, <3>4 DEF Revise, TypeOK
  <2>10. CASE Finalize
    <3>1. FinalAnswer \in Texts /\ FinalOutcome \in Outcomes
      BY DEF FinalAnswer, FinalOutcome, TypeOK, Outcomes
    <3> QED BY <2>10, <3>1, <2>a, <2>b DEF Finalize, TypeOK
  <2>11. CASE UNCHANGED vars
    BY <2>11 DEF vars, TypeOK
  <2> QED BY <2>1, <2>2, <2>5, <2>6, <2>7, <2>8, <2>9, <2>10, <2>11 DEF Next, Finished
<1> QED BY <1>1, <1>2, PTL DEF Spec

-----------------------------------------------------------------------------
\* Where the loop is determines what it has spent: a completed round cost three
\* supersteps, and the only way back to research is taken while rounds is at
\* most max_rounds.
Budget ==
  /\ at = "research" => /\ steps = 3 * rounds /\ rounds <= MaxRounds
                        /\ critics <= rounds /\ revisions = 0
  /\ at = "check"    => /\ rounds >= 1 /\ rounds <= MaxRounds + 1
                        /\ steps = 3 * rounds - 2
                        /\ critics <= rounds - 1 /\ revisions = 0
  /\ at = "widen"    => /\ rounds >= 1 /\ rounds <= MaxRounds
                        /\ steps = 3 * rounds - 1
                        /\ critics <= rounds /\ revisions = 0
  /\ at = "revise"   => /\ rounds >= 1 /\ rounds <= MaxRounds + 1
                        /\ steps = 3 * rounds - 1
                        /\ critics <= rounds /\ revisions = 0
  /\ at = "finalize" => /\ rounds >= 1 /\ rounds <= MaxRounds + 1
                        /\ steps <= 3 * rounds
                        /\ critics <= rounds /\ revisions <= 1
  /\ at \in {"done", "failed"} =>
       /\ rounds <= MaxRounds + 1 /\ steps <= 3 * rounds + 1
       /\ critics <= rounds /\ revisions <= 1

\* Whatever the models answer, a review takes at most max_rounds + 1 research
\* passes, a critic call for each and one revision, inside the recursion limit.
THEOREM BudgetHolds == Spec => []WorstCase
<1> USE BoundsAssumption
<1>1. Init => Budget
  BY DEF Init, Budget
<1>2. ASSUME TypeOK, Budget, [Next]_vars PROVE Budget'
  <2> USE <1>2
  <2> rounds \in Nat /\ steps \in Nat /\ critics \in Nat /\ revisions \in Nat
    BY DEF TypeOK
  <2>1. CASE Research
    BY <2>1 DEF Research, Budget
  <2>2. CASE ResearchFails
    BY <2>2 DEF ResearchFails, Budget
  <2>3. CASE CheckRefused
    BY <2>3 DEF CheckRefused, Checked, Route, Budget
  <2>4. CASE CheckSettled
    BY <2>4 DEF CheckSettled, Checked, Route, Budget
  <2>5. CASE CheckCritic
    <3>1. at' = "widen" => rounds <= MaxRounds
      BY <2>5 DEF CheckCritic, Route, CanEscalate
    <3>2. at' \in {"widen", "revise", "finalize"}
      BY <2>5 DEF CheckCritic, Route
    <3>3. at = "check" /\ steps' = steps + 1 /\ critics' = critics + 1
          /\ rounds' = rounds /\ revisions' = revisions
      BY <2>5 DEF CheckCritic, Checked
    <3> QED BY <3>1, <3>2, <3>3 DEF Budget
  <2>6. CASE Widen
    BY <2>6 DEF Widen, Budget
  <2>7. CASE Revise
    BY <2>7 DEF Revise, Budget
  <2>8. CASE Finalize
    BY <2>8 DEF Finalize, Budget
  <2>9. CASE UNCHANGED vars
    BY <2>9 DEF vars, Budget
  <2> QED BY <2>1, <2>2, <2>3, <2>4, <2>5, <2>6, <2>7, <2>8, <2>9 DEF Next, Finished
<1>3. TypeOK /\ Budget => WorstCase
  BY DEF TypeOK, Budget, WorstCase, RecursionLimit
<1> QED BY <1>1, <1>2, <1>3, TypeCorrect, PTL DEF Spec

-----------------------------------------------------------------------------
\* Between check and the end the report is the draft's, unless the reviser has
\* put another text beside it; and then the outcome says so.
ReportFresh ==
  /\ at \in {"research", "check", "widen", "revise"} => answer = Nothing
  /\ at \in {"research", "check"} => outcome = "none"
  /\ at \in {"widen", "revise", "finalize"} =>
       report = Verify(draft, Citable)
  /\ at = "finalize" =>
       \/ outcome \in {"none", "refused", "escalated"} /\ answer = Nothing
       \/ outcome = "ok" /\ answer = draft
       \/ outcome = "flagged"
       \/ outcome = "revised" /\ answer # Nothing /\ Verify(answer, Citable).fabricated = {}
  /\ at = "widen" => outcome = "none"
  /\ at \in {"revise", "finalize"} => outcome \in Outcomes

\* The two facts the client is given about an answer's citations are about the
\* answer it is given.
Honest == ReportDescribesAnswer /\ RevisedIsHonest

LEMMA VerifyKeeps ==
  ASSUME NEW text, NEW A PROVE Verify(text, A).available = A
BY DEF Verify, NoReport

\* Both facts, from ReportFresh.
LEMMA HonestHolds == Spec => []Honest
<1>1. Init => ReportFresh /\ Honest
  BY DEF Init, ReportFresh, Honest, ReportDescribesAnswer, RevisedIsHonest
<1>2. ASSUME ReportFresh, Honest, [Next]_vars PROVE ReportFresh' /\ Honest'
  <2> USE <1>2
  <2>0. ASSUME NEW S, at' = S, S \in {"research", "check", "widen", "revise", "finalize", "failed"}
        PROVE Honest'
    BY <2>0 DEF Honest, ReportDescribesAnswer, RevisedIsHonest
  <2>1. CASE Research
    BY <2>1, <2>0 DEF Research, ReportFresh
  <2>2. CASE ResearchFails
    BY <2>2, <2>0 DEF ResearchFails, ReportFresh
  <2>3. CASE CheckRefused
    <3>1. at' = "finalize"
      BY <2>3 DEF CheckRefused, Route
    <3>2. Citable' = Citable
      BY <2>3 DEF CheckRefused, Checked, Citable
    <3> QED BY <2>3, <3>1, <3>2, <2>0 DEF CheckRefused, Checked, ReportFresh, Outcomes
  <2>4. CASE CheckSettled
    <3>1. at' = "finalize"
      BY <2>4 DEF CheckSettled, Route
    <3>2. Citable' = Citable
      BY <2>4 DEF CheckSettled, Checked, Citable
    <3> QED BY <2>4, <3>1, <3>2, <2>0 DEF CheckSettled, Checked, ReportFresh, Outcomes
  <2>5. CASE CheckCritic
    <3>1. at' \in {"widen", "revise", "finalize"}
      BY <2>5 DEF CheckCritic, Route
    <3>2. Citable' = Citable
      BY <2>5 DEF CheckCritic, Checked, Citable
    <3>3. outcome' \in {"none", "escalated"}
      BY <2>5 DEF CheckCritic, Checked, ReportFresh
    <3>4. at' = "widen" => outcome' = "none"
      BY <2>5 DEF CheckCritic, Checked, Route, Spent, ReportFresh
    <3> QED BY <2>5, <3>1, <3>2, <3>3, <3>4, <2>0
         DEF CheckCritic, Checked, ReportFresh, Outcomes
  <2>6. CASE Widen
    BY <2>6, <2>0 DEF Widen, ReportFresh
  <2>7. CASE Revise
    <3>0. PICK text \in Rewrites : \E r \in Revised(text, Citable) :
            answer' = r.answer /\ outcome' = r.outcome
      BY <2>7 DEF Revise
    <3>1. PICK r \in Revised(text, Citable) : answer' = r.answer /\ outcome' = r.outcome
      BY <3>0
    <3>2. Citable' = Citable /\ report' = report /\ draft' = draft /\ at' = "finalize"
      BY <2>7 DEF Revise, Citable
    <3>3. CASE text = Nothing
      BY <3>1, <3>2, <3>3, <2>7, <2>0 DEF Revised, Revise, ReportFresh, Outcomes
    <3>4. CASE text # Nothing /\ Verify(text, Citable).fabricated # {}
      <4>1. outcome' = "flagged"
        BY <3>1, <3>4 DEF Revised
      <4> QED BY <3>2, <4>1, <2>7, <2>0 DEF Revise, ReportFresh, Outcomes
    <3>5. CASE text # Nothing /\ Verify(text, Citable).fabricated = {}
      <4>1. outcome' = "revised" /\ answer' = text
        BY <3>1, <3>5 DEF Revised
      <4> QED BY <3>2, <3>5, <4>1, <2>7, <2>0 DEF Revise, ReportFresh, Outcomes
    <3> QED BY <3>3, <3>4, <3>5
  <2>8. CASE Finalize
    <3>1. at' = "done" /\ answer' = FinalAnswer /\ outcome' = FinalOutcome
      BY <2>8 DEF Finalize
    <3>2. ReportFresh'
      BY <3>1 DEF ReportFresh
    <3>3. FinalOutcome # "refused" => Citable' = Citable
      BY <2>8 DEF Finalize, Citable
    <3>4. CASE FinalOutcome \in Kept
      <4>1. report' = report /\ report = Verify(draft, Citable)
        BY <2>8, <3>4 DEF Finalize, ReportFresh
      <4>2. FinalAnswer = draft
        BY <2>8, <3>4 DEF Finalize, FinalOutcome, FinalAnswer, Kept, ReportFresh
      <4>3. report'.available = Citable
        BY <4>1, VerifyKeeps
      <4>4. ReportDescribesAnswer'
        BY <3>1, <3>3, <4>1, <4>2, <4>3 DEF ReportDescribesAnswer
      <4>5. RevisedIsHonest'
        BY <3>1, <3>4 DEF RevisedIsHonest, Kept
      <4> QED BY <3>2, <4>4, <4>5 DEF Honest
    <3>5. CASE FinalOutcome \notin Kept
      <4>1. report' = Verify(FinalAnswer, Citable)
        BY <2>8, <3>5 DEF Finalize
      <4>2. report'.available = Citable
        BY <4>1, VerifyKeeps
      <4>3. Citable' = Citable
        BY <3>3, <3>5 DEF Kept
      <4>4. ReportDescribesAnswer'
        BY <3>1, <4>1, <4>2, <4>3 DEF ReportDescribesAnswer
      <4>5. RevisedIsHonest'
        BY <2>8, <3>1, <4>1 DEF Finalize, RevisedIsHonest, FinalOutcome, FinalAnswer, ReportFresh
      <4> QED BY <3>2, <4>4, <4>5 DEF Honest
    <3> QED BY <3>4, <3>5
  <2>9. CASE UNCHANGED vars
    BY <2>9 DEF vars, ReportFresh, Honest, ReportDescribesAnswer, RevisedIsHonest, Citable
  <2> QED BY <2>1, <2>2, <2>3, <2>4, <2>5, <2>6, <2>7, <2>8, <2>9 DEF Next, Finished
<1> QED BY <1>1, <1>2, PTL DEF Spec

\* Whatever was drafted, escalated, rewritten or stripped, the report that
\* leaves the loop describes the text and the evidence that leave with it.
THEOREM ReportHolds == Spec => []ReportDescribesAnswer
<1>1. Honest => ReportDescribesAnswer
  BY DEF Honest
<1> QED BY <1>1, HonestHolds, PTL

\* No reviser can hand out as revised a text that cites what was not retrieved.
THEOREM RevisedHolds == Spec => []RevisedIsHonest
<1>1. Honest => RevisedIsHonest
  BY DEF Honest
<1> QED BY <1>1, HonestHolds, PTL

-----------------------------------------------------------------------------
\* Every document among the sources is a document of the sink: a widening only
\* brings neighbours of what is known, so what it adds and a later one drops
\* takes no name away.
InSink(S) == \A c \in S : \E e \in sink : DocOf[e.id] = DocOf[c.id]
EvidenceInSink == InSink(sources) /\ InSink(gain)

\* Through any number of passes, a name once citable stays citable, until a
\* refusal drops the evidence altogether.
THEOREM EvidenceHolds == Spec => CitableNeverShrinks
<1>1. Init => EvidenceInSink
  BY DEF Init, EvidenceInSink, InSink
<1>2. ASSUME EvidenceInSink, [Next]_vars
      PROVE /\ EvidenceInSink'
            /\ outcome' = "refused" \/ Citable \subseteq Citable'
  <2> USE <1>2
  <2>1. CASE Research
    <3>1. sink \subseteq sink' /\ labels \subseteq labels' /\ gain' = gain
      BY <2>1 DEF Research, Absorb
    <3>2. sources' = sink' \cup gain
      BY <2>1 DEF Research, Merged
    <3>3. EvidenceInSink'
      BY <3>1, <3>2 DEF EvidenceInSink, InSink
    <3>4. ASSUME NEW c \in sources PROVE DocOf[c.id] \in Citable'
      <4>1. PICK e \in sink : DocOf[e.id] = DocOf[c.id]
        BY <3>4 DEF EvidenceInSink, InSink
      <4>2. e \in sources'
        BY <4>1, <3>1, <3>2
      <4> QED BY <4>1, <4>2 DEF Citable, Available
    <3> QED BY <3>1, <3>3, <3>4 DEF Citable, Available
  <2>2. CASE ResearchFails
    BY <2>2 DEF ResearchFails, EvidenceInSink, InSink, Citable
  <2>3. CASE CheckRefused
    BY <2>3 DEF CheckRefused, Checked, EvidenceInSink, InSink, Citable
  <2>4. CASE CheckSettled
    BY <2>4 DEF CheckSettled, Checked, EvidenceInSink, InSink, Citable
  <2>5. CASE CheckCritic
    BY <2>5 DEF CheckCritic, Checked, EvidenceInSink, InSink, Citable
  <2>6. CASE Widen
    <3>1. ASSUME NEW c \in gain' PROVE \E e \in sink : DocOf[e.id] = DocOf[c.id]
      <4>1. PICK s \in sources : DocOf[s.id] = DocOf[c.id]
        BY <2>6, <3>1 DEF Widen, Neighbours
      <4> QED BY <4>1 DEF EvidenceInSink, InSink
    <3> QED BY <2>6, <3>1 DEF Widen, EvidenceInSink, InSink, Citable
  <2>7. CASE Revise
    BY <2>7 DEF Revise, EvidenceInSink, InSink, Citable
  <2>8. CASE Finalize
    BY <2>8 DEF Finalize, EvidenceInSink, InSink, Citable
  <2>9. CASE UNCHANGED vars
    BY <2>9 DEF vars, EvidenceInSink, InSink, Citable
  <2> QED BY <2>1, <2>2, <2>3, <2>4, <2>5, <2>6, <2>7, <2>8, <2>9 DEF Next, Finished
<1>3. ASSUME EvidenceInSink, [Next]_vars
      PROVE [outcome' = "refused" \/ Citable \subseteq Citable']_vars
  BY <1>2, <1>3
<1> QED BY <1>1, <1>2, <1>3, PTL DEF Spec, CitableNeverShrinks
=============================================================================
