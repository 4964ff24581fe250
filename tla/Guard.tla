-------------------------------- MODULE Guard --------------------------------
(***************************************************************************)
(* The guard service around a question and its answer: the pipeline and    *)
(* the judge of integrations/guardrails, called through                    *)
(* safety/guardrails.py, which may give up before the service does.        *)
(*                                                                         *)
(* One category of risk stands for all of them: the risk of a text is the  *)
(* greatest of the categories'.  Scores are hundredths.                    *)
(***************************************************************************)
EXTENDS Naturals, Sequences, Functions, Keeping

CONSTANTS
  Calls,            \* bounds the checks at once
  Questions, Answers,
  Key,              \* VerdictCache.key(): two texts that normalise alike share one
  Tier,             \* of the rules a text hits: "none", "flag" or "block"
  Long,             \* texts over the policy's limit
  Secret,           \* answers with something to redact
  FlagAt, BlockAt, RuleAction,        \* CheckConfig
  Trigger, FailMode,                  \* of the policy
  FailOpen,                           \* safety.fail_open of the application
  Verdicts,         \* scores a judge gives
  Specs, Keyed,     \* the judges that are configured, the primary first, and those with a key
  MaxJudge, MaxJudgeFailures, CacheSize

Texts == Questions \cup Answers
CacheKeys == {Key[t] : t \in Texts}

\* build_provider_chain(): the primary, and the fallbacks that have a key and are not
\* in the chain already.
HasKey(i)  == Specs[i] \in Keyed
ChainLinks == {i \in DOMAIN Specs : i = 1 \/ (HasKey(i) /\ \A j \in 1 .. i - 1 : Specs[j] # Specs[i])}

ASSUME GuardAssumption ==
  /\ \A t \in Texts : Tier[t] \in {"none", "flag", "block"}
  /\ \A q \in Questions, a \in Answers : Key[q] # Key[a]
  /\ Long \subseteq Texts /\ Secret \subseteq Answers /\ Verdicts \subseteq 0 .. 100
  /\ RuleAction \in {"block", "flag", "ignore"} /\ Trigger \in {"always", "on_rule_flag", "never"}
  /\ FailMode \in {"open", "flag", "closed"} /\ FailOpen \in BOOLEAN
  /\ FlagAt \in 0 .. 100 /\ BlockAt \in 0 .. 100 /\ Questions # {}
  /\ Specs \in Seq(Range(Specs)) /\ Specs # <<>>
  /\ MaxJudge \in Nat \ {0} /\ MaxJudgeFailures \in Nat \ {0} /\ CacheSize \in Nat

VARIABLES
  asked,    \* each check, as the application knows it
  check,    \* and as the service does
  permits,  \* Judge._sem
  fails, tripped,   \* ChainHealth
  cache,    \* VerdictCache, least recently used first
  passed    \* keys that a judge has scored below BlockAt

gvars == <<asked, check, permits, fails, tripped, cache, passed>>

Quiet == [at |-> "idle", left |-> <<>>, repair |-> FALSE, tried |-> {}, ended |-> "none", score |-> 0, action |-> "allow"]
Unasked == [text |-> CHOOSE t \in Texts : TRUE, at |-> "idle", form |-> "raw"]

Askings == [text : Texts, at : {"idle", "waiting", "proceeds", "refuses"}, form : {"raw", "redacted"}]
Checks  == [at : {"idle", "queued", "judging", "replied", "raised"}, left : Seq(ChainLinks), repair : BOOLEAN, tried : SUBSET ChainLinks,
            ended : {"none", "rules", "verdict", "failed", "late"}, score : 0 .. 100, action : {"allow", "flag", "block"}]

GTypeOK ==
  /\ asked \in [Calls -> Askings] /\ check \in [Calls -> Checks]
  /\ permits \in 0 .. MaxJudge /\ fails \in [ChainLinks -> 0 .. MaxJudgeFailures - 1] /\ tripped \subseteq ChainLinks
  /\ cache \in Seq([key : CacheKeys, score : 0 .. 100]) /\ Len(cache) <= CacheSize /\ passed \subseteq CacheKeys
-----------------------------------------------------------------------------
\* _aggregate_rules()
RuleScore(t) == CASE Tier[t] = "none" -> 0 [] Tier[t] = "flag" -> 65 [] Tier[t] = "block" -> 100
ShortCircuits(t) == Tier[t] = "block" /\ RuleAction = "block"

ShouldJudge(t) == Trigger = "always" \/ (Trigger = "on_rule_flag" /\ Tier[t] # "none")

ScoreAction(score) == IF score >= BlockAt THEN "block" ELSE IF score >= FlagAt THEN "flag" ELSE "allow"

\* Mutant: once a judge has spoken the rules do not count.
JudgeDecides(rule, judge) == IF judge > 0 THEN judge ELSE rule

Combined(rule, judge) == IF judge > rule THEN judge ELSE rule

\* _decide_input(), for a text the judge scored, could not score, or was not asked about.
Decide(t, score, failed) ==
  LET overall == ScoreAction(Combined(RuleScore(t), score)) IN
  IF failed /\ FailMode = "closed" THEN "block"
  ELSE IF failed /\ FailMode = "flag" /\ overall = "allow" THEN "flag"
  ELSE overall

Reply(c, t, ended, score) ==
  [check[c] EXCEPT !.at = "replied", !.left = <<>>, !.repair = FALSE, !.ended = ended, !.score = score,
     !.action = IF ended # "rules" THEN Decide(t, score, ended \in {"failed", "late"})
                ELSE IF t \in Long \/ ShortCircuits(t) THEN "block" ELSE Decide(t, 0, FALSE)]

InCache(t) == {i \in DOMAIN cache : cache[i].key = Key[t]}
Uncached(t) == Keep(cache, {x \in Range(cache) : x.key # Key[t]})
Stored(t, score) ==
  LET all == Append(Uncached(t), [key |-> Key[t], score |-> score]) IN
  SubSeq(all, 1 + (IF Len(all) > CacheSize THEN Len(all) - CacheSize ELSE 0), Len(all))

\* What both checks do once they have scanned the text, up to the first await.
Screen(c, t) ==
  IF t \in Long \/ ShortCircuits(t) \/ ~ShouldJudge(t) THEN check' = [check EXCEPT ![c] = Reply(c, t, "rules", 0)] /\ UNCHANGED cache
  ELSE IF InCache(t) # {} THEN
    \E i \in InCache(t) :
      /\ check' = [check EXCEPT ![c] = Reply(c, t, "verdict", cache[i].score)]
      /\ cache' = Stored(t, cache[i].score)
  ELSE check' = [check EXCEPT ![c] = [Quiet EXCEPT !.at = "queued"]] /\ UNCHANGED cache

MayAsk(c) == asked[c].at # "waiting" /\ check[c].at = "idle"

CheckInput(c, t) ==
  /\ MayAsk(c) /\ t \in Questions
  /\ asked' = [asked EXCEPT ![c] = [Unasked EXCEPT !.text = t, !.at = "waiting"]]
  /\ Screen(c, t)
  /\ UNCHANGED <<permits, fails, tripped, passed>>

\* Redaction does not depend on the verdict; a prompt leak is a rule of the block tier.
CheckOutput(c, t) ==
  /\ MayAsk(c) /\ t \in Answers
  /\ asked' = [asked EXCEPT ![c] = [Unasked EXCEPT !.text = t, !.at = "waiting"]]
  /\ Screen(c, t)
  /\ UNCHANGED <<permits, fails, tripped, passed>>
-----------------------------------------------------------------------------
Positions == [i \in DOMAIN Specs |-> i]

\* Mutant: tripped links are left out.
InRotation == Keep(Positions, ChainLinks \ tripped)

ChainOrder == InRotation \o Keep(Positions, ChainLinks \cap tripped)

\* _run(): one permit for the whole chain.
Enter(c) ==
  /\ check[c].at = "queued" /\ permits > 0
  /\ permits' = permits - 1
  /\ check' = [check EXCEPT ![c].at = "judging", ![c].left = ChainOrder]
  /\ UNCHANGED <<asked, fails, tripped, cache, passed>>

\* parse_verdict(): an answer without a verdict in it is asked for once more.
Unreadable(c) ==
  /\ check[c].at = "judging" /\ check[c].left # <<>> /\ ~check[c].repair
  /\ check' = [check EXCEPT ![c].repair = TRUE]
  /\ UNCHANGED <<asked, permits, fails, tripped, cache, passed>>

\* The link answers, at once or after the repair retry.
LinkAnswers(c, score) ==
  /\ check[c].at = "judging" /\ check[c].left # <<>>
  /\ LET i == Head(check[c].left) IN fails' = [fails EXCEPT ![i] = 0] /\ tripped' = tripped \ {i}
  /\ check' = [check EXCEPT ![c] = Reply(c, asked[c].text, "verdict", score)]
  /\ cache' = Stored(asked[c].text, score)
  /\ passed' = IF score < BlockAt THEN passed \cup {Key[asked[c].text]} ELSE passed
  /\ permits' = permits + 1
  /\ UNCHANGED asked

\* Mutant: what could not be judged is remembered as harmless.
RememberAll(t) == Stored(t, 0)

OnFailure(t) == cache

\* The chain has no link left, or no time for another attempt.
ChainFails(c, tried, how) ==
  /\ check' = [check EXCEPT ![c] = [Reply(c, asked[c].text, how, 0) EXCEPT !.tried = tried]]
  /\ cache' = OnFailure(asked[c].text)
  /\ permits' = permits + 1

\* The provider failed, or was unreadable twice.  A breaker that opens starts counting anew.
JudgeLinkFails(c) ==
  /\ check[c].at = "judging" /\ check[c].left # <<>>
  /\ LET i == Head(check[c].left)  tried == check[c].tried \cup {i}  trips == fails[i] + 1 >= MaxJudgeFailures IN
     /\ fails' = [fails EXCEPT ![i] = IF trips THEN 0 ELSE @ + 1]
     /\ tripped' = IF trips THEN tripped \cup {i} ELSE tripped
     /\ IF Len(check[c].left) = 1 THEN ChainFails(c, tried, "failed")
        ELSE /\ check' = [check EXCEPT ![c].left = Tail(@), ![c].repair = FALSE, ![c].tried = tried]
             /\ UNCHANGED <<cache, permits>>
  /\ UNCHANGED <<asked, passed>>

\* Only a JudgeError stays in the chain.  What else a provider raises (a missing key, a
\* reply that is no JSON) leaves the service as a 500: no other link is tried, nothing is
\* counted or remembered, and fail_mode is not asked.
LinkRaises(c) ==
  /\ check[c].at = "judging" /\ check[c].left # <<>>
  /\ check' = [check EXCEPT ![c] = [Quiet EXCEPT !.at = "raised"]]
  /\ permits' = permits + 1
  /\ UNCHANGED <<asked, fails, tripped, cache, passed>>

\* llm_total_timeout_s: a link is not started without a second to spend.
BudgetOut(c) ==
  /\ check[c].at = "judging" /\ check[c].left # <<>>
  /\ ChainFails(c, check[c].tried, "late")
  /\ UNCHANGED <<asked, fails, tripped, passed>>

LinkCools(i) ==
  /\ i \in tripped
  /\ tripped' = tripped \ {i}
  /\ UNCHANGED <<asked, check, permits, fails, cache, passed>>

CacheForgets(t) ==
  /\ InCache(t) # {}
  /\ cache' = Uncached(t)
  /\ UNCHANGED <<asked, check, permits, fails, tripped, passed>>
-----------------------------------------------------------------------------
\* The verdict reaches the application, or finds it gone.
Receive(c) ==
  /\ check[c].at = "replied"
  /\ asked' = IF asked[c].at # "waiting" THEN asked
              ELSE [asked EXCEPT ![c].at = IF check[c].action = "block" THEN "refuses" ELSE "proceeds",
                                 ![c].form = IF asked[c].text \in Secret THEN "redacted" ELSE "raw"]
  /\ check' = [check EXCEPT ![c] = Quiet]
  /\ UNCHANGED <<permits, fails, tripped, cache, passed>>

\* raise_for_status(): a 500 is a service that cannot be reached.
ReceiveError(c) ==
  /\ check[c].at = "raised"
  /\ asked' = IF asked[c].at # "waiting" THEN asked
              ELSE [asked EXCEPT ![c].at = IF FailOpen THEN "proceeds" ELSE "refuses"]
  /\ check' = [check EXCEPT ![c] = Quiet]
  /\ UNCHANGED <<permits, fails, tripped, cache, passed>>

\* 401 and 404: another key, or a policy the service does not have.
TurnedAway(c, t) ==
  /\ MayAsk(c)
  /\ asked' = [asked EXCEPT ![c] = [Unasked EXCEPT !.text = t, !.at = IF FailOpen THEN "proceeds" ELSE "refuses"]]
  /\ UNCHANGED <<check, permits, fails, tripped, cache, passed>>

\* _post(): timeout, refused connection, unreadable answer.  The service goes on.
GiveUp(c) ==
  /\ asked[c].at = "waiting"
  /\ asked' = [asked EXCEPT ![c].at = IF FailOpen THEN "proceeds" ELSE "refuses"]
  /\ UNCHANGED <<check, permits, fails, tripped, cache, passed>>
-----------------------------------------------------------------------------
GInit ==
  /\ asked = [c \in Calls |-> Unasked] /\ check = [c \in Calls |-> Quiet]
  /\ permits = MaxJudge /\ fails = [i \in ChainLinks |-> 0] /\ tripped = {}
  /\ cache = <<>> /\ passed = {}

GNext ==
  \/ \E c \in Calls :
       \/ \E t \in Texts : CheckInput(c, t) \/ CheckOutput(c, t) \/ TurnedAway(c, t)
       \/ Enter(c) \/ Unreadable(c) \/ JudgeLinkFails(c) \/ LinkRaises(c) \/ BudgetOut(c)
       \/ Receive(c) \/ ReceiveError(c) \/ GiveUp(c)
       \/ \E score \in Verdicts : LinkAnswers(c, score)
  \/ \E i \in ChainLinks : LinkCools(i)
  \/ \E t \in Texts : CacheForgets(t)

GSpec == GInit /\ [][GNext]_gvars
-----------------------------------------------------------------------------
(* Properties.                                                             *)

Severity(action) == CASE action = "allow" -> 0 [] action = "flag" -> 1 [] action = "block" -> 2

\* guardrails/pipeline.py:4 "Risk is monotonic": no verdict, cached verdict or outage makes
\* the outcome milder than what the rules alone require.
RiskOnlyRises ==
  \A c \in Calls : check[c].at = "replied" =>
    Severity(check[c].action) >= Severity(ScoreAction(RuleScore(asked[c].text)))

\* With a policy that fails closed and an application that does, a text the policy sends to
\* the judge only goes on after some judge scored its key below the block, now or for the
\* cache, and never on a timeout, a 500 or an outage; "a stale breaker must not be the reason
\* nothing gets screened" (guardrails/config.py:69): a chain that failed for want of links,
\* and not of time or by an exception that no link handles, tried every one.
UnjudgedNeverPasses ==
  \A c \in Calls :
    /\ FailMode = "closed" /\ ~FailOpen /\ asked[c].at = "proceeds" /\ ShouldJudge(asked[c].text) =>
         Key[asked[c].text] \in passed
    /\ check[c].ended = "failed" => check[c].tried = ChainLinks
=============================================================================
