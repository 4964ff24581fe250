------------------------------ MODULE Failover ------------------------------
(***************************************************************************)
(* Which chat model answers, and what happens when it does not:            *)
(* llm/registry.py, llm/fallback.py, build_chat_chain of llm/factory.py    *)
(* and the chains container.py keeps, one for each leading model.          *)
(*                                                                         *)
(* Calls run at once, on the event loop and in threads; a failure is       *)
(* counted by reading the counter and writing it back, so two of them may  *)
(* count as one.  How long a cooldown lasts is left open.                  *)
(***************************************************************************)
EXTENDS Naturals, Sequences, FiniteSets, Functions, Keeping

CONSTANTS
  Models, Default,  \* llm.allowed, and the model of llm.model
  Fallbacks,        \* llm.fallbacks, in order
  Usable,           \* models with a key whose client can be built
  Callers,          \* bounds the calls in flight
  MaxFailures,      \* failover_max_failures
  MaxStreamed,        \* bounds a stream
  Nobody

ASSUME FailoverAssumption ==
  /\ Default \in Models /\ Models \subseteq Usable /\ Fallbacks \in Seq(Range(Fallbacks)) /\ IsFiniteSet(Callers)
  /\ MaxFailures \in Nat \ {0} /\ MaxStreamed \in Nat \ {0}

VARIABLES
  enabled,   \* what an admin narrowed the models to
  failures,  \* Health._failures of each chain, as far as it matters
  cooling,   \* Health._open_until, of the members it has not passed
  call,      \* each caller's call
  probes     \* once a cooldown of a member has ended: 1 + its failures since, until it answers

fvars == <<enabled, failures, cooling, call, probes>>

\* build_chat_chain(): a fallback that is the lead, has no key or cannot be built is left out.
Chain(lead) == <<lead>> \o Keep(Fallbacks, Usable \ {lead})

Members(lead) == 1 .. Len(Chain(lead))
\* A lead without fallbacks is the bare model: no breaker, and its own error.
Wrapped(lead) == Len(Chain(lead)) > 1
Over(c) == call[c].at \notin {"trying", "failing"}
Fresh == [at |-> "none", lead |-> Default, stream |-> FALSE, order |-> <<>>, tokens |-> <<>>, tried |-> {}, count |-> 0]
\* Of a call that is over, how it ended and whom it asked is kept.
Ended(k, how) == [Fresh EXCEPT !.at = how, !.lead = k.lead, !.tried = k.tried]

CallsOf(lead) ==
  [at : {"none", "trying", "failing", "answered", "cut", "refused", "exhausted", "left"}, lead : {lead}, stream : BOOLEAN,
   order : Seq(Members(lead)), tokens : Seq(Members(lead)), tried : SUBSET Members(lead), count : 0 .. MaxFailures]

FTypeOK ==
  /\ enabled \subseteq Models /\ enabled # {}
  /\ DOMAIN failures = Models /\ DOMAIN cooling = Models /\ DOMAIN probes = Models
  /\ \A m \in Models :
       /\ failures[m] \in [Members(m) -> 0 .. MaxFailures] /\ probes[m] \in [Members(m) -> Nat]
       /\ cooling[m] \subseteq Members(m)
  /\ DOMAIN call = Callers /\ \A c \in Callers : \E lead \in Models : call[c] \in CallsOf(lead)
-----------------------------------------------------------------------------
\* set_models(): an admin may not disable everything.
SetModels(S) ==
  /\ S # {} /\ S # enabled
  /\ enabled' = S
  /\ UNCHANGED <<failures, cooling, call, probes>>

\* resolve_model(): no model asked for is the default, whatever is enabled.
Lead(requested) ==
  IF requested = Nobody THEN {Default}
  ELSE IF requested \in enabled THEN {requested}
  ELSE IF Default \in enabled THEN {Default}
  ELSE enabled

\* Mutant: members in cooldown are left out.
HealthyOnly(lead) == Keep([i \in Members(lead) |-> i], Members(lead) \ cooling[lead])

\* Health.order()
Order(lead) ==
  LET all == [i \in Members(lead) |-> i] IN
  Keep(all, Members(lead) \ cooling[lead]) \o Keep(all, cooling[lead])

Start(c, requested, stream) ==
  /\ Over(c)
  /\ \E lead \in Lead(requested) :
       call' = [call EXCEPT ![c] = [Fresh EXCEPT !.at = "trying", !.lead = lead, !.stream = stream, !.order = Order(lead)]]
  /\ UNCHANGED <<enabled, failures, cooling, probes>>

Chunk(c) ==
  /\ call[c].at = "trying" /\ call[c].stream /\ Len(call[c].tokens) < MaxStreamed
  /\ call' = [call EXCEPT ![c].tokens = Append(@, Head(call[c].order))]
  /\ UNCHANGED <<enabled, failures, cooling, probes>>

\* Health.succeeded(); a stream may end without a token.
Answer(c) ==
  /\ call[c].at = "trying"
  /\ LET l == call[c].lead  i == Head(call[c].order) IN
     /\ failures' = [failures EXCEPT ![l][i] = 0]
     /\ probes' = [probes EXCEPT ![l][i] = 0]
     /\ cooling' = [cooling EXCEPT ![l] = @ \ {i}]
  /\ call' = [call EXCEPT ![c] = Ended(@, "answered")]
  /\ UNCHANGED enabled

\* The provider raises; Health.failed() reads the counter.
Fail(c) ==
  /\ call[c].at = "trying"
  /\ LET i == Head(call[c].order) IN
     call' = [call EXCEPT ![c].at = "failing", ![c].tried = @ \cup {i}, ![c].count = failures[call[c].lead][i]]
  /\ UNCHANGED <<enabled, failures, cooling, probes>>

\* Mutant: opening the breaker clears the counter.
Forgotten(n) == IF n + 1 >= MaxFailures THEN 0 ELSE n + 1

Counted(n) == IF n + 1 >= MaxFailures THEN MaxFailures ELSE n + 1

\* Mutant: whether tokens were already sent is not looked at.
NothingSent(c) == TRUE

MayFailOver(c) == call[c].tokens = <<>>

\* ... and writes it back, before classify() decides whether the next member is tried.
NoteFailure(c, permanent) ==
  /\ call[c].at = "failing"
  /\ LET l == call[c].lead  i == Head(call[c].order)  rest == Tail(call[c].order) IN
     /\ failures' = [failures EXCEPT ![l][i] = IF Wrapped(l) THEN Counted(call[c].count) ELSE 0]
     /\ cooling' = IF Wrapped(l) /\ call[c].count + 1 >= MaxFailures THEN [cooling EXCEPT ![l] = @ \cup {i}] ELSE cooling
     /\ probes' = [probes EXCEPT ![l][i] = IF i \in cooling[l] \/ @ = 0 THEN @ ELSE @ + 1]
     /\ call' = [call EXCEPT ![c] = IF ~MayFailOver(c) THEN Ended(@, "cut")
                                    ELSE IF permanent \/ ~Wrapped(l) THEN Ended(@, "refused")
                                    ELSE IF rest = <<>> THEN Ended(@, "exhausted")
                                    ELSE [@ EXCEPT !.at = "trying", !.order = rest, !.count = 0]]
  /\ UNCHANGED enabled

\* The client of a stream leaves, or the call is cancelled: no outcome is noted.
Leave(c) ==
  /\ call[c].at = "trying"
  /\ call' = [call EXCEPT ![c] = Ended(@, "left")]
  /\ UNCHANGED <<enabled, failures, cooling, probes>>

CoolDown(l, i) ==
  /\ i \in cooling[l]
  /\ cooling' = [cooling EXCEPT ![l] = @ \ {i}]
  /\ probes' = [probes EXCEPT ![l][i] = 1]
  /\ UNCHANGED <<enabled, failures, call>>
-----------------------------------------------------------------------------
FInit ==
  /\ enabled = Models
  /\ failures = [m \in Models |-> [i \in Members(m) |-> 0]]
  /\ probes = failures
  /\ cooling = [m \in Models |-> {}]
  /\ call = [c \in Callers |-> Fresh]

FNext ==
  \/ \E S \in SUBSET Models : SetModels(S)
  \/ \E c \in Callers :
       \/ \E r \in Models \cup {Nobody}, s \in BOOLEAN : Start(c, r, s)
       \/ Chunk(c) \/ Answer(c) \/ Fail(c) \/ Leave(c)
       \/ \E p \in BOOLEAN : NoteFailure(c, p)
  \/ \E l \in Models : \E i \in cooling[l] : CoolDown(l, i)

FSpec == FInit /\ [][FNext]_fvars
-----------------------------------------------------------------------------
(* Properties.                                                             *)

\* What a caller was shown comes from one member, whichever failed before or
\* during the stream: no answer is started over or continued by another.  And it
\* is told "Every chat provider failed" only when every one was asked, those in
\* cooldown too, however the breakers moved during the call.
CallersAreNotMisled ==
  \A c \in Callers :
    /\ Cardinality(Range(call[c].tokens)) <= 1
    /\ call[c].at = "exhausted" => call[c].tried = Members(call[c].lead)

\* A dead provider costs one probe a cooldown: by the time each call in flight has
\* failed on it once, it is out of rotation again, even when counts are lost.  So with
\* the threshold of two (config/settings.py:53): with three, a count read before the
\* breaker opened and written after it closed has the others climb again.
DeadIsProbedOnce ==
  MaxFailures <= 2 => \A l \in Models : \A i \in Members(l) : probes[l][i] <= Cardinality(Callers) + 1
=============================================================================
