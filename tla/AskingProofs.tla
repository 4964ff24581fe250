----------------------------- MODULE AskingProofs -----------------------------
(***************************************************************************)
(* Theorems about Asking, for any number of model calls, and about AgentRun,*)
(* for any sessions, requests and tools, any size of the cache of agents and*)
(* any number of turns and model calls.                                    *)
(***************************************************************************)
EXTENDS Asking, AgentRun, KeepingProofs, FiniteSetTheorems, TLAPS

-----------------------------------------------------------------------------
(* The stream of one question.                                             *)

Marks(e) == {i \in DOMAIN events : events[i] = e}

LEMMA CountIsNat ==
  ASSUME events \in Seq(Events), NEW e
  PROVE  IsFiniteSet(Marks(e)) /\ Count(e) \in Nat
<1>1. Len(events) \in Nat /\ DOMAIN events = 1..Len(events)
  OBVIOUS
<1>2. IsFiniteSet(1..Len(events))
  BY <1>1, FS_Interval
<1>3. Marks(e) \in SUBSET (1..Len(events))
  BY <1>1 DEF Marks
<1>4. IsFiniteSet(Marks(e))
  BY <1>2, <1>3, FS_Subset
<1>5. QED
  BY <1>4, FS_CardinalityType DEF Count, Marks

\* Events of another kind do not change the count of a kind.
LEMMA CountUnchanged ==
  ASSUME events \in Seq(Events), NEW es \in Seq(Events), NEW e,
         \A i \in DOMAIN es : es[i] # e, Emit(es)
  PROVE  Count(e)' = Count(e)
<1>1. \A i \in DOMAIN events' : events'[i] = e => i \in DOMAIN events /\ events[i] = e
  BY DEF Emit
<1>2. \A i \in DOMAIN events : i \in DOMAIN events' /\ events'[i] = events[i]
  BY DEF Emit
<1>3. Marks(e)' = Marks(e)
  BY <1>1, <1>2 DEF Marks
<1>4. QED
  BY <1>3 DEF Count, Marks

\* One event counts once.
LEMMA CountOne ==
  ASSUME events \in Seq(Events), NEW e \in Events, Emit(<<e>>)
  PROVE  Count(e)' = Count(e) + 1
<1> DEFINE n == Len(events) + 1
<1>1. n \in Nat /\ n \notin Marks(e)
  BY DEF Marks
<1>2. DOMAIN events' = DOMAIN events \cup {n} /\ events'[n] = e
  BY DEF Emit
<1>3. \A i \in DOMAIN events : events'[i] = events[i]
  BY DEF Emit
<1>4. Marks(e)' = Marks(e) \cup {n}
  BY <1>2, <1>3 DEF Marks
<1>5. IsFiniteSet(Marks(e))
  BY CountIsNat
<1>6. Cardinality(Marks(e) \cup {n}) = Cardinality(Marks(e)) + 1
  <2> HIDE DEF n
  <2>1. QED
    BY <1>1, <1>5, FS_AddElement
<1>7. Count(e) = Cardinality(Marks(e)) /\ Count(e)' = Cardinality(Marks(e)')
  BY DEF Count, Marks
<1>8. QED
  BY <1>4, <1>6, <1>7

LEMMA EmitType ==
  ASSUME events \in Seq(Events), NEW es \in Seq(Events), Emit(es)
  PROVE  events' \in Seq(Events)
  BY DEF Emit

LEMMA BillType ==
  ASSUME TypeOK
  PROVE  Bill \in Nat
<1>1. Streamed \in Nat
  BY CountIsNat DEF TypeOK, Streamed
<1>2. calls \in Nat /\ reported \in Nat /\ calls - reported \in Nat
  BY MaxCallsAssumption DEF TypeOK
<1>3. QED
  BY <1>1, <1>2 DEF Bill, TokensIn, TokensOut, Larger

-----------------------------------------------------------------------------
\* Every handler keeps a request well-typed.
THEOREM TypeCorrect == Spec => []TypeOK
<1>1. Init => TypeOK
  <2>1. <<>> \in Seq(Events) /\ NoTurn \in Turns
    BY DEF NoTurn, Turns, Answers
  <2>2. ASSUME Init PROVE calls \in 0..MaxCalls /\ reported \in 0..calls /\ booked \in Nat
    BY <2>2, MaxCallsAssumption DEF Init
  <2>3. ASSUME Init PROVE events \in Seq(Events) /\ reply \in Turns /\ saved \in Turns
    BY <2>1, <2>3 DEF Init
  <2>4. QED
    BY <2>2, <2>3 DEF Init, TypeOK, Answers, Verdicts
<1>2. ASSUME TypeOK, [Next]_vars PROVE TypeOK'
  <2> USE <1>2, MaxCallsAssumption
  <2>a. Sent \in Turns
    BY DEF TypeOK, Sent, Turns
  <2>1. CASE Resolve
    BY <2>1 DEF Resolve, TypeOK, Ended, run, text, out, kept
  <2>2. CASE AllowInput
    BY <2>2 DEF AllowInput, TypeOK, run, text, out, kept
  <2>3. CASE BlockInput
    BY <2>3 DEF BlockInput, TypeOK, Answers, run, out, kept
  <2>4. CASE Rerank
    BY <2>4 DEF Rerank, Call, TypeOK, text, out, kept
  <2>5. CASE PassGate
    BY <2>5 DEF PassGate, TypeOK, run, text, out, kept
  <2>6. CASE RefuseOffTopic
    BY <2>6 DEF RefuseOffTopic, TypeOK, Answers, run, out, kept
  <2>7. CASE AgentCall
    <3>1. <<"tool">> \in Seq(Events) /\ <<"token">> \in Seq(Events)
      BY DEF Events
    <3>2. events' \in Seq(Events) /\ shown' \in BOOLEAN
      BY <2>7, <3>1, EmitType DEF AgentCall, TypeOK
    <3>3. calls' \in 0..MaxCalls /\ reported' \in 0..calls'
      BY <2>7 DEF AgentCall, Call, TypeOK
    <3>4. QED
      BY <2>7, <3>2, <3>3 DEF AgentCall, TypeOK, text, kept
  <2>8. CASE AgentEnds
    <3>1. PICK ending \in Endings, found \in BOOLEAN, invented \in BOOLEAN :
            /\ draft' = ending /\ answer' = ending
            /\ sources' = Evidence(ending, found)
            /\ fabricated' = invented
      BY <2>8 DEF AgentEnds
    <3>2. ending \in Drafted
      BY <3>1 DEF Endings, Drafted
    <3>3. sources' \in BOOLEAN
      BY <3>1 DEF Evidence
    <3>4. QED
      BY <2>8, <3>1, <3>2, <3>3 DEF AgentEnds, TypeOK, Answers, run, out, kept
  <2>9. CASE Raise
    <3>1. <<"error", "done">> \in Seq(Events)
      BY DEF Events
    <3>2. events' \in Seq(Events)
      BY <2>9, <3>1, EmitType DEF Raise, TypeOK
    <3>3. QED
      BY <2>9, <3>2 DEF Raise, TypeOK, Ended, run, text
  <2>10. CASE SendSources
    <3>1. <<"sources", "verification">> \in Seq(Events) /\ <<"sources">> \in Seq(Events)
      BY DEF Events
    <3>2. events' \in Seq(Events)
      BY <2>10, <3>1, EmitType DEF SendSources, TypeOK
    <3>3. QED
      BY <2>10, <3>2, <2>a DEF SendSources, TypeOK, run, text, kept
  <2>11. CASE Advise
    <3>1. <<"safety">> \in Seq(Events) /\ <<>> \in Seq(Events)
      BY DEF Events
    <3>2. events' \in Seq(Events)
      BY <2>11, <3>1, EmitType DEF Advise, TypeOK
    <3>3. QED
      BY <2>11, <3>2 DEF Advise, TypeOK, Screens, Verdicts, run, text, kept
  <2>12. CASE Enforce
    <3>1. answer' \in Answers /\ sources' \in BOOLEAN
      BY <2>12 DEF Enforce, TypeOK, Guarded, RedactOnly, Answers
    <3>2. verdict' \in Verdicts
      BY <2>12 DEF Enforce, Screens, Verdicts
    <3>3. QED
      BY <2>12, <3>1, <3>2 DEF Enforce, TypeOK, run, out, kept
  <2>13. CASE Book
    <3>1. booked' \in Nat
      BY <2>13, BillType DEF Book, TypeOK
    <3>2. QED
      BY <2>13, <3>1 DEF Book, TypeOK, run, text, out
  <2>14. CASE Save
    BY <2>14, <2>a DEF Save, Turn, TypeOK, run, text, out
  <2>15. CASE Reply
    <3>1. /\ <<>> \in Seq(Events) /\ <<"answer", "done">> \in Seq(Events)
          /\ <<"done">> \in Seq(Events)
      BY DEF Events
    <3>2. /\ <<"safety", "token", "sources", "done">> \in Seq(Events)
          /\ <<"token", "sources", "done">> \in Seq(Events)
      BY DEF Events
    <3>3. Rest \in Seq(Events)
      BY <3>1, <3>2 DEF Rest
    <3>4. events' \in Seq(Events)
      BY <2>15, <3>3, EmitType DEF Reply, TypeOK
    <3>5. QED
      BY <2>15, <3>4, <2>a DEF Reply, TypeOK, Ended, run, text
  <2>16. CASE Tick
    BY <2>16 DEF Tick, TypeOK, run, text, kept
  <2>17. CASE Leave
    BY <2>17 DEF Leave, TypeOK, Ended, run, text, out, kept
  <2>18. CASE ReplyRaises
    BY <2>18 DEF ReplyRaises, TypeOK, Ended, run, text, out
  <2>19. CASE Over \/ UNCHANGED vars
    BY <2>19 DEF Over, TypeOK, vars, run, text, out, kept
  <2>20. QED
    BY <2>1, <2>2, <2>3, <2>4, <2>5, <2>6, <2>7, <2>8, <2>9, <2>10, <2>11, <2>12,
       <2>13, <2>14, <2>15, <2>16, <2>17, <2>18, <2>19 DEF Next
<1>3. QED
  BY <1>1, <1>2, PTL DEF Spec

-----------------------------------------------------------------------------
(* What is sent, kept and withheld.  The client's copy and the transcript's *)
(* both equal what the handler holds, because nothing changes the text once *)
(* one of them has it: a whole answer is guarded before it is kept, and a   *)
(* streamed one is never changed.                                           *)

Copies ==
  /\ saved # NoTurn => saved = Sent /\ at \in {"reply"} \cup Ended
  /\ reply # NoTurn =>
       /\ reply = Sent
       /\ \/ at \in Ended
          \/ door = "stream" /\ at \in {"guard_out", "book", "save", "reply"}

Refused == answer \in Refusals => ~sources

Passed ==
  /\ door # "stream" /\ saved # NoTurn => at \in {"reply", "done"}
  /\ door # "stream" /\ reply # NoTurn => at = "done"
  /\ door # "stream" => at # "sources"
  /\ ~Keeps => at # "save" /\ saved = NoTurn
  /\ door # "stream" /\ answer \in Drafted /\ at \in {"book", "save", "reply", "done"}
       => verdict \in {"allow", "flag"}

SentInv == Copies /\ Refused /\ Passed

LEMMA SentInit == Init => SentInv
  BY DEF Init, SentInv, Copies, Refused, Passed, Keeps, Refusals, NoTurn, Drafted

LEMMA SentStep ==
  ASSUME TypeOK, SentInv, [Next]_vars
  PROVE  SentInv'
<1> USE DEF SentInv, Copies, Refused, Passed, Keeps, Sent, Ended
<1>1. CASE Resolve \/ AllowInput \/ PassGate \/ Rerank
  BY <1>1 DEF Resolve, AllowInput, PassGate, Rerank, run, text, out, kept
<1>2. CASE BlockInput \/ RefuseOffTopic
  BY <1>2 DEF BlockInput, RefuseOffTopic, run, out, kept, Drafted, Refusals, Doors, TypeOK
<1>3. CASE AgentCall
  BY <1>3 DEF AgentCall, text, kept
<1>4. CASE AgentEnds
  <2>1. PICK ending \in Endings, found \in BOOLEAN, invented \in BOOLEAN :
          answer' = ending /\ sources' = Evidence(ending, found)
    BY <1>4 DEF AgentEnds
  <2>2. ending \in Drafted /\ (ending \in Refusals => ~sources')
    BY <2>1 DEF Endings, Drafted, Refusals, Evidence
  <2>3. QED
    BY <1>4, <2>1, <2>2 DEF AgentEnds, run, out, kept
<1>5. CASE Raise
  BY <1>5 DEF Raise, MayRaise, run, text
<1>6. CASE SendSources
  BY <1>6 DEF SendSources, run, text, kept
<1>7. CASE Advise
  BY <1>7 DEF Advise, run, text, kept
<1>8. CASE Enforce
  <2>1. answer' \in Drafted => verdict' \in {"allow", "flag"}
    BY <1>8 DEF Enforce, Guarded, RedactOnly, Screens, Verdicts, Drafted
  <2>2. answer' \in Refusals => ~sources'
    BY <1>8 DEF Enforce, Guarded, RedactOnly, Refusals
  <2>3. QED
    BY <1>8, <2>1, <2>2 DEF Enforce, run, out, kept
<1>9. CASE Book
  BY <1>9 DEF Book, run, text, out
<1>10. CASE Save
  BY <1>10 DEF Save, Turn, run, text, out
<1>11. CASE Reply \/ ReplyRaises
  BY <1>11 DEF Reply, ReplyRaises, Unsendable, Doors, TypeOK, run, text, out
<1>12. CASE Tick
  BY <1>12 DEF Tick, run, text, kept
<1>13. CASE Leave
  BY <1>13 DEF Leave, TypeOK, Doors, run, text, out, kept
<1>14. CASE Over \/ UNCHANGED vars
  BY <1>14 DEF Over, vars, run, text, out, kept
<1>15. QED
  BY <1>1, <1>2, <1>3, <1>4, <1>5, <1>6, <1>7, <1>8, <1>9, <1>10, <1>11, <1>12, <1>13,
     <1>14 DEF Next

\* What the client and the transcript have is what the handler has at that moment, on
\* every way through query() and the stream.
THEOREM SentHolds == Spec => []SentInv
  BY TypeCorrect, SentInit, SentStep, PTL DEF Spec

\* The transcript's turn is the client's.
THEOREM SavedHolds == Spec => []SavedIsSent
<1>1. SentInv => SavedIsSent
  BY DEF SentInv, Copies, SavedIsSent
<1>2. QED
  BY <1>1, SentHolds, PTL

\* Refusals ship and keep no passages.
THEOREM RefusalHolds == Spec => []RefusalShipsNothing
<1>1. SentInv => RefusalShipsNothing
  BY DEF SentInv, Copies, Refused, RefusalShipsNothing, Sent, NoTurn, Refusals
<1>2. QED
  BY <1>1, SentHolds, PTL

\* Only what the output guard let pass is sent whole or kept.
THEOREM GuardHolds == Spec => []GuardDecides
<1>1. SentInv => GuardDecides
  BY DEF SentInv, Copies, Passed, GuardDecides, Sent, NoTurn, Drafted
<1>2. QED
  BY <1>1, SentHolds, PTL

-----------------------------------------------------------------------------
(* The bill.  A stream has sent no more pieces of text than it made calls,  *)
(* nothing is charged before the booking, and the one booking charges every *)
(* call the meter has seen, the probe's included.                           *)

Exact  == reported \in {0, calls}
Free   == door = "trace" /\ answer = "off_topic"

BillInv ==
  /\ at \notin Ended => Streamed <= calls
  /\ at \in {"resolve", "guard_in"} => calls = 0
  /\ at \notin {"save", "reply"} \cup Ended => booked = 0
  /\ at \in {"save", "reply", "done"} /\ Exact /\ ~Free => booked = 2 * calls

LEMMA BillIsExact ==
  ASSUME TypeOK, Streamed <= calls, Exact
  PROVE  Bill = 2 * calls
<1>1. Streamed \in Nat
  BY CountIsNat DEF TypeOK, Streamed
<1>2. calls \in Nat /\ reported \in Nat
  BY MaxCallsAssumption DEF TypeOK
<1>3. QED
  BY <1>1, <1>2 DEF Bill, TokensIn, TokensOut, Larger, Exact

LEMMA BillInit == Init => BillInv
<1>1. ASSUME Init PROVE Streamed = 0
  <2>1. {i \in DOMAIN events : events[i] = "token"} = {}
    BY <1>1 DEF Init
  <2>2. QED
    BY <2>1, FS_EmptySet DEF Streamed, Count
<1>2. ASSUME Init PROVE BillInv
  <2>1. Streamed = 0 /\ calls = 0
    BY <1>1, <1>2 DEF Init
  <2>2. QED
    BY <1>2, <2>1 DEF Init, BillInv, Ended
<1>3. QED
  BY <1>2

LEMMA BillStep ==
  ASSUME TypeOK, BillInv, [Next]_vars
  PROVE  BillInv'
<1>1. calls \in Nat /\ reported \in Nat /\ Streamed \in Nat
  BY MaxCallsAssumption, CountIsNat DEF TypeOK, Streamed
<1>2. ASSUME UNCHANGED events PROVE Streamed' = Streamed
  BY <1>2 DEF Streamed, Count
<1> USE DEF BillInv, Exact, Free, Ended
<1>3. CASE Resolve \/ AllowInput \/ PassGate
  BY <1>3, <1>2 DEF Resolve, AllowInput, PassGate, run, text, out, kept
<1>4. CASE BlockInput \/ RefuseOffTopic
  <2>1. Streamed' = Streamed /\ UNCHANGED <<calls, reported, booked, door>>
    BY <1>4, <1>2 DEF BlockInput, RefuseOffTopic, run, out, kept
  <2>2. CASE BlockInput
    BY <2>1, <2>2, <1>1 DEF BlockInput, Keeps
  <2>3. CASE RefuseOffTopic
    BY <2>1, <2>3, <1>1 DEF RefuseOffTopic, BillsRefusal
  <2>4. QED
    BY <1>4, <2>2, <2>3
<1>5. CASE Rerank
  BY <1>5, <1>1, <1>2 DEF Rerank, Call, out, kept
<1>6. CASE AgentCall
  <2>1. calls' = calls + 1 /\ at' = "running" /\ booked' = booked /\ booked = 0
    BY <1>6 DEF AgentCall, Call, kept
  <2>2. Streamed' \in {Streamed, Streamed + 1}
    <3>1. CASE UNCHANGED events
      BY <3>1, <1>2
    <3>2. CASE Emit(<<"tool">>)
      <4>1. <<"tool">> \in Seq(Events) /\ \A i \in DOMAIN <<"tool">> : <<"tool">>[i] # "token"
        BY DEF Events
      <4>2. QED
        BY <3>2, <4>1, CountUnchanged DEF TypeOK, Streamed
    <3>3. CASE Emit(<<"token">>)
      BY <3>3, CountOne DEF TypeOK, Streamed, Events
    <3>4. QED
      BY <1>6, <3>1, <3>2, <3>3 DEF AgentCall
  <2>3. QED
    BY <2>1, <2>2, <1>1, <1>6 DEF AgentCall
<1>7. CASE AgentEnds
  BY <1>7, <1>2 DEF AgentEnds, run, out, kept
<1>8. CASE Raise
  BY <1>8 DEF Raise
<1>9. CASE SendSources
  <2>1. ASSUME Emit(<<"sources", "verification">>) PROVE Streamed' = Streamed
    <3> DEFINE es == <<"sources", "verification">>
    <3>1. es \in Seq(Events) /\ DOMAIN es = {1, 2}
      BY DEF Events
    <3>2. \A i \in DOMAIN es : es[i] # "token"
      BY <3>1
    <3>3. events \in Seq(Events) /\ Emit(es)
      BY <2>1 DEF TypeOK
    <3> HIDE DEF es
    <3>4. QED
      BY <3>1, <3>2, <3>3, CountUnchanged DEF Streamed
  <2>2. ASSUME Emit(<<"sources">>) PROVE Streamed' = Streamed
    <3> DEFINE es == <<"sources">>
    <3>1. es \in Seq(Events) /\ DOMAIN es = {1}
      BY DEF Events
    <3>2. \A i \in DOMAIN es : es[i] # "token"
      BY <3>1
    <3>3. events \in Seq(Events) /\ Emit(es)
      BY <2>2 DEF TypeOK
    <3> HIDE DEF es
    <3>4. QED
      BY <3>1, <3>2, <3>3, CountUnchanged DEF Streamed
  <2>3. Streamed' = Streamed
    BY <1>9, <2>1, <2>2 DEF SendSources
  <2>4. QED
    BY <1>9, <2>3 DEF SendSources, run, text, kept
<1>10. CASE Advise
  <2>1. ASSUME Emit(<<>>) PROVE Streamed' = Streamed
    <3>1. <<>> \in Seq(Events) /\ \A i \in DOMAIN <<>> : <<>>[i] # "token"
      OBVIOUS
    <3>2. QED
      BY <2>1, <3>1, CountUnchanged DEF TypeOK, Streamed
  <2>2. ASSUME Emit(<<"safety">>) PROVE Streamed' = Streamed
    <3> DEFINE es == <<"safety">>
    <3>1. es \in Seq(Events) /\ DOMAIN es = {1}
      BY DEF Events
    <3>2. \A i \in DOMAIN es : es[i] # "token"
      BY <3>1
    <3>3. events \in Seq(Events) /\ Emit(es)
      BY <2>2 DEF TypeOK
    <3> HIDE DEF es
    <3>4. QED
      BY <3>1, <3>2, <3>3, CountUnchanged DEF Streamed
  <2>3. Streamed' = Streamed
    BY <1>10, <2>1, <2>2 DEF Advise
  <2>4. QED
    BY <1>10, <2>3 DEF Advise, run, text, kept
<1>11. CASE Enforce
  BY <1>11, <1>2 DEF Enforce, run, out, kept
<1>12. CASE Book
  <2>1. Streamed' = Streamed /\ UNCHANGED <<calls, reported, door, answer>>
    BY <1>12, <1>2 DEF Book, run, text, out
  <2>2. booked' = Bill
    BY <1>12, BillType DEF Book
  <2>3. Exact => booked' = 2 * calls
    BY <1>12, <2>2, BillIsExact DEF Book
  <2>4. QED
    BY <1>12, <2>1, <2>3 DEF Book
<1>13. CASE Save
  BY <1>13, <1>2 DEF Save, run, text, out
<1>14. CASE Reply \/ ReplyRaises
  BY <1>14 DEF Reply, ReplyRaises, run, text, out
<1>15. CASE Tick
  BY <1>15, <1>2 DEF Tick, run, text, kept
<1>16. CASE Leave
  BY <1>16 DEF Leave
<1>17. CASE Over \/ UNCHANGED vars
  BY <1>17, <1>2 DEF Over, vars, run, text, out, kept
<1>18. QED
  BY <1>3, <1>4, <1>5, <1>6, <1>7, <1>8, <1>9, <1>10, <1>11, <1>12, <1>13, <1>14, <1>15,
     <1>16, <1>17 DEF Next

\* An answered request is charged twice its calls: prompt and completion.
THEOREM BillHolds == Spec => []BillCoversCalls
<1>1. BillInv => BillCoversCalls
  BY DEF BillInv, Exact, Free, BillCoversCalls
<1>2. QED
  BY <1>1, TypeCorrect, BillInit, BillStep, PTL DEF Spec
-----------------------------------------------------------------------------
(* The stream's events.  Until the agent ends there is nothing but tools    *)
(* and text; the one `sources' comes when it has; what ends the stream comes *)
(* once, with the last step; and whoever has sent anything after the agent  *)
(* has sent `sources'.                                                      *)

Single(e) == \A i, j \in DOMAIN events : events[i] = e /\ events[j] = e => i = j
Has(e)    == \E i \in DOMAIN events : events[i] = e
Ends      == {"answer", "error", "done"}

Orders ==
  /\ \A e \in {"sources"} \cup Ends : Single(e)
  /\ \A e \in Events \ {"done"} : Before(e, "done")
  /\ Before("token", "sources") /\ Before("tool", "sources")
  /\ ~(Has("error") /\ (Has("sources") \/ Has("answer")))

OrderInv ==
  /\ Orders
  /\ at \notin Ended => \A e \in Ends : ~Has(e)
  /\ at \in {"resolve", "guard_in", "gate"} => events = <<>>
  /\ at \in {"agent", "running", "sources"} => \A i \in DOMAIN events : events[i] \in {"tool", "token"}
  /\ door # "stream" /\ at \notin Ended => events = <<>> /\ at # "sources"
  /\ door = "stream" /\ at = "guard_out" => Has("sources")
  /\ at \in {"book", "save", "reply"} => events = <<>> \/ Has("sources")
  /\ at = "done" /\ door \in {"stream", "trace"} => Has("done")
  /\ at = "failed" /\ events # <<>> => Has("done")
  /\ at \notin Ended => traced = "none"
  /\ traced = "ok" => Has("answer") \/ (Unsendable /\ events = <<>>)

LEMMA SingleCounts ==
  ASSUME events \in Seq(Events), NEW e, Single(e)
  PROVE  Count(e) <= 1
<1>1. Count(e) = Cardinality(Marks(e))
  BY DEF Count, Marks
<1>2. CASE Marks(e) = {}
  BY <1>1, <1>2, FS_EmptySet
<1>3. CASE Marks(e) # {}
  <2>1. PICK k : k \in Marks(e)
    BY <1>3
  <2>2. Marks(e) = {k}
    BY <2>1 DEF Marks, Single
  <2>3. Cardinality(Marks(e)) = 1
    BY <2>2, FS_Singleton
  <2>4. QED
    BY <1>1, <2>3
<1>4. QED
  BY <1>2, <1>3

LEMMA HasIsContains ==
  ASSUME events \in Seq(Events), NEW e
  PROVE  Contains(events, e) <=> Has(e)
  BY DEF Contains, Has

\* What an append leaves where it was, and where it puts the rest.
LEMMA EmitEnds ==
  ASSUME events \in Seq(Events), NEW es \in Seq(Events), Emit(es)
  PROVE  /\ DOMAIN events = 1..Len(events) /\ Len(events) \in Nat
         /\ DOMAIN events' = 1..(Len(events) + Len(es)) /\ Len(es) \in Nat
         /\ \A i \in 1..Len(events) : events'[i] = events[i]
         /\ \A i \in 1..Len(es) : events'[Len(events) + i] = es[i]
         /\ \A i \in DOMAIN events' :
              i \in 1..Len(events) \/ \E k \in 1..Len(es) : i = Len(events) + k
<1>1. Len(events) \in Nat /\ Len(es) \in Nat
  OBVIOUS
<1>2. DOMAIN events' = 1..(Len(events) + Len(es))
  BY DEF Emit
<1>3. \A i \in 1..Len(events) : events'[i] = events[i]
  BY DEF Emit
<1>4. \A i \in 1..Len(es) : events'[Len(events) + i] = es[i]
  BY DEF Emit
<1>5. ASSUME NEW i \in DOMAIN events', i \notin 1..Len(events)
      PROVE  \E k \in 1..Len(es) : i = Len(events) + k
  <2>1. i - Len(events) \in 1..Len(es) /\ i = Len(events) + (i - Len(events))
    BY <1>1, <1>2, <1>5
  <2>2. QED
    BY <2>1
<1>6. QED
  BY <1>1, <1>2, <1>3, <1>4, <1>5

LEMMA EmitHas ==
  ASSUME events \in Seq(Events), NEW es \in Seq(Events), Emit(es), NEW e
  PROVE  Has(e)' <=> Has(e) \/ \E k \in 1..Len(es) : es[k] = e
<1>1. ASSUME Has(e) PROVE Has(e)'
  BY <1>1, EmitEnds DEF Has
<1>2. ASSUME NEW k \in 1..Len(es), es[k] = e PROVE Has(e)'
  <2>1. Len(events) + k \in DOMAIN events' /\ events'[Len(events) + k] = e
    BY <1>2, EmitEnds
  <2>2. QED
    BY <2>1 DEF Has
<1>3. ASSUME Has(e)', ~Has(e) PROVE \E k \in 1..Len(es) : es[k] = e
  <2>1. PICK i \in DOMAIN events' : events'[i] = e
    BY <1>3 DEF Has
  <2>2. i \notin 1..Len(events)
    BY <1>3, <2>1, EmitEnds DEF Has
  <2>3. QED
    BY <2>1, <2>2, EmitEnds
<1>4. QED
  BY <1>1, <1>2, <1>3

\* An append keeps an event single when it does not repeat it, and keeps two
\* in their order when it does not send the first after the second.
LEMMA EmitSingle ==
  ASSUME events \in Seq(Events), NEW es \in Seq(Events), Emit(es), NEW e,
         Single(e), ~Has(e) \/ \A k \in 1..Len(es) : es[k] # e,
         \A k, m \in 1..Len(es) : es[k] = e /\ es[m] = e => k = m
  PROVE  Single(e)'
<1> SUFFICES ASSUME NEW i \in DOMAIN events', NEW j \in DOMAIN events',
                    events'[i] = e, events'[j] = e
             PROVE  i = j
  BY DEF Single
<1>1. CASE i \in 1..Len(events) /\ j \in 1..Len(events)
  BY <1>1, EmitEnds DEF Single
<1>2. CASE i \in 1..Len(events) /\ j \notin 1..Len(events)
  <2>1. PICK k \in 1..Len(es) : j = Len(events) + k
    BY <1>2, EmitEnds
  <2>2. es[k] = e /\ events[i] = e
    BY <1>2, <2>1, EmitEnds
  <2>3. QED
    BY <1>2, <2>2, EmitEnds DEF Has
<1>3. CASE i \notin 1..Len(events) /\ j \in 1..Len(events)
  <2>1. PICK k \in 1..Len(es) : i = Len(events) + k
    BY <1>3, EmitEnds
  <2>2. es[k] = e /\ events[j] = e
    BY <1>3, <2>1, EmitEnds
  <2>3. QED
    BY <1>3, <2>2, EmitEnds DEF Has
<1>4. CASE i \notin 1..Len(events) /\ j \notin 1..Len(events)
  <2>1. PICK k \in 1..Len(es), m \in 1..Len(es) : i = Len(events) + k /\ j = Len(events) + m
    BY <1>4, EmitEnds
  <2>2. es[k] = e /\ es[m] = e
    BY <2>1, EmitEnds
  <2>3. QED
    BY <2>1, <2>2, EmitEnds
<1>5. QED
  BY <1>1, <1>2, <1>3, <1>4

LEMMA EmitBefore ==
  ASSUME events \in Seq(Events), NEW es \in Seq(Events), Emit(es), NEW e, NEW f,
         Before(e, f), ~Has(f) \/ \A k \in 1..Len(es) : es[k] # e,
         \A k, m \in 1..Len(es) : es[k] = e /\ es[m] = f => k < m
  PROVE  Before(e, f)'
<1> SUFFICES ASSUME NEW i \in DOMAIN events', NEW j \in DOMAIN events',
                    events'[i] = e, events'[j] = f
             PROVE  i < j
  BY DEF Before
<1>1. CASE i \in 1..Len(events) /\ j \in 1..Len(events)
  BY <1>1, EmitEnds DEF Before
<1>2. CASE i \in 1..Len(events) /\ j \notin 1..Len(events)
  BY <1>2, EmitEnds
<1>3. CASE i \notin 1..Len(events) /\ j \in 1..Len(events)
  BY <1>3, EmitEnds DEF Has
<1>4. CASE i \notin 1..Len(events) /\ j \notin 1..Len(events)
  <2>1. PICK k \in 1..Len(es), m \in 1..Len(es) : i = Len(events) + k /\ j = Len(events) + m
    BY <1>4, EmitEnds
  <2>2. es[k] = e /\ es[m] = f
    BY <2>1, EmitEnds
  <2>3. QED
    BY <2>1, <2>2, EmitEnds
<1>5. QED
  BY <1>1, <1>2, <1>3, <1>4
\* What a step may append to a stream nothing has ended yet.
Fits(es) ==
  /\ \A k, m \in 1..Len(es) : es[k] = es[m] /\ es[k] \in {"sources"} \cup Ends => k = m
  /\ \A k \in 1..Len(es) : es[k] \in {"sources", "tool", "token", "error"} => ~Has("sources")
  /\ \A k, m \in 1..Len(es) : es[m] = "done" /\ k # m => k < m
  /\ \A k, m \in 1..Len(es) : es[k] \in {"token", "tool"} /\ es[m] = "sources" => k < m
  /\ \A k, m \in 1..Len(es) : es[k] = "error" => es[m] \notin {"sources", "answer"}

LEMMA EmitOrders ==
  ASSUME events \in Seq(Events), NEW es \in Seq(Events), Emit(es), Orders, Fits(es),
         \A e \in Ends : ~Has(e)
  PROVE  Orders'
<1>1. ASSUME NEW e \in {"sources"} \cup Ends PROVE Single(e)'
  BY <1>1, EmitSingle DEF Orders, Fits
<1>2. ASSUME NEW e \in Events \ {"done"} PROVE Before(e, "done")'
  BY <1>2, EmitBefore DEF Orders, Fits, Ends
<1>3. Before("token", "sources")'
  BY EmitBefore DEF Orders, Fits
<1>4. Before("tool", "sources")'
  BY EmitBefore DEF Orders, Fits
<1>5. ~(Has("error") /\ (Has("sources") \/ Has("answer")))'
  <2>1. ~Has("error") /\ ~Has("answer")
    BY DEF Ends
  <2>2. ASSUME Has("error")' PROVE ~Has("sources")' /\ ~Has("answer")'
    <3>1. PICK k \in 1..Len(es) : es[k] = "error"
      BY <2>1, <2>2, EmitHas
    <3>2. ~Has("sources") /\ \A m \in 1..Len(es) : es[m] \notin {"sources", "answer"}
      BY <3>1 DEF Fits
    <3>3. QED
      BY <2>1, <3>2, EmitHas
  <2>3. QED
    BY <2>2
<1>6. QED
  BY <1>1, <1>2, <1>3, <1>4, <1>5 DEF Orders

LEMMA SameEvents ==
  ASSUME UNCHANGED events
  PROVE  (Orders <=> Orders') /\ \A e : Has(e)' <=> Has(e)
  BY DEF Orders, Single, Before, Has, Ends

LEMMA OrderInit == Init => OrderInv
  BY DEF Init, OrderInv, Orders, Single, Before, Has, Ended, Ends

LEMMA OrderStep ==
  ASSUME TypeOK, OrderInv, [Next]_vars
  PROVE  OrderInv'
<1>0. events \in Seq(Events)
  BY DEF TypeOK
<1>1. ASSUME UNCHANGED events
      PROVE  (Orders <=> Orders') /\ \A e : Has(e)' <=> Has(e)
  BY <1>1, SameEvents
<1>2. CASE Resolve \/ AllowInput \/ BlockInput \/ PassGate \/ Rerank \/ RefuseOffTopic
  BY <1>1, <1>2 DEF OrderInv, Resolve, AllowInput, BlockInput, PassGate, Rerank, RefuseOffTopic,
     run, text, out, kept, Ended
<1>3. CASE AgentCall
  <2>1. CASE UNCHANGED events
    BY <1>1, <1>3, <2>1 DEF OrderInv, AgentCall, kept, Ended
  <2>2. ASSUME NEW e \in {"tool", "token"}, door = "stream", Emit(<<e>>)
        PROVE  OrderInv'
    <3> DEFINE es == <<e>>
    <3>1. es \in Seq(Events) /\ Len(es) = 1 /\ es[1] = e
      BY DEF Events
    <3>2. ~Has("sources") /\ \A f \in Ends : ~Has(f)
      BY <1>3 DEF OrderInv, AgentCall, Has, Ended
    <3>3. Emit(es) /\ Fits(es)
      BY <2>2, <3>1, <3>2 DEF Fits, Ends
    <3> HIDE DEF es
    <3>4. Orders'
      BY <1>0, <3>1, <3>2, <3>3, EmitOrders DEF OrderInv
    <3>5. \A f \in Ends : ~Has(f)'
      BY <1>0, <3>1, <3>2, <3>3, EmitHas DEF Ends
    <3>6. \A i \in DOMAIN events' : events'[i] \in {"tool", "token"}
      BY <1>0, <1>3, <3>1, <3>3, EmitEnds DEF OrderInv, AgentCall
    <3>7. QED
      BY <1>3, <2>2, <3>4, <3>5, <3>6 DEF OrderInv, AgentCall, kept, Ended
  <2>3. QED
    BY <1>3, <2>1, <2>2 DEF AgentCall
<1>4. CASE AgentEnds
  BY <1>1, <1>4 DEF OrderInv, AgentEnds, out, kept, Ended
<1>5. CASE Raise
  <2>1. CASE Opened
    <3> DEFINE es == <<"error", "done">>
    <3>1. es \in Seq(Events) /\ Len(es) = 2 /\ es[1] = "error" /\ es[2] = "done"
      BY DEF Events
    <3>2. ~Has("sources") /\ \A f \in Ends : ~Has(f)
      BY <1>5 DEF OrderInv, Raise, MayRaise, Has, Ended
    <3>3. Emit(es) /\ Fits(es)
      <4> HIDE DEF es
      <4>1. \A k \in 1..Len(es) : k = 1 \/ k = 2
        BY <3>1
      <4>2. Fits(es)
        BY <3>1, <3>2, <4>1 DEF Fits, Ends
      <4>3. QED
        BY <1>5, <2>1, <4>2 DEF Raise, es
    <3> HIDE DEF es
    <3>4. Orders'
      BY <1>0, <3>1, <3>2, <3>3, EmitOrders DEF OrderInv
    <3>5. Has("done")'
      BY <1>0, <3>1, <3>3, EmitHas
    <3>6. QED
      BY <1>5, <3>4, <3>5 DEF OrderInv, Raise, MayRaise, Ended
  <2>2. CASE ~Opened
    <3>1. UNCHANGED events /\ events = <<>>
      BY <1>5, <2>2 DEF OrderInv, Raise, MayRaise, Opened, Ended
    <3>2. QED
      BY <1>1, <1>5, <3>1 DEF OrderInv, Raise, MayRaise, Ended
  <2>3. QED
    BY <2>1, <2>2
<1>6. CASE SendSources
  <2>1. ASSUME NEW es \in Seq(Events), Emit(es), 1 \in 1..Len(es), es[1] = "sources",
               \A k \in 1..Len(es) : k = 1 \/ (k = 2 /\ es[k] = "verification")
        PROVE  OrderInv'
    <3>1. \A k \in 1..Len(es) : k = 1 \/ k = 2
      BY <2>1
    <3>2. ~Has("sources") /\ \A f \in Ends : ~Has(f)
      BY <1>6 DEF OrderInv, SendSources, Has, Ended
    <3>3. Fits(es)
      BY <2>1, <3>1, <3>2 DEF Fits, Ends
    <3>4. Orders'
      BY <1>0, <2>1, <3>2, <3>3, EmitOrders DEF OrderInv
    <3>5. \A f \in Ends : ~Has(f)'
      BY <1>0, <2>1, <3>1, <3>2, EmitHas DEF Ends
    <3>6. Has("sources")'
      BY <1>0, <2>1, EmitHas
    <3>7. door = "stream" /\ door' = door
      BY <1>6 DEF OrderInv, SendSources, Ended
    <3>8. QED
      BY <1>6, <3>4, <3>5, <3>6, <3>7 DEF OrderInv, SendSources, kept, Ended
  <2>2. CASE fabricated
    <3> DEFINE es == <<"sources", "verification">>
    <3>1. es \in Seq(Events) /\ Len(es) = 2 /\ es[1] = "sources" /\ es[2] = "verification"
      BY DEF Events
    <3>2. Emit(es)
      BY <1>6, <2>2 DEF SendSources
    <3> HIDE DEF es
    <3>3. 1 \in 1..Len(es) /\ \A k \in 1..Len(es) : k = 1 \/ (k = 2 /\ es[k] = "verification")
      BY <3>1
    <3>4. QED
      BY <2>1, <3>1, <3>2, <3>3
  <2>3. CASE ~fabricated
    <3> DEFINE es == <<"sources">>
    <3>1. es \in Seq(Events) /\ Len(es) = 1 /\ es[1] = "sources"
      BY DEF Events
    <3>2. Emit(es)
      BY <1>6, <2>3 DEF SendSources
    <3> HIDE DEF es
    <3>3. 1 \in 1..Len(es) /\ \A k \in 1..Len(es) : k = 1 \/ (k = 2 /\ es[k] = "verification")
      BY <3>1
    <3>4. QED
      BY <2>1, <3>1, <3>2, <3>3
  <2>4. QED
    BY <2>2, <2>3
<1>7. CASE Advise
  <2>1. ASSUME NEW es \in Seq(Events), Emit(es),
               \A k \in 1..Len(es) : k = 1 /\ es[k] = "safety"
        PROVE  OrderInv'
    <3>1. \A k \in 1..Len(es) : k = 1 /\ es[k] = "safety"
      BY <2>1
    <3>2. Has("sources") /\ \A f \in Ends : ~Has(f)
      BY <1>7 DEF OrderInv, Advise, Has, Ended
    <3>3. Fits(es)
      BY <3>1 DEF Fits, Ends
    <3>4. Orders'
      BY <1>0, <2>1, <3>2, <3>3, EmitOrders DEF OrderInv
    <3>5. \A f \in Ends : ~Has(f)'
      BY <1>0, <2>1, <3>1, <3>2, EmitHas DEF Ends
    <3>6. Has("sources")'
      BY <1>0, <2>1, <3>2, EmitHas
    <3>7. QED
      BY <1>7, <3>4, <3>5, <3>6 DEF OrderInv, Advise, kept, Ended
  <2>2. CASE verdict' = "allow"
    <3> DEFINE es == <<>>
    <3>1. es \in Seq(Events) /\ Len(es) = 0
      OBVIOUS
    <3>2. Emit(es)
      BY <1>7, <2>2 DEF Advise
    <3> HIDE DEF es
    <3>3. \A k \in 1..Len(es) : k = 1 /\ es[k] = "safety"
      BY <3>1
    <3>4. QED
      BY <2>1, <3>1, <3>2, <3>3
  <2>3. CASE verdict' # "allow"
    <3> DEFINE es == <<"safety">>
    <3>1. es \in Seq(Events) /\ Len(es) = 1 /\ es[1] = "safety"
      BY DEF Events
    <3>2. Emit(es)
      BY <1>7, <2>3 DEF Advise
    <3> HIDE DEF es
    <3>3. \A k \in 1..Len(es) : k = 1 /\ es[k] = "safety"
      BY <3>1
    <3>4. QED
      BY <2>1, <3>1, <3>2, <3>3
  <2>4. QED
    BY <2>2, <2>3
<1>8. CASE Enforce
  BY <1>1, <1>8 DEF OrderInv, Unsendable, Enforce, out, kept, Ended
<1>9. CASE Book
  BY <1>1, <1>9 DEF OrderInv, Unsendable, Book, text, out, Ended
<1>10. CASE Save
  BY <1>1, <1>10 DEF OrderInv, Unsendable, Save, text, out, Ended
<1>11. CASE Reply
  <2>1. /\ Emit(Rest) /\ at' = "done" /\ at = "reply" /\ door' = door
        /\ traced' = IF door = "trace" THEN "ok" ELSE "none"
    BY <1>11 DEF Reply, OrderInv, Ended
  <2>2. \A f \in Ends : ~Has(f)
    BY <2>1 DEF OrderInv, Ended
  <2>3. events = <<>> \/ Has("sources")
    BY <2>1 DEF OrderInv
  <2>4. CASE door \in {"plain", "compare"}
    <3>1. events = <<>> /\ events' = <<>>
      BY <2>1, <2>4 DEF OrderInv, Ended, Rest, Emit
    <3>2. QED
      BY <1>1, <2>1, <2>4, <3>1 DEF OrderInv, Ended
  <2>5. CASE door \notin {"plain", "compare"}
    <3>1. ASSUME NEW es \in Seq(Events), Emit(es), Fits(es),
                 NEW n \in 1..Len(es), es[n] = "done",
                 door = "trace" => \E m \in 1..Len(es) : es[m] = "answer"
          PROVE  OrderInv'
      <4>1. Orders'
        BY <1>0, <2>2, <3>1, EmitOrders DEF OrderInv
      <4>2. Has("done")'
        BY <1>0, <3>1, EmitHas
      <4>3. door = "trace" => Has("answer")'
        BY <1>0, <3>1, EmitHas
      <4>4. QED
        BY <2>1, <4>1, <4>2, <4>3 DEF OrderInv, Ended
    <3>2. CASE door = "trace"
      <4> DEFINE es == <<"answer", "done">>
      <4>1. es \in Seq(Events) /\ Len(es) = 2 /\ es[1] = "answer" /\ es[2] = "done"
        BY DEF Events
      <4>2. Rest = es
        BY <3>2 DEF Rest
      <4> HIDE DEF es
      <4>3. \A k \in 1..Len(es) : k = 1 \/ k = 2
        BY <4>1
      <4>4. Fits(es)
        BY <4>1, <4>3 DEF Fits, Ends
      <4>5. QED
        BY <2>1, <3>1, <4>1, <4>2, <4>4
    <3>3. CASE door # "trace" /\ Has("sources")
      <4> DEFINE es == <<"done">>
      <4>1. es \in Seq(Events) /\ Len(es) = 1 /\ es[1] = "done"
        BY DEF Events
      <4>2. Rest = es
        BY <1>0, <2>5, <3>3, HasIsContains DEF Rest
      <4> HIDE DEF es
      <4>3. \A k \in 1..Len(es) : k = 1
        BY <4>1
      <4>4. Fits(es)
        BY <4>1, <4>3 DEF Fits, Ends
      <4>5. QED
        BY <2>1, <3>1, <3>3, <4>1, <4>2, <4>4
    <3>4. CASE door # "trace" /\ ~Has("sources") /\ answer = "blocked"
      <4> DEFINE es == <<"safety", "token", "sources", "done">>
      <4>1. /\ es \in Seq(Events) /\ Len(es) = 4
            /\ es[1] = "safety" /\ es[2] = "token" /\ es[3] = "sources" /\ es[4] = "done"
        BY DEF Events
      <4>2. Rest = es
        BY <1>0, <2>5, <3>4, HasIsContains DEF Rest
      <4> HIDE DEF es
      <4>3. \A k \in 1..Len(es) : k = 1 \/ k = 2 \/ k = 3 \/ k = 4
        BY <4>1
      <4>4. Fits(es)
        BY <3>4, <4>1, <4>3 DEF Fits, Ends
      <4>5. QED
        BY <2>1, <3>1, <3>4, <4>1, <4>2, <4>4
    <3>5. CASE door # "trace" /\ ~Has("sources") /\ answer # "blocked"
      <4> DEFINE es == <<"token", "sources", "done">>
      <4>1. /\ es \in Seq(Events) /\ Len(es) = 3
            /\ es[1] = "token" /\ es[2] = "sources" /\ es[3] = "done"
        BY DEF Events
      <4>2. Rest = es
        BY <1>0, <2>5, <3>5, HasIsContains DEF Rest
      <4> HIDE DEF es
      <4>3. \A k \in 1..Len(es) : k = 1 \/ k = 2 \/ k = 3
        BY <4>1
      <4>4. Fits(es)
        BY <3>5, <4>1, <4>3 DEF Fits, Ends
      <4>5. QED
        BY <2>1, <3>1, <3>5, <4>1, <4>2, <4>4
    <3>6. QED
      BY <3>2, <3>3, <3>4, <3>5
  <2>6. QED
    BY <2>4, <2>5
<1>12. CASE Tick
  BY <1>1, <1>12 DEF OrderInv, Unsendable, Tick, text, kept, Ended
<1>13. CASE Leave
  BY <1>1, <1>13 DEF OrderInv, Unsendable, Leave, text, out, kept, Ended
<1>14. CASE Over \/ UNCHANGED vars
  BY <1>1, <1>14 DEF OrderInv, Unsendable, Over, vars, run, text, out, kept, Ended
<1>15. CASE ReplyRaises
  <2>1. events = <<>> /\ events' = <<>> /\ at' = "failed"
    BY <1>15 DEF OrderInv, ReplyRaises, Unsendable, Ended, out
  <2>2. Unsendable'
    BY <1>15 DEF ReplyRaises, Unsendable, text
  <2>3. QED
    BY <1>1, <2>1, <2>2 DEF OrderInv, Ended
<1>16. QED
  BY <1>2, <1>3, <1>4, <1>5, <1>6, <1>7, <1>8, <1>9, <1>10, <1>11, <1>12, <1>13,
     <1>14, <1>15 DEF Next

\* A client of the stream gets the events in the order it may rely on, and a
\* stream that answers or fails ends with `done'; one that is kept as "ok" and
\* just stops is that of a traced question blocked at input.
THEOREM OrderHolds == Spec => []EventOrder
<1>1. TypeOK /\ OrderInv => EventOrder
  <2> SUFFICES ASSUME TypeOK, OrderInv PROVE EventOrder
    OBVIOUS
  <2>1. events \in Seq(Events)
    BY DEF TypeOK
  <2>2. \A e \in {"sources", "answer", "error", "done"} : Count(e) <= 1
    BY <2>1, SingleCounts DEF OrderInv, Orders, Ends
  <2>3. Contains(events, "error") => ~Contains(events, "sources") /\ ~Contains(events, "answer")
    BY <2>1, HasIsContains DEF OrderInv, Orders
  <2>4. /\ at = "done" /\ door \in {"stream", "trace"} => Contains(events, "done")
        /\ at = "failed" /\ events # <<>> => Contains(events, "done")
        /\ traced = "ok" /\ ~Contains(events, "answer") => Unsendable /\ events = <<>>
    BY <2>1, HasIsContains DEF OrderInv
  <2>5. QED
    BY <2>2, <2>3, <2>4 DEF OrderInv, Orders, EventOrder
<1>2. QED
  BY <1>1, TypeCorrect, OrderInit, OrderStep, PTL DEF Spec

-----------------------------------------------------------------------------
(* The agent runner: agents, meters, evidence.                             *)

Entries == [key : Keys, agent : Agents]
Founds(x) == UNION {[T -> Results] : T \in SUBSET ToolCalls[x]}

LEMMA NothingFound ==
  ASSUME NEW x
  PROVE  <<>> \in Founds(x)
<1>1. <<>> \in [{} -> Results]
  OBVIOUS
<1>2. {} \in SUBSET ToolCalls[x]
  OBVIOUS
<1>3. QED
  BY <1>1, <1>2 DEF Founds

\* A prompt is counted once, and a completion in one of the two views.
LEMMA ChargedIs ==
  ASSUME NEW m \in Meters, NEW invoiced \in BOOLEAN
  PROVE  LET n == Charged(m, invoiced) IN
         /\ n \in Meters
         /\ n.estimatedInput = m.estimatedInput + 1
         /\ n.output + n.estimatedOutput = m.output + m.estimatedOutput + 1
<1> DEFINE i == m.estimatedInput + 1  j == m.input + 1  k == m.output + 1  l == m.estimatedOutput + 1
<1>0. i \in Nat /\ j \in Nat /\ k \in Nat /\ l \in Nat
  BY DEF Meters
<1>1. CASE invoiced
  <2>1. Charged(m, invoiced) = [m EXCEPT !.estimatedInput = i, !.input = j, !.output = k]
    BY <1>1 DEF Charged
  <2> HIDE DEF i, j, k, l
  <2>2. [m EXCEPT !.estimatedInput = i, !.input = j, !.output = k] \in Meters
    BY <1>0 DEF Meters
  <2>3. QED
    BY <2>1, <2>2 DEF Meters, i, k
<1>2. CASE ~invoiced
  <2>1. Charged(m, invoiced) = [m EXCEPT !.estimatedInput = i, !.estimatedOutput = l]
    BY <1>2 DEF Charged
  <2> HIDE DEF i, j, k, l
  <2>2. [m EXCEPT !.estimatedInput = i, !.estimatedOutput = l] \in Meters
    BY <1>0 DEF Meters
  <2>3. QED
    BY <2>1, <2>2 DEF Meters, i, l
<1>3. QED
  BY <1>1, <1>2

\* One call of a model is counted by the request and by its meter.
LEMMA CallType ==
  ASSUME ATypeOK, NEW r \in Requests, NEW m \in BOOLEAN, CallsModel(r, m)
  PROVE  /\ meter' \in [Requests -> Meters]
         /\ DOMAIN spent' = Requests /\ \A q \in Requests : spent'[q] \in 0 .. MaxSpent[q]
<1>1. \A q \in Requests : MaxSpent[q] \in Nat
  BY SessionAssumption
<1>2. DOMAIN spent' = Requests /\ \A q \in Requests : spent'[q] \in 0 .. MaxSpent[q]
  BY <1>1 DEF CallsModel, ATypeOK
<1>3. \A invoiced \in BOOLEAN : Charged(meter[r], invoiced) \in Meters
  BY ChargedIs DEF ATypeOK
<1>4. meter' \in [Requests -> Meters]
  BY <1>3 DEF CallsModel, ATypeOK, Meters
<1>5. QED
  BY <1>2, <1>4

LEMMA AgentType ==
  ASSUME ATypeOK, NEW x \in Sessions
  PROVE  AgentFor(x) \in Agents /\ Refreshed(x) \in Seq(Entries) /\ Len(Refreshed(x)) <= AgentCacheSize
<1>1. KeyOf(x) \in Keys /\ Compiled(x) \in Agents
  BY SessionAssumption DEF KeyOf, Keys, Compiled, Agents
<1>2. compiled \in Seq(Entries)
  BY DEF ATypeOK, Entries
<1>3. \A i \in DOMAIN compiled : compiled[i].agent \in Agents
  <2>1. ASSUME NEW i \in DOMAIN compiled PROVE compiled[i] \in Entries
    BY <1>2, <2>1
  <2>2. QED
    BY <2>1 DEF Entries
<1>4. AgentFor(x) \in Agents
  <2> DEFINE held == {i \in DOMAIN compiled : compiled[i].key = KeyOf(x)}
  <2>1. CASE held = {}
    BY <1>1, <2>1 DEF AgentFor
  <2>2. CASE held # {}
    <3>1. (CHOOSE i \in held : TRUE) \in held
      BY <2>2
    <3>2. AgentFor(x) = compiled[CHOOSE i \in held : TRUE].agent
      BY <2>2 DEF AgentFor
    <3>3. QED
      BY <1>3, <3>1, <3>2
  <2>3. QED
    BY <2>1, <2>2
<1> DEFINE others == Keep(compiled, {e \in Range(compiled) : e.key # KeyOf(x)})
           entry  == [key |-> KeyOf(x), agent |-> AgentFor(x)]
           all    == Append(others, entry)
<1>5. others \in Seq(Entries) /\ Len(others) <= Len(compiled)
  BY <1>2, KeepRange
<1>6. entry \in Entries
  BY <1>1, <1>4 DEF Entries
<1>7. Refreshed(x) = IF Len(all) > AgentCacheSize THEN Tail(all) ELSE all
  BY DEF Refreshed
<1> HIDE DEF others, entry
<1>8. all \in Seq(Entries) /\ Len(all) = Len(others) + 1 /\ all # <<>> /\ Tail(all) \in Seq(Entries)
      /\ Len(Tail(all)) = Len(all) - 1
  BY <1>5, <1>6
<1>9. Len(others) <= AgentCacheSize /\ Len(others) \in Nat /\ AgentCacheSize \in Nat
  BY <1>2, <1>5, SessionAssumption DEF ATypeOK
<1>10. QED
  BY <1>4, <1>7, <1>8, <1>9

\* Found passages enter the collector as a list of those it does not have.
LEMMA Collected ==
  ASSUME NEW S, NEW T \in SUBSET S, T = {} \/ \E p : T = {p}
  PROVE  SetToSeq(T) \in Seq(S) /\ Range(SetToSeq(T)) = T /\ IsInjective(SetToSeq(T))
<1> DEFINE f == SetToSeq(T)
<1>1. Cardinality(T) \in {0, 1} /\ (Cardinality(T) = 0 <=> T = {})
  BY FS_EmptySet, FS_Singleton
<1>2. \E g \in [1..Cardinality(T) -> T] : IsInjective(g)
  <2>1. CASE T = {}
    <3>1. [i \in {} |-> 0] \in [1..Cardinality(T) -> T]
      BY <1>1, <2>1
    <3>2. QED
      BY <3>1 DEF IsInjective
  <2>2. CASE T # {}
    <3>1. PICK p : p \in T
      BY <2>2
    <3>2. [i \in 1..1 |-> p] \in [1..Cardinality(T) -> T] /\ IsInjective([i \in 1..1 |-> p])
      BY <1>1, <2>2, <3>1 DEF IsInjective
    <3>3. QED
      BY <3>2
  <2>3. QED
    BY <2>1, <2>2
<1>3. f \in [1..Cardinality(T) -> T] /\ IsInjective(f)
  BY <1>2 DEF SetToSeq
<1> HIDE DEF f
<1>4. f \in Seq(T) /\ f \in Seq(S)
  BY <1>1, <1>3
<1>5. Range(f) = T
  <2>1. CASE T = {}
    BY <1>1, <1>3, <2>1 DEF Range
  <2>2. CASE T # {}
    <3>1. PICK p : T = {p}
      BY <2>2
    <3>2. Cardinality(T) = 1 /\ 1 \in DOMAIN f /\ f[1] = p
      BY <1>1, <1>3, <2>2, <3>1
    <3>3. QED
      BY <1>3, <3>1, <3>2 DEF Range
  <2>3. QED
    BY <2>1, <2>2
<1>6. QED
  BY <1>3, <1>4, <1>5 DEF f

-----------------------------------------------------------------------------
LEMMA ATypeInit == AInit => ATypeOK
<1> SUFFICES ASSUME AInit PROVE ATypeOK
  OBVIOUS
<1>1. ASSUME NEW x \in Sessions PROVE Unstarted \in SessionsOf(x)
  <2>1. NoAgent \in Agents /\ <<>> \in Seq(Passages) /\ <<>> \in Founds(x) /\ 0 \in 0 .. MaxIterations
    BY NothingFound, SessionAssumption DEF NoAgent, Agents
  <2>2. QED
    BY <2>1 DEF Unstarted, SessionsOf, Founds
<1>2. compiled \in Seq([key : Keys, agent : Agents]) /\ Len(compiled) <= AgentCacheSize
  BY SessionAssumption DEF AInit
<1>3. meter \in [Requests -> Meters]
  BY DEF AInit, NoTokens, Meters
<1>4. DOMAIN spent = Requests /\ \A r \in Requests : spent[r] \in 0 .. MaxSpent[r]
  BY SessionAssumption DEF AInit
<1>5. sink \in [Requests -> Seq(Passages)] /\ given \in [Requests -> SUBSET Passages]
  BY DEF AInit
<1>6. QED
  BY <1>1, <1>2, <1>3, <1>4, <1>5 DEF AInit, ATypeOK

\* Only one session changes, and it stays of its kind.
LEMMA SessionType ==
  ASSUME ATypeOK, NEW x \in Sessions, NEW s \in SessionsOf(x), session' = [session EXCEPT ![x] = s]
  PROVE  DOMAIN session' = Sessions /\ \A y \in Sessions : session'[y] \in SessionsOf(y)
  BY DEF ATypeOK

\* A run that is over keeps its agent and what its request has collected.
LEMMA ClosedIs ==
  ASSUME ATypeOK, NEW x \in Sessions, session' = Closed(x)
  PROVE  /\ DOMAIN session' = Sessions /\ \A y \in Sessions : session'[y] \in SessionsOf(y)
         /\ \A y \in Sessions \ {x} : session'[y] = session[y]
         /\ session'[x].agent = session[x].agent /\ session'[x].at = "over"
         /\ session'[x].found = <<>> /\ session'[x].final = sink[RequestOf[x]]
<1> DEFINE s == [session[x] EXCEPT !.at = "over", !.found = <<>>, !.final = Snapshot(x)]
<1>1. Snapshot(x) \in Seq(Passages)
  BY SessionAssumption DEF Snapshot, ATypeOK
<1>2. s \in SessionsOf(x) /\ s.agent = session[x].agent /\ s.at = "over"
      /\ s.found = <<>> /\ s.final = sink[RequestOf[x]]
  BY <1>1, NothingFound DEF ATypeOK, SessionsOf, Founds, Snapshot
<1>3. session' = [session EXCEPT ![x] = s]
  BY DEF Closed, ATypeOK, SessionsOf
<1> HIDE DEF s
<1>4. session'[x] = s /\ \A y \in Sessions \ {x} : session'[y] = session[y]
  BY <1>3 DEF ATypeOK
<1>5. QED
  BY <1>2, <1>3, <1>4, SessionType

\* A broken one keeps its agent and its unfinished tools.
LEMMA BrokenIs ==
  ASSUME ATypeOK, NEW x \in Sessions, Breaks(x)
  PROVE  /\ DOMAIN session' = Sessions /\ \A y \in Sessions : session'[y] \in SessionsOf(y)
         /\ \A y \in Sessions \ {x} : session'[y] = session[y]
         /\ session'[x].agent = session[x].agent /\ session'[x].at = "broken"
         /\ session'[x].found = session[x].found
<1> DEFINE s == [session[x] EXCEPT !.at = "broken", !.final = Snapshot(x)]
<1>1. Snapshot(x) \in Seq(Passages)
  BY SessionAssumption DEF Snapshot, ATypeOK
<1>2. s \in SessionsOf(x) /\ s.agent = session[x].agent /\ s.at = "broken" /\ s.found = session[x].found
  BY <1>1 DEF ATypeOK, SessionsOf
<1>3. session' = [session EXCEPT ![x] = s]
  BY DEF Breaks, ATypeOK, SessionsOf
<1> HIDE DEF s
<1>4. session'[x] = s /\ \A y \in Sessions \ {x} : session'[y] = session[y]
  BY <1>3 DEF ATypeOK
<1>5. QED
  BY <1>2, <1>3, <1>4, SessionType

\* A tool's result changes, and nothing else.
LEMMA ToolIs ==
  ASSUME ATypeOK, NEW x \in Sessions, NEW t, Busy(x, t)
  PROVE  /\ session[x] \in SessionsOf(x) /\ session[x].at \in {"tools", "broken"}
         /\ t \in DOMAIN session[x].found /\ t \in ToolCalls[x]
         /\ session[x].found[t] \in Results
         /\ \A v \in Results : [session[x].found EXCEPT ![t] = v] \in Founds(x)
<1>1. session[x] \in SessionsOf(x) /\ session[x].at \in {"tools", "broken"} /\ t \in DOMAIN session[x].found
  BY DEF ATypeOK, Busy
<1>2. PICK T \in SUBSET ToolCalls[x] : session[x].found \in [T -> Results]
  BY <1>1 DEF SessionsOf
<1>3. ASSUME NEW v \in Results PROVE [session[x].found EXCEPT ![t] = v] \in Founds(x)
  <2>1. [session[x].found EXCEPT ![t] = v] \in [T -> Results]
    BY <1>2
  <2>2. QED
    BY <2>1 DEF Founds
<1>4. QED
  BY <1>1, <1>2, <1>3

LEMMA ToolType ==
  ASSUME ATypeOK, NEW x \in Sessions, NEW t, Busy(x, t), NEW v \in {{}} \cup {{p} : p \in Passages},
         \/ session' = [session EXCEPT ![x].found[t].passages = v]
         \/ session' = [session EXCEPT ![x].found[t].done = TRUE]
  PROVE  DOMAIN session' = Sessions /\ \A y \in Sessions : session'[y] \in SessionsOf(y)
<1>1. CASE session' = [session EXCEPT ![x].found[t].passages = v]
  <2> DEFINE w == [session[x].found[t] EXCEPT !.passages = v]
             s == [session[x] EXCEPT !.found = [@ EXCEPT ![t] = w]]
  <2>1. w \in Results
    BY ToolIs DEF Results
  <2>2. s \in SessionsOf(x)
    BY <2>1, ToolIs DEF SessionsOf, Founds
  <2>3. session' = [session EXCEPT ![x] = s]
    BY <1>1
  <2>4. QED
    BY <2>2, <2>3, SessionType
<1>2. CASE session' = [session EXCEPT ![x].found[t].done = TRUE]
  <2> DEFINE w == [session[x].found[t] EXCEPT !.done = TRUE]
             s == [session[x] EXCEPT !.found = [@ EXCEPT ![t] = w]]
  <2>1. w \in Results
    BY ToolIs DEF Results
  <2>2. s \in SessionsOf(x)
    BY <2>1, ToolIs DEF SessionsOf, Founds
  <2>3. session' = [session EXCEPT ![x] = s]
    BY <1>2
  <2>4. QED
    BY <2>2, <2>3, SessionType
<1>3. QED
  BY <1>1, <1>2

LEMMA NewType ==
  ASSUME ATypeOK, NEW x \in Sessions, NEW t, Busy(x, t), NEW r
  PROVE  LET T == Unseen(r, session[x].found[t].passages) IN
         SetToSeq(T) \in Seq(Passages) /\ Range(SetToSeq(T)) = T /\ IsInjective(SetToSeq(T))
<1> DEFINE T == Unseen(r, session[x].found[t].passages)
<1>1. session[x].found[t].passages \in {{}} \cup {{p} : p \in Passages}
  BY ToolIs DEF Results
<1>2. T \in SUBSET Passages /\ (T = {} \/ \E p : T = {p})
  BY <1>1 DEF Unseen
<1> HIDE DEF T
<1>3. SetToSeq(T) \in Seq(Passages) /\ Range(SetToSeq(T)) = T /\ IsInjective(SetToSeq(T))
  BY <1>2, Collected
<1>4. QED
  BY <1>3 DEF T

LEMMA ATypeStep ==
  ASSUME ATypeOK, [ANext]_avars
  PROVE  ATypeOK'
<1>1. ASSUME NEW x \in Sessions, Open(x) PROVE ATypeOK'
  <2> DEFINE s == [session[x] EXCEPT !.at = "model", !.agent = AgentFor(x)]
  <2>1. s \in SessionsOf(x)
    BY AgentType DEF ATypeOK, SessionsOf
  <2>2. session' = [session EXCEPT ![x] = s]
    BY <1>1 DEF Open, ATypeOK, SessionsOf
  <2>3. DOMAIN session' = Sessions /\ \A y \in Sessions : session'[y] \in SessionsOf(y)
    BY <2>1, <2>2, SessionType
  <2>4. compiled' \in Seq([key : Keys, agent : Agents]) /\ Len(compiled') <= AgentCacheSize
    BY <1>1, AgentType DEF Open, Entries
  <2>5. QED
    BY <1>1, <2>3, <2>4 DEF Open, ATypeOK
<1>2. ASSUME NEW x \in Sessions, ChooseTools(x) PROVE ATypeOK'
  <2>1. PICK chosen \in SUBSET ToolCalls[x] \ {{}} :
          session' = [session EXCEPT ![x].at = "tools", ![x].turns = @ + 1, ![x].found = [t \in chosen |-> Searching]]
    BY <1>2 DEF ChooseTools
  <2> DEFINE s == [session[x] EXCEPT !.at = "tools", !.turns = @ + 1, !.found = [t \in chosen |-> Searching]]
  <2>2. [t \in chosen |-> Searching] \in Founds(x)
    <3>1. Searching \in Results
      BY DEF Searching, Results
    <3>2. [t \in chosen |-> Searching] \in [chosen -> Results] /\ chosen \in SUBSET ToolCalls[x]
      BY <3>1
    <3>3. QED
      BY <3>2 DEF Founds
  <2>3. session[x].turns + 1 \in 0 .. MaxIterations
    BY <1>2, SessionAssumption DEF ChooseTools, ATypeOK, SessionsOf
  <2>4. s \in SessionsOf(x)
    BY <2>2, <2>3 DEF ATypeOK, SessionsOf, Founds
  <2>5. session' = [session EXCEPT ![x] = s]
    BY <2>1 DEF ATypeOK, SessionsOf
  <2>6. DOMAIN session' = Sessions /\ \A y \in Sessions : session'[y] \in SessionsOf(y)
    BY <2>4, <2>5, SessionType
  <2>7. CallsModel(RequestOf[x], TRUE) /\ RequestOf[x] \in Requests
    BY <1>2, SessionAssumption DEF ChooseTools
  <2>8. /\ meter' \in [Requests -> Meters]
        /\ DOMAIN spent' = Requests /\ \A q \in Requests : spent'[q] \in 0 .. MaxSpent[q]
    BY <2>7, CallType
  <2>9. QED
    BY <1>2, <2>6, <2>8 DEF ChooseTools, ATypeOK
<1>3. ASSUME NEW x \in Sessions, GiveAnswer(x) PROVE ATypeOK'
  <2>1. DOMAIN session' = Sessions /\ \A y \in Sessions : session'[y] \in SessionsOf(y)
    BY <1>3, ClosedIs DEF GiveAnswer
  <2>2. CallsModel(RequestOf[x], TRUE) /\ RequestOf[x] \in Requests
    BY <1>3, SessionAssumption DEF GiveAnswer
  <2>3. /\ meter' \in [Requests -> Meters]
        /\ DOMAIN spent' = Requests /\ \A q \in Requests : spent'[q] \in 0 .. MaxSpent[q]
    BY <2>2, CallType
  <2>4. QED
    BY <1>3, <2>1, <2>3 DEF GiveAnswer, ATypeOK
<1>4. ASSUME NEW x \in Sessions, Breaks(x) PROVE ATypeOK'
  <2>1. DOMAIN session' = Sessions /\ \A y \in Sessions : session'[y] \in SessionsOf(y)
    BY <1>4, BrokenIs
  <2>2. QED
    BY <1>4, <2>1 DEF Breaks, ATypeOK
<1>5. ASSUME NEW x \in Sessions, ToolsReturn(x) PROVE ATypeOK'
  <2> DEFINE s == [session[x] EXCEPT !.at = "model", !.found = <<>>]
  <2>1. s \in SessionsOf(x)
    BY NothingFound DEF ATypeOK, SessionsOf, Founds
  <2>2. session' = [session EXCEPT ![x] = s]
    BY <1>5 DEF ToolsReturn, ATypeOK, SessionsOf
  <2>3. DOMAIN session' = Sessions /\ \A y \in Sessions : session'[y] \in SessionsOf(y)
    BY <2>1, <2>2, SessionType
  <2>4. QED
    BY <1>5, <2>3 DEF ToolsReturn, ATypeOK
<1>6. ASSUME NEW x \in Sessions, NEW t \in ToolCalls[x], RerankCall(x, t) PROVE ATypeOK'
  <2>1. CallsModel(RequestOf[x], MeterBound) /\ RequestOf[x] \in Requests /\ MeterBound \in BOOLEAN
    BY <1>6, SessionAssumption DEF RerankCall, MeterBound
  <2>2. /\ meter' \in [Requests -> Meters]
        /\ DOMAIN spent' = Requests /\ \A q \in Requests : spent'[q] \in 0 .. MaxSpent[q]
    BY <2>1, CallType
  <2>3. QED
    BY <1>6, <2>2 DEF RerankCall, ATypeOK
<1>7. ASSUME NEW x \in Sessions, NEW t \in ToolCalls[x], SearchStore(x, t) PROVE ATypeOK'
  <2>1. PICK p \in Passages :
          /\ session' = [session EXCEPT ![x].found[t].passages = {p}]
          /\ given' = [given EXCEPT ![RequestOf[x]] = @ \cup {p}]
    BY <1>7 DEF SearchStore
  <2>2. DOMAIN session' = Sessions /\ \A y \in Sessions : session'[y] \in SessionsOf(y)
    <3>1. {p} \in {{}} \cup {{q} : q \in Passages} /\ Busy(x, t)
      BY <1>7 DEF SearchStore
    <3>2. QED
      BY <2>1, <3>1, ToolType
  <2>3. given' \in [Requests -> SUBSET Passages]
    BY <2>1 DEF ATypeOK
  <2>4. QED
    BY <1>7, <2>2, <2>3 DEF SearchStore, ATypeOK
<1>8. ASSUME NEW x \in Sessions, NEW t \in ToolCalls[x], Collect(x, t) PROVE ATypeOK'
  <2> DEFINE r == Bound(x)
             new == SetToSeq(Unseen(r, session[x].found[t].passages))
  <2>1. sink' = [sink EXCEPT ![r] = @ \o new] /\ session' = [session EXCEPT ![x].found[t].done = TRUE]
    BY <1>8 DEF Collect
  <2>2. DOMAIN session' = Sessions /\ \A y \in Sessions : session'[y] \in SessionsOf(y)
    BY <1>8, <2>1, ToolType DEF Collect
  <2>3. new \in Seq(Passages)
    BY <1>8, NewType DEF Collect
  <2>4. sink' \in [Requests -> Seq(Passages)]
    <3> HIDE DEF new
    <3>1. \A q \in Seq(Passages) : q \o new \in Seq(Passages)
      BY <2>3
    <3>2. QED
      BY <2>1, <3>1 DEF ATypeOK
  <2>5. QED
    BY <1>8, <2>2, <2>4 DEF Collect, ATypeOK
<1>9. CASE UNCHANGED avars
  BY <1>9 DEF avars, ATypeOK
<1>10. QED
  BY <1>1, <1>2, <1>3, <1>4, <1>5, <1>6, <1>7, <1>8, <1>9 DEF ANext

\* Sessions, collectors, agents and meters stay of their kinds and within their bounds.
THEOREM AgentTypeCorrect == ASpec => []ATypeOK
  BY ATypeInit, ATypeStep, PTL DEF ASpec

-----------------------------------------------------------------------------
(* Every agent in the cache is what its key says, so a session that finds   *)
(* one runs on its own model, and only sessions that are to be remembered   *)
(* leave their turns behind.                                                *)

KeyFits == \A e \in Range(compiled) : e.agent.model = e.key.model /\ e.agent.remember = e.key.remember

FitInv == KeyFits /\ AgentFits

LEMMA FitInit == AInit => FitInv
<1> SUFFICES ASSUME AInit PROVE FitInv
  OBVIOUS
<1>1. Range(compiled) = {}
  BY DEF AInit, Range
<1>2. \A x \in Sessions : session[x].at = "new"
  BY DEF AInit, Unstarted
<1>3. QED
  BY <1>1, <1>2 DEF AInit, FitInv, KeyFits, AgentFits

LEMMA AgentIsFit ==
  ASSUME ATypeOK, KeyFits, NEW x \in Sessions
  PROVE  /\ AgentFor(x).model = ModelOf[x] /\ AgentFor(x).remember = Remembers[x]
         /\ \A e \in Range(Refreshed(x)) : e.agent.model = e.key.model /\ e.agent.remember = e.key.remember
<1>1. AgentFor(x).model = ModelOf[x] /\ AgentFor(x).remember = Remembers[x]
  <2> DEFINE held == {i \in DOMAIN compiled : compiled[i].key = KeyOf(x)}
  <2>1. CASE held = {}
    BY <2>1 DEF AgentFor, Compiled
  <2>2. CASE held # {}
    <3> DEFINE i == CHOOSE j \in held : TRUE
    <3>1. i \in held /\ AgentFor(x) = compiled[i].agent
      BY <2>2 DEF AgentFor
    <3> HIDE DEF i
    <3>2. compiled[i] \in Range(compiled) /\ compiled[i].key = KeyOf(x)
      BY <3>1 DEF Range
    <3>3. QED
      BY <3>1, <3>2 DEF KeyFits, KeyOf
  <2>3. QED
    BY <2>1, <2>2
<1> DEFINE others == Keep(compiled, {e \in Range(compiled) : e.key # KeyOf(x)})
           entry  == [key |-> KeyOf(x), agent |-> AgentFor(x)]
           all    == Append(others, entry)
<1>2. others \in Seq(Entries) /\ Range(others) \subseteq Range(compiled) /\ entry \in Entries
  <2>1. compiled \in Seq(Entries)
    BY DEF ATypeOK, Entries
  <2>2. KeyOf(x) \in Keys
    BY SessionAssumption DEF KeyOf, Keys
  <2>3. QED
    BY <2>1, <2>2, KeepRange, AgentType DEF Entries
<1>3. entry.agent.model = entry.key.model /\ entry.agent.remember = entry.key.remember
  BY <1>1 DEF KeyOf
<1>4. Refreshed(x) = IF Len(all) > AgentCacheSize THEN Tail(all) ELSE all
  BY DEF Refreshed
<1> HIDE DEF others, entry
<1>5. Range(all) = Range(others) \cup {entry} /\ all \in Seq(Entries) /\ all # <<>>
  BY <1>2, RangeAppend
<1>6. Range(Refreshed(x)) \subseteq Range(all)
  <2> HIDE DEF all
  <2>1. QED
    BY <1>4, <1>5, RangeTail
<1>7. \A e \in Range(Refreshed(x)) : e \in Range(compiled) \/ e = entry
  BY <1>2, <1>5, <1>6
<1>8. QED
  BY <1>1, <1>3, <1>7 DEF KeyFits

LEMMA FitStep ==
  ASSUME ATypeOK, FitInv, [ANext]_avars
  PROVE  FitInv'
<1> USE DEF FitInv
<1>1. ASSUME NEW x \in Sessions, Open(x) PROVE FitInv'
  <2>1. KeyFits'
    BY <1>1, AgentIsFit DEF Open, KeyFits
  <2>2. /\ history' = history
        /\ session'[x].agent = AgentFor(x)
        /\ \A y \in Sessions \ {x} : session'[y] = session[y]
    BY <1>1 DEF Open, ATypeOK, SessionsOf
  <2>3. AgentFits'
    BY <2>2, AgentIsFit DEF AgentFits
  <2>4. QED
    BY <2>1, <2>3
<1>2. ASSUME UNCHANGED compiled, NEW x \in Sessions, session[x].at # "new",
             session'[x].agent = session[x].agent,
             \A y \in Sessions \ {x} : session'[y] = session[y],
             history' = history \/ (history' = history \cup {x} /\ session[x].agent.remember)
      PROVE  FitInv'
  BY <1>2 DEF KeyFits, AgentFits
<1>3. ASSUME NEW x \in Sessions, ChooseTools(x) PROVE FitInv'
  <2>1. /\ UNCHANGED <<compiled, history>> /\ session[x].at = "model"
        /\ session'[x].agent = session[x].agent
        /\ \A y \in Sessions \ {x} : session'[y] = session[y]
    BY <1>3 DEF ChooseTools, ATypeOK, SessionsOf
  <2>2. QED
    BY <1>2, <2>1
<1>4. ASSUME NEW x \in Sessions, GiveAnswer(x) \/ Breaks(x) PROVE FitInv'
  <2>1. compiled' = compiled /\ session[x].at # "new"
    BY <1>4 DEF GiveAnswer, Breaks
  <2>2. session'[x].agent = session[x].agent /\ \A y \in Sessions \ {x} : session'[y] = session[y]
    BY <1>4, ClosedIs, BrokenIs DEF GiveAnswer
  <2>3. history' = history \/ (history' = history \cup {x} /\ session[x].agent.remember)
    BY <1>4 DEF GiveAnswer, Breaks
  <2>4. QED
    BY <1>2, <2>1, <2>2, <2>3
<1>5. ASSUME NEW x \in Sessions, ToolsReturn(x) PROVE FitInv'
  <2>1. /\ UNCHANGED <<compiled, history>> /\ session[x].at # "new"
        /\ session'[x].agent = session[x].agent
        /\ \A y \in Sessions \ {x} : session'[y] = session[y]
    BY <1>5 DEF ToolsReturn, ATypeOK, SessionsOf
  <2>2. QED
    BY <1>2, <2>1
<1>6. ASSUME NEW x \in Sessions, NEW t \in ToolCalls[x], SearchStore(x, t) \/ Collect(x, t) PROVE FitInv'
  <2>1. /\ UNCHANGED <<compiled, history>> /\ session[x].at # "new"
        /\ session'[x].agent = session[x].agent
        /\ \A y \in Sessions \ {x} : session'[y] = session[y]
    BY <1>6 DEF SearchStore, Collect, Busy, ATypeOK, SessionsOf
  <2>2. QED
    BY <1>2, <2>1
<1>7. ASSUME NEW x \in Sessions, NEW t \in ToolCalls[x], RerankCall(x, t) PROVE FitInv'
  BY <1>7 DEF RerankCall, KeyFits, AgentFits
<1>8. CASE UNCHANGED avars
  BY <1>8 DEF avars, KeyFits, AgentFits
<1>9. QED
  BY <1>1, <1>3, <1>4, <1>5, <1>6, <1>7, <1>8 DEF ANext

\* A session runs on its own model, and a second pass leaves nothing behind.
THEOREM AgentFitsHolds == ASpec => []AgentFits
<1>1. FitInv => AgentFits
  BY DEF FitInv
<1>2. QED
  BY <1>1, AgentTypeCorrect, FitInit, FitStep, PTL DEF ASpec

-----------------------------------------------------------------------------
(* The meter.  Its estimate of the prompts counts every call, and its two   *)
(* views of the completions count every call between them.                  *)

MeterInv ==
  \A r \in Requests : /\ meter[r].estimatedInput = spent[r]
                      /\ meter[r].output + meter[r].estimatedOutput = spent[r]

LEMMA MeterCall ==
  ASSUME ATypeOK, MeterInv, NEW r \in Requests, CallsModel(r, TRUE)
  PROVE  MeterInv'
<1>1. PICK invoiced \in BOOLEAN : meter' = [meter EXCEPT ![r] = Charged(meter[r], invoiced)]
  BY DEF CallsModel
<1>2. spent' = [spent EXCEPT ![r] = spent[r] + 1]
  BY DEF CallsModel
<1>3. /\ meter'[r].estimatedInput = meter[r].estimatedInput + 1
      /\ meter'[r].output + meter'[r].estimatedOutput = meter[r].output + meter[r].estimatedOutput + 1
  BY <1>1, ChargedIs DEF ATypeOK
<1>4. spent'[r] = spent[r] + 1
  BY <1>2 DEF ATypeOK
<1>5. \A q \in Requests \ {r} : meter'[q] = meter[q] /\ spent'[q] = spent[q]
  BY <1>1, <1>2 DEF ATypeOK
<1>6. QED
  BY <1>3, <1>4, <1>5 DEF MeterInv

\* Every call is on the bill, its prompt in full and its completion at least by half.
THEOREM MeterHolds == ASpec => []EveryCallIsMetered
<1>1. AInit => MeterInv
  BY DEF AInit, MeterInv, NoTokens
<1>2. ASSUME ATypeOK, MeterInv, [ANext]_avars PROVE MeterInv'
  <2>1. CASE UNCHANGED <<meter, spent>>
    BY <1>2, <2>1 DEF MeterInv
  <2>2. ASSUME NEW x \in Sessions, ChooseTools(x) \/ GiveAnswer(x) PROVE MeterInv'
    BY <1>2, <2>2, MeterCall, SessionAssumption DEF ChooseTools, GiveAnswer
  <2>3. ASSUME NEW x \in Sessions, NEW t \in ToolCalls[x], RerankCall(x, t) PROVE MeterInv'
    BY <1>2, <2>3, MeterCall, SessionAssumption DEF RerankCall, MeterBound
  <2>4. ASSUME NEW x \in Sessions, Open(x) \/ Breaks(x) \/ ToolsReturn(x) PROVE UNCHANGED <<meter, spent>>
    BY <2>4 DEF Open, Breaks, ToolsReturn
  <2>5. ASSUME NEW x \in Sessions, NEW t \in ToolCalls[x], SearchStore(x, t) \/ Collect(x, t)
        PROVE UNCHANGED <<meter, spent>>
    BY <2>5 DEF SearchStore, Collect
  <2>6. QED
    BY <1>2, <2>1, <2>2, <2>3, <2>4, <2>5 DEF ANext, avars
<1>3. ASSUME ATypeOK, MeterInv PROVE EveryCallIsMetered
  <2> SUFFICES ASSUME NEW r \in Requests
               PROVE  Totals(r).input >= spent[r] /\ 2 * Totals(r).output >= spent[r]
    BY DEF EveryCallIsMetered
  <2>1. /\ meter[r].input \in Nat /\ meter[r].output \in Nat
        /\ meter[r].estimatedInput \in Nat /\ meter[r].estimatedOutput \in Nat
    BY <1>3 DEF ATypeOK, Meters
  <2>2. QED
    BY <1>3, <2>1 DEF MeterInv, Totals, MaxOf
<1>4. QED
  BY <1>1, <1>2, <1>3, AgentTypeCorrect, PTL DEF ASpec

-----------------------------------------------------------------------------
(* The evidence.  A tool holds only what the stores gave its own request,   *)
(* and the collector is read by a session that runs, or was read by the one *)
(* that ended last: unless a run was broken off, whose threads go on,       *)
(* nobody adds to it while no session runs.                                 *)

Began(r) == {x \in Sessions : RequestOf[x] = r /\ session[x].at # "new"}
Read(r)  == Began(r) # {} => \E x \in Began(r) : session[x].at = "broken" \/ Sources(x) = sink[r]
Own(r)   == IsInjective(sink[r]) /\ Range(sink[r]) \subseteq given[r]
Given(x) == \A t \in DOMAIN session[x].found : session[x].found[t].passages \subseteq given[RequestOf[x]]

EvidenceInv == (\A r \in Requests : Read(r) /\ Own(r)) /\ \A x \in Sessions : Given(x)

\* One session moves, and its request's collector is there to be read.
LEMMA EvidenceStep ==
  ASSUME ATypeOK, EvidenceInv, NEW x \in Sessions,
         \A y \in Sessions \ {x} : session'[y] = session[y],
         session'[x].at # "new", session'[x].at = "broken" \/ Sources(x)' = sink'[RequestOf[x]],
         Own(RequestOf[x])', Given(x)',
         \A r \in Requests \ {RequestOf[x]} : sink'[r] = sink[r],
         \A r \in Requests : given[r] \subseteq given'[r]
  PROVE  EvidenceInv'
<1>0. RequestOf \in [Sessions -> Requests]
  BY SessionAssumption
<1>1. ASSUME NEW r \in Requests PROVE Read(r)' /\ Own(r)'
  <2>1. CASE r = RequestOf[x]
    BY <2>1 DEF Read, Began
  <2>2. CASE r # RequestOf[x]
    <3>1. Own(r)'
      BY <2>2 DEF EvidenceInv, Own
    <3>2. Began(r)' = Began(r)
      BY <2>2 DEF Began
    <3>3. \A y \in Began(r) : y # x /\ RequestOf[y] = r /\ y \in Sessions
      BY <2>2 DEF Began
    <3>4. \A y \in Began(r) : Sources(y)' = Sources(y)
      BY <2>2, <3>3 DEF Sources
    <3>5. QED
      BY <2>2, <3>1, <3>2, <3>3, <3>4 DEF EvidenceInv, Read
  <2>3. QED
    BY <2>1, <2>2
<1>2. ASSUME NEW y \in Sessions, y # x PROVE Given(y)'
  BY <1>0, <1>2 DEF EvidenceInv, Given
<1>3. QED
  BY <1>1, <1>2 DEF EvidenceInv

\* A step that leaves the collectors and the sessions that read them.
LEMMA EvidenceStays ==
  ASSUME ATypeOK, EvidenceInv, NEW x \in Sessions, UNCHANGED <<sink, given>>,
         \A y \in Sessions \ {x} : session'[y] = session[y],
         session'[x].at \in {"model", "tools", "broken"} \/ session'[x].final = sink[RequestOf[x]],
         session'[x].at # "new",
         \A t \in DOMAIN session'[x].found : session'[x].found[t].passages \subseteq given[RequestOf[x]]
  PROVE  EvidenceInv'
<1>1. session'[x].at = "broken" \/ Sources(x)' = sink'[RequestOf[x]]
  BY DEF Sources
<1>2. Own(RequestOf[x])'
  BY SessionAssumption DEF EvidenceInv, Own
<1>3. Given(x)'
  BY DEF Given
<1>4. QED
  BY <1>1, <1>2, <1>3, EvidenceStep

LEMMA EvidenceInit == AInit => EvidenceInv
<1> SUFFICES ASSUME AInit PROVE EvidenceInv
  OBVIOUS
<1>1. ASSUME NEW r \in Requests PROVE Read(r) /\ Own(r)
  <2>1. sink[r] = <<>> /\ Range(sink[r]) = {} /\ IsInjective(sink[r])
    BY DEF AInit, Range, IsInjective
  <2>2. Began(r) = {}
    BY DEF AInit, Began, Unstarted
  <2>3. QED
    BY <2>1, <2>2 DEF Read, Own
<1>2. ASSUME NEW x \in Sessions PROVE Given(x)
  BY DEF AInit, Given, Unstarted
<1>3. QED
  BY <1>1, <1>2 DEF EvidenceInv

\* What a tool adds is new to the collector, and was given to the request.
LEMMA CollectorGrows ==
  ASSUME NEW q \in Seq(Passages), NEW n \in Seq(Passages), NEW G,
         IsInjective(q), IsInjective(n), Range(q) \cap Range(n) = {},
         Range(q) \subseteq G, Range(n) \subseteq G
  PROVE  IsInjective(q \o n) /\ Range(q \o n) \subseteq G
<1> DEFINE s == q \o n
<1>1. Len(q) \in Nat /\ Len(n) \in Nat /\ DOMAIN q = 1..Len(q) /\ DOMAIN n = 1..Len(n)
  OBVIOUS
<1>2. s \in Seq(Passages) /\ Len(s) = Len(q) + Len(n) /\ DOMAIN s = 1..(Len(q) + Len(n))
  BY <1>1
<1>3. \A i \in 1..Len(q) : s[i] = q[i] /\ s[i] \in Range(q)
  BY <1>1 DEF Range
<1>4. \A i \in DOMAIN s : i \notin 1..Len(q) => i - Len(q) \in 1..Len(n) /\ s[i] = n[i - Len(q)] /\ s[i] \in Range(n)
  <2> SUFFICES ASSUME NEW i \in DOMAIN s, i \notin 1..Len(q)
               PROVE  i - Len(q) \in 1..Len(n) /\ s[i] = n[i - Len(q)] /\ s[i] \in Range(n)
    OBVIOUS
  <2>1. i \in Nat /\ i > Len(q) /\ i <= Len(q) + Len(n)
    BY <1>1, <1>2
  <2>2. i - Len(q) \in 1..Len(n)
    BY <1>1, <2>1
  <2>3. s[i] = n[i - Len(q)]
    BY <1>1, <2>1
  <2>4. QED
    BY <1>1, <2>2, <2>3 DEF Range
<1> HIDE DEF s
<1>5. IsInjective(s)
  <2> SUFFICES ASSUME NEW i \in DOMAIN s, NEW j \in DOMAIN s, s[i] = s[j] PROVE i = j
    BY DEF IsInjective
  <2>1. CASE i \in 1..Len(q)
    <3>1. j \in 1..Len(q)
      BY <1>3, <1>4, <2>1
    <3>2. q[i] = q[j]
      BY <1>3, <2>1, <3>1
    <3>3. QED
      BY <1>1, <2>1, <3>1, <3>2 DEF IsInjective
  <2>2. CASE i \notin 1..Len(q)
    <3>1. j \notin 1..Len(q)
      BY <1>3, <1>4, <2>2
    <3>2. n[i - Len(q)] = n[j - Len(q)] /\ i - Len(q) \in 1..Len(n) /\ j - Len(q) \in 1..Len(n)
      BY <1>4, <2>2, <3>1
    <3>3. i - Len(q) = j - Len(q) /\ i \in Nat /\ j \in Nat
      BY <1>1, <1>2, <3>2 DEF IsInjective
    <3>4. QED
      BY <1>1, <3>3
  <2>3. QED
    BY <2>1, <2>2
<1>6. Range(s) \subseteq G
  BY <1>3, <1>4 DEF Range
<1>7. QED
  BY <1>5, <1>6 DEF s

LEMMA EvidenceKept ==
  ASSUME ATypeOK, EvidenceInv, [ANext]_avars
  PROVE  EvidenceInv'
<1>0. \A x \in Sessions : RequestOf[x] \in Requests
  BY SessionAssumption
<1>1. ASSUME NEW x \in Sessions, Open(x) PROVE EvidenceInv'
  <2> DEFINE s == [session[x] EXCEPT !.at = "model", !.agent = AgentFor(x)]
  <2>1. session' = [session EXCEPT ![x] = s] /\ UNCHANGED <<sink, given>>
    BY <1>1 DEF Open, ATypeOK, SessionsOf
  <2>2. s.at = "model" /\ s.found = session[x].found
    BY DEF ATypeOK, SessionsOf
  <2> HIDE DEF s
  <2>3. session'[x] = s /\ \A y \in Sessions \ {x} : session'[y] = session[y]
    BY <2>1 DEF ATypeOK
  <2>4. QED
    BY <2>1, <2>2, <2>3, EvidenceStays DEF EvidenceInv, Given
<1>2. ASSUME NEW x \in Sessions, ChooseTools(x) PROVE EvidenceInv'
  <2>1. PICK chosen \in SUBSET ToolCalls[x] \ {{}} :
          session' = [session EXCEPT ![x].at = "tools", ![x].turns = @ + 1, ![x].found = [t \in chosen |-> Searching]]
    BY <1>2 DEF ChooseTools
  <2> DEFINE s == [session[x] EXCEPT !.at = "tools", !.turns = @ + 1, !.found = [t \in chosen |-> Searching]]
  <2>2. session' = [session EXCEPT ![x] = s] /\ UNCHANGED <<sink, given>>
    BY <1>2, <2>1 DEF ChooseTools, ATypeOK, SessionsOf
  <2>3. s.at = "tools" /\ s.found = [t \in chosen |-> Searching]
    BY DEF ATypeOK, SessionsOf
  <2> HIDE DEF s
  <2>4. session'[x] = s /\ \A y \in Sessions \ {x} : session'[y] = session[y]
    BY <2>2 DEF ATypeOK
  <2>5. \A t \in DOMAIN s.found : s.found[t].passages = {}
    BY <2>3 DEF Searching
  <2>6. QED
    BY <2>2, <2>3, <2>4, <2>5, EvidenceStays
<1>3. ASSUME NEW x \in Sessions, GiveAnswer(x) \/ Breaks(x) PROVE EvidenceInv'
  <2>1. CASE GiveAnswer(x)
    <3>1. session' = Closed(x) /\ UNCHANGED <<sink, given>>
      BY <2>1 DEF GiveAnswer
    <3>2. QED
      BY <3>1, ClosedIs, EvidenceStays
  <2>2. CASE Breaks(x)
    <3>1. UNCHANGED <<sink, given>>
      BY <2>2 DEF Breaks
    <3>2. \A t \in DOMAIN session'[x].found : session'[x].found[t].passages \subseteq given[RequestOf[x]]
      BY <2>2, BrokenIs DEF EvidenceInv, Given
    <3>3. QED
      BY <2>2, <3>1, <3>2, BrokenIs, EvidenceStays
  <2>3. QED
    BY <1>3, <2>1, <2>2
<1>4. ASSUME NEW x \in Sessions, ToolsReturn(x) PROVE EvidenceInv'
  <2> DEFINE s == [session[x] EXCEPT !.at = "model", !.found = <<>>]
  <2>1. session' = [session EXCEPT ![x] = s] /\ UNCHANGED <<sink, given>>
    BY <1>4 DEF ToolsReturn, ATypeOK, SessionsOf
  <2>2. s.at = "model" /\ s.found = <<>>
    BY DEF ATypeOK, SessionsOf
  <2> HIDE DEF s
  <2>3. session'[x] = s /\ \A y \in Sessions \ {x} : session'[y] = session[y]
    BY <2>1 DEF ATypeOK
  <2>4. QED
    BY <2>1, <2>2, <2>3, EvidenceStays
<1>5. ASSUME NEW x \in Sessions, NEW t \in ToolCalls[x], RerankCall(x, t) PROVE EvidenceInv'
  BY <1>5 DEF RerankCall, EvidenceInv, Read, Began, Sources, Own, Given
<1>6. ASSUME NEW x \in Sessions, NEW t \in ToolCalls[x], SearchStore(x, t) PROVE EvidenceInv'
  <2>1. PICK p \in Passages :
          /\ session' = [session EXCEPT ![x].found[t].passages = {p}]
          /\ given' = [given EXCEPT ![RequestOf[x]] = @ \cup {p}]
    BY <1>6 DEF SearchStore
  <2>2. Busy(x, t) /\ sink' = sink
    BY <1>6 DEF SearchStore
  <2>3. /\ session[x].at \in {"tools", "broken"}
        /\ t \in DOMAIN session[x].found /\ session[x].found[t] \in Results
    BY <2>2, ToolIs
  <2> DEFINE w == [session[x].found[t] EXCEPT !.passages = {p}]
             s == [session[x] EXCEPT !.found = [@ EXCEPT ![t] = w]]
  <2>4. session' = [session EXCEPT ![x] = s]
    BY <2>1
  <2>5. s.at = session[x].at /\ s.found = [session[x].found EXCEPT ![t] = w] /\ w.passages = {p}
    BY <2>2, <2>3, ToolIs DEF SessionsOf, Results
  <2> HIDE DEF s, w
  <2>6. session'[x] = s /\ \A y \in Sessions \ {x} : session'[y] = session[y]
    BY <2>4 DEF ATypeOK
  <2>7. /\ given'[RequestOf[x]] = given[RequestOf[x]] \cup {p}
        /\ \A r \in Requests : given[r] \subseteq given'[r]
    BY <1>0, <2>1 DEF ATypeOK
  <2>8. Given(x)'
    BY <2>5, <2>6, <2>7 DEF EvidenceInv, Given
  <2>9. Own(RequestOf[x])'
    BY <1>0, <2>2, <2>7 DEF EvidenceInv, Own
  <2>10. session'[x].at = "broken" \/ Sources(x)' = sink'[RequestOf[x]]
    BY <2>3, <2>5, <2>6 DEF Sources
  <2>11. QED
    BY <2>2, <2>3, <2>5, <2>6, <2>7, <2>8, <2>9, <2>10, EvidenceStep
<1>7. ASSUME NEW x \in Sessions, NEW t \in ToolCalls[x], Collect(x, t) PROVE EvidenceInv'
  <2> DEFINE r   == RequestOf[x]
             T   == Unseen(r, session[x].found[t].passages)
             new == SetToSeq(T)
  <2>1. Busy(x, t) /\ sink' = [sink EXCEPT ![r] = @ \o new] /\ given' = given
    BY <1>7 DEF Collect, Bound
  <2>2. /\ session[x].at \in {"tools", "broken"}
        /\ t \in DOMAIN session[x].found /\ session[x].found[t] \in Results
    BY <2>1, ToolIs
  <2> DEFINE w == [session[x].found[t] EXCEPT !.done = TRUE]
             s == [session[x] EXCEPT !.found = [@ EXCEPT ![t] = w]]
  <2>3. session' = [session EXCEPT ![x] = s]
    BY <1>7 DEF Collect
  <2>4. s.at = session[x].at /\ s.found = [session[x].found EXCEPT ![t] = w] /\ w.passages = session[x].found[t].passages
    BY <2>1, <2>2, ToolIs DEF SessionsOf, Results
  <2> HIDE DEF s, w
  <2>5. session'[x] = s /\ \A y \in Sessions \ {x} : session'[y] = session[y]
    BY <2>3 DEF ATypeOK
  <2>6. new \in Seq(Passages) /\ Range(new) = T /\ IsInjective(new)
    BY <2>1, NewType
  <2>7. T \subseteq given[r] /\ T \cap Range(sink[r]) = {}
    BY <2>2 DEF EvidenceInv, Given, Unseen
  <2> HIDE DEF new, T
  <2>8. sink[r] \in Seq(Passages) /\ IsInjective(sink[r]) /\ Range(sink[r]) \subseteq given[r]
    BY <1>0 DEF EvidenceInv, Own, ATypeOK
  <2>9. sink'[r] = sink[r] \o new /\ \A q \in Requests \ {r} : sink'[q] = sink[q]
    BY <1>0, <2>1 DEF ATypeOK
  <2>10. Own(r)'
    <3>1. Range(sink[r]) \cap Range(new) = {} /\ Range(new) \subseteq given[r]
      BY <2>6, <2>7
    <3>2. IsInjective(sink[r] \o new) /\ Range(sink[r] \o new) \subseteq given[r]
      BY <2>6, <2>8, <3>1, CollectorGrows
    <3>3. QED
      BY <2>1, <2>9, <3>2 DEF Own
  <2>11. Given(x)'
    BY <2>1, <2>4, <2>5 DEF EvidenceInv, Given
  <2>12. session'[x].at = "broken" \/ Sources(x)' = sink'[r]
    BY <2>2, <2>4, <2>5 DEF Sources
  <2>13. QED
    BY <2>1, <2>2, <2>4, <2>5, <2>9, <2>10, <2>11, <2>12, EvidenceStep
<1>8. CASE UNCHANGED avars
  BY <1>8 DEF avars, EvidenceInv, Read, Began, Sources, Own, Given
<1>9. QED
  BY <1>1, <1>2, <1>3, <1>4, <1>5, <1>6, <1>7, <1>8 DEF ANext

\* What a request collects is its own, once, and a session of it has all of it to cite,
\* unless a run of it was broken off.
THEOREM EvidenceHolds == ASpec => []EvidenceIsOwn
<1>1. EvidenceInv => EvidenceIsOwn
  BY DEF EvidenceInv, EvidenceIsOwn, Read, Own, Began
<1>2. QED
  BY <1>1, AgentTypeCorrect, EvidenceInit, EvidenceKept, PTL DEF ASpec
=============================================================================
