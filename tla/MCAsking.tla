------------------------------ MODULE MCAsking ------------------------------
(***************************************************************************)
(* A behaviour is either one question in Asking, with room for a probe, a  *)
(* turn that picks a tool and a turn that answers, or three sessions of an *)
(* agent in AgentRun: the two passes of a review and another question.     *)
(***************************************************************************)
EXTENDS Asking, AgentRun, TLC

CONSTANTS pass1, pass2, other, p1, p2, t1, t2, t3
VARIABLE part

MCMaxCalls  == 3
MCRequestOf == pass1 :> "review" @@ pass2 :> "review" @@ other :> "question"
MCModelOf   == pass1 :> "m1" @@ pass2 :> "m1" @@ other :> "m1"
MCRemembers == pass1 :> TRUE @@ pass2 :> FALSE @@ other :> TRUE
MCToolCalls == pass1 :> {t1, t2} @@ pass2 :> {t3} @@ other :> {t3}
MCMaxSpent  == "review" :> 4 @@ "question" :> 2

Interchangeable == Permutations({p1, p2}) \cup Permutations({t1, t2})

\* While the sessions move, the question rests at one door.
MCInit ==
  /\ part \in {"question", "sessions"} /\ Init /\ AInit
  /\ part = "sessions" => door = "plain"

MCNext ==
  /\ UNCHANGED part
  /\ \/ part = "question" /\ Next  /\ UNCHANGED avars
     \/ part = "sessions" /\ ANext /\ UNCHANGED vars
=============================================================================
