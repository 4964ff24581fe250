----------------------------- MODULE MCAccounts -----------------------------
(***************************************************************************)
(* One account: a behaviour is either two calls of its life in Accounts,   *)
(* or two of its questions in Admission beside an edit of its limits.  One *)
(* message a window; an edit may let two into a day, or hand that back.    *)
(* Either the windows roll or a call fails: what is counted is judged only *)
(* without faults, and what is cached does not depend on the windows.      *)
(***************************************************************************)
EXTENDS Accounts, Admission

VARIABLE part

MCDefaults == [c \in Counters |-> 1]
MCPatches  == {[msg_day |-> 2], [msg_day |-> Inherit]}

\* Passwords are interchangeable, so the first one is any.  The account starts as
\* a user's: a call makes it an administrator's.  While the limits are asked for,
\* it rests.
MCInit ==
  /\ part \in {"life", "limits", "outage"} /\ Init /\ MInit
  /\ account.password = CHOOSE p \in Passwords : TRUE
  /\ account.role = "user"
  /\ part # "life" => account.status = "none"

MCNext ==
  /\ UNCHANGED part
  /\ \/ part = "life"   /\ Next  /\ UNCHANGED mvars
     \/ part = "limits" /\ MNext /\ UNCHANGED <<vars, faults>>
     \/ part = "outage" /\ Works /\ UNCHANGED vars

\* No part asks anything of the scheduler while another one moves.
MCSpec == MCInit /\ [][MCNext]_<<part, vars, mvars>> /\ Fairness /\ MFairness
=============================================================================
