------------------------------ MODULE Admission ------------------------------
(***************************************************************************)
(* What one account may still ask: limits/service.py, limits/deps.py, the  *)
(* limit edits of api/routers/admin.py and the booking of                  *)
(* usage/recorder.py.  (The cap on conversations is in Library.)           *)
(*                                                                         *)
(* The API is one process: a request runs until it awaits, so what a slot  *)
(* does in one step no other slot interrupts; it awaits the database, not  *)
(* Redis.  A call to Redis or a row that cannot be written is swallowed;   *)
(* such faults are counted and bounded.  Clock windows roll at any moment. *)
(***************************************************************************)
EXTENDS Naturals, FiniteSets

CONSTANTS
  Slots,     \* requests served at once
  Defaults,  \* the global limits to begin with
  Patches,   \* edits an administrator may make: some columns, each a value or Inherit
  Inherit,   \* NULL in a row of user_limits
  None,      \* nothing cached
  MaxCost,   \* bound: prompt tokens, and completion tokens, of one answer
  MaxEdits, MaxFaults   \* bounds

Messages == {"msg_minute", "msg_day"}
Tokens   == {"tok_day", "tok_month"}
Counters == Messages \cup Tokens

GlobalRows == [Counters -> Nat]
UserRows   == [Counters -> Nat \cup {Inherit}]

\* usage_events keeps no minutes.
Charted == {"msg_day", "tok_day", "tok_month"}

ASSUME DefaultsAssumption == Defaults \in [Counters -> Nat]
ASSUME PatchesAssumption  == \A p \in Patches :
  DOMAIN p \subseteq Counters /\ \A c \in DOMAIN p : p[c] \in Nat \cup {Inherit}
ASSUME AdmissionAssumption ==
  /\ IsFiniteSet(Slots) /\ Slots # {} /\ MaxCost \in Nat \ {0} /\ MaxEdits \in Nat /\ MaxFaults \in Nat
  /\ None \notin GlobalRows

VARIABLES
  global, override,   \* the rows of global_limits and user_limits
  limitsCached,       \* this account's effective limits in Redis, or None
  used,               \* the Redis counters of the windows now open
  charted,            \* what usage_events holds of those windows
  slot,               \* each request: where it is and what it remembers
  admin,              \* the administrator's edit under way
  edits, faults       \* bounds

mvars == <<global, override, limitsCached, used, charted, slot, admin, edits, faults>>

Nothing == [c \in Charted |-> 0]
Idle    == [at |-> "idle", limits |-> None, out |-> 0, owed |-> Nothing]

Serving ==
  [at : {"idle", "fill", "chat", "log", "run", "in", "out"}, limits : {None} \cup GlobalRows, out : 0..MaxCost,
   owed : [Charted -> 0..MaxCost]]

MTypeOK ==
  /\ global \in GlobalRows /\ override \in UserRows
  /\ limitsCached \in {None} \cup GlobalRows
  /\ used \in [Counters -> Nat] /\ charted \in [Charted -> Nat]
  /\ slot \in [Slots -> Serving] /\ admin \in {"none", "one", "all"}
  /\ edits \in 0..MaxEdits /\ faults \in 0..MaxFaults
-----------------------------------------------------------------------------
\* NULL means inherit: only the columns that are set override.
Effective == [c \in Counters |-> IF override[c] = Inherit THEN global[c] ELSE override[c]]

\* Does a call to Redis, or the commit of a row, succeed?
May(ok)   == ok \/ faults < MaxFaults
Count(ok) == faults' = IF ok THEN faults ELSE faults + 1

Proceeds(s, r)  == slot' = [slot EXCEPT ![s] = r]
Frees(s)    == Proceeds(s, Idle)
IsAt(s, here) == slot[s].at = here

\* effective(): the cached limits, or the rows, which are cached once read.
Asks(s) ==
  /\ IsAt(s, "idle")
  /\ \E ok \in BOOLEAN :
       /\ May(ok) /\ Count(ok)
       /\ IF ok /\ limitsCached # None
          THEN Proceeds(s, [Idle EXCEPT !.at = "chat", !.limits = limitsCached])
          ELSE Proceeds(s, [Idle EXCEPT !.at = "fill", !.limits = Effective])
  /\ UNCHANGED <<global, override, limitsCached, used, charted, admin, edits>>

Fill(s) ==
  /\ IsAt(s, "fill")
  /\ \E ok \in BOOLEAN :
       /\ May(ok) /\ Count(ok)
       /\ limitsCached' = IF ok THEN slot[s].limits ELSE limitsCached
  /\ Proceeds(s, [slot[s] EXCEPT !.at = "chat"])
  /\ UNCHANGED <<global, override, used, charted, admin, edits>>

\* Mutant: one more than allowed.
Exceeded(have, max) == have > max

\* A counter at its maximum refuses the next message, whatever that costs.
Full(have, max) == have >= max

\* Mutant: the monthly budget is never looked at.
SpentToday(limits) == Full(used["tok_day"], limits["tok_day"])

SentOut(limits) == \E c \in Messages : Full(used[c], limits[c])
Spent(limits)   == \E c \in Tokens : Full(used[c], limits[c])

Bump(u, cs, n) == [c \in DOMAIN u |-> IF c \in cs THEN u[c] + n ELSE u[c]]

\* enforce_message_limits(), after the limits are known: both checks and the
\* charge, without an await.  A counter that cannot be read lets through.
Gate(s) ==
  /\ IsAt(s, "chat")
  /\ \E seen, kept \in BOOLEAN :
       /\ seen \/ kept \/ faults + 1 < MaxFaults
       /\ May(seen /\ kept) /\ faults' = faults + (IF seen THEN 0 ELSE 1) + (IF kept THEN 0 ELSE 1)
       /\ IF seen /\ (SentOut(slot[s].limits) \/ Spent(slot[s].limits))
          THEN kept /\ Frees(s) /\ UNCHANGED used
          ELSE /\ used' = IF kept THEN Bump(used, Messages, 1) ELSE used
               /\ Proceeds(s, [Idle EXCEPT !.at = "log", !.owed = Bump(Nothing, {"msg_day"}, 1)])
  /\ UNCHANGED <<global, override, limitsCached, charted, admin, edits>>

\* The row of a usage event is committed, or lost with a warning.
Row(s, next) ==
  \E ok \in BOOLEAN :
    /\ May(ok) /\ Count(ok)
    /\ charted' = IF ok THEN [c \in Charted |-> charted[c] + slot[s].owed[c]] ELSE charted
    /\ next

LogMessage(s) ==
  /\ IsAt(s, "log")
  /\ Row(s, Proceeds(s, [Idle EXCEPT !.at = "run"]))
  /\ UNCHANGED <<global, override, limitsCached, used, admin, edits>>

\* Mutant: only completions count against the quota.
CountsOut(kind) == IF kind = "out" THEN Tokens ELSE {}

\* Prompt and completion tokens both count against the quota.
Billable(kind) == Tokens

\* record() of n tokens of a kind: the counters first, then the row.
Charge(s, kind, n, out) ==
  \E ok \in BOOLEAN :
    /\ May(ok) /\ Count(ok)
    /\ used' = IF ok THEN Bump(used, Billable(kind), n) ELSE used
    /\ Proceeds(s, [Idle EXCEPT !.at = kind, !.out = out, !.owed = Bump(Nothing, Tokens, n)])

\* The answer is out: record_answer_tokens().  A client that left books nothing.
Answered(s, in, out) ==
  /\ IsAt(s, "run")
  /\ IF in > 0 THEN Charge(s, "in", in, out)
     ELSE IF out > 0 THEN Charge(s, "out", out, 0)
     ELSE Frees(s) /\ UNCHANGED <<used, faults>>
  /\ UNCHANGED <<global, override, limitsCached, charted, admin, edits>>

\* The prompt's row is in; the completion is charged before the next await.
PromptRow(s) ==
  /\ IsAt(s, "in")
  /\ \E ok \in BOOLEAN :
       /\ May(ok)
       /\ charted' = IF ok THEN [c \in Charted |-> charted[c] + slot[s].owed[c]] ELSE charted
       /\ IF slot[s].out = 0
          THEN Count(ok) /\ Frees(s) /\ UNCHANGED used
          ELSE ok /\ Charge(s, "out", slot[s].out, 0)
  /\ UNCHANGED <<global, override, limitsCached, admin, edits>>

CompletionRow(s) ==
  /\ IsAt(s, "out")
  /\ Row(s, Frees(s))
  /\ UNCHANGED <<global, override, limitsCached, used, admin, edits>>
-----------------------------------------------------------------------------
(* The administrator: a transaction, then what is cached is dropped.       *)

Edits(scope) ==
  /\ admin = "none" /\ edits < MaxEdits
  /\ admin' = scope /\ edits' = edits + 1
  /\ UNCHANGED <<limitsCached, used, charted, slot, faults>>

Over(row, p) == [c \in Counters |-> IF c \in DOMAIN p THEN p[c] ELSE row[c]]
Sets(p)      == \A c \in DOMAIN p : p[c] # Inherit

SetGlobal(p) == Sets(p) /\ Edits("all") /\ global' = Over(global, p) /\ UNCHANGED override

\* Every column of the payload is written: what it does not name is cleared.
SetUser(p) ==
  /\ Edits("one")
  /\ override' = Over([c \in Counters |-> Inherit], p)
  /\ UNCHANGED global

ClearUser == Edits("one") /\ override' = [c \in Counters |-> Inherit] /\ UNCHANGED global

\* To every account at once: only what is named is written.
SetAll(p) == Sets(p) /\ Edits("all") /\ override' = Over(override, p) /\ UNCHANGED global
ClearAll  == Edits("all") /\ override' = [c \in Counters |-> Inherit] /\ UNCHANGED global

Invalidate ==
  /\ admin # "none"
  /\ \E ok \in BOOLEAN : May(ok) /\ Count(ok) /\ limitsCached' = IF ok THEN None ELSE limitsCached
  /\ admin' = "none"
  /\ UNCHANGED <<global, override, used, charted, slot, edits>>
-----------------------------------------------------------------------------
(* The clock.                                                              *)

\* Mutant: the entry is refreshed for ever.
LimitsStay == FALSE /\ UNCHANGED mvars

LimitsExpire ==
  /\ limitsCached # None
  /\ limitsCached' = None
  /\ UNCHANGED <<global, override, used, charted, slot, admin, edits, faults>>

\* A window's counter is named after the clock: the next window starts at zero.  A
\* usage row is dated by its transaction: one that had not begun is charted in the
\* next window, though its charge was counted in the last.
Rolls(window) ==
  LET over == CASE window = "minute" -> {"msg_minute"}
                [] window = "day"    -> {"msg_minute", "msg_day", "tok_day"}
                [] window = "month"  -> Counters
      Reset(f) == [c \in DOMAIN f |-> IF c \in over THEN 0 ELSE f[c]] IN
  /\ used' = Reset(used) /\ charted' = Reset(charted)
  /\ \E dated \in SUBSET Slots :
       slot' = [s \in Slots |-> IF s \in dated THEN [slot[s] EXCEPT !.owed = Reset(@)] ELSE slot[s]]
  /\ UNCHANGED <<global, override, limitsCached, admin, edits, faults>>
-----------------------------------------------------------------------------
MInit ==
  /\ global = Defaults /\ override = [c \in Counters |-> Inherit] /\ limitsCached = None
  /\ used = [c \in Counters |-> 0] /\ charted = Nothing
  /\ slot = [s \in Slots |-> Idle] /\ admin = "none"
  /\ edits = 0 /\ faults = 0

Serve(s) ==
  \/ Fill(s) \/ Gate(s) \/ LogMessage(s) \/ (\E in, out \in 0..MaxCost : Answered(s, in, out))
  \/ PromptRow(s) \/ CompletionRow(s)

Edit ==
  \/ \E p \in Patches : SetGlobal(p) \/ SetUser(p) \/ SetAll(p)
  \/ ClearUser \/ ClearAll

Works == (\E s \in Slots : Asks(s) \/ Serve(s)) \/ Edit \/ Invalidate \/ LimitsExpire
MNext == Works \/ \E window \in {"minute", "day", "month"} : Rolls(window)

\* The event loop gives every request and the administrator's edit their turn;
\* Redis drops an entry whose time is over.
MFairness == WF_mvars(Invalidate) /\ WF_mvars(LimitsExpire) /\ \A s \in Slots : WF_mvars(Serve(s))

MSpec == MInit /\ [][MNext]_mvars
MFairSpec == MSpec /\ MFairness
-----------------------------------------------------------------------------
(* Properties.                                                             *)

\* The limits of c that were ever in force.
Limits(c) == {Defaults[c]} \cup {p[c] : p \in {q \in Patches : c \in DOMAIN q /\ q[c] # Inherit}}

\* The sum of n over its domain: how many pairs there are of an argument and a unit.
Total(n) == Cardinality(UNION {{s} \X (1 .. n[s]) : s \in DOMAIN n})

\* What one request owes a counter at most.
Most(c) == IF c = "msg_day" THEN 1 ELSE MaxCost

\* However many requests are served at once, and whatever limits each of them
\* goes by, a window never takes more messages than the largest limit of it.
\* Tokens are charged after the answer: the budget is overdrawn by what was
\* under way when it ran out, and by no more.  And what enforces is charted: a
\* window's counter is never more than what usage_events holds of it and what
\* requests under way are still to write; it is less only by what was under way
\* when the window opened, which was counted in the one before.
CountersHold ==
  faults = 0 =>
    /\ \A c \in Messages : \E most \in Limits(c) : used[c] <= most
    /\ \A c \in Tokens : \E most \in Limits(c) : used[c] < most + 2 * MaxCost * Cardinality(Slots)
    /\ \A c \in Charted : LET dated == charted[c] + Total([s \in Slots |-> slot[s].owed[c]]) IN
         used[c] <= dated /\ dated <= used[c] + Most(c) * Cardinality(Slots)

\* An edit may be missed by a lookup that was under way or by a Redis that could
\* not be told; what is cached ends by agreeing with the rows.
LimitsCatchUp == <>[](limitsCached \in {None, Effective})
=============================================================================
