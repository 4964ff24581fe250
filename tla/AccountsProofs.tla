---------------------------- MODULE AccountsProofs ----------------------------
(***************************************************************************)
(* Theorems about Accounts, for any clients and any number of requests, and*)
(* about Admission, for any number of questions served at once.            *)
(***************************************************************************)
EXTENDS Accounts, Admission, SequenceTheorems, WellFoundedInduction, FiniteSetTheorems, TLAPS

-----------------------------------------------------------------------------
(* Codes, passwords and sessions.                                          *)

\* Where a call is once the sessions it found have been swept.
Swept == {"drop", "open", "mail", "issue", "keys", "keydrop", "done"}

\* What a call may remember, given the codes and the sessions there are: the code
\* it was matched with proves what it is about; what it decided must go existed,
\* is not its own, and is out once swept; its own session is opened at its end.
Entitled(r, m, cs, ss) ==
  /\ DOMAIN m = DOMAIN Blank
  /\ m.at \in {"check", "redeem"} => m.code \in DOMAIN cs /\ cs[m.code].purpose = m.op
  /\ m.at = "issue" => m.who \in Purposes
  /\ \A s \in m.old : s \in Ids /\ ss[s] # "free"
  /\ m.at \notin Swept \cup {"select", "sweep"} => m.old = {}
  /\ m.at \in {"select", "sweep"} /\ m.op = "others" => m.tok \notin m.old
  /\ m.at \in Swept => \A s \in m.old : ss[s] # "live"
  /\ ss[r] # "free" => m.at \in {"done", "failed"}

CodesTyped == codes \in Seq(Codes)
Charges ==
  \A c \in DOMAIN codes :
    /\ codes[c].guesses = codes[c].attempts /\ codes[c].attempts <= MaxAttempts
    /\ codes[c].spent \in {"no", codes[c].purpose}

Inv ==
  /\ CodesTyped /\ Charges /\ session \in SessionRows
  /\ DOMAIN req = Requests
  /\ \A r \in Requests : Entitled(r, req[r], codes, session)

\* Codes are added, and what they are for does not change.
CodesGrow ==
  /\ CodesTyped' /\ Charges'
  /\ \A c \in DOMAIN codes : c \in DOMAIN codes' /\ codes'[c].purpose = codes[c].purpose

\* A session that was free comes to life, if at all, as the call's own.
SessionsMove(r) ==
  /\ session' \in SessionRows
  /\ \A s \in Ids :
       /\ session[s] # "free" => session'[s] # "free"
       /\ session'[s] = "live" => session[s] = "live" \/ (s = r /\ session[s] = "free")
       /\ session'[s] # "free" => session[s] # "free" \/ s = r

OnlyMoves(r) == DOMAIN req' = Requests /\ \A q \in Requests \ {r} : req'[q] = req[q]

\* A call that moves leaves the others what they may remember.
LEMMA Step ==
  ASSUME Inv, NEW r \in Requests, CodesGrow, SessionsMove(r), OnlyMoves(r),
         Entitled(r, req'[r], codes', session')
  PROVE  Inv'
<1>1. ASSUME NEW q \in Requests, q # r
      PROVE  Entitled(q, req'[q], codes', session')
  <2>1. req'[q] = req[q] /\ Entitled(q, req[q], codes, session) /\ q \in Ids
    BY <1>1 DEF Inv, OnlyMoves, Ids
  <2>2. \A s \in req[q].old : session'[s] # "free"
    BY <2>1 DEF Entitled, SessionsMove
  <2>3. req[q].at \in Swept => \A s \in req[q].old : session'[s] # "live"
    BY <2>1 DEF Entitled, SessionsMove
  <2>4. session'[q] # "free" => session[q] # "free"
    BY <1>1, <2>1 DEF SessionsMove
  <2>5. req[q].at \in {"check", "redeem"} =>
          req[q].code \in DOMAIN codes' /\ codes'[req[q].code].purpose = req[q].op
    BY <2>1 DEF Entitled, CodesGrow
  <2>6. QED
    BY <2>1, <2>2, <2>3, <2>4, <2>5 DEF Entitled
<1>2. QED
  BY <1>1 DEF Inv, CodesGrow, SessionsMove, OnlyMoves

LEMMA CodesStill ==
  ASSUME Inv, codes' = codes
  PROVE  CodesGrow
BY DEF Inv, CodesGrow, CodesTyped, Charges

LEMMA SessionsStill ==
  ASSUME Inv, NEW r, session' = session
  PROVE  SessionsMove(r)
BY DEF Inv, SessionsMove

LEMMA SessionsKilled ==
  ASSUME Inv, NEW r, NEW S, session' = Kill(session, S)
  PROVE  SessionsMove(r)
BY DEF Inv, SessionsMove, SessionRows, Kill

LEMMA SessionOpened ==
  ASSUME Inv, NEW r \in Requests, OpenSession(r), req[r].at \notin {"done", "failed"}
  PROVE  SessionsMove(r)
BY DEF Inv, SessionsMove, SessionRows, OpenSession, Entitled, Ids

LEMMA Becoming ==
  ASSUME Inv, NEW r \in Requests, NEW m, Becomes(r, m)
  PROVE  OnlyMoves(r) /\ req'[r] = m
BY DEF Inv, Becomes, OnlyMoves

\* A call that ends, fails or goes on, and nothing it remembers is new.
Plain(r) ==
  /\ OnlyMoves(r)
  /\ DOMAIN req'[r] = DOMAIN Blank
  /\ req'[r].at \notin {"check", "redeem", "select", "sweep"}
  /\ req'[r].at = "issue" => req'[r].who \in Purposes
  /\ req'[r].at \in {"done", "failed"} \/ req[r].at \notin {"done", "failed"}
  /\ \/ req'[r].old = {}
     \/ req'[r].old = req[r].old /\ req[r].at \in Swept /\ req'[r].at \in Swept

LEMMA PlainStep ==
  ASSUME Inv, NEW r \in Requests, CodesGrow, SessionsMove(r), Plain(r),
         session'[r] # session[r] => req'[r].at = "done"
  PROVE  Inv'
<1>1. Entitled(r, req[r], codes, session) /\ r \in Ids
  BY DEF Inv, Ids
<1>2. \A s \in req'[r].old : s \in Ids /\ session'[s] # "free" /\ session'[s] # "live"
  BY <1>1 DEF Plain, Entitled, SessionsMove
<1>3. session'[r] # "free" => req'[r].at \in {"done", "failed"}
  BY <1>1 DEF Plain, Entitled
<1>4. Entitled(r, req'[r], codes', session')
  BY <1>1, <1>2, <1>3 DEF Plain, Entitled
<1>5. QED
  BY <1>4, Step DEF Plain

LEMMA Ending ==
  ASSUME Inv, NEW r \in Requests, NEW op, EndsAs(r, op)
  PROVE  Plain(r) /\ req'[r].at = "done"
<1>1. OnlyMoves(r) /\ req'[r] = [Blank EXCEPT !.op = op, !.at = "done"]
  BY Becoming DEF EndsAs
<1>2. QED
  BY <1>1 DEF Plain, Blank

LEMMA Ended ==
  ASSUME Inv, NEW r \in Requests, Ends(r), req[r].at \notin {"select", "sweep"}
  PROVE  Plain(r) /\ req'[r].at = "done"
<1>1. OnlyMoves(r) /\ req'[r] = [Blank EXCEPT !.op = req[r].op, !.at = "done", !.old = req[r].old]
  BY Becoming DEF Ends
<1>2. req[r].at \in Swept \/ req[r].old = {}
  BY DEF Inv, Entitled
<1>3. QED
  BY <1>1, <1>2 DEF Plain, Blank, Swept

LEMMA Going ==
  ASSUME Inv, NEW r \in Requests, NEW place, Goes(r, place),
         req[r].at \notin {"select", "sweep", "done", "failed"},
         place \notin {"check", "redeem", "issue", "select", "sweep"},
         req[r].at \in Swept => place \in Swept
  PROVE  Plain(r)
<1>1. OnlyMoves(r) /\ req'[r] = [req[r] EXCEPT !.at = place]
  BY Becoming DEF Goes
<1>2. DOMAIN req[r] = DOMAIN Blank /\ (req[r].at \in Swept \/ req[r].old = {})
  BY DEF Inv, Entitled
<1>3. req'[r].at = place /\ req'[r].old = req[r].old /\ DOMAIN req'[r] = DOMAIN Blank
  BY <1>1, <1>2 DEF Blank
<1>4. QED
  BY <1>1, <1>2, <1>3 DEF Plain

LEMMA Still ==
  ASSUME Inv, NEW r \in Requests, Plain(r), UNCHANGED <<codes, session>>
  PROVE  Inv'
BY PlainStep, CodesStill, SessionsStill

LEMMA Issuing ==
  ASSUME Inv, NEW r \in Requests, NEW op, NEW purpose \in Purposes, IssuesFor(r, op, purpose),
         req[r].at \notin {"select", "sweep", "done", "failed"}
  PROVE  Plain(r)
<1>1. OnlyMoves(r)
  BY Becoming DEF IssuesFor
<1>2. req'[r] = [Blank EXCEPT !.op = op, !.at = "issue", !.who = purpose,
                              !.held = LiveCodes(purpose), !.saw = account.status, !.old = req[r].old]
  BY Becoming DEF IssuesFor
<1>3. req[r].at \in Swept \/ req[r].old = {}
  BY DEF Inv, Entitled
<1>4. QED
  BY <1>1, <1>2, <1>3 DEF Plain, Blank, Swept

\* What was live is marked, to be swept next.
LEMMA Marking ==
  ASSUME Inv, NEW r \in Requests, CodesGrow, session' = session, OnlyMoves(r),
         DOMAIN req'[r] = DOMAIN Blank, req'[r].at = "select", req'[r].old \subseteq Live(session),
         req'[r].op = "others" => req'[r].tok \notin req'[r].old,
         req[r].at \notin {"done", "failed"}
  PROVE  Inv'
<1>1. Entitled(r, req[r], codes, session)
  BY DEF Inv
<1>2. \A s \in req'[r].old : s \in Ids /\ session'[s] # "free"
  BY DEF Live
<1>3. Entitled(r, req'[r], codes', session')
  BY <1>1, <1>2 DEF Entitled, Swept
<1>4. QED
  BY <1>3, Step, SessionsStill

LEMMA Killing ==
  ASSUME Inv, NEW r \in Requests, NEW S, session' = Kill(session, S), req[r].at \notin {"done", "failed"}
  PROVE  SessionsMove(r) /\ session'[r] = session[r]
<1>1. r \in Ids /\ session[r] = "free"
  BY DEF Inv, Entitled, Ids
<1>2. session'[r] = session[r]
  BY <1>1 DEF Kill
<1>3. QED
  BY <1>2, SessionsKilled

\* One code is written over, to no other purpose.
LEMMA CodeChanges ==
  ASSUME Inv, NEW c \in DOMAIN codes, NEW d \in Codes, codes' = [codes EXCEPT ![c] = d],
         d.purpose = codes[c].purpose, d.guesses = d.attempts, d.attempts <= MaxAttempts,
         d.spent \in {"no", d.purpose}
  PROVE  CodesGrow
<1>1. codes \in Seq(Codes) /\ DOMAIN codes = 1..Len(codes)
  BY LenProperties DEF Inv, CodesTyped
<1>2. codes' \in Seq(Codes)
  BY <1>1, ExceptSeq
<1>3. DOMAIN codes' = DOMAIN codes /\ codes'[c] = d /\ \A e \in DOMAIN codes : e # c => codes'[e] = codes[e]
  BY <1>1
<1>4. Charges'
  BY <1>3 DEF Inv, Charges
<1>5. QED
  BY <1>2, <1>3, <1>4 DEF CodesGrow, CodesTyped

LEMMA Largest ==
  ASSUME NEW n \in Nat, NEW S \in SUBSET (1..n), S # {}
  PROVE  \E c \in S : \A d \in S : d <= c
<1> DEFINE Below == {pair \in Nat \X Nat : pair[1] < pair[2]}
           Bounds == {k \in Nat : \A d \in S : d <= k}
<1>1. IsWellFoundedOn(Below, Nat)
  BY NatLessThanWellFounded DEF OpToRel
<1>2. n \in Bounds /\ Bounds \subseteq Nat
  OBVIOUS
<1>3. PICK c \in Bounds : \A k \in Bounds : <<k, c>> \notin Below
  <2> HIDE DEF Below, Bounds
  <2>1. QED
    BY <1>1, <1>2, WFMin
<1>4. c \in S
  <2>1. SUFFICES ASSUME c \notin S PROVE FALSE
    OBVIOUS
  <2>2. c \in Nat /\ \A d \in S : d \in Nat /\ 1 <= d /\ d <= c /\ d # c
    BY <2>1
  <2>3. \E d \in S : 1 <= d /\ d <= c
    BY <2>2
  <2>4. c - 1 \in Nat /\ \A d \in S : d <= c - 1
    BY <2>2, <2>3
  <2>5. c - 1 \in Bounds /\ <<c - 1, c>> \in Below
    BY <2>2, <2>4
  <2>6. QED
    BY <1>3, <2>5
<1>5. QED
  BY <1>4

LEMMA LatestIsLive ==
  ASSUME Inv, NEW purpose, LatestCode(purpose) # 0
  PROVE  LatestCode(purpose) \in LiveCodes(purpose)
<1>1. DOMAIN codes = 1..Len(codes) /\ Len(codes) \in Nat
  BY LenProperties DEF Inv, CodesTyped
<1>2. LiveCodes(purpose) \in SUBSET (1..Len(codes)) /\ LiveCodes(purpose) # {}
  BY <1>1 DEF LiveCodes, LatestCode
<1>3. \E c \in LiveCodes(purpose) : \A d \in LiveCodes(purpose) : d <= c
  BY <1>1, <1>2, Largest
<1>4. QED
  BY <1>2, <1>3 DEF LatestCode

LEMMA CodeType ==
  ASSUME Inv, NEW c \in DOMAIN codes
  PROVE  codes[c] \in Codes
BY LenProperties, ElementOfSeq DEF Inv, CodesTyped
-----------------------------------------------------------------------------
LEMMA InitInv ==
  ASSUME Init
  PROVE  Inv
<1>1. CodesTyped /\ Charges
  <2>1. MaxAttempts \in Nat /\ MaxAttempts > 0
    BY AttemptsAssumption
  <2>2. PICK status \in {"none", "pending", "active"}, tried \in 0..MaxAttempts - 1 :
          codes = IF status = "none" THEN <<>>
                  ELSE <<[purpose |-> IF status = "pending" THEN "verify" ELSE "reset", attempts |-> tried,
                          live |-> TRUE, expired |-> FALSE, guesses |-> tried, spent |-> "no"]>>
    BY DEF Init
  <2>3. CASE status = "none"
    <3>1. codes = <<>>
      BY <2>2, <2>3
    <3>2. QED
      BY <3>1 DEF CodesTyped, Charges
  <2>4. CASE status # "none"
    <3> DEFINE d == [purpose |-> IF status = "pending" THEN "verify" ELSE "reset", attempts |-> tried,
                     live |-> TRUE, expired |-> FALSE, guesses |-> tried, spent |-> "no"]
    <3>1. d \in Codes /\ d.guesses = d.attempts /\ d.attempts <= MaxAttempts /\ d.spent = "no"
      BY <2>1 DEF Codes, Purposes
    <3>2. codes = <<d>>
      BY <2>2, <2>4
    <3> HIDE DEF d
    <3>3. QED
      BY <3>1, <3>2 DEF CodesTyped, Charges
  <2>5. QED
    BY <2>3, <2>4
<1>2. session \in SessionRows /\ \A i \in Ids : session[i] # "free" => i = First
  BY DEF Init, SessionRows
<1>3. DOMAIN req = Requests /\ \A r \in Requests : req[r] = Blank
  BY DEF Init
<1>4. \A r \in Requests : Entitled(r, req[r], codes, session)
  BY <1>2, <1>3, IdsAssumption DEF Entitled, Blank, Ids, Swept
<1>5. QED
  BY <1>1, <1>2, <1>3, <1>4 DEF Inv

LEMMA ChargeStep ==
  ASSUME Inv, NEW r \in Requests, NEW purpose \in Purposes, NEW right, ChargeAttempt(r, purpose, right)
  PROVE  Inv'
<1> DEFINE c == LatestCode(purpose)
<1>1. req[r].at = "new" /\ session' = session
  BY DEF ChargeAttempt, New
<1>2. CASE EndsAs(r, purpose) /\ codes' = codes
  BY <1>1, <1>2, Ending, Still
<1>3. CASE /\ c # 0 /\ ~(codes[c].attempts >= MaxAttempts)
           /\ codes' = [codes EXCEPT ![c].attempts = Charged(@, right), ![c].guesses = @ + 1]
           /\ \/ EndsAs(r, purpose)
              \/ Becomes(r, [Blank EXCEPT !.op = purpose, !.at = "check", !.code = c])
  <2>1. c \in DOMAIN codes /\ codes[c].purpose = purpose
    BY <1>3, LatestIsLive DEF LiveCodes
  <2>2. codes[c] \in Codes /\ codes[c].guesses = codes[c].attempts /\ codes[c].spent \in {"no", codes[c].purpose}
    BY <2>1, CodeType DEF Inv, Charges
  <2> HIDE DEF c
  <2>3. codes \in Seq(Codes) /\ c \in 1..Len(codes)
    BY <2>1, LenProperties DEF Inv, CodesTyped
  <2>4. /\ codes' = [codes EXCEPT ![c] = codes'[c]] /\ codes'[c] \in Codes
        /\ codes'[c].attempts = codes[c].attempts + 1 /\ codes'[c].guesses = codes[c].guesses + 1
        /\ codes'[c].purpose = codes[c].purpose /\ codes'[c].spent = codes[c].spent
    BY <1>3, <2>2, <2>3 DEF Codes, Charged
  <2>5. CodesGrow
    <3>1. codes'[c].attempts <= MaxAttempts
      BY <1>3, <2>2, <2>4, AttemptsAssumption DEF Codes
    <3>2. QED
      BY <2>1, <2>2, <2>4, <3>1, CodeChanges
  <2>6. CASE EndsAs(r, purpose)
    BY <1>1, <2>5, <2>6, Ending, SessionsStill, PlainStep
  <2>7. CASE Becomes(r, [Blank EXCEPT !.op = purpose, !.at = "check", !.code = c])
    <3>1. OnlyMoves(r) /\ req'[r] = [Blank EXCEPT !.op = purpose, !.at = "check", !.code = c]
      BY <2>7, Becoming
    <3>2. Entitled(r, req[r], codes, session)
      BY DEF Inv
    <3>3. Entitled(r, req'[r], codes', session')
      BY <1>1, <2>1, <2>5, <3>1, <3>2 DEF Entitled, Blank, CodesGrow, Swept
    <3>4. QED
      BY <1>1, <2>5, <3>1, <3>3, Step, SessionsStill
  <2>8. QED
    BY <1>3, <2>6, <2>7
<1>4. QED
  BY <1>2, <1>3 DEF ChargeAttempt

\* A code is spent on what it was issued for.
LEMMA Spending ==
  ASSUME Inv, NEW c \in DOMAIN codes, Spend(c, codes[c].purpose)
  PROVE  CodesGrow
<1> DEFINE d == [codes[c] EXCEPT !.live = FALSE, !.spent = codes[c].purpose]
<1>1. codes[c] \in Codes /\ codes[c].guesses = codes[c].attempts /\ codes[c].attempts <= MaxAttempts
  BY CodeType DEF Inv, Charges
<1>2. d \in Codes /\ d.purpose = codes[c].purpose /\ d.guesses = d.attempts /\ d.attempts <= MaxAttempts
      /\ d.spent = d.purpose
  BY <1>1 DEF Codes
<1>3. codes' = [codes EXCEPT ![c] = d]
  BY <1>1 DEF Spend, Codes
<1> HIDE DEF d
<1>4. QED
  BY <1>2, <1>3, CodeChanges

\* The codes a transaction had seen are put out of use.
LEMMA Consuming ==
  ASSUME Inv, NEW S, NEW old, old = [c \in DOMAIN codes |-> [codes[c] EXCEPT !.live = @ /\ c \notin S]]
  PROVE  /\ old \in Seq(Codes) /\ DOMAIN old = DOMAIN codes
         /\ \A c \in DOMAIN codes :
              /\ old[c].purpose = codes[c].purpose /\ old[c].guesses = old[c].attempts
              /\ old[c].attempts <= MaxAttempts /\ old[c].spent \in {"no", old[c].purpose}
<1>1. codes \in Seq(Codes) /\ DOMAIN codes = 1..Len(codes) /\ Len(codes) \in Nat
  BY LenProperties DEF Inv, CodesTyped
<1>2. \A c \in DOMAIN codes :
        /\ codes[c] \in Codes
        /\ codes[c].guesses = codes[c].attempts /\ codes[c].attempts <= MaxAttempts
        /\ codes[c].spent \in {"no", codes[c].purpose}
  BY CodeType DEF Inv, Charges
<1>3. \A c \in DOMAIN codes : old[c] \in Codes
  <2>1. TAKE c \in DOMAIN codes
  <2>2. codes[c] \in Codes
    BY <1>2
  <2>3. QED
    BY <2>2 DEF Codes
<1>4. old \in [1..Len(codes) -> Codes]
  BY <1>1, <1>3
<1>5. old \in Seq(Codes)
  BY <1>1, <1>4, SeqDef
<1>6. QED
  BY <1>2, <1>5 DEF Codes

\* With the account go its codes.
LEMMA Cascade ==
  ASSUME Inv, codes' = [c \in DOMAIN codes |-> [codes[c] EXCEPT !.live = FALSE]]
  PROVE  CodesGrow
<1>1. codes \in Seq(Codes) /\ DOMAIN codes = 1..Len(codes) /\ Len(codes) \in Nat
  BY LenProperties DEF Inv, CodesTyped
<1>2. \A c \in DOMAIN codes : codes[c] \in Codes
  BY CodeType
<1>3. \A c \in DOMAIN codes : codes'[c] \in Codes
  BY <1>2 DEF Codes
<1>4. codes' \in [1..Len(codes) -> Codes]
  BY <1>1, <1>3
<1>5. codes' \in Seq(Codes)
  BY <1>1, <1>4, SeqDef
<1>6. \A c \in DOMAIN codes :
        /\ codes'[c].purpose = codes[c].purpose /\ codes'[c].guesses = codes[c].guesses
        /\ codes'[c].attempts = codes[c].attempts /\ codes'[c].spent = codes[c].spent
  BY <1>2 DEF Codes
<1>7. QED
  BY <1>5, <1>6 DEF Inv, Charges, CodesGrow, CodesTyped

-----------------------------------------------------------------------------
\* A call begins.
LEMMA BeginStep ==
  ASSUME Inv, NEW r \in Requests, Begin(r)
  PROVE  Inv'
<1> USE DEF rows
<1>1. req[r].at = "new" /\ Entitled(r, req[r], codes, session)
  BY DEF Begin, New, Inv, PostSignup, PostResend, PostVerify, PostLogin, PostForgot, PostReset, PostChange,
     GetMine, DeleteSession, PostRevokeAll, PostLogout, PostKey, DeleteKey, ResolveKey, PostUser, PostForceReset,
     PostUnlock, PatchAccount, PostRevokeKeys, Promote, DeleteAccount, Signup, Resend, ChargeAttempt, LoginReads,
     Forgot, ResolveSession, Logout, Invite, ForceReset, Unlock, PatchUser, RevokeKeys
<1>2. CASE PostSignup(r)
  BY <1>1, <1>2, Issuing, Ending, Still DEF PostSignup, Signup, Purposes
<1>3. CASE PostResend(r)
  BY <1>1, <1>3, Issuing, Ending, Still DEF PostResend, Resend, Purposes
<1>4. CASE PostVerify(r) \/ PostReset(r)
  BY <1>4, ChargeStep DEF PostVerify, PostReset, Purposes
<1>5. CASE PostLogin(r)
  <2>1. PICK p \in Passwords : LoginReads(r, p)
    BY <1>5 DEF PostLogin
  <2>2. CASE EndsAs(r, "login")
    BY <2>1, <2>2, Ending, Still DEF LoginReads
  <2>3. CASE Becomes(r, [Blank EXCEPT !.op = "login", !.saw = account,
                                      !.at = IF p = account.password THEN "hit" ELSE "miss"])
    <3>1. /\ OnlyMoves(r)
          /\ req'[r] = [Blank EXCEPT !.op = "login", !.saw = account,
                                     !.at = IF p = account.password THEN "hit" ELSE "miss"]
      BY <2>3, Becoming
    <3>2. Plain(r)
      BY <1>1, <3>1 DEF Plain, Blank
    <3>3. QED
      BY <2>1, <3>2, Still DEF LoginReads
  <2>4. QED
    BY <2>1, <2>2, <2>3 DEF LoginReads
<1>6. CASE PostForgot(r)
  BY <1>1, <1>6, Issuing, Ending, Still DEF PostForgot, Forgot, Purposes
<1>7. ASSUME NEW op, ResolveSession(r, op)
      PROVE  Inv'
  <2>1. ASSUME NEW place \in {"act", "fill"}, NEW who, LetIn(r, op, place, who)
        PROVE  Plain(r)
    <3>1. OnlyMoves(r) /\ req'[r] = [Blank EXCEPT !.op = op, !.at = place, !.tok = cookie, !.who = who]
      BY <2>1, Becoming DEF LetIn
    <3>2. QED
      BY <1>1, <3>1 DEF Plain, Blank
  <2>2. EndsAs(r, op) => Plain(r)
    BY Ending
  <2>3. QED
    BY <1>7, <2>1, <2>2, Still DEF ResolveSession
<1>8. CASE PostChange(r) \/ GetMine(r) \/ DeleteSession(r) \/ PostRevokeAll(r) \/ PostKey(r) \/ DeleteKey(r)
  BY <1>7, <1>8 DEF PostChange, GetMine, DeleteSession, PostRevokeAll, PostKey, DeleteKey
<1>9. CASE PostLogout(r)
  <2>1. /\ OnlyMoves(r)
        /\ req'[r] = [Blank EXCEPT !.op = "logout", !.at = "drop", !.held = {cookie}]
    BY <1>9, Becoming DEF PostLogout, Logout
  <2>2. Plain(r)
    BY <1>1, <2>1 DEF Plain, Blank
  <2>3. SessionsMove(r) /\ session'[r] = session[r] /\ CodesGrow
    BY <1>1, <1>9, Killing, CodesStill DEF PostLogout, Logout
  <2>4. QED
    BY <2>2, <2>3, PlainStep
<1>10. CASE \E k \in Ids : ResolveKey(r, k)
  <2>1. PICK k \in Ids : ResolveKey(r, k)
    BY <1>10
  <2>2. CASE EndsAs(r, "program")
    BY <2>1, <2>2, Ending, Still DEF ResolveKey
  <2>3. CASE Becomes(r, [Blank EXCEPT !.op = "program", !.at = "keyfill", !.tok = k, !.who = account.role])
    <3>1. /\ OnlyMoves(r)
          /\ req'[r] = [Blank EXCEPT !.op = "program", !.at = "keyfill", !.tok = k, !.who = account.role]
      BY <2>3, Becoming
    <3>2. Plain(r)
      BY <1>1, <3>1 DEF Plain, Blank
    <3>3. QED
      BY <2>1, <3>2, Still DEF ResolveKey
  <2>4. QED
    BY <2>1, <2>2, <2>3 DEF ResolveKey
<1>11. CASE PostUser(r)
  BY <1>1, <1>11, Issuing, Ending, Still DEF PostUser, Invite, Purposes
<1>12. CASE PostForceReset(r)
  <2>1. CASE EndsAs(r, "force")
    BY <1>12, <2>1, Ending, Still DEF PostForceReset, ForceReset
  <2>2. CASE Becomes(r, [Blank EXCEPT !.op = "force", !.at = "select", !.old = Live(session)])
    <3>1. OnlyMoves(r) /\ req'[r] = [Blank EXCEPT !.op = "force", !.at = "select", !.old = Live(session)]
      BY <2>2, Becoming
    <3>2. DOMAIN req'[r] = DOMAIN Blank /\ req'[r].at = "select" /\ req'[r].old = Live(session) /\ req'[r].op = "force"
      BY <3>1 DEF Blank
    <3>3. QED
      BY <1>1, <1>12, <3>1, <3>2, Marking, CodesStill DEF PostForceReset, ForceReset
  <2>3. QED
    BY <1>12, <2>1, <2>2 DEF PostForceReset, ForceReset
<1>13. CASE PostUnlock(r)
  BY <1>13, Ending, Still DEF PostUnlock, Unlock
<1>14. CASE PatchAccount(r)
  <2>1. PICK status \in {"active", "suspended"}, role \in Roles : PatchUser(r, status, role)
    BY <1>14 DEF PatchAccount
  <2>2. CASE EndsAs(r, "patch")
    BY <2>1, <2>2, Ending, Still DEF PatchUser
  <2>3. CASE Becomes(r, [Blank EXCEPT !.op = "suspend", !.at = "select", !.old = Live(session)])
    <3>1. OnlyMoves(r) /\ req'[r] = [Blank EXCEPT !.op = "suspend", !.at = "select", !.old = Live(session)]
      BY <2>3, Becoming
    <3>2. DOMAIN req'[r] = DOMAIN Blank /\ req'[r].at = "select" /\ req'[r].old = Live(session) /\ req'[r].op = "suspend"
      BY <3>1 DEF Blank
    <3>3. QED
      BY <1>1, <2>1, <3>1, <3>2, Marking, CodesStill DEF PatchUser
  <2>4. QED
    BY <2>1, <2>2, <2>3 DEF PatchUser
<1>15. CASE PostRevokeKeys(r)
  <2>1. OnlyMoves(r) /\ req'[r] = [Blank EXCEPT !.op = "keys", !.at = "keys"]
    BY <1>15, Becoming DEF PostRevokeKeys, RevokeKeys, Begins
  <2>2. Plain(r)
    BY <1>1, <2>1 DEF Plain, Blank
  <2>3. QED
    BY <1>15, <2>2, Still DEF PostRevokeKeys, RevokeKeys
<1>16. CASE Promote(r)
  <2>1. CASE EndsAs(r, "promote")
    BY <1>16, <2>1, Ending, Still DEF Promote
  <2>2. CASE Becomes(r, [Blank EXCEPT !.op = "promote", !.at = "drop", !.held = Ids])
    <3>1. OnlyMoves(r) /\ req'[r] = [Blank EXCEPT !.op = "promote", !.at = "drop", !.held = Ids]
      BY <2>2, Becoming
    <3>2. Plain(r)
      BY <1>1, <3>1 DEF Plain, Blank
    <3>3. QED
      BY <1>16, <3>2, Still DEF Promote
  <2>3. QED
    BY <1>16, <2>1, <2>2 DEF Promote
<1>17. CASE DeleteAccount(r)
  <2>1. codes' = [c \in DOMAIN codes |-> [codes[c] EXCEPT !.live = FALSE]]
    BY <1>17 DEF DeleteAccount
  <2>2. CodesGrow
    BY <2>1, Cascade
  <2>3. SessionsMove(r) /\ session'[r] = session[r] /\ Plain(r)
    BY <1>1, <1>17, Killing, Ending DEF DeleteAccount
  <2>4. QED
    BY <2>2, <2>3, PlainStep
<1>18. QED
  BY <1>2, <1>3, <1>4, <1>5, <1>6, <1>8, <1>9, <1>10, <1>11, <1>12, <1>13, <1>14, <1>15, <1>16, <1>17
     DEF Begin

\* Codes: what was read before the commit.
LEMMA IssueStep ==
  ASSUME Inv, NEW r \in Requests, IssueCommits(r)
  PROVE  Inv'
<1>1. req[r].at = "issue" /\ Ends(r) /\ session' = session
  BY DEF IssueCommits, At
<1>2. Plain(r)
  BY <1>1, Ended
<1>3. CASE codes' = codes
  BY <1>1, <1>2, <1>3, Still
<1>4. CASE codes' # codes
  <2> DEFINE old == [c \in DOMAIN codes |-> [codes[c] EXCEPT !.live = @ /\ c \notin req[r].held]]
             new == [purpose |-> req[r].who, attempts |-> 0, live |-> TRUE, expired |-> FALSE,
                     guesses |-> 0, spent |-> "no"]
  <2>1. codes' = Append(old, new)
    BY <1>4 DEF IssueCommits
  <2>2. /\ old \in Seq(Codes) /\ DOMAIN old = DOMAIN codes
        /\ \A c \in DOMAIN codes :
             /\ old[c].purpose = codes[c].purpose /\ old[c].guesses = old[c].attempts
             /\ old[c].attempts <= MaxAttempts /\ old[c].spent \in {"no", old[c].purpose}
    BY Consuming
  <2>3. req[r].who \in Purposes
    BY <1>1 DEF Inv, Entitled
  <2>4. new \in Codes /\ new.guesses = new.attempts /\ new.attempts <= MaxAttempts /\ new.spent = "no"
    BY <2>3, AttemptsAssumption DEF Codes
  <2> HIDE DEF old, new
  <2>5. /\ codes' \in Seq(Codes) /\ Len(old) \in Nat /\ Len(codes') = Len(old) + 1
        /\ \A c \in 1..Len(old) : codes'[c] = old[c]
        /\ codes'[Len(old) + 1] = new
    BY <2>1, <2>2, <2>4, AppendProperties, LenProperties
  <2>6. DOMAIN codes' = 1..Len(old) + 1 /\ DOMAIN old = 1..Len(old)
    BY <2>2, <2>5, LenProperties
  <2>7. \A c \in DOMAIN codes' : (c \in DOMAIN codes /\ codes'[c] = old[c]) \/ codes'[c] = new
    BY <2>2, <2>5, <2>6
  <2>8. Charges'
    BY <2>2, <2>4, <2>7 DEF Charges
  <2>9. CodesGrow
    BY <2>2, <2>5, <2>6, <2>8 DEF CodesGrow, CodesTyped
  <2>10. QED
    BY <1>1, <1>2, <2>9, PlainStep, SessionsStill
<1>5. QED
  BY <1>3, <1>4

LEMMA RedeemStep ==
  ASSUME Inv, NEW r \in Requests, CheckAgain(r) \/ VerifyCommits(r) \/ \E p \in Passwords : ResetCommits(r, p)
  PROVE  Inv'
<1>1. Entitled(r, req[r], codes, session)
  BY DEF Inv
<1>2. CASE CheckAgain(r)
  <2>1. req[r].at = "check" /\ UNCHANGED <<codes, session>>
    BY <1>2 DEF CheckAgain, At, rows
  <2>2. CASE Ends(r)
    BY <2>1, <2>2, Ended, Still
  <2>3. CASE Becomes(r, [req[r] EXCEPT !.at = "redeem", !.saw = account])
    <3>1. OnlyMoves(r) /\ req'[r] = [req[r] EXCEPT !.at = "redeem", !.saw = account]
      BY <2>3, Becoming
    <3>2. /\ DOMAIN req'[r] = DOMAIN Blank /\ req'[r].at = "redeem" /\ req'[r].code = req[r].code
          /\ req'[r].op = req[r].op /\ req'[r].old = req[r].old
      BY <1>1, <3>1 DEF Entitled, Blank
    <3>3. Entitled(r, req'[r], codes', session')
      BY <1>1, <2>1, <3>2 DEF Entitled, Swept
    <3>4. QED
      BY <2>1, <3>1, <3>3, Step, CodesStill, SessionsStill
  <2>4. QED
    BY <1>2, <2>2, <2>3 DEF CheckAgain
<1>3. CASE VerifyCommits(r)
  <2>1. req[r].at = "redeem" /\ req[r].op = "verify" /\ Ends(r)
    BY <1>3 DEF VerifyCommits, At
  <2>2. Plain(r) /\ req'[r].at = "done"
    BY <2>1, Ended
  <2>3. req[r].code \in DOMAIN codes /\ codes[req[r].code].purpose = "verify"
    BY <1>1, <2>1 DEF Entitled
  <2>4. CASE account.status = "gone"
    BY <1>3, <2>2, <2>4, Still DEF VerifyCommits
  <2>5. CASE account.status # "gone"
    <3>1. Spend(req[r].code, "verify") /\ OpenSession(r)
      BY <1>3, <2>5 DEF VerifyCommits
    <3>2. CodesGrow /\ SessionsMove(r)
      BY <2>1, <2>3, <3>1, Spending, SessionOpened
    <3>3. QED
      BY <2>2, <3>2, PlainStep
  <2>6. QED
    BY <2>4, <2>5
<1>4. ASSUME NEW p \in Passwords, ResetCommits(r, p)
      PROVE  Inv'
  <2>1. req[r].at = "redeem" /\ req[r].op = "reset" /\ session' = session
    BY <1>4 DEF ResetCommits, At
  <2>2. CASE account.status = "gone"
    <3>1. Ends(r) /\ codes' = codes
      BY <1>4, <2>2 DEF ResetCommits
    <3>2. QED
      BY <2>1, <3>1, Ended, Still
  <2>3. CASE account.status # "gone"
    <3>1. /\ Spend(req[r].code, "reset")
          /\ Becomes(r, [Blank EXCEPT !.op = "reset", !.at = "select", !.old = Live(session)])
      BY <1>4, <2>3 DEF ResetCommits
    <3>2. OnlyMoves(r) /\ req'[r] = [Blank EXCEPT !.op = "reset", !.at = "select", !.old = Live(session)]
      BY <3>1, Becoming
    <3>3. DOMAIN req'[r] = DOMAIN Blank /\ req'[r].at = "select" /\ req'[r].old = Live(session) /\ req'[r].op = "reset"
      BY <3>2 DEF Blank
    <3>4. req[r].code \in DOMAIN codes /\ codes[req[r].code].purpose = "reset"
      BY <1>1, <2>1 DEF Entitled
    <3>5. CodesGrow
      BY <3>1, <3>4, Spending
    <3>6. QED
      BY <2>1, <3>2, <3>3, <3>5, Marking
  <2>4. QED
    BY <2>2, <2>3
<1>5. QED
  BY <1>2, <1>3, <1>4

\* Sessions that must go: marked, selected, swept and dropped.
LEMMA RevokeStep ==
  ASSUME Inv, NEW r \in Requests,
         \/ RevokeOthers(r) \/ (\E p \in Passwords : ChangePassword(r, p))
         \/ SelectSessions(r) \/ SweepSessions(r) \/ DropSessions(r)
  PROVE  Inv'
<1>1. Entitled(r, req[r], codes, session)
  BY DEF Inv
<1>2. CASE RevokeOthers(r)
  <2>1. req[r].at = "act" /\ UNCHANGED <<codes, session>>
    BY <1>2 DEF RevokeOthers, At, rows
  <2>2. OnlyMoves(r) /\ req'[r] = [req[r] EXCEPT !.at = "select", !.old = Live(session) \ {req[r].tok}]
    BY <1>2, Becoming DEF RevokeOthers
  <2>3. /\ DOMAIN req'[r] = DOMAIN Blank /\ req'[r].at = "select"
        /\ req'[r].old = Live(session) \ {req[r].tok} /\ req'[r].tok = req[r].tok
    BY <1>1, <2>2 DEF Entitled, Blank
  <2>4. QED
    BY <2>1, <2>2, <2>3, Marking, CodesStill
<1>3. ASSUME NEW p \in Passwords, ChangePassword(r, p)
      PROVE  Inv'
  <2>1. req[r].at = "act" /\ req[r].op = "change" /\ UNCHANGED <<codes, session>>
    BY <1>3 DEF ChangePassword, At
  <2>2. CASE Ends(r)
    BY <2>1, <2>2, Ended, Still
  <2>3. CASE Becomes(r, [req[r] EXCEPT !.at = "select", !.old = Live(session)])
    <3>1. OnlyMoves(r) /\ req'[r] = [req[r] EXCEPT !.at = "select", !.old = Live(session)]
      BY <2>3, Becoming
    <3>2. /\ DOMAIN req'[r] = DOMAIN Blank /\ req'[r].at = "select"
          /\ req'[r].old = Live(session) /\ req'[r].op = "change"
      BY <1>1, <2>1, <3>1 DEF Entitled, Blank
    <3>3. QED
      BY <2>1, <3>1, <3>2, Marking, CodesStill
  <2>4. QED
    BY <1>3, <2>2, <2>3 DEF ChangePassword
<1>4. CASE SelectSessions(r)
  <2> DEFINE found == Live(session) \ Spared(r)
  <2>1. req[r].at = "select" /\ UNCHANGED <<codes, session>>
    BY <1>4 DEF SelectSessions, At, rows
  <2>2. OnlyMoves(r) /\ req'[r] = [req[r] EXCEPT !.at = IF found = {} THEN "drop" ELSE "sweep", !.held = found]
    BY <1>4, Becoming DEF SelectSessions
  <2>3. /\ DOMAIN req'[r] = DOMAIN Blank /\ req'[r].at = IF found = {} THEN "drop" ELSE "sweep"
        /\ req'[r].op = req[r].op /\ req'[r].tok = req[r].tok /\ req'[r].old = req[r].old
    BY <1>1, <2>2 DEF Entitled, Blank
  <2>4. found = {} => \A s \in req[r].old : session[s] # "live"
    BY <1>1, <2>1 DEF Entitled, Live, Spared
  <2> HIDE DEF found
  <2>5. Entitled(r, req'[r], codes', session')
    BY <1>1, <2>1, <2>3, <2>4 DEF Entitled, Swept
  <2>6. QED
    BY <2>1, <2>2, <2>5, Step, CodesStill, SessionsStill
<1>5. CASE SweepSessions(r)
  <2>1. req[r].at = "sweep" /\ codes' = codes /\ session' = Kill(session, Ids \ Spared(r)) /\ Goes(r, "drop")
    BY <1>5 DEF SweepSessions, At
  <2>2. OnlyMoves(r) /\ req'[r] = [req[r] EXCEPT !.at = "drop"]
    BY <2>1, Becoming DEF Goes
  <2>3. DOMAIN req'[r] = DOMAIN Blank /\ req'[r].at = "drop" /\ req'[r].old = req[r].old
    BY <1>1, <2>2 DEF Entitled, Blank
  <2>4. SessionsMove(r) /\ session'[r] = session[r] /\ CodesGrow
    BY <2>1, Killing, CodesStill
  <2>5. \A s \in req[r].old : s \in Ids /\ session'[s] # "free" /\ session'[s] # "live"
    BY <1>1, <2>1 DEF Entitled, Kill, Spared
  <2>6. Entitled(r, req'[r], codes', session')
    BY <1>1, <2>1, <2>3, <2>4, <2>5 DEF Entitled, Swept
  <2>7. QED
    BY <2>2, <2>4, <2>6, Step
<1>6. CASE DropSessions(r)
  <2>1. req[r].at = "drop" /\ UNCHANGED <<codes, session>>
    BY <1>6 DEF DropSessions, At, rows
  <2>2. Goes(r, "open") \/ Goes(r, "mail") \/ Goes(r, "keys") \/ Ends(r)
    BY <1>6 DEF DropSessions
  <2>3. QED
    BY <2>1, <2>2, Going, Ended, Still DEF Swept
<1>7. QED
  BY <1>2, <1>3, <1>4, <1>5, <1>6

\* A call goes on.
LEMMA ContinueStep ==
  ASSUME Inv, NEW r \in Requests, Continue(r)
  PROVE  Inv'
<1> USE DEF rows
<1>1. Entitled(r, req[r], codes, session)
  BY DEF Inv
<1>2. CASE LoginMisses(r) \/ Visit(r) \/ FillKey(r) \/ CreateKey(r) \/ DropKeys(r)
  <2>1. req[r].at \in {"miss", "act", "keyfill", "keydrop"} /\ Ends(r) /\ UNCHANGED <<codes, session>>
    BY <1>2 DEF LoginMisses, Visit, FillKey, CreateKey, DropKeys, At
  <2>2. QED
    BY <2>1, Ended, Still
<1>3. CASE LoginHits(r) \/ ChangeReopens(r)
  <2>1. /\ req[r].at \in {"hit", "open"} /\ Ends(r) /\ codes' = codes
        /\ session' = session \/ OpenSession(r)
    BY <1>3 DEF LoginHits, ChangeReopens, At
  <2>2. Plain(r) /\ req'[r].at = "done"
    BY <2>1, Ended
  <2>3. SessionsMove(r) /\ CodesGrow
    BY <2>1, SessionOpened, SessionsStill, CodesStill
  <2>4. QED
    BY <2>2, <2>3, PlainStep
<1>4. CASE FillSession(r)
  <2>1. req[r].at = "fill" /\ Goes(r, "act") /\ UNCHANGED <<codes, session>>
    BY <1>4 DEF FillSession, At
  <2>2. QED
    BY <2>1, Going, Still DEF Swept
<1>5. ASSUME NEW i \in Ids, RevokeKey(r, i)
      PROVE  Inv'
  <2>1. req[r].at = "act" /\ UNCHANGED <<codes, session>>
    BY <1>5 DEF RevokeKey, At
  <2>2. CASE Ends(r)
    BY <2>1, <2>2, Ended, Still
  <2>3. CASE Becomes(r, [req[r] EXCEPT !.at = "keydrop", !.held = {i}])
    <3>1. OnlyMoves(r) /\ req'[r] = [req[r] EXCEPT !.at = "keydrop", !.held = {i}]
      BY <2>3, Becoming
    <3>2. DOMAIN req'[r] = DOMAIN Blank /\ req'[r].at = "keydrop" /\ req'[r].old = {}
      BY <1>1, <2>1, <3>1 DEF Entitled, Blank, Swept
    <3>3. Plain(r)
      BY <2>1, <3>1, <3>2 DEF Plain
    <3>4. QED
      BY <2>1, <3>3, Still
  <2>4. QED
    BY <1>5, <2>2, <2>3 DEF RevokeKey
<1>6. ASSUME NEW i \in Ids, RevokeOne(r, i)
      PROVE  Inv'
  <2>1. req[r].at = "act" /\ codes' = codes /\ session' = Kill(session, {i})
    BY <1>6 DEF RevokeOne, At
  <2>2. SessionsMove(r) /\ session'[r] = session[r] /\ CodesGrow
    BY <2>1, Killing, CodesStill
  <2>3. CASE Ends(r)
    BY <2>1, <2>2, <2>3, Ended, PlainStep
  <2>4. CASE Becomes(r, [req[r] EXCEPT !.at = "drop", !.held = {i}])
    <3>1. OnlyMoves(r) /\ req'[r] = [req[r] EXCEPT !.at = "drop", !.held = {i}]
      BY <2>4, Becoming
    <3>2. DOMAIN req'[r] = DOMAIN Blank /\ req'[r].at = "drop" /\ req'[r].old = {}
      BY <1>1, <2>1, <3>1 DEF Entitled, Blank, Swept
    <3>3. Plain(r)
      BY <2>1, <3>1, <3>2 DEF Plain
    <3>4. QED
      BY <2>2, <3>3, PlainStep
  <2>5. QED
    BY <1>6, <2>3, <2>4 DEF RevokeOne
<1>7. CASE ForceMails(r)
  <2>1. req[r].at = "mail" /\ UNCHANGED <<codes, session>>
    BY <1>7 DEF ForceMails, At
  <2>2. Plain(r)
    BY <1>7, <2>1, Ended, Issuing DEF ForceMails, Purposes
  <2>3. QED
    BY <2>1, <2>2, Still
<1>8. CASE SweepKeys(r)
  <2>1. req[r].at = "keys" /\ UNCHANGED <<codes, session>>
    BY <1>8 DEF SweepKeys, At
  <2>2. OnlyMoves(r) /\ req'[r] = [req[r] EXCEPT !.at = "keydrop", !.held = Live(key)]
    BY <1>8, Becoming DEF SweepKeys
  <2>3. DOMAIN req'[r] = DOMAIN Blank /\ req'[r].at = "keydrop" /\ req'[r].old = req[r].old
    BY <1>1, <2>2 DEF Entitled, Blank
  <2>4. Plain(r)
    BY <2>1, <2>2, <2>3 DEF Plain, Swept
  <2>5. QED
    BY <2>1, <2>4, Still
<1>9. QED
  BY <1>2, <1>3, <1>4, <1>5, <1>6, <1>7, <1>8, IssueStep, RedeemStep, RevokeStep DEF Continue

LEMMA FailsStep ==
  ASSUME Inv, NEW r \in Requests, Fails(r)
  PROVE  Inv'
<1>1. OnlyMoves(r) /\ req'[r] = [Blank EXCEPT !.op = req[r].op, !.at = "failed"]
  BY Becoming DEF Fails
<1>2. Plain(r)
  BY <1>1 DEF Plain, Blank
<1>3. QED
  BY <1>2, Still DEF Fails, rows

\* Nobody moves, and no session comes to life.
LEMMA RestStep ==
  ASSUME Inv, CodesGrow, UNCHANGED req, \/ session' = session
                                       \/ \E s \in Ids : session' = Kill(session, {s})
  PROVE  Inv'
<1>1. /\ session' \in SessionRows
      /\ \A s \in Ids : /\ session'[s] = "live" => session[s] = "live"
                        /\ session'[s] = "free" <=> session[s] = "free"
  BY DEF Inv, SessionRows, Kill
<1>2. ASSUME NEW r \in Requests
      PROVE  Entitled(r, req'[r], codes', session')
  <2>1. Entitled(r, req[r], codes, session) /\ r \in Ids
    BY DEF Inv, Ids
  <2>2. QED
    BY <1>1, <2>1 DEF Entitled, CodesGrow
<1>3. QED
  BY <1>1, <1>2 DEF Inv, CodesGrow

LEMMA ExpiryStep ==
  ASSUME Inv, Expiry \/ UNCHANGED vars
  PROVE  Inv'
<1>1. ASSUME NEW c \in DOMAIN codes, CodeExpires(c)
      PROVE  Inv'
  <2>1. codes' = [codes EXCEPT ![c].expired = TRUE] /\ session' = session /\ req' = req
    BY <1>1 DEF CodeExpires
  <2>2. /\ codes[c] \in Codes /\ codes[c].guesses = codes[c].attempts /\ codes[c].attempts <= MaxAttempts
        /\ codes[c].spent \in {"no", codes[c].purpose} /\ codes \in Seq(Codes) /\ c \in 1..Len(codes)
    BY CodeType, LenProperties DEF Inv, Charges, CodesTyped
  <2>3. /\ codes' = [codes EXCEPT ![c] = codes'[c]] /\ codes'[c] \in Codes
        /\ codes'[c].attempts = codes[c].attempts /\ codes'[c].guesses = codes[c].guesses
        /\ codes'[c].purpose = codes[c].purpose /\ codes'[c].spent = codes[c].spent
    BY <2>1, <2>2 DEF Codes
  <2>4. CodesGrow
    BY <2>2, <2>3, CodeChanges
  <2>5. QED
    BY <2>1, <2>4, RestStep
<1>2. ASSUME NEW i \in Ids, SessionExpires(i) \/ CacheExpires(i) \/ KeyCacheExpires(i)
      PROVE  Inv'
  BY <1>2, CodesStill, RestStep DEF SessionExpires, CacheExpires, KeyCacheExpires, rows
<1>3. CASE LockExpires \/ UNCHANGED vars
  BY <1>3, CodesStill, RestStep DEF LockExpires, vars, rows
<1>4. QED
  BY <1>1, <1>2, <1>3 DEF Expiry

LEMMA Invariance == Spec => []Inv
<1>1. Inv /\ [Next]_vars => Inv'
  BY BeginStep, ContinueStep, FailsStep, ExpiryStep DEF Next
<1>2. QED
  BY <1>1, InitInv, PTL DEF Spec

\* However many guesses of however many calls meet, none gets more tries at a code
\* than it allows, and a code is spent only on what it was mailed for: the attempt
\* is committed before the guess is judged, and every lookup names the purpose.
THEOREM CodesStand == Spec => []CodesHold
<1>1. Inv => CodesHold
  BY DEF Inv, Charges, CodesHold
<1>2. QED
  BY <1>1, Invariance, PTL

\* What a change of password, a reset, a suspension or "sign out everywhere else"
\* decided must go stays out: no step makes a dead session live, and the only
\* session a call brings to life is its own, which was free when others swept.
THEOREM RevocationHolds == Spec => []SweptStayOut
<1>1. Inv => SweptStayOut
  BY DEF Inv, Entitled, Swept, SweptStayOut
<1>2. QED
  BY <1>1, Invariance, PTL

-----------------------------------------------------------------------------
(* What one account may still ask.                                         *)

\* Limits that were in force.
InForce(row) == row \in GlobalRows /\ \A c \in Counters : row[c] \in Limits(c)

LimitsHeld ==
  /\ InForce(global) /\ \A c \in Counters : override[c] = Inherit \/ override[c] \in Limits(c)
  /\ limitsCached # None => InForce(limitsCached)

\* A request judges by such limits, and owes nothing but what it has just charged.
ServingSound(r) ==
  /\ r.at \in {"fill", "chat"} => InForce(r.limits)
  /\ r.at \notin {"log", "in", "out"} => r.owed = Nothing
  /\ r.owed["msg_day"] <= 1

SlotsHeld == \A s \in Slots : ServingSound(slot[s])

\* The tokens a request may still charge.
Pending(r) == IF r.at \in {"log", "run"} THEN 2 * MaxCost ELSE IF r.at = "in" THEN r.out ELSE 0

Owed(c) == Total([s \in Slots |-> slot[s].owed[c]])
Pend    == Total([s \in Slots |-> Pending(slot[s])])
Burst   == 2 * MaxCost * Cardinality(Slots)

\* What requests may owe when a window opens: it is charted there, not counted.
Slack(c) == Most(c) * Cardinality(Slots)

\* Even if every request under way charges all it may, the overdraft is theirs.
BooksHeld ==
  /\ \A c \in Messages : \E most \in Limits(c) : used[c] <= most
  /\ \A c \in Tokens : \E most \in Limits(c) : used[c] + Pend < most + Burst
  /\ \A c \in Charted : used[c] <= charted[c] + Owed(c) /\ charted[c] + Owed(c) <= used[c] + Slack(c)

AdmissionInv == MTypeOK /\ LimitsHeld /\ SlotsHeld /\ (faults = 0 => BooksHeld)

-----------------------------------------------------------------------------
(* Sums.                                                                   *)

LEMMA ConstantsAre ==
  /\ IsFiniteSet(Slots) /\ MaxCost \in Nat /\ MaxCost # 0 /\ Cardinality(Slots) \in Nat /\ Cardinality(Slots) # 0
  /\ Burst \in Nat /\ Burst # 0 /\ \A c \in Counters : Limits(c) \subseteq Nat
<1>1. IsFiniteSet(Slots) /\ MaxCost \in Nat /\ MaxCost # 0 /\ Slots # {}
  BY AdmissionAssumption
<1>2. Cardinality(Slots) \in Nat /\ Cardinality(Slots) # 0
  BY <1>1, FS_CardinalityType, FS_EmptySet
<1>3. Burst \in Nat /\ Burst # 0
  <2> DEFINE k == Cardinality(Slots)
  <2>1. k \in Nat /\ k # 0
    BY <1>2
  <2> HIDE DEF k
  <2>2. 2 * MaxCost * k \in Nat /\ 2 * MaxCost * k # 0
    BY <1>1, <2>1
  <2>3. QED
    BY <2>2 DEF Burst, k
<1>4. \A c \in Counters : Limits(c) \subseteq Nat
  BY DefaultsAssumption, PatchesAssumption DEF Limits
<1>5. QED
  BY <1>1, <1>2, <1>3, <1>4

LEMMA SlackIs ==
  ASSUME NEW c
  PROVE  Most(c) \in 0 .. MaxCost /\ Slack(c) \in Nat /\ Slack(c) = Cardinality(Slots) * Most(c)
<1>1. Most(c) \in Nat /\ Most(c) \in 0 .. MaxCost
  BY ConstantsAre DEF Most
<1> DEFINE m == Most(c)
           k == Cardinality(Slots)
<1>2. m \in Nat /\ k \in Nat
  BY <1>1, ConstantsAre
<1> HIDE DEF m, k
<1>3. m * k \in Nat /\ m * k = k * m
  BY <1>2
<1>4. QED
  BY <1>1, <1>3 DEF Slack, m, k

LEMMA StripeIs ==
  ASSUME NEW s, NEW k \in Nat
  PROVE  IsFiniteSet({s} \X (1 .. k)) /\ Cardinality({s} \X (1 .. k)) = k
<1>1. IsFiniteSet({s}) /\ Cardinality({s}) = 1
  BY FS_Singleton
<1>2. IsFiniteSet(1 .. k) /\ Cardinality(1 .. k) = k
  BY FS_Interval
<1>3. IsFiniteSet({s} \X (1 .. k)) /\ Cardinality({s} \X (1 .. k)) = 1 * k
  BY <1>1, <1>2, FS_Product
<1>4. QED
  BY <1>3

Units(n) == UNION {{s} \X (1 .. n[s]) : s \in DOMAIN n}

LEMMA UnitsAre ==
  ASSUME NEW B \in Nat, NEW n \in [Slots -> 0 .. B]
  PROVE  /\ IsFiniteSet(Units(n)) /\ Total(n) = Cardinality(Units(n))
         /\ Total(n) \in Nat /\ Total(n) <= Cardinality(Slots) * B
         /\ \A u : u \in Units(n) <=> u \in Slots \X (1 .. B) /\ u[2] <= n[u[1]]
<1>1. IsFiniteSet(Slots) /\ IsFiniteSet(1 .. B) /\ Cardinality(1 .. B) = B
  BY ConstantsAre, FS_Interval
<1>2. IsFiniteSet(Slots \X (1 .. B)) /\ Cardinality(Slots \X (1 .. B)) = Cardinality(Slots) * B
  BY <1>1, FS_Product
<1>3. \A s \in Slots : n[s] \in 0 .. B
  OBVIOUS
<1>4. \A u : u \in Units(n) <=> u \in Slots \X (1 .. B) /\ u[2] <= n[u[1]]
  <2>1. \A u : u \in Units(n) <=> \E s \in Slots : u \in {s} \X (1 .. n[s])
    BY DEF Units
  <2>2. \A u, s : s \in Slots => (u \in {s} \X (1 .. n[s]) <=> u \in Slots \X (1 .. B) /\ u[1] = s /\ u[2] <= n[s])
    BY <1>3
  <2>3. QED
    BY <2>1, <2>2
<1>5. Units(n) \in SUBSET (Slots \X (1 .. B))
  BY <1>4
<1>6. IsFiniteSet(Units(n)) /\ Cardinality(Units(n)) <= Cardinality(Slots) * B
  BY <1>2, <1>5, FS_Subset
<1>7. Total(n) = Cardinality(Units(n))
  BY DEF Total, Units
<1>8. Cardinality(Units(n)) \in Nat
  BY <1>6, FS_CardinalityType
<1>9. QED
  BY <1>4, <1>6, <1>7, <1>8

\* What the others hold does not matter.
LEMMA TotalMoves ==
  ASSUME NEW B \in Nat, NEW n \in [Slots -> 0 .. B], NEW m \in [Slots -> 0 .. B], NEW q \in Slots,
         \A s \in Slots \ {q} : m[s] = n[s]
  PROVE  Total(m) + n[q] = Total(n) + m[q]
<1> DEFINE rest == {u \in Units(n) : u[1] # q}
           Stripe(k) == {q} \X (1 .. k)
<1>1. ASSUME NEW f \in [Slots -> 0 .. B], \A s \in Slots \ {q} : f[s] = n[s]
      PROVE  Total(f) = Cardinality(rest) + f[q]
  <2>1. f[q] \in Nat /\ f[q] <= B
    OBVIOUS
  <2>2. \A u : u \in Stripe(f[q]) <=> u \in Slots \X (1 .. B) /\ u[1] = q /\ u[2] <= f[q]
    BY <2>1
  <2>3. \A u : u \in rest <=> u \in Slots \X (1 .. B) /\ u[1] # q /\ u[2] <= f[u[1]]
    BY <1>1, UnitsAre
  <2>4. \A u : u \in Units(f) <=> u \in Slots \X (1 .. B) /\ u[2] <= f[u[1]]
    BY UnitsAre
  <2> HIDE DEF rest, Stripe
  <2>5. Units(f) = rest \cup Stripe(f[q]) /\ rest \cap Stripe(f[q]) = {}
    BY <2>2, <2>3, <2>4
  <2>6. IsFiniteSet(Stripe(f[q])) /\ Cardinality(Stripe(f[q])) = f[q]
    BY <2>1, StripeIs DEF Stripe
  <2>7. IsFiniteSet(rest)
    <3>1. IsFiniteSet(Units(n)) /\ rest \in SUBSET Units(n)
      BY UnitsAre DEF rest
    <3>2. QED
      BY <3>1, FS_Subset
  <2>8. Cardinality(rest \cup Stripe(f[q])) = Cardinality(rest) + Cardinality(Stripe(f[q])) - Cardinality(rest \cap Stripe(f[q]))
    BY <2>6, <2>7, FS_Union
  <2>9. Cardinality(rest \cap Stripe(f[q])) = 0 /\ Cardinality(rest) \in Nat
    BY <2>5, <2>7, FS_EmptySet, FS_CardinalityType
  <2>10. Total(f) = Cardinality(Units(f))
    BY UnitsAre
  <2>11. QED
    BY <2>1, <2>5, <2>6, <2>8, <2>9, <2>10
<1>2. Total(n) = Cardinality(rest) + n[q] /\ Total(m) = Cardinality(rest) + m[q]
  BY <1>1
<1>3. Cardinality(rest) \in Nat /\ n[q] \in Nat /\ m[q] \in Nat
  <2>1. IsFiniteSet(Units(n)) /\ rest \in SUBSET Units(n)
    BY UnitsAre
  <2> HIDE DEF rest
  <2>2. QED
    BY <2>1, FS_Subset, FS_CardinalityType
<1> HIDE DEF rest
<1>4. QED
  BY <1>2, <1>3

LEMMA TotalZero ==
  ASSUME NEW n \in [Slots -> 0 .. 0]
  PROVE  Total(n) = 0
<1>1. 0 \in Nat
  OBVIOUS
<1>2. Total(n) \in Nat /\ Total(n) <= Cardinality(Slots) * 0
  BY <1>1, UnitsAre
<1>3. Cardinality(Slots) * 0 = 0
  BY ConstantsAre
<1>4. QED
  BY <1>2, <1>3

-----------------------------------------------------------------------------
(* The steps.                                                              *)

LEMMA PendingIs ==
  ASSUME NEW r \in Serving
  PROVE  Pending(r) \in 0 .. 2 * MaxCost
<1>1. r.out \in 0 .. MaxCost /\ MaxCost \in Nat
  BY ConstantsAre DEF Serving
<1>2. QED
  BY <1>1 DEF Pending

LEMMA OneServed ==
  ASSUME MTypeOK, NEW q \in Slots, NEW r \in Serving, slot' = [slot EXCEPT ![q] = r]
  PROVE  /\ slot' \in [Slots -> Serving] /\ \A s \in Slots : slot'[s] = IF s = q THEN r ELSE slot[s]
         /\ \A c \in Charted : /\ Owed(c) \in Nat /\ Owed(c)' \in Nat /\ slot[q].owed[c] \in Nat /\ r.owed[c] \in Nat
                               /\ Owed(c)' + slot[q].owed[c] = Owed(c) + r.owed[c]
         /\ Pend \in Nat /\ Pend' \in Nat /\ Pend' <= Burst /\ Pending(slot[q]) \in Nat /\ Pending(r) \in Nat
         /\ Pend' + Pending(slot[q]) = Pend + Pending(r)
<1>1. slot \in [Slots -> Serving]
  BY DEF MTypeOK
<1>2. slot' \in [Slots -> Serving] /\ \A s \in Slots : slot'[s] = IF s = q THEN r ELSE slot[s]
  BY <1>1
<1>3. ASSUME NEW c \in Charted
      PROVE  /\ Owed(c) \in Nat /\ Owed(c)' \in Nat /\ slot[q].owed[c] \in Nat /\ r.owed[c] \in Nat
             /\ Owed(c)' + slot[q].owed[c] = Owed(c) + r.owed[c]
  <2> DEFINE n == [s \in Slots |-> slot[s].owed[c]]
             m == [s \in Slots |-> slot'[s].owed[c]]
  <2>1. n \in [Slots -> 0 .. MaxCost] /\ m \in [Slots -> 0 .. MaxCost]
    BY <1>1, <1>2, <1>3 DEF Serving
  <2>2. \A s \in Slots \ {q} : m[s] = n[s]
    BY <1>2
  <2>3. n[q] = slot[q].owed[c] /\ m[q] = r.owed[c]
    BY <1>2
  <2>4. Owed(c) = Total(n) /\ Owed(c)' = Total(m)
    BY DEF Owed, Total
  <2>5. n[q] \in Nat /\ m[q] \in Nat /\ MaxCost \in Nat
    BY <2>1, ConstantsAre
  <2> HIDE DEF n, m
  <2>6. Total(n) \in Nat /\ Total(m) \in Nat
    BY <2>1, <2>5, UnitsAre
  <2>7. Total(m) + n[q] = Total(n) + m[q]
    BY <2>1, <2>2, <2>5, TotalMoves
  <2>8. QED
    BY <2>3, <2>4, <2>5, <2>6, <2>7
<1>4. /\ Pend \in Nat /\ Pend' \in Nat /\ Pend' <= Burst /\ Pending(slot[q]) \in Nat /\ Pending(r) \in Nat
      /\ Pend' + Pending(slot[q]) = Pend + Pending(r)
  <2> DEFINE n == [s \in Slots |-> Pending(slot[s])]
             m == [s \in Slots |-> Pending(slot'[s])]
             B == 2 * MaxCost
  <2>1. n \in [Slots -> 0 .. B] /\ m \in [Slots -> 0 .. B]
    BY <1>1, <1>2, PendingIs
  <2>2. \A s \in Slots \ {q} : m[s] = n[s]
    BY <1>2
  <2>3. n[q] = Pending(slot[q]) /\ m[q] = Pending(r)
    BY <1>2
  <2>4. Pend = Total(n) /\ Pend' = Total(m)
    BY DEF Pend, Total, Pending
  <2>5. B \in Nat /\ Burst = Cardinality(Slots) * B
    BY ConstantsAre DEF Burst
  <2> HIDE DEF n, m, B
  <2>6. n[q] \in Nat /\ m[q] \in Nat
    BY <2>1, <2>5
  <2>7. Total(n) \in Nat /\ Total(m) \in Nat /\ Total(m) <= Cardinality(Slots) * B
    BY <2>1, <2>5, UnitsAre
  <2>8. Total(m) + n[q] = Total(n) + m[q]
    BY <2>1, <2>2, <2>5, TotalMoves
  <2>9. QED
    BY <2>3, <2>4, <2>5, <2>6, <2>7, <2>8
<1>5. QED
  BY <1>2, <1>3, <1>4

\* One request moves: what it charges it may still charge, or it is let in below
\* the limit; what it charges is charted or owed.
LEMMA Serves ==
  ASSUME AdmissionInv, NEW q \in Slots, NEW r \in Serving, Proceeds(q, r), ServingSound(r),
         UNCHANGED <<global, override, admin, edits>>,
         limitsCached' \in {None} \cup GlobalRows, limitsCached' # None => InForce(limitsCached)',
         used' \in [Counters -> Nat], charted' \in [Charted -> Nat], faults' \in 0 .. MaxFaults,
         faults' = 0 =>
           /\ faults = 0
           /\ \A c \in Messages : used'[c] = used[c] \/ \E most \in Limits(c) : used'[c] <= most
           /\ \A c \in Tokens : \/ used'[c] + Pending(r) <= used[c] + Pending(slot[q])
                                \/ used'[c] = used[c] /\ \E most \in Limits(c) : used[c] < most
           /\ \A c \in Charted : used'[c] + charted[c] + slot[q].owed[c] = used[c] + charted'[c] + r.owed[c]
  PROVE  AdmissionInv'
<1>0. MTypeOK /\ LimitsHeld /\ SlotsHeld /\ (faults = 0 => BooksHeld)
  BY DEF AdmissionInv
<1>1. /\ slot' \in [Slots -> Serving] /\ \A s \in Slots : slot'[s] = IF s = q THEN r ELSE slot[s]
      /\ \A c \in Charted : /\ Owed(c) \in Nat /\ Owed(c)' \in Nat /\ slot[q].owed[c] \in Nat /\ r.owed[c] \in Nat
                            /\ Owed(c)' + slot[q].owed[c] = Owed(c) + r.owed[c]
      /\ Pend \in Nat /\ Pend' \in Nat /\ Pend' <= Burst /\ Pending(slot[q]) \in Nat /\ Pending(r) \in Nat
      /\ Pend' + Pending(slot[q]) = Pend + Pending(r)
  BY <1>0, OneServed DEF Proceeds
<1>2. MTypeOK'
  BY <1>0, <1>1 DEF MTypeOK
<1>3. LimitsHeld'
  BY <1>0 DEF LimitsHeld, InForce
<1>4. SlotsHeld'
  BY <1>0, <1>1 DEF SlotsHeld, ServingSound, InForce
<1>5. ASSUME faults' = 0 PROVE BooksHeld'
  <2>1. BooksHeld /\ faults = 0
    BY <1>0, <1>5
  <2>2. \A c \in Messages : \E most \in Limits(c) : used'[c] <= most
    BY <1>5, <2>1 DEF BooksHeld
  <2>3. ASSUME NEW c \in Tokens PROVE \E most \in Limits(c) : used'[c] + Pend' < most + Burst
    <3>1. used[c] \in Nat /\ used'[c] \in Nat /\ Limits(c) \subseteq Nat /\ Burst \in Nat
      BY <1>0, <2>3, ConstantsAre DEF MTypeOK, Counters
    <3>2. CASE used'[c] + Pending(r) <= used[c] + Pending(slot[q])
      <4>1. PICK most \in Limits(c) : used[c] + Pend < most + Burst
        BY <2>1, <2>3 DEF BooksHeld
      <4> DEFINE x == Pending(r)
                 y == Pending(slot[q])
      <4>2. x \in Nat /\ y \in Nat /\ used'[c] + x <= used[c] + y /\ Pend' + y = Pend + x /\ Pend \in Nat /\ Pend' \in Nat
        BY <1>1, <3>2
      <4> HIDE DEF x, y
      <4>3. used'[c] + Pend' < most + Burst
        BY <3>1, <4>1, <4>2
      <4>4. QED
        BY <4>3
    <3>3. CASE used'[c] = used[c] /\ \E most \in Limits(c) : used[c] < most
      BY <1>1, <3>1, <3>3
    <3>4. QED
      BY <1>5, <2>3, <3>2, <3>3
  <2>4. ASSUME NEW c \in Charted
        PROVE  used'[c] <= charted'[c] + Owed(c)' /\ charted'[c] + Owed(c)' <= used'[c] + Slack(c)
    <3>1. /\ used[c] \in Nat /\ used'[c] \in Nat /\ charted[c] \in Nat /\ charted'[c] \in Nat
          /\ Slack(c) \in Nat
      BY <1>0, <2>4, SlackIs DEF MTypeOK, Counters, Charted, Messages, Tokens
    <3>2. used[c] <= charted[c] + Owed(c) /\ charted[c] + Owed(c) <= used[c] + Slack(c)
      BY <2>1, <2>4 DEF BooksHeld
    <3>3. used'[c] + charted[c] + slot[q].owed[c] = used[c] + charted'[c] + r.owed[c]
      BY <1>5, <2>4
    <3> DEFINE x == slot[q].owed[c]
               y == r.owed[c]
               o == Owed(c)
               p == Owed(c)'
               u == used[c]
               v == used'[c]
               k == charted[c]
               l == charted'[c]
               g == Slack(c)
    <3>4. x \in Nat /\ y \in Nat /\ o \in Nat /\ p \in Nat /\ p + x = o + y
      BY <1>1, <2>4
    <3>5. /\ u \in Nat /\ v \in Nat /\ k \in Nat /\ l \in Nat /\ g \in Nat
          /\ u <= k + o /\ k + o <= u + g /\ v + k + x = u + l + y
      BY <3>1, <3>2, <3>3
    <3> HIDE DEF x, y, o, p, u, v, k, l, g
    <3>6. v <= l + p /\ l + p <= v + g
      BY <3>4, <3>5
    <3>7. QED
      BY <3>6 DEF p, v, l, g
  <2>5. QED
    BY <2>2, <2>3, <2>4 DEF BooksHeld
<1>6. QED
  BY <1>2, <1>3, <1>4, <1>5 DEF AdmissionInv

LEMMA IdleIs ==
  /\ Idle \in Serving /\ Idle.at = "idle" /\ Idle.limits = None /\ Idle.out = 0 /\ Idle.owed = Nothing
  /\ ServingSound(Idle) /\ Pending(Idle) = 0
<1>1. MaxCost \in Nat
  BY ConstantsAre
<1>2. Nothing \in [Charted -> 0 .. MaxCost]
  BY <1>1 DEF Nothing
<1>3. Idle \in Serving /\ Idle.at = "idle" /\ Idle.limits = None /\ Idle.out = 0 /\ Idle.owed = Nothing
  BY <1>1, <1>2 DEF Idle, Serving
<1>4. Idle.owed["msg_day"] = 0
  BY <1>3 DEF Nothing, Charted
<1>5. QED
  BY <1>3, <1>4 DEF ServingSound, Pending

\* What a request is that owes n for some counters.
LEMMA OwingIs ==
  ASSUME NEW S \in SUBSET Charted, NEW n \in 0 .. MaxCost
  PROVE  Bump(Nothing, S, n) \in [Charted -> 0 .. MaxCost] /\ \A c \in Charted : Bump(Nothing, S, n)[c] = IF c \in S THEN n ELSE 0
BY ConstantsAre DEF Bump, Nothing

LEMMA BumpIs ==
  ASSUME MTypeOK, NEW S \in SUBSET Counters, NEW n \in Nat
  PROVE  Bump(used, S, n) \in [Counters -> Nat] /\ \A c \in Counters : Bump(used, S, n)[c] = IF c \in S THEN used[c] + n ELSE used[c]
BY DEF Bump, MTypeOK

LEMMA NamesAre ==
  /\ Charted \subseteq Counters /\ Tokens \subseteq Charted /\ Messages \subseteq Counters /\ Tokens \cap Messages = {}
  /\ Charted = Tokens \cup {"msg_day"} /\ Counters = Messages \cup Tokens /\ "msg_day" \in Messages
BY DEF Charted, Counters, Messages, Tokens

LEMMA FaultsAre ==
  ASSUME MTypeOK, NEW ok \in BOOLEAN, May(ok), Count(ok)
  PROVE  faults' \in 0 .. MaxFaults /\ (faults' = 0 => faults = 0 /\ ok)
BY AdmissionAssumption DEF MTypeOK, May, Count

LEMMA EffectiveIs ==
  ASSUME MTypeOK, LimitsHeld
  PROVE  InForce(Effective)
<1>1. \A c \in Counters : Effective[c] = IF override[c] = Inherit THEN global[c] ELSE override[c]
  BY DEF Effective
<1>2. \A c \in Counters : Effective[c] \in Limits(c) /\ Limits(c) \subseteq Nat
  BY <1>1, ConstantsAre DEF LimitsHeld, InForce
<1>3. Effective \in [Counters -> Nat]
  BY <1>2 DEF Effective
<1>4. QED
  BY <1>2, <1>3 DEF InForce, GlobalRows

\* A step that only looks limits up.
LEMMA Looks ==
  ASSUME AdmissionInv, NEW q \in Slots, NEW r \in Serving, Proceeds(q, r), ServingSound(r), slot[q].at \in {"idle", "fill"},
         r.at \in {"idle", "fill", "chat"}, UNCHANGED <<global, override, used, charted, admin, edits>>,
         limitsCached' \in {None} \cup GlobalRows, limitsCached' # None => InForce(limitsCached)',
         NEW ok \in BOOLEAN, May(ok), Count(ok)
  PROVE  AdmissionInv'
<1>0. MTypeOK /\ SlotsHeld
  BY DEF AdmissionInv
<1>1. slot[q].owed = Nothing /\ r.owed = Nothing /\ Pending(r) = 0 /\ Pending(slot[q]) = 0
  BY <1>0 DEF SlotsHeld, ServingSound, Pending
<1>2. faults' \in 0 .. MaxFaults /\ (faults' = 0 => faults = 0)
  BY <1>0, FaultsAre
<1>3. used' \in [Counters -> Nat] /\ charted' \in [Charted -> Nat]
  BY <1>0 DEF MTypeOK
<1>4. /\ \A c \in Messages : used'[c] = used[c]
      /\ \A c \in Tokens : used'[c] + Pending(r) <= used[c] + Pending(slot[q])
      /\ \A c \in Charted : used'[c] + charted[c] + slot[q].owed[c] = used[c] + charted'[c] + r.owed[c]
  BY <1>0, <1>1, NamesAre DEF MTypeOK
<1>5. QED
  BY <1>2, <1>3, <1>4, Serves

LEMMA AsksStep ==
  ASSUME AdmissionInv, NEW q \in Slots, Asks(q)
  PROVE  AdmissionInv'
<1>0. MTypeOK /\ LimitsHeld
  BY DEF AdmissionInv
<1>1. PICK ok \in BOOLEAN :
        /\ May(ok) /\ Count(ok)
        /\ IF ok /\ limitsCached # None
           THEN Proceeds(q, [Idle EXCEPT !.at = "chat", !.limits = limitsCached])
           ELSE Proceeds(q, [Idle EXCEPT !.at = "fill", !.limits = Effective])
  BY DEF Asks
<1>2. UNCHANGED <<global, override, limitsCached, used, charted, admin, edits>> /\ slot[q].at = "idle"
  BY DEF Asks, IsAt
<1>3. /\ limitsCached' \in {None} \cup GlobalRows
      /\ limitsCached' # None => InForce(limitsCached)'
  BY <1>0, <1>2 DEF MTypeOK, LimitsHeld, InForce
<1>4. PICK l, here : /\ Proceeds(q, [Idle EXCEPT !.at = here, !.limits = l]) /\ here \in {"chat", "fill"}
                     /\ InForce(l)
  BY <1>0, <1>1, EffectiveIs DEF LimitsHeld
<1>5. PICK r : r = [Idle EXCEPT !.at = here, !.limits = l]
  OBVIOUS
<1>6. r \in Serving /\ r.at = here /\ r.limits = l /\ r.owed = Nothing
  BY <1>4, <1>5, IdleIs DEF Serving, InForce
<1>7. ServingSound(r)
  BY <1>4, <1>6, IdleIs DEF ServingSound
<1>8. QED
  BY <1>1, <1>2, <1>3, <1>4, <1>5, <1>6, <1>7, Looks

LEMMA FillStep ==
  ASSUME AdmissionInv, NEW q \in Slots, Fill(q)
  PROVE  AdmissionInv'
<1>0. MTypeOK /\ LimitsHeld /\ SlotsHeld
  BY DEF AdmissionInv
<1>1. PICK ok \in BOOLEAN : May(ok) /\ Count(ok) /\ limitsCached' = IF ok THEN slot[q].limits ELSE limitsCached
  BY DEF Fill
<1>2. PICK r : r = [slot[q] EXCEPT !.at = "chat"]
  OBVIOUS
<1>3. /\ UNCHANGED <<global, override, used, charted, admin, edits>> /\ Proceeds(q, r)
      /\ slot[q] \in Serving /\ slot[q].at = "fill" /\ ServingSound(slot[q])
  BY <1>0, <1>2 DEF Fill, IsAt, MTypeOK, SlotsHeld
<1>4. r \in Serving /\ r.at = "chat" /\ r.limits = slot[q].limits /\ r.owed = slot[q].owed
  BY <1>2, <1>3 DEF Serving
<1>5. ServingSound(r) /\ InForce(slot[q].limits)
  BY <1>3, <1>4 DEF ServingSound
<1>6. /\ limitsCached' \in {None} \cup GlobalRows
      /\ limitsCached' # None => InForce(limitsCached)'
  BY <1>0, <1>1, <1>5 DEF MTypeOK, LimitsHeld, InForce
<1>7. QED
  BY <1>1, <1>3, <1>4, <1>5, <1>6, Looks

\* Let in below every limit, or not at all.
LEMMA GateStep ==
  ASSUME AdmissionInv, NEW q \in Slots, Gate(q)
  PROVE  AdmissionInv'
<1>0. MTypeOK /\ LimitsHeld /\ SlotsHeld
  BY DEF AdmissionInv
<1> DEFINE l == slot[q].limits
<1>1. PICK seen \in BOOLEAN, kept \in BOOLEAN :
        /\ seen \/ kept \/ faults + 1 < MaxFaults
        /\ May(seen /\ kept) /\ faults' = faults + (IF seen THEN 0 ELSE 1) + (IF kept THEN 0 ELSE 1)
        /\ IF seen /\ (SentOut(l) \/ Spent(l))
           THEN kept /\ Frees(q) /\ UNCHANGED used
           ELSE /\ used' = IF kept THEN Bump(used, Messages, 1) ELSE used
                /\ Proceeds(q, [Idle EXCEPT !.at = "log", !.owed = Bump(Nothing, {"msg_day"}, 1)])
  BY DEF Gate
<1>2. UNCHANGED <<global, override, limitsCached, charted, admin, edits>> /\ slot[q].at = "chat"
  BY DEF Gate, IsAt
<1>3. slot[q].owed = Nothing /\ Pending(slot[q]) = 0 /\ InForce(l)
  BY <1>0, <1>2 DEF SlotsHeld, ServingSound, Pending
<1>4. faults' \in 0 .. MaxFaults /\ (faults' = 0 => faults = 0 /\ seen = TRUE /\ kept = TRUE)
  <2>1. faults \in 0 .. MaxFaults /\ MaxFaults \in Nat /\ (seen = TRUE \/ seen = FALSE) /\ (kept = TRUE \/ kept = FALSE)
    BY <1>0, AdmissionAssumption DEF MTypeOK
  <2>2. QED
    BY <1>1, <2>1 DEF May
<1>5. /\ limitsCached' \in {None} \cup GlobalRows
      /\ limitsCached' # None => InForce(limitsCached)'
  BY <1>0, <1>2 DEF MTypeOK, LimitsHeld, InForce
<1>6. charted' \in [Charted -> Nat]
  BY <1>0, <1>2 DEF MTypeOK
<1>7. CASE seen /\ (SentOut(l) \/ Spent(l))
  <2>1. PICK r : r = Idle
    OBVIOUS
  <2>2. Proceeds(q, r) /\ used' = used
    BY <1>1, <1>7, <2>1 DEF Frees
  <2>3. r \in Serving /\ ServingSound(r) /\ r.owed = Nothing /\ Pending(r) = 0
    BY <2>1, IdleIs
  <2>4. /\ \A c \in Messages : used'[c] = used[c]
        /\ \A c \in Tokens : used'[c] + Pending(r) <= used[c] + Pending(slot[q])
        /\ \A c \in Charted : used'[c] + charted[c] + slot[q].owed[c] = used[c] + charted'[c] + r.owed[c]
    BY <1>0, <1>2, <1>3, <2>2, <2>3, NamesAre DEF MTypeOK
  <2>5. used' \in [Counters -> Nat]
    BY <1>0, <2>2 DEF MTypeOK
  <2>6. QED
    BY <1>2, <1>4, <1>5, <1>6, <2>2, <2>3, <2>4, <2>5, Serves
<1>8. CASE ~(seen /\ (SentOut(l) \/ Spent(l)))
  <2> DEFINE owed == Bump(Nothing, {"msg_day"}, 1)
  <2>1. PICK r : r = [Idle EXCEPT !.at = "log", !.owed = owed]
    OBVIOUS
  <2>2. Proceeds(q, r) /\ used' = IF kept THEN Bump(used, Messages, 1) ELSE used
    BY <1>1, <1>8, <2>1
  <2>3. 1 \in 0 .. MaxCost /\ {"msg_day"} \in SUBSET Charted
    BY ConstantsAre, NamesAre
  <2>4. owed \in [Charted -> 0 .. MaxCost] /\ \A c \in Charted : owed[c] = IF c = "msg_day" THEN 1 ELSE 0
    BY <2>3, OwingIs
  <2> HIDE DEF owed
  <2>5. r \in Serving /\ r.at = "log" /\ r.owed = owed
    BY <2>1, <2>4, IdleIs DEF Serving
  <2>6. ServingSound(r)
    BY <2>4, <2>5, NamesAre DEF ServingSound
  <2>7. /\ Bump(used, Messages, 1) \in [Counters -> Nat]
        /\ \A c \in Counters : Bump(used, Messages, 1)[c] = IF c \in Messages THEN used[c] + 1 ELSE used[c]
    <3>1. Messages \in SUBSET Counters /\ 1 \in Nat
      BY NamesAre
    <3>2. QED
      BY <1>0, <3>1, BumpIs
  <2>8. used' \in [Counters -> Nat]
    BY <1>0, <2>2, <2>7 DEF MTypeOK
  <2>9. ASSUME faults' = 0
        PROVE  /\ faults = 0
               /\ \A c \in Messages : \E most \in Limits(c) : used'[c] <= most
               /\ \A c \in Tokens : used'[c] = used[c] /\ \E most \in Limits(c) : used[c] < most
               /\ \A c \in Charted : used'[c] + charted[c] + slot[q].owed[c] = used[c] + charted'[c] + r.owed[c]
    <3>1. faults = 0 /\ ~SentOut(l) /\ ~Spent(l)
      BY <1>4, <1>8, <2>9
    <3>2. \A c \in Counters : used'[c] = IF c \in Messages THEN used[c] + 1 ELSE used[c]
      BY <1>4, <2>2, <2>7, <2>9
    <3>3. \A c \in Counters : used[c] \in Nat /\ l[c] \in Nat /\ l[c] \in Limits(c)
      BY <1>0, <1>3 DEF MTypeOK, InForce, GlobalRows
    <3>4. \A c \in Counters : used[c] < l[c]
      BY <3>1, <3>3, NamesAre DEF SentOut, Spent, Full
    <3> HIDE DEF l
    <3>5. \A c \in Messages : used'[c] <= l[c] /\ l[c] \in Limits(c)
      BY <3>2, <3>3, <3>4, NamesAre
    <3>6. \A c \in Tokens : used'[c] = used[c] /\ used[c] < l[c] /\ l[c] \in Limits(c)
      BY <3>2, <3>3, <3>4, NamesAre
    <3>7. \A c \in Charted : slot[q].owed[c] = 0 /\ charted'[c] = charted[c] /\ charted[c] \in Nat
      BY <1>0, <1>2, <1>3 DEF Nothing, MTypeOK
    <3>8. \A c \in Charted : used'[c] = used[c] + r.owed[c] /\ r.owed[c] \in Nat /\ used[c] \in Nat
      BY <2>4, <2>5, <3>2, <3>3, NamesAre
    <3>9. \A c \in Charted : used'[c] + charted[c] + slot[q].owed[c] = used[c] + charted'[c] + r.owed[c]
      BY <3>7, <3>8
    <3>10. QED
      BY <3>1, <3>5, <3>6, <3>9
  <2>10. QED
    BY <1>2, <1>4, <1>5, <1>6, <2>2, <2>5, <2>6, <2>8, <2>9, Serves
<1>9. QED
  BY <1>7, <1>8

\* A row is in, or lost: the request goes on as r, owing nothing.
LEMMA RowStep ==
  ASSUME AdmissionInv, NEW q \in Slots, NEW r \in Serving, NEW ok \in BOOLEAN, May(ok), Count(ok), Proceeds(q, r),
         r.at \notin {"fill", "chat"}, r.owed = Nothing, Pending(r) <= Pending(slot[q]),
         charted' = IF ok THEN [c \in Charted |-> charted[c] + slot[q].owed[c]] ELSE charted,
         UNCHANGED <<global, override, limitsCached, used, admin, edits>>
  PROVE  AdmissionInv'
<1>0. MTypeOK /\ LimitsHeld
  BY DEF AdmissionInv
<1>1. faults' \in 0 .. MaxFaults /\ (faults' = 0 => faults = 0 /\ ok)
  BY <1>0, FaultsAre
<1>2. /\ limitsCached' \in {None} \cup GlobalRows
      /\ limitsCached' # None => InForce(limitsCached)'
  BY <1>0 DEF MTypeOK, LimitsHeld, InForce
<1>3. used' \in [Counters -> Nat] /\ ServingSound(r)
  BY <1>0, IdleIs DEF MTypeOK, ServingSound
<1>4. \A c \in Charted : charted[c] \in Nat /\ slot[q].owed[c] \in Nat /\ used[c] \in Nat /\ r.owed[c] = 0
  BY <1>0, NamesAre, ConstantsAre DEF MTypeOK, Serving, Nothing
<1>5. charted' \in [Charted -> Nat]
  <2>1. CASE ok
    BY <1>4, <2>1
  <2>2. CASE ~ok
    BY <1>0, <2>2 DEF MTypeOK
  <2>3. QED
    BY <2>1, <2>2
<1>6. \A c \in Tokens : used[c] \in Nat /\ used'[c] = used[c]
  BY <1>4, NamesAre
<1>7. Pending(r) \in Nat /\ Pending(slot[q]) \in Nat
  BY <1>0, PendingIs, ConstantsAre DEF MTypeOK
<1>8. ASSUME faults' = 0
      PROVE  /\ faults = 0
             /\ \A c \in Messages : used'[c] = used[c]
             /\ \A c \in Tokens : used'[c] + Pending(r) <= used[c] + Pending(slot[q])
             /\ \A c \in Charted : used'[c] + charted[c] + slot[q].owed[c] = used[c] + charted'[c] + r.owed[c]
  <2>1. \A c \in Charted : charted'[c] = charted[c] + slot[q].owed[c] /\ used'[c] = used[c]
    BY <1>1, <1>8
  <2>2. \A c \in Tokens : used'[c] + Pending(r) <= used[c] + Pending(slot[q])
    BY <1>6, <1>7
  <2>3. \A c \in Charted : used'[c] + charted[c] + slot[q].owed[c] = used[c] + charted'[c] + r.owed[c]
    BY <1>4, <2>1
  <2>4. QED
    BY <1>1, <1>8, <2>2, <2>3
<1>9. QED
  BY <1>1, <1>2, <1>3, <1>5, <1>8, Serves

\* record(): what is charged could still be charged, and is owed from now on.
LEMMA BookStep ==
  ASSUME AdmissionInv, NEW q \in Slots, NEW kind \in {"in", "out"}, NEW n \in 0 .. MaxCost, NEW out \in 0 .. MaxCost,
         Charge(q, kind, n, out), n + (IF kind = "in" THEN out ELSE 0) <= Pending(slot[q]),
         charted' \in [Charted -> Nat], \A c \in Charted : charted'[c] = charted[c] + slot[q].owed[c],
         UNCHANGED <<global, override, limitsCached, admin, edits>>
  PROVE  AdmissionInv'
<1>0. MTypeOK /\ LimitsHeld
  BY DEF AdmissionInv
<1> DEFINE owed == Bump(Nothing, Tokens, n)
<1>1. PICK ok \in BOOLEAN : /\ May(ok) /\ Count(ok) /\ used' = IF ok THEN Bump(used, Tokens, n) ELSE used
                            /\ Proceeds(q, [Idle EXCEPT !.at = kind, !.out = out, !.owed = owed])
  BY DEF Charge, Billable
<1>2. PICK r : r = [Idle EXCEPT !.at = kind, !.out = out, !.owed = owed]
  OBVIOUS
<1>3. owed \in [Charted -> 0 .. MaxCost] /\ \A c \in Charted : owed[c] = IF c \in Tokens THEN n ELSE 0
  BY NamesAre, OwingIs
<1>4. n \in Nat /\ out \in Nat
  BY ConstantsAre
<1>5. Bump(used, Tokens, n) \in [Counters -> Nat] /\ \A c \in Counters : Bump(used, Tokens, n)[c] = IF c \in Tokens THEN used[c] + n ELSE used[c]
  BY <1>0, <1>4, NamesAre, BumpIs
<1> HIDE DEF owed
<1>6. r \in Serving /\ r.at = kind /\ r.out = out /\ r.owed = owed
  BY <1>2, <1>3, IdleIs DEF Serving
<1>7. ServingSound(r) /\ Pending(r) = IF kind = "in" THEN out ELSE 0
  BY <1>3, <1>6, NamesAre DEF ServingSound, Pending
<1>8. faults' \in 0 .. MaxFaults /\ (faults' = 0 => faults = 0 /\ ok)
  BY <1>0, <1>1, FaultsAre
<1>9. /\ limitsCached' \in {None} \cup GlobalRows
      /\ limitsCached' # None => InForce(limitsCached)'
  BY <1>0 DEF MTypeOK, LimitsHeld, InForce
<1>10. used' \in [Counters -> Nat]
  BY <1>0, <1>1, <1>5 DEF MTypeOK
<1>11. Proceeds(q, r)
  BY <1>1, <1>2
<1>12. ASSUME faults' = 0
       PROVE  /\ faults = 0
              /\ \A c \in Messages : used'[c] = used[c]
              /\ \A c \in Tokens : used'[c] + Pending(r) <= used[c] + Pending(slot[q])
              /\ \A c \in Charted : used'[c] + charted[c] + slot[q].owed[c] = used[c] + charted'[c] + r.owed[c]
  <2>1. \A c \in Counters : used[c] \in Nat /\ used'[c] = IF c \in Tokens THEN used[c] + n ELSE used[c]
    BY <1>0, <1>1, <1>5, <1>8, <1>12 DEF MTypeOK
  <2>2. Pending(r) \in Nat /\ Pending(slot[q]) \in Nat /\ n + Pending(r) <= Pending(slot[q])
    BY <1>0, <1>6, <1>7, PendingIs, ConstantsAre DEF MTypeOK
  <2>3. \A c \in Tokens : used'[c] + Pending(r) <= used[c] + Pending(slot[q])
    <3>1. TAKE c \in Tokens
    <3> DEFINE u == used[c]
               x == Pending(r)
               y == Pending(slot[q])
    <3>2. u \in Nat /\ x \in Nat /\ y \in Nat /\ n + x <= y /\ used'[c] = u + n
      BY <2>1, <2>2, NamesAre
    <3> HIDE DEF u, x, y
    <3>3. used'[c] + x <= u + y
      BY <1>4, <3>2
    <3>4. QED
      BY <3>3 DEF u, x, y
  <2>4. \A c \in Charted : used'[c] + charted[c] + slot[q].owed[c] = used[c] + charted'[c] + r.owed[c]
    <3>1. TAKE c \in Charted
    <3> DEFINE u == used[c]
               k == charted[c]
               x == slot[q].owed[c]
               y == r.owed[c]
    <3>2. u \in Nat /\ used'[c] = u + y /\ y \in Nat
      BY <1>3, <1>4, <1>6, <2>1, NamesAre
    <3>3. k \in Nat /\ x \in Nat /\ charted'[c] = k + x
      BY <1>0, ConstantsAre DEF MTypeOK, Serving
    <3> HIDE DEF u, k, x, y
    <3>4. used'[c] + k + x = u + charted'[c] + y
      BY <3>2, <3>3
    <3>5. QED
      BY <3>4 DEF u, k, x, y
  <2>5. QED
    BY <1>8, <1>12, <2>1, <2>3, <2>4, NamesAre
<1>13. QED
  BY <1>6, <1>7, <1>8, <1>9, <1>10, <1>11, <1>12, Serves

LEMMA LogStep ==
  ASSUME AdmissionInv, NEW q \in Slots, LogMessage(q)
  PROVE  AdmissionInv'
<1>1. PICK r : r = [Idle EXCEPT !.at = "run"]
  OBVIOUS
<1>2. PICK ok \in BOOLEAN : /\ May(ok) /\ Count(ok) /\ Proceeds(q, r)
                            /\ charted' = IF ok THEN [c \in Charted |-> charted[c] + slot[q].owed[c]] ELSE charted
  BY <1>1 DEF LogMessage, Row
<1>3. r \in Serving /\ r.at = "run" /\ r.owed = Nothing
  BY <1>1, IdleIs DEF Serving
<1>4. slot[q].at = "log" /\ UNCHANGED <<global, override, limitsCached, used, admin, edits>>
  BY DEF LogMessage, IsAt
<1>5. Pending(r) <= Pending(slot[q])
  BY <1>3, <1>4, ConstantsAre DEF Pending
<1>6. QED
  BY <1>2, <1>3, <1>4, <1>5, RowStep

LEMMA CompletionStep ==
  ASSUME AdmissionInv, NEW q \in Slots, CompletionRow(q)
  PROVE  AdmissionInv'
<1>1. PICK r : r = Idle
  OBVIOUS
<1>2. PICK ok \in BOOLEAN : /\ May(ok) /\ Count(ok) /\ Proceeds(q, r)
                            /\ charted' = IF ok THEN [c \in Charted |-> charted[c] + slot[q].owed[c]] ELSE charted
  BY <1>1 DEF CompletionRow, Row, Frees
<1>3. r \in Serving /\ r.at = "idle" /\ r.owed = Nothing /\ Pending(r) = 0
  BY <1>1, IdleIs
<1>4. slot[q].at = "out" /\ UNCHANGED <<global, override, limitsCached, used, admin, edits>>
  BY DEF CompletionRow, IsAt
<1>5. Pending(r) <= Pending(slot[q])
  BY <1>3, <1>4 DEF Pending
<1>6. QED
  BY <1>2, <1>3, <1>4, <1>5, RowStep

LEMMA AnsweredStep ==
  ASSUME AdmissionInv, NEW q \in Slots, NEW in \in 0 .. MaxCost, NEW out \in 0 .. MaxCost, Answered(q, in, out)
  PROVE  AdmissionInv'
<1>0. MTypeOK /\ LimitsHeld /\ SlotsHeld /\ (faults = 0 => BooksHeld)
  BY DEF AdmissionInv
<1>1. slot[q].at = "run" /\ UNCHANGED <<global, override, limitsCached, charted, admin, edits>>
  BY DEF Answered, IsAt
<1>2. slot[q].owed = Nothing /\ Pending(slot[q]) = 2 * MaxCost
  BY <1>0, <1>1 DEF SlotsHeld, ServingSound, Pending
<1>3. MaxCost \in Nat /\ in \in Nat /\ out \in Nat /\ in <= MaxCost /\ out <= MaxCost
  BY ConstantsAre
<1>4. charted' \in [Charted -> Nat] /\ \A c \in Charted : charted'[c] = charted[c] + slot[q].owed[c]
  BY <1>0, <1>1, <1>2 DEF MTypeOK, Nothing
<1>5. CASE in > 0
  <2>1. Charge(q, "in", in, out)
    BY <1>5 DEF Answered
  <2>2. in + out <= Pending(slot[q])
    BY <1>2, <1>3
  <2>3. QED
    BY <1>1, <1>4, <2>1, <2>2, BookStep
<1>6. CASE ~(in > 0) /\ out > 0
  <2>1. Charge(q, "out", out, 0)
    BY <1>6 DEF Answered
  <2>2. out + 0 <= Pending(slot[q]) /\ 0 \in 0 .. MaxCost
    BY <1>2, <1>3
  <2>3. QED
    BY <1>1, <1>4, <2>1, <2>2, BookStep
<1>7. CASE ~(in > 0) /\ ~(out > 0)
  <2>1. PICK r : r = Idle
    OBVIOUS
  <2>2. Proceeds(q, r) /\ UNCHANGED <<used, faults>>
    BY <1>7, <2>1 DEF Answered, Frees
  <2>3. r \in Serving /\ ServingSound(r) /\ r.owed = Nothing /\ Pending(r) = 0
    BY <2>1, IdleIs
  <2>4. /\ \A c \in Messages : used'[c] = used[c]
        /\ \A c \in Tokens : used'[c] + Pending(r) <= used[c] + Pending(slot[q])
        /\ \A c \in Charted : used'[c] + charted[c] + slot[q].owed[c] = used[c] + charted'[c] + r.owed[c]
    BY <1>0, <1>1, <1>2, <1>3, <2>2, <2>3, NamesAre DEF MTypeOK
  <2>5. used' \in [Counters -> Nat] /\ faults' \in 0 .. MaxFaults /\ (faults' = 0 => faults = 0)
    BY <1>0, <2>2 DEF MTypeOK
  <2>6. /\ limitsCached' \in {None} \cup GlobalRows
        /\ limitsCached' # None => InForce(limitsCached)'
    BY <1>0, <1>1 DEF MTypeOK, LimitsHeld, InForce
  <2>7. QED
    BY <1>1, <1>4, <2>2, <2>3, <2>4, <2>5, <2>6, Serves
<1>8. QED
  BY <1>5, <1>6, <1>7

LEMMA PromptStep ==
  ASSUME AdmissionInv, NEW q \in Slots, PromptRow(q)
  PROVE  AdmissionInv'
<1>0. MTypeOK
  BY DEF AdmissionInv
<1>1. slot[q].at = "in" /\ UNCHANGED <<global, override, limitsCached, admin, edits>>
  BY DEF PromptRow, IsAt
<1>2. slot[q].out \in 0 .. MaxCost /\ Pending(slot[q]) = slot[q].out /\ MaxCost \in Nat
  BY <1>0, <1>1, ConstantsAre DEF MTypeOK, Serving, Pending
<1>3. PICK ok \in BOOLEAN :
        /\ May(ok)
        /\ charted' = IF ok THEN [c \in Charted |-> charted[c] + slot[q].owed[c]] ELSE charted
        /\ IF slot[q].out = 0
           THEN Count(ok) /\ Frees(q) /\ UNCHANGED used
           ELSE ok /\ Charge(q, "out", slot[q].out, 0)
  BY DEF PromptRow
<1>4. CASE slot[q].out = 0
  <2>1. PICK r : r = Idle
    OBVIOUS
  <2>2. r \in Serving /\ r.at = "idle" /\ r.owed = Nothing /\ Pending(r) = 0
    BY <2>1, IdleIs
  <2>3. Count(ok) /\ Proceeds(q, r) /\ UNCHANGED used
    BY <1>3, <1>4, <2>1 DEF Frees
  <2>4. Pending(r) <= Pending(slot[q])
    BY <1>2, <1>4, <2>2
  <2>5. QED
    BY <1>1, <1>3, <2>2, <2>3, <2>4, RowStep
<1>5. CASE slot[q].out # 0
  <2>1. ok /\ Charge(q, "out", slot[q].out, 0)
    BY <1>3, <1>5
  <2>2. charted' = [c \in Charted |-> charted[c] + slot[q].owed[c]]
    BY <1>3, <2>1
  <2>3. \A c \in Charted : charted[c] \in Nat /\ slot[q].owed[c] \in Nat
    BY <1>0, <1>2 DEF MTypeOK, Serving
  <2>4. charted' \in [Charted -> Nat] /\ \A c \in Charted : charted'[c] = charted[c] + slot[q].owed[c]
    BY <2>2, <2>3
  <2>5. slot[q].out + 0 <= Pending(slot[q]) /\ 0 \in 0 .. MaxCost
    BY <1>2
  <2>6. QED
    BY <1>1, <1>2, <2>1, <2>4, <2>5, BookStep
<1>6. QED
  BY <1>4, <1>5

\* Nothing is asked, charged or charted: only limits move.
LEMMA Calm ==
  ASSUME AdmissionInv, UNCHANGED <<used, charted, slot>>, LimitsHeld',
         global' \in GlobalRows, override' \in UserRows, limitsCached' \in {None} \cup GlobalRows,
         admin' \in {"none", "one", "all"}, edits' \in 0 .. MaxEdits, faults' \in 0 .. MaxFaults, faults' = 0 => faults = 0
  PROVE  AdmissionInv'
<1>0. MTypeOK /\ SlotsHeld /\ (faults = 0 => BooksHeld)
  BY DEF AdmissionInv
<1>1. MTypeOK'
  BY <1>0 DEF MTypeOK
<1>2. SlotsHeld'
  BY <1>0 DEF SlotsHeld, ServingSound, InForce
<1>3. ASSUME faults' = 0 PROVE BooksHeld'
  <2>1. BooksHeld
    BY <1>0, <1>3
  <2>2. Pend' = Pend
    BY DEF Pend, Total, Pending
  <2>3. \A c : Owed(c)' = Owed(c)
    BY DEF Owed, Total
  <2>4. QED
    BY <2>1, <2>2, <2>3 DEF BooksHeld
<1>4. QED
  BY <1>1, <1>2, <1>3 DEF AdmissionInv

\* What an edit writes was allowed to be written.
LEMMA EditIs ==
  ASSUME NEW p \in Patches, NEW row \in UserRows, \A c \in Counters : row[c] = Inherit \/ row[c] \in Limits(c)
  PROVE  /\ Over(row, p) \in UserRows /\ \A c \in Counters : Over(row, p)[c] = Inherit \/ Over(row, p)[c] \in Limits(c)
         /\ InForce(row) /\ Sets(p) => InForce(Over(row, p))
<1>1. \A c \in Counters : Over(row, p)[c] = IF c \in DOMAIN p THEN p[c] ELSE row[c]
  BY DEF Over
<1>2. \A c \in DOMAIN p : p[c] \in Nat \cup {Inherit} /\ (p[c] # Inherit => p[c] \in Limits(c))
  BY PatchesAssumption DEF Limits
<1>3. \A c \in Counters : row[c] \in Nat \cup {Inherit}
  BY DEF UserRows
<1>4. Over(row, p) \in UserRows
  <2>1. \A c \in Counters : Over(row, p)[c] \in Nat \cup {Inherit}
    BY <1>1, <1>2, <1>3
  <2>2. Over(row, p) = [c \in Counters |-> Over(row, p)[c]]
    BY DEF Over
  <2>3. QED
    BY <2>1, <2>2 DEF UserRows
<1>5. \A c \in Counters : Over(row, p)[c] = Inherit \/ Over(row, p)[c] \in Limits(c)
  BY <1>1, <1>2
<1>6. ASSUME InForce(row), Sets(p) PROVE InForce(Over(row, p))
  <2>1. \A c \in Counters : Over(row, p)[c] \in Limits(c)
    BY <1>1, <1>2, <1>6 DEF InForce, Sets
  <2>2. \A c \in Counters : Over(row, p)[c] \in Nat
    BY <2>1, ConstantsAre
  <2>3. Over(row, p) = [c \in Counters |-> Over(row, p)[c]]
    BY DEF Over
  <2>4. QED
    BY <2>1, <2>2, <2>3 DEF InForce, GlobalRows
<1>7. QED
  BY <1>4, <1>5, <1>6

LEMMA EditStep ==
  ASSUME AdmissionInv, Edit
  PROVE  AdmissionInv'
<1>0. MTypeOK /\ LimitsHeld
  BY DEF AdmissionInv
<1> DEFINE bare == [c \in Counters |-> Inherit]
<1>1. bare \in UserRows /\ \A c \in Counters : bare[c] = Inherit
  BY DEF UserRows
<1>2. global \in UserRows /\ override \in UserRows
  BY <1>0 DEF MTypeOK, GlobalRows, UserRows
<1>3. ASSUME NEW scope \in {"one", "all"}, Edits(scope), InForce(global'), override' \in UserRows,
             \A c \in Counters : override'[c] = Inherit \/ override'[c] \in Limits(c)
      PROVE  AdmissionInv'
  <2>1. UNCHANGED <<limitsCached, used, charted, slot, faults>> /\ admin' = scope /\ edits' = edits + 1 /\ edits < MaxEdits
    BY <1>3 DEF Edits
  <2>2. /\ limitsCached' \in {None} \cup GlobalRows /\ admin' \in {"none", "one", "all"} /\ faults' \in 0 .. MaxFaults
        /\ edits' \in 0 .. MaxEdits
    BY <1>0, <2>1, AdmissionAssumption DEF MTypeOK
  <2>3. LimitsHeld'
    BY <1>0, <1>3, <2>1 DEF LimitsHeld, InForce
  <2>4. global' \in GlobalRows
    BY <1>3 DEF InForce
  <2>5. QED
    BY <1>3, <2>1, <2>2, <2>3, <2>4, Calm
<1>4. ASSUME NEW p \in Patches, SetGlobal(p) PROVE AdmissionInv'
  <2>1. \A c \in Counters : global[c] = Inherit \/ global[c] \in Limits(c)
    BY <1>0 DEF LimitsHeld, InForce
  <2>2. InForce(Over(global, p))
    BY <1>0, <1>2, <1>4, <2>1, EditIs DEF LimitsHeld, SetGlobal
  <2>3. QED
    BY <1>0, <1>2, <1>3, <1>4, <2>2 DEF SetGlobal, LimitsHeld
<1>5. ASSUME NEW p \in Patches, SetUser(p) PROVE AdmissionInv'
  <2>1. /\ Over(bare, p) \in UserRows
        /\ \A c \in Counters : Over(bare, p)[c] = Inherit \/ Over(bare, p)[c] \in Limits(c)
    BY <1>1, EditIs
  <2>2. QED
    BY <1>0, <1>3, <1>5, <2>1 DEF SetUser, LimitsHeld
<1>6. ASSUME NEW p \in Patches, SetAll(p) PROVE AdmissionInv'
  <2>1. /\ Over(override, p) \in UserRows
        /\ \A c \in Counters : Over(override, p)[c] = Inherit \/ Over(override, p)[c] \in Limits(c)
    BY <1>0, <1>2, EditIs DEF LimitsHeld
  <2>2. QED
    BY <1>0, <1>3, <1>6, <2>1 DEF SetAll, LimitsHeld
<1>7. ASSUME ClearUser \/ ClearAll PROVE AdmissionInv'
  BY <1>0, <1>1, <1>3, <1>7 DEF ClearUser, ClearAll, LimitsHeld
<1>8. QED
  BY <1>4, <1>5, <1>6, <1>7 DEF Edit

LEMMA DropStep ==
  ASSUME AdmissionInv, Invalidate \/ LimitsExpire
  PROVE  AdmissionInv'
<1>0. MTypeOK /\ LimitsHeld
  BY DEF AdmissionInv
<1>1. UNCHANGED <<global, override, used, charted, slot, edits>>
  BY DEF Invalidate, LimitsExpire
<1>2. limitsCached' \in {None, limitsCached} /\ admin' \in {"none", admin}
  BY DEF Invalidate, LimitsExpire
<1>3. faults' \in 0 .. MaxFaults /\ (faults' = 0 => faults = 0)
  <2>1. CASE Invalidate
    BY <1>0, <2>1, FaultsAre DEF Invalidate
  <2>2. CASE LimitsExpire
    BY <1>0, <2>2 DEF LimitsExpire, MTypeOK
  <2>3. QED
    BY <2>1, <2>2
<1>4. LimitsHeld'
  BY <1>0, <1>1, <1>2 DEF LimitsHeld, InForce
<1>5. /\ global' \in GlobalRows /\ override' \in UserRows /\ limitsCached' \in {None} \cup GlobalRows
      /\ admin' \in {"none", "one", "all"} /\ edits' \in 0 .. MaxEdits
  BY <1>0, <1>1, <1>2 DEF MTypeOK
<1>6. QED
  BY <1>1, <1>3, <1>4, <1>5, Calm

\* A new window: nothing used, nothing charted, and what is still owed to it was
\* counted in the last; the other windows as they were.
LEMMA RollsStep ==
  ASSUME AdmissionInv, NEW window \in {"minute", "day", "month"}, Rolls(window)
  PROVE  AdmissionInv'
<1>0. MTypeOK /\ LimitsHeld /\ SlotsHeld /\ (faults = 0 => BooksHeld)
  BY DEF AdmissionInv
<1>1. PICK over : over = CASE window = "minute" -> {"msg_minute"}
                           [] window = "day"    -> {"msg_minute", "msg_day", "tok_day"}
                           [] window = "month"  -> Counters
  OBVIOUS
<1>2. PICK dated \in SUBSET Slots :
      /\ used' = [c \in DOMAIN used |-> IF c \in over THEN 0 ELSE used[c]]
      /\ charted' = [c \in DOMAIN charted |-> IF c \in over THEN 0 ELSE charted[c]]
      /\ slot' = [s \in Slots |-> IF s \in dated
                                  THEN [slot[s] EXCEPT !.owed = [c \in DOMAIN slot[s].owed |-> IF c \in over THEN 0 ELSE slot[s].owed[c]]]
                                  ELSE slot[s]]
      /\ UNCHANGED <<global, override, limitsCached, admin, edits, faults>>
  BY <1>1 DEF Rolls
<1>3. /\ used' \in [Counters -> Nat] /\ \A c \in Counters : used[c] \in Nat /\ used'[c] = IF c \in over THEN 0 ELSE used[c]
      /\ charted' \in [Charted -> Nat] /\ \A c \in Charted : charted[c] \in Nat /\ charted'[c] = IF c \in over THEN 0 ELSE charted[c]
  BY <1>0, <1>2 DEF MTypeOK
<1>4. ASSUME NEW s \in Slots
      PROVE  /\ slot'[s] \in Serving /\ slot'[s].at = slot[s].at /\ slot'[s].out = slot[s].out /\ slot'[s].limits = slot[s].limits
             /\ \A c \in Charted : /\ slot'[s].owed[c] \in {0, slot[s].owed[c]}
                                   /\ c \notin over => slot'[s].owed[c] = slot[s].owed[c]
             /\ slot[s].owed = Nothing => slot'[s].owed = Nothing
  <2> DEFINE o == [c \in DOMAIN slot[s].owed |-> IF c \in over THEN 0 ELSE slot[s].owed[c]]
  <2>1. slot[s] \in Serving /\ slot[s].owed \in [Charted -> 0 .. MaxCost] /\ MaxCost \in Nat
    BY <1>0, ConstantsAre DEF MTypeOK, Serving
  <2>2. o \in [Charted -> 0 .. MaxCost] /\ \A c \in Charted : o[c] = IF c \in over THEN 0 ELSE slot[s].owed[c]
    BY <2>1
  <2>3. slot[s].owed = Nothing => o = Nothing
    BY DEF Nothing
  <2>4. slot'[s] \in {slot[s], [slot[s] EXCEPT !.owed = o]}
    BY <1>2
  <2> HIDE DEF o
  <2>5. CASE slot'[s] = slot[s]
    BY <2>1, <2>5
  <2>6. CASE slot'[s] = [slot[s] EXCEPT !.owed = o]
    <3>1. slot'[s].owed = o
      BY <2>1, <2>6 DEF Serving
    <3>2. QED
      BY <2>1, <2>2, <2>3, <2>6, <3>1 DEF Serving
  <2>7. QED
    BY <2>4, <2>5, <2>6
<1>5. MTypeOK'
  <2>1. slot' = [s \in Slots |-> slot'[s]]
    BY <1>2
  <2>2. slot' \in [Slots -> Serving]
    BY <1>4, <2>1
  <2>3. QED
    BY <1>0, <1>2, <1>3, <2>2 DEF MTypeOK
<1>6. LimitsHeld'
  BY <1>0, <1>2 DEF LimitsHeld, InForce
<1>7. SlotsHeld'
  <2>1. ASSUME NEW s \in Slots PROVE ServingSound(slot'[s])
    <3>1. slot'[s].owed["msg_day"] \in {0, slot[s].owed["msg_day"]} /\ ServingSound(slot[s])
      BY <1>0, <1>4, NamesAre DEF SlotsHeld
    <3>2. QED
      BY <1>4, <3>1 DEF ServingSound
  <2>2. QED
    BY <2>1 DEF SlotsHeld, ServingSound, InForce
<1>8. ASSUME faults' = 0 PROVE BooksHeld'
  <2>1. BooksHeld
    BY <1>0, <1>2, <1>8
  <2>2. Pend' = Pend /\ Pend \in Nat
    <3> DEFINE n == [s \in Slots |-> Pending(slot[s])]
               m == [s \in Slots |-> Pending(slot'[s])]
               B == 2 * MaxCost
    <3>1. n \in [Slots -> 0 .. B]
      BY <1>0, PendingIs DEF MTypeOK
    <3>2. n = m
      BY <1>4 DEF Pending
    <3>3. Pend = Total(n) /\ Pend' = Total(m)
      BY DEF Pend, Total, Pending
    <3>4. B \in Nat
      BY ConstantsAre
    <3> HIDE DEF n, m, B
    <3>5. Total(n) \in Nat
      BY <3>1, <3>4, UnitsAre
    <3>6. QED
      BY <3>2, <3>3, <3>5
  <2>3. ASSUME NEW c \in Messages PROVE \E most \in Limits(c) : used'[c] <= most
    <3>1. PICK most \in Limits(c) : used[c] <= most
      BY <2>1 DEF BooksHeld
    <3>2. most \in Nat /\ used[c] \in Nat /\ used'[c] <= used[c]
      BY <1>3, <2>3, <3>1, ConstantsAre, NamesAre
    <3>3. used'[c] <= most
      BY <1>3, <2>3, <3>1, <3>2, NamesAre
    <3>4. QED
      BY <3>3
  <2>4. ASSUME NEW c \in Tokens PROVE \E most \in Limits(c) : used'[c] + Pend' < most + Burst
    <3>1. PICK most \in Limits(c) : used[c] + Pend < most + Burst
      BY <2>1 DEF BooksHeld
    <3>2. /\ most \in Nat /\ used[c] \in Nat /\ used'[c] \in Nat /\ used'[c] <= used[c] /\ Burst \in Nat
      BY <1>3, <2>4, <3>1, ConstantsAre, NamesAre
    <3> DEFINE u == used[c]
               v == used'[c]
               p == Pend
               b == Burst
    <3>3. u \in Nat /\ v \in Nat /\ v <= u /\ p \in Nat /\ b \in Nat /\ u + p < most + b
      BY <2>2, <3>1, <3>2
    <3> HIDE DEF u, v, p, b
    <3>4. v + p < most + b
      BY <3>2, <3>3
    <3>5. used'[c] + Pend' < most + Burst
      BY <2>2, <3>4 DEF u, v, p, b
    <3>6. QED
      BY <3>5
  <2>5. ASSUME NEW c \in Charted
        PROVE  used'[c] <= charted'[c] + Owed(c)' /\ charted'[c] + Owed(c)' <= used'[c] + Slack(c)
    <3> DEFINE n == [s \in Slots |-> slot[s].owed[c]]
               m == [s \in Slots |-> slot'[s].owed[c]]
    <3>1. Owed(c) = Total(n) /\ Owed(c)' = Total(m)
      BY DEF Owed, Total
    <3>2. CASE c \in over
      <4>1. m \in [Slots -> 0 .. Most(c)]
        <5>1. ASSUME NEW s \in Slots PROVE slot'[s].owed[c] \in 0 .. Most(c)
          <6>1. slot'[s].owed[c] \in 0 .. MaxCost /\ MaxCost \in Nat
            BY <1>4, <2>5, ConstantsAre DEF Serving
          <6>2. c = "msg_day" => slot'[s].owed[c] <= 1
            BY <1>7, <2>5 DEF SlotsHeld, ServingSound
          <6>3. QED
            BY <6>1, <6>2 DEF Most
        <5>2. QED
          BY <5>1
      <4> HIDE DEF m
      <4>2. Total(m) \in Nat /\ Total(m) <= Slack(c)
        BY <4>1, SlackIs, UnitsAre
      <4>3. used'[c] = 0 /\ charted'[c] = 0
        BY <1>3, <2>5, <3>2, NamesAre
      <4> DEFINE t == Total(m)
                 g == Slack(c)
      <4>4. t \in Nat /\ g \in Nat /\ t <= g
        BY <4>2, SlackIs
      <4> HIDE DEF t, g
      <4>5. 0 <= 0 + t /\ 0 + t <= 0 + g
        BY <4>4
      <4>6. QED
        BY <3>1, <4>3, <4>5 DEF t, g
    <3>3. CASE c \notin over
      <4>1. m = n
        BY <1>4, <2>5, <3>3
      <4>2. /\ used'[c] = used[c] /\ charted'[c] = charted[c]
            /\ used[c] <= charted[c] + Owed(c) /\ charted[c] + Owed(c) <= used[c] + Slack(c)
        BY <1>3, <2>1, <2>5, <3>3, NamesAre DEF BooksHeld
      <4>3. Owed(c)' = Owed(c)
        BY <3>1, <4>1
      <4>4. QED
        BY <4>2, <4>3
    <3>4. QED
      BY <3>2, <3>3
  <2>6. QED
    BY <2>3, <2>4, <2>5 DEF BooksHeld
<1>9. QED
  BY <1>5, <1>6, <1>7, <1>8 DEF AdmissionInv

LEMMA AdmissionInit ==
  ASSUME MInit
  PROVE  AdmissionInv
<1>1. MTypeOK
  <2>1. Defaults \in GlobalRows /\ [c \in Counters |-> Inherit] \in UserRows
    BY DefaultsAssumption DEF GlobalRows, UserRows
  <2>2. [c \in Counters |-> 0] \in [Counters -> Nat] /\ Nothing \in [Charted -> Nat]
    BY DEF Nothing
  <2>3. [s \in Slots |-> Idle] \in [Slots -> Serving]
    BY IdleIs
  <2>4. 0 \in 0 .. MaxEdits /\ 0 \in 0 .. MaxFaults
    BY AdmissionAssumption
  <2>5. QED
    BY <2>1, <2>2, <2>3, <2>4 DEF MInit, MTypeOK
<1>2. LimitsHeld
  BY DefaultsAssumption DEF LimitsHeld, InForce, MInit, Limits, GlobalRows
<1>3. SlotsHeld
  BY IdleIs DEF SlotsHeld, MInit
<1>4. \A c \in Counters : used[c] = 0 /\ Defaults[c] \in Limits(c) /\ Defaults[c] \in Nat
  BY DefaultsAssumption DEF MInit, Limits
<1>5. Pend = 0
  <2> DEFINE n == [s \in Slots |-> Pending(slot[s])]
  <2>1. n \in [Slots -> 0 .. 0]
    BY IdleIs DEF MInit
  <2> HIDE DEF n
  <2>2. Total(n) = 0
    BY <2>1, TotalZero
  <2>3. QED
    BY <2>2 DEF Pend, n
<1>6. ASSUME NEW c \in Charted PROVE Owed(c) = 0
  <2> DEFINE n == [s \in Slots |-> slot[s].owed[c]]
  <2>1. n \in [Slots -> 0 .. 0]
    BY <1>6, IdleIs DEF MInit, Nothing
  <2> HIDE DEF n
  <2>2. Total(n) = 0
    BY <2>1, TotalZero
  <2>3. QED
    BY <2>2 DEF Owed, n
<1>7. BooksHeld
  <2>1. \A c \in Messages : \E most \in Limits(c) : used[c] <= most
    BY <1>4, NamesAre
  <2>2. \A c \in Tokens : used[c] + Pend < Defaults[c] + Burst
    BY <1>4, <1>5, ConstantsAre, NamesAre
  <2>3. \A c \in Charted : charted[c] = 0
    BY DEF MInit, Nothing
  <2>4. \A c \in Charted : used[c] <= charted[c] + Owed(c) /\ charted[c] + Owed(c) <= used[c] + Slack(c)
    BY <1>4, <1>6, <2>3, NamesAre, SlackIs
  <2>5. QED
    BY <1>4, <2>1, <2>2, <2>4, NamesAre DEF BooksHeld
<1>8. QED
  BY <1>1, <1>2, <1>3, <1>7 DEF AdmissionInv

LEMMA AdmissionNext ==
  ASSUME AdmissionInv, [MNext]_mvars
  PROVE  AdmissionInv'
<1>1. ASSUME NEW q \in Slots, Asks(q) \/ Serve(q) PROVE AdmissionInv'
  BY <1>1, AsksStep, FillStep, GateStep, LogStep, AnsweredStep, PromptStep, CompletionStep DEF Serve
<1>2. CASE Edit \/ Invalidate \/ LimitsExpire
  BY <1>2, EditStep, DropStep
<1>3. ASSUME NEW window \in {"minute", "day", "month"}, Rolls(window) PROVE AdmissionInv'
  BY <1>3, RollsStep
<1>4. CASE UNCHANGED mvars
  <2>1. UNCHANGED <<global, override, limitsCached, used, charted, slot, admin, edits, faults>>
    BY <1>4 DEF mvars
  <2>2. MTypeOK /\ LimitsHeld
    BY DEF AdmissionInv
  <2>3. LimitsHeld'
    BY <2>1, <2>2 DEF LimitsHeld, InForce
  <2>4. QED
    BY <2>1, <2>2, <2>3, Calm DEF MTypeOK
<1>5. QED
  BY <1>1, <1>2, <1>3, <1>4 DEF MNext, Works

\* limits/service.py, limits/deps.py, usage/recorder.py: the limits a request goes
\* by were in force, it owes only what it charged, and while nothing failed the
\* rows and what is owed cover the counters, and exceed them by no more than was
\* owed when the window opened.
THEOREM AdmissionInvHolds == MSpec => []AdmissionInv
<1>1. MInit => AdmissionInv
  BY AdmissionInit
<1>2. AdmissionInv /\ [MNext]_mvars => AdmissionInv'
  BY AdmissionNext
<1>3. QED
  BY <1>1, <1>2, PTL DEF MSpec

\* However many requests are served at once and whatever edits race them, no window
\* takes more messages than its largest limit, tokens overdraw a budget by less
\* than the requests under way may cost, and what a counter counts is charted or
\* still to be charted; more is charted only by what was owed when the window opened.
THEOREM BudgetsHold == MSpec => []CountersHold
<1>1. AdmissionInv => CountersHold
  <2>1. SUFFICES ASSUME AdmissionInv, faults = 0
                 PROVE  /\ \A c \in Messages : \E most \in Limits(c) : used[c] <= most
                        /\ \A c \in Tokens : \E most \in Limits(c) : used[c] < most + 2 * MaxCost * Cardinality(Slots)
                        /\ \A c \in Charted : LET dated == charted[c] + Total([s \in Slots |-> slot[s].owed[c]]) IN
                             used[c] <= dated /\ dated <= used[c] + Most(c) * Cardinality(Slots)
    BY DEF CountersHold
  <2>2. MTypeOK /\ BooksHeld
    BY <2>1 DEF AdmissionInv
  <2>3. Pend \in Nat
    <3> DEFINE n == [s \in Slots |-> Pending(slot[s])]
               B == 2 * MaxCost
    <3>1. n \in [Slots -> 0 .. B] /\ B \in Nat
      BY <2>2, PendingIs, ConstantsAre DEF MTypeOK
    <3> HIDE DEF n, B
    <3>2. Total(n) \in Nat
      BY <3>1, UnitsAre
    <3>3. QED
      BY <3>2 DEF Pend, n
  <2>4. ASSUME NEW c \in Tokens PROVE \E most \in Limits(c) : used[c] < most + 2 * MaxCost * Cardinality(Slots)
    <3>1. PICK most \in Limits(c) : used[c] + Pend < most + Burst
      BY <2>2 DEF BooksHeld
    <3>2. most \in Nat /\ used[c] \in Nat /\ Burst \in Nat
      BY <2>2, <2>4, <3>1, ConstantsAre, NamesAre DEF MTypeOK
    <3>3. used[c] < most + Burst
      <4> DEFINE u == used[c]
                 p == Pend
                 b == Burst
      <4>1. u \in Nat /\ p \in Nat /\ b \in Nat /\ most \in Nat /\ u + p < most + b
        BY <2>3, <3>1, <3>2
      <4> HIDE DEF u, p, b
      <4>2. u < most + b
        BY <4>1
      <4>3. QED
        BY <4>2 DEF u, b
    <3>4. QED
      BY <3>3 DEF Burst
  <2>5. QED
    BY <2>2, <2>4 DEF BooksHeld, Owed, Slack
<1>2. QED
  BY <1>1, AdmissionInvHolds, PTL
=============================================================================
