------------------------------ MODULE Accounts ------------------------------
(***************************************************************************)
(* One account, the codes mailed to it, its sessions and API keys, and the *)
(* Redis copies of who holds them: accounts/service.py, accounts/keys.py,  *)
(* the endpoints of api/routers/auth.py and the account endpoints of       *)
(* api/routers/admin.py.                                                   *)
(*                                                                         *)
(* Every request is a process that makes one call and stops at each        *)
(* transaction boundary and at each Redis call.  A transaction that writes *)
(* what it read is two steps, its reads and its commit (READ COMMITTED, no *)
(* row lock unless the code asks for one); any other is one step.  A call  *)
(* to Redis may fail, and a failure is swallowed.  Time is what may have   *)
(* run out: codes, sessions, locks and cache entries expire at any moment. *)
(***************************************************************************)
EXTENDS Naturals, Sequences, FiniteSets

CONSTANTS
  Requests,     \* the calls of one behaviour; a session or a key that a call
                \* opens is named after the call
  First,        \* the session and the key the account starts with
  NoId,         \* no session
  Passwords,
  MaxAttempts,  \* auth.otp_max_attempts
  OpenRegistration,  \* auth.open_registration
  Threshold,    \* auth.lockout_threshold; 0 switches the lock off
  MaxCodes      \* bound: codes ever mailed

ASSUME AttemptsAssumption == MaxAttempts \in Nat \ {0} /\ Threshold \in Nat
ASSUME RegistrationAssumption == OpenRegistration \in BOOLEAN
ASSUME IdsAssumption == First \notin Requests /\ NoId \notin Requests \cup {First}

Ids      == Requests \cup {First}
Roles    == {"user", "admin"}
Purposes == {"verify", "reset"}
Accounts == [status : {"none", "pending", "active", "suspended", "gone"}, role : Roles,
             password : Passwords, failures : Nat, locked : BOOLEAN]
Codes    == [purpose : Purposes, attempts : Nat, live : BOOLEAN, expired : BOOLEAN,
             guesses : Nat, spent : {"no"} \cup Purposes]
SessionRows == [Ids -> {"free", "live", "dead"}]
KeyRows     == [Ids -> {"free", "live", "dead"}]

VARIABLES
  account,   \* the row of users; "none" before sign-up, "gone" once deleted
  codes,     \* the rows of email_otps, oldest first
  session,   \* each session row: "free" before it exists, "live", or "dead"
  key,       \* each api_keys row, likewise
  cached,    \* who Redis says the holder of a session is: a role, or "none"
  cachedKey, \* who Redis says the holder of an API key is
  cookie,    \* the session the browser holds
  req        \* each request: what it does, where it is, what it remembers

rows   == <<account, codes, session, key>>
caches == <<cached, cachedKey>>
vars   == <<rows, caches, cookie, req>>

\* What a request remembers between two steps: the session it came with, the
\* role it was let in as, the code it was matched with, the rows a query gave
\* it, the account as it read it, and (a ghost) the sessions and keys that were
\* live when the call it makes decided they must go.
Blank == [op |-> "none", at |-> "new", tok |-> NoId, who |-> "none", code |-> 0,
          held |-> {}, saw |-> <<>>, old |-> {}]

TypeOK ==
  /\ account \in Accounts
  /\ \A c \in DOMAIN codes : codes[c] \in Codes
  /\ session \in SessionRows /\ key \in KeyRows
  /\ cached \in [Ids -> Roles \cup {"none"}] /\ cachedKey \in [Ids -> Roles \cup {"none"}]
  /\ cookie \in Ids \cup {NoId}
  /\ DOMAIN req = Requests
-----------------------------------------------------------------------------
New(r)         == req[r].at = "new"
At(r, place)   == req[r].at = place
Exists         == account.status \notin {"none", "gone"}
Live(t)        == {i \in Ids : t[i] = "live"}
Kill(t, S)     == [i \in Ids |-> IF i \in S /\ t[i] = "live" THEN "dead" ELSE t[i]]
Forget(c, S)   == [i \in Ids |-> IF i \in S THEN "none" ELSE c[i]]
Becomes(r, m)  == req' = [req EXCEPT ![r] = m]
Goes(r, place) == Becomes(r, [req[r] EXCEPT !.at = place])
Ends(r)        == Becomes(r, [Blank EXCEPT !.op = req[r].op, !.at = "done", !.old = req[r].old])
EndsAs(r, op)  == Becomes(r, [Blank EXCEPT !.op = op, !.at = "done"])
Begins(r, op, place) == Becomes(r, [Blank EXCEPT !.op = op, !.at = place])

\* The ORM writes an attribute only when it changed since the row was read.
Cleared(saw) == [account EXCEPT !.failures = IF saw.failures # 0 THEN 0 ELSE @,
                                !.locked = IF saw.locked THEN FALSE ELSE @]

\* A session is opened for the request; the response carries it as a cookie.
OpenSession(r) == session' = [session EXCEPT ![r] = "live"] /\ cookie' = r

\* Mutant: the purpose filter is forgotten.
AnyLiveCodes(purpose) == {c \in DOMAIN codes : codes[c].live}

LiveCodes(purpose) == {c \in DOMAIN codes : codes[c].live /\ codes[c].purpose = purpose}
-----------------------------------------------------------------------------
(* Codes: sign-up, resend, forgotten password, invitation.                 *)

IssuesFor(r, op, purpose) ==
  /\ Len(codes) + Cardinality({q \in Requests : At(q, "issue")}) < MaxCodes
  /\ Becomes(r, [Blank EXCEPT !.op = op, !.at = "issue", !.who = purpose,
                              !.held = LiveCodes(purpose), !.saw = account.status, !.old = req[r].old])

\* An unknown address gets a row, a pending one another code, any other nothing.
Signup(r) ==
  /\ New(r)
  /\ IF account.status \in {"none", "pending"} THEN IssuesFor(r, "signup", "verify") ELSE EndsAs(r, "signup")
  /\ UNCHANGED <<rows, caches, cookie>>

\* Also the admin's resend-verification.
Resend(r) ==
  /\ New(r)
  /\ IF account.status = "pending" THEN IssuesFor(r, "resend", "verify") ELSE EndsAs(r, "resend")
  /\ UNCHANGED <<rows, caches, cookie>>

Forgot(r) ==
  /\ New(r)
  /\ IF account.status = "active" THEN IssuesFor(r, "forgot", "reset") ELSE EndsAs(r, "forgot")
  /\ UNCHANGED <<rows, caches, cookie>>

Invite(r) ==
  /\ New(r)
  /\ IF account.status = "none" THEN IssuesFor(r, "invite", "reset") ELSE EndsAs(r, "invite")
  /\ UNCHANGED <<rows, caches, cookie>>

\* The commit of a transaction that issues a code: the codes it saw are
\* consumed and a new one added.  The unique index refuses a second row for the
\* address, the foreign key a code for a row that is gone.
IssueCommits(r) ==
  /\ At(r, "issue")
  /\ LET creates == req[r].saw = "none" IN
     IF creates # (account.status = "none") \/ account.status = "gone"
     THEN UNCHANGED <<account, codes>>
     ELSE /\ \E p \in Passwords :
               account' = IF creates
                          THEN [account EXCEPT !.status = IF req[r].op = "invite" THEN "active" ELSE "pending",
                                               !.password = p]
                          ELSE account
          /\ codes' = Append([c \in DOMAIN codes |-> [codes[c] EXCEPT !.live = @ /\ c \notin req[r].held]],
                             [purpose |-> req[r].who, attempts |-> 0, live |-> TRUE, expired |-> FALSE,
                              guesses |-> 0, spent |-> "no"])
  /\ Ends(r)
  /\ UNCHANGED <<session, key, caches, cookie>>

\* The newest code of the purpose that is not consumed; 0 when there is none.
LatestCode(purpose) ==
  IF LiveCodes(purpose) = {} THEN 0
  ELSE CHOOSE c \in LiveCodes(purpose) : \A d \in LiveCodes(purpose) : d <= c

\* Mutant: a wrong guess rolls its own charge back.
ChargedIfRight(attempts, right) == IF right THEN attempts + 1 ELSE attempts

\* The attempts a guess leaves behind, right or wrong: they are committed
\* before the guess is judged.
Charged(attempts, right) == attempts + 1

\* First transaction of verify() and of reset_password(): with the row of the
\* code locked, the attempt is charged.
ChargeAttempt(r, purpose, right) ==
  LET c == LatestCode(purpose) IN
  /\ New(r)
  /\ IF \/ account.status # (IF purpose = "verify" THEN "pending" ELSE "active")
        \/ c = 0
     THEN EndsAs(r, purpose) /\ UNCHANGED codes
     ELSE IF codes[c].expired \/ codes[c].attempts >= MaxAttempts
     THEN EndsAs(r, purpose) /\ UNCHANGED codes
     ELSE /\ codes' = [codes EXCEPT ![c].attempts = Charged(@, right), ![c].guesses = @ + 1]
          /\ IF right
             THEN Becomes(r, [Blank EXCEPT !.op = purpose, !.at = "check", !.code = c])
             ELSE EndsAs(r, purpose)
  /\ UNCHANGED <<account, session, key, caches, cookie>>

\* Second transaction: both rows are read again, without a lock.
CheckAgain(r) ==
  /\ At(r, "check")
  /\ IF /\ account.status = (IF req[r].op = "verify" THEN "pending" ELSE "active")
        /\ codes[req[r].code].live
     THEN Becomes(r, [req[r] EXCEPT !.at = "redeem", !.saw = account])
     ELSE Ends(r)
  /\ UNCHANGED <<rows, caches, cookie>>

Spend(c, purpose) == codes' = [codes EXCEPT ![c].live = FALSE, ![c].spent = purpose]

VerifyCommits(r) ==
  /\ At(r, "redeem") /\ req[r].op = "verify"
  /\ IF account.status = "gone" THEN UNCHANGED <<account, codes, session, cookie>>
     ELSE /\ account' = [account EXCEPT !.status = "active"]
          /\ Spend(req[r].code, "verify")
          /\ OpenSession(r)
  /\ Ends(r)
  /\ UNCHANGED <<key, caches>>

\* The new password, and the lockout cleared; then every session must go.
ResetCommits(r, p) ==
  /\ At(r, "redeem") /\ req[r].op = "reset"
  /\ IF account.status = "gone"
     THEN Ends(r) /\ UNCHANGED <<account, codes>>
     ELSE /\ account' = [Cleared(req[r].saw) EXCEPT !.password = p]
          /\ Spend(req[r].code, "reset")
          /\ Becomes(r, [Blank EXCEPT !.op = "reset", !.at = "select", !.old = Live(session)])
  /\ UNCHANGED <<session, key, caches, cookie>>
-----------------------------------------------------------------------------
(* Signing in.                                                             *)

\* The row is read and the password judged; what follows is the commit.
LoginReads(r, p) ==
  /\ New(r)
  /\ IF ~Exists \/ account.locked \/ (p = account.password /\ account.status # "active")
     THEN EndsAs(r, "login")
     ELSE Becomes(r, [Blank EXCEPT !.op = "login", !.saw = account,
                                   !.at = IF p = account.password THEN "hit" ELSE "miss"])
  /\ UNCHANGED <<rows, caches, cookie>>

\* lockout_delay: no lock below the threshold, none at all when it is 0.
Locks(failures) == Threshold > 0 /\ failures >= Threshold

LoginMisses(r) ==
  /\ At(r, "miss")
  /\ LET failures == req[r].saw.failures + 1 IN
     account' = IF account.status = "gone" \/ Threshold = 0 THEN account
                ELSE [account EXCEPT !.failures = failures, !.locked = @ \/ Locks(failures)]
  /\ Ends(r)
  /\ UNCHANGED <<codes, session, key, caches, cookie>>

LoginHits(r) ==
  /\ At(r, "hit")
  /\ IF account.status = "gone" THEN UNCHANGED <<account, session, cookie>>
     ELSE account' = Cleared(req[r].saw) /\ OpenSession(r)
  /\ Ends(r)
  /\ UNCHANGED <<codes, key, caches>>

Unlock(r) ==
  /\ New(r)
  /\ account' = Cleared(account)
  /\ EndsAs(r, "unlock")
  /\ UNCHANGED <<codes, session, key, caches, cookie>>
-----------------------------------------------------------------------------
(* Who is calling: the session, or an API key.                             *)

CookieOps == {"visit", "revoke", "others", "change", "newkey", "dropkey"}

LetIn(r, op, place, who) ==
  Becomes(r, [Blank EXCEPT !.op = op, !.at = place, !.tok = cookie, !.who = who])

\* Redis first: a hit is believed.  A miss, or a call to Redis that failed,
\* asks the database, where the session must be live and its owner active.
ResolveSession(r, op) ==
  /\ New(r) /\ cookie # NoId
  /\ \/ cached[cookie] # "none" /\ LetIn(r, op, "act", cached[cookie])
     \/ IF session[cookie] = "live" /\ account.status = "active"
        THEN LetIn(r, op, "fill", account.role)
        ELSE EndsAs(r, op)
  /\ UNCHANGED <<rows, caches, cookie>>

\* What was read is put in Redis once the transaction is over.
FillSession(r) ==
  /\ At(r, "fill")
  /\ cached' \in {[cached EXCEPT ![req[r].tok] = req[r].who], cached}
  /\ Goes(r, "act")
  /\ UNCHANGED <<rows, cachedKey, cookie>>

\* Any endpoint that only needs to know who is calling.
Visit(r) ==
  /\ At(r, "act") /\ req[r].op = "visit"
  /\ Ends(r)
  /\ UNCHANGED <<rows, caches, cookie>>

ResolveKey(r, k) ==
  /\ New(r) /\ key[k] # "free"
  /\ \/ cachedKey[k] # "none" /\ EndsAs(r, "program")
     \/ IF key[k] = "live" /\ account.status = "active"
        THEN Becomes(r, [Blank EXCEPT !.op = "program", !.at = "keyfill", !.tok = k, !.who = account.role])
        ELSE EndsAs(r, "program")
  /\ UNCHANGED <<rows, caches, cookie>>

FillKey(r) ==
  /\ At(r, "keyfill")
  /\ cachedKey' \in {[cachedKey EXCEPT ![req[r].tok] = req[r].who], cachedKey}
  /\ Ends(r)
  /\ UNCHANGED <<rows, cached, cookie>>

CreateKey(r) ==
  /\ At(r, "act") /\ req[r].op = "newkey"
  /\ key' = IF Exists THEN [key EXCEPT ![r] = "live"] ELSE key
  /\ Ends(r)
  /\ UNCHANGED <<account, codes, session, caches, cookie>>

RevokeKey(r, k) ==
  /\ At(r, "act") /\ req[r].op = "dropkey"
  /\ key' = Kill(key, {k})
  /\ IF key[k] = "live" THEN Becomes(r, [req[r] EXCEPT !.at = "keydrop", !.held = {k}]) ELSE Ends(r)
  /\ UNCHANGED <<account, codes, session, caches, cookie>>
-----------------------------------------------------------------------------
(* Signing out, one session or all of them.                                *)

Logout(r) ==
  /\ New(r) /\ cookie # NoId
  /\ session' = Kill(session, {cookie})
  /\ Becomes(r, [Blank EXCEPT !.op = "logout", !.at = "drop", !.held = {cookie}])
  /\ cookie' = NoId
  /\ UNCHANGED <<account, codes, key, caches>>

RevokeOne(r, s) ==
  /\ At(r, "act") /\ req[r].op = "revoke"
  /\ session' = Kill(session, {s})
  /\ IF session[s] = "live" THEN Becomes(r, [req[r] EXCEPT !.at = "drop", !.held = {s}]) ELSE Ends(r)
  /\ cookie' = IF session[s] = "live" /\ s = cookie THEN NoId ELSE cookie
  /\ UNCHANGED <<account, codes, key, caches>>

RevokeOthers(r) ==
  /\ At(r, "act") /\ req[r].op = "others"
  /\ Becomes(r, [req[r] EXCEPT !.at = "select", !.old = Live(session) \ {req[r].tok}])
  /\ UNCHANGED <<rows, caches, cookie>>

\* Mutant: whoever calls is spared, also when a password changes.
SparesCaller(r) == {req[r].tok}

\* The sessions revoke_sessions() spares: the caller's, for "everywhere else".
Spared(r) == IF req[r].op = "others" THEN {req[r].tok} ELSE {}

\* revoke_sessions(): the hashes are selected, the rows updated by a statement
\* of its own, the transaction ends, and the copies of the selected are dropped.
SelectSessions(r) ==
  /\ At(r, "select")
  /\ LET found == Live(session) \ Spared(r) IN
     Becomes(r, [req[r] EXCEPT !.at = IF found = {} THEN "drop" ELSE "sweep", !.held = found])
  /\ UNCHANGED <<rows, caches, cookie>>

SweepSessions(r) ==
  /\ At(r, "sweep")
  /\ session' = Kill(session, Ids \ Spared(r))
  /\ Goes(r, "drop")
  /\ UNCHANGED <<account, codes, key, caches, cookie>>

DropSessions(r) ==
  /\ At(r, "drop")
  /\ cached' \in {Forget(cached, req[r].held), cached}
  /\ CASE req[r].op = "change"  -> Goes(r, "open")
       [] req[r].op = "force"   -> Goes(r, "mail")
       [] req[r].op = "suspend" -> Goes(r, "keys")
       [] OTHER                 -> Ends(r)
  /\ UNCHANGED <<rows, cachedKey, cookie>>
-----------------------------------------------------------------------------
(* Changing the password while signed in.                                  *)

ChangePassword(r, p) ==
  /\ At(r, "act") /\ req[r].op = "change"
  /\ IF Exists /\ p # account.password
     THEN /\ account' = [account EXCEPT !.password = p]
          /\ Becomes(r, [req[r] EXCEPT !.at = "select", !.old = Live(session)])
     ELSE Ends(r) /\ UNCHANGED account   \* the wrong current password, or no change
  /\ UNCHANGED <<codes, session, key, caches, cookie>>

ChangeReopens(r) ==
  /\ At(r, "open")
  /\ IF Exists THEN OpenSession(r) ELSE UNCHANGED <<session, cookie>>
  /\ Ends(r)
  /\ UNCHANGED <<account, codes, key, caches>>
-----------------------------------------------------------------------------
(* What an administrator does to the account.                              *)

ForceReset(r) ==
  /\ New(r)
  /\ IF Exists THEN Becomes(r, [Blank EXCEPT !.op = "force", !.at = "select", !.old = Live(session)])
     ELSE EndsAs(r, "force")
  /\ UNCHANGED <<rows, caches, cookie>>

ForceMails(r) ==
  /\ At(r, "mail")
  /\ IF Exists THEN IssuesFor(r, "force", "reset") ELSE Ends(r)
  /\ UNCHANGED <<rows, caches, cookie>>

\* PATCH /admin/users/{id}: a suspension goes on to revoke sessions and keys.
PatchUser(r, status, role) ==
  /\ New(r) /\ Exists
  /\ account' = [account EXCEPT !.status = status, !.role = role]
  /\ IF status = "suspended" /\ account.status # "suspended"
     THEN Becomes(r, [Blank EXCEPT !.op = "suspend", !.at = "select", !.old = Live(session)])
     ELSE EndsAs(r, "patch")
  /\ UNCHANGED <<codes, session, key, caches, cookie>>

RevokeKeys(r) ==
  /\ New(r)
  /\ Begins(r, "keys", "keys")
  /\ UNCHANGED <<rows, caches, cookie>>

SweepKeys(r) ==
  /\ At(r, "keys")
  /\ key' = Kill(key, Ids)
  /\ Becomes(r, [req[r] EXCEPT !.at = "keydrop", !.held = Live(key)])
  /\ UNCHANGED <<account, codes, session, caches, cookie>>

DropKeys(r) ==
  /\ At(r, "keydrop")
  /\ cachedKey' \in {Forget(cachedKey, req[r].held), cachedKey}
  /\ Ends(r)
  /\ UNCHANGED <<rows, cached, cookie>>

\* At start-up and on the command line; the whole session cache is dropped.
Promote(r) ==
  /\ New(r)
  /\ account' = IF ~Exists THEN account
                ELSE [account EXCEPT !.role = "admin", !.status = IF @ = "pending" THEN "active" ELSE @]
  /\ IF Exists THEN Becomes(r, [Blank EXCEPT !.op = "promote", !.at = "drop", !.held = Ids])
     ELSE EndsAs(r, "promote")
  /\ UNCHANGED <<codes, session, key, caches, cookie>>

\* The last transaction of the purge: the row goes, and by cascade the codes,
\* the sessions and the keys.
DeleteAccount(r) ==
  /\ New(r) /\ Exists
  /\ account' = [account EXCEPT !.status = "gone"]
  /\ codes' = [c \in DOMAIN codes |-> [codes[c] EXCEPT !.live = FALSE]]
  /\ session' = Kill(session, Ids) /\ key' = Kill(key, Ids)
  /\ EndsAs(r, "delete")
  /\ UNCHANGED <<caches, cookie>>
-----------------------------------------------------------------------------
(* Time.                                                                   *)

CodeExpires(c) ==
  /\ ~codes[c].expired /\ codes[c].live
  /\ codes' = [codes EXCEPT ![c].expired = TRUE]
  /\ UNCHANGED <<account, session, key, caches, cookie, req>>

SessionExpires(s) ==
  /\ session[s] = "live"
  /\ session' = Kill(session, {s})
  /\ UNCHANGED <<account, codes, key, caches, cookie, req>>

LockExpires ==
  /\ account.locked
  /\ account' = [account EXCEPT !.locked = FALSE]
  /\ UNCHANGED <<codes, session, key, caches, cookie, req>>

\* Mutant: the entry is put without a time to live.
NeverExpires(i) == FALSE /\ UNCHANGED vars

\* Sixty seconds after it was put, however often it was read since.
CacheExpires(i) ==
  /\ cached[i] # "none"
  /\ cached' = Forget(cached, {i})
  /\ UNCHANGED <<rows, cachedKey, cookie, req>>

KeyCacheExpires(i) ==
  /\ cachedKey[i] # "none"
  /\ cachedKey' = Forget(cachedKey, {i})
  /\ UNCHANGED <<rows, cached, cookie, req>>
-----------------------------------------------------------------------------
\* Nobody yet, or an account signed up for and not verified, or one in use:
\* signed in on one device, known to Redis, with one API key, and with a reset
\* code in its inbox.  Codes and passwords may have been tried before.
Init ==
  /\ \E status \in {"none", "pending", "active"}, p \in Passwords, role \in Roles :
       /\ \E failures \in 0..(IF status = "none" \/ Threshold = 0 THEN 0 ELSE Threshold - 1) :
            account = [status |-> status, role |-> role, password |-> p, failures |-> failures, locked |-> FALSE]
       /\ status # "active" => role = "user"
       /\ \E tried \in 0..MaxAttempts - 1 :
            codes = IF status = "none" THEN <<>>
                    ELSE <<[purpose |-> IF status = "pending" THEN "verify" ELSE "reset", attempts |-> tried,
                            live |-> TRUE, expired |-> FALSE, guesses |-> tried, spent |-> "no"]>>
       /\ LET used == IF status = "active" THEN "live" ELSE "free"
              known == IF status = "active" THEN role ELSE "none" IN
          /\ session = [i \in Ids |-> IF i = First THEN used ELSE "free"]
          /\ key = session
          /\ cached = [i \in Ids |-> IF i = First THEN known ELSE "none"]
          /\ cachedKey = cached
          /\ cookie = IF status = "active" THEN First ELSE NoId
  /\ req = [r \in Requests |-> Blank]

(* The endpoints: what each begins, and who may call it.                   *)
PostSignup(r)     == IF OpenRegistration THEN Signup(r)
                     ELSE New(r) /\ EndsAs(r, "signup") /\ UNCHANGED <<rows, caches, cookie>>
PostResend(r)     == Resend(r)
PostVerify(r)     == \E right \in BOOLEAN : ChargeAttempt(r, "verify", right)
PostLogin(r)      == \E p \in Passwords : LoginReads(r, p)
PostForgot(r)     == Forgot(r)
PostReset(r)      == \E right \in BOOLEAN : ChargeAttempt(r, "reset", right)
PostChange(r)     == ResolveSession(r, "change")
GetMine(r)        == ResolveSession(r, "visit")    \* /me, /limits, /sessions, /keys
DeleteSession(r)  == ResolveSession(r, "revoke")
PostRevokeAll(r)  == ResolveSession(r, "others")
PostLogout(r)     == Logout(r)
PostKey(r)        == ResolveSession(r, "newkey")
DeleteKey(r)      == ResolveSession(r, "dropkey")
PostUser(r)       == Invite(r)
PostForceReset(r) == ForceReset(r)
PostUnlock(r)     == Unlock(r)
PatchAccount(r)   == \E status \in {"active", "suspended"}, role \in Roles : PatchUser(r, status, role)
PostRevokeKeys(r) == RevokeKeys(r)

Begin(r) ==
  \/ PostSignup(r) \/ PostResend(r) \/ PostVerify(r) \/ PostLogin(r) \/ PostForgot(r) \/ PostReset(r)
  \/ PostChange(r) \/ GetMine(r) \/ DeleteSession(r) \/ PostRevokeAll(r) \/ PostLogout(r)
  \/ PostKey(r) \/ DeleteKey(r) \/ (\E k \in Ids : ResolveKey(r, k))
  \/ PostUser(r) \/ PostForceReset(r) \/ PostUnlock(r) \/ PatchAccount(r) \/ PostRevokeKeys(r)
  \/ Promote(r) \/ DeleteAccount(r)

Continue(r) ==
  \/ IssueCommits(r) \/ CheckAgain(r) \/ VerifyCommits(r)
  \/ \E p \in Passwords : ResetCommits(r, p) \/ ChangePassword(r, p)
  \/ LoginMisses(r) \/ LoginHits(r) \/ FillSession(r) \/ Visit(r) \/ FillKey(r) \/ CreateKey(r)
  \/ \E i \in Ids : RevokeKey(r, i) \/ RevokeOne(r, i)
  \/ RevokeOthers(r) \/ SelectSessions(r) \/ SweepSessions(r) \/ DropSessions(r)
  \/ ChangeReopens(r) \/ ForceMails(r) \/ SweepKeys(r) \/ DropKeys(r)

Expiry ==
  \/ \E c \in DOMAIN codes : CodeExpires(c)
  \/ \E i \in Ids : SessionExpires(i) \/ CacheExpires(i) \/ KeyCacheExpires(i)
  \/ LockExpires

\* The database, or the process, fails between two steps: the transaction that
\* is open is rolled back, what was committed stays, what was to follow never is.
Fails(r) ==
  /\ ~New(r) /\ req[r].at \notin {"done", "failed"}
  /\ Becomes(r, [Blank EXCEPT !.op = req[r].op, !.at = "failed"])
  /\ UNCHANGED <<rows, caches, cookie>>

Next == (\E r \in Requests : Begin(r) \/ Continue(r) \/ Fails(r)) \/ Expiry

\* A request that began is run to its end by the event loop, and Redis honours
\* the time to live of what it holds.  Nobody has to call.
Fairness ==
  /\ \A r \in Requests : WF_vars(Continue(r))
  /\ \A i \in Ids : WF_vars(CacheExpires(i)) /\ WF_vars(KeyCacheExpires(i))

Spec == Init /\ [][Next]_vars
FairSpec == Spec /\ Fairness
-----------------------------------------------------------------------------
(* Properties.                                                             *)

\* However guesses interleave, no code is compared with more than the allowed
\* number of them (verify() and reset_password(), two transactions on purpose);
\* and a code mailed to prove an address never sets a password, nor does a reset
\* code activate an account (the purpose filter of _latest_otp()).
CodesHold ==
  \A c \in DOMAIN codes :
    /\ codes[c].guesses <= MaxAttempts
    /\ codes[c].spent \in {"no", codes[c].purpose}

\* Once a password change, a reset, a forced reset, a suspension or a "sign out
\* everywhere else" has swept, no session that was live when it decided so is
\* live again, whatever else ran meanwhile.
SweptStayOut ==
  \A r \in Requests :
    req[r].at \in {"drop", "open", "mail", "issue", "keys", "keydrop", "done"} =>
      \A s \in req[r].old : session[s] # "live"

Truthful(i) ==
  /\ cached[i] \in {"none", account.role}
  /\ cached[i] # "none" => session[i] = "live" /\ account.status = "active"
  /\ cachedKey[i] \in {"none", account.role}
  /\ cachedKey[i] # "none" => key[i] = "live" /\ account.status = "active"

\* A revocation, a suspension, a deletion or a change of role may be missed by
\* Redis (a lookup that was under way, a call that failed), but not for ever:
\* what is cached ends by agreeing with the rows.
CacheCatchesUp == <>[](\A i \in Ids : Truthful(i))
=============================================================================
