------------------------------- MODULE AdminLogin -------------------------------
(* The administrator's way into the console: the one-time code a login needs   *)
(* beside the password, the sessions logins issue, and what ends them. All of  *)
(* it is in memory: a restart forgets which codes were used and every session. *)
(*                                                                             *)
(* Logins and requests are handled concurrently, and each takes several steps: *)
(* the clock is read before the code's lock is taken, the session epoch before *)
(* the session is entered in the table, and a request looks at the epoch before*)
(* it looks at the table. Session tokens are signed and carry their epoch; a   *)
(* session is identified by a random id that no two share.                     *)
EXTENDS Integers, FiniteSets

CONSTANTS
  Browsers,     \* where the administrator logs in, one login and request at a time each
  MaxStep,      \* bound on the clock, in the 30-second steps of one-time codes
  MaxSessions,  \* sessions the table holds (256)
  MaxIssued,    \* bound on the sessions issued
  MaxEndings    \* bound on revocations of all sessions, and restarts

ASSUME ClockAssumption == MaxStep \in Nat

VARIABLES
  step,      \* the clock's step of one-time codes
  lastUsed,  \* Totp::last_used
  epoch,     \* session_epoch
  sessions,  \* ids of the session table
  signIn,    \* each browser's login
  cookie,    \* the session each browser holds
  request,   \* each browser's request
  revoking,  \* a revocation of all sessions is between its two steps
  count,     \* history: sessions issued, and revocations and restarts
  spent      \* history: how often the code of each step was accepted

adminVars ==
  <<step, lastUsed, epoch, sessions, signIn, cookie, request, revoking, count, spent>>

NoLogin == [stage |-> "none"]
NoSession == [id |-> 0]
NoRequest == [stage |-> "none"]

--------------------------------------------------------------------------------
(* A login.                                                                    *)

InLogin(b, stage) == signIn[b].stage = stage

\* The password was right; the code typed in is one the authenticator shows about now.
\* A wrong password, and a login the throttle turns away, change nothing here.
PasswordChecked(b) ==
  /\ signIn[b] = NoLogin
  /\ \E code \in DOMAIN spent \cap step - 1 .. step + 1 :
       signIn' = [signIn EXCEPT ![b] = [stage |-> "code", code |-> code, now |-> step]]
  /\ UNCHANGED <<step, lastUsed, epoch, sessions, cookie, request, revoking, count, spent>>

\* Codes of the step before to the step after, none accepted twice or out of order.
Accepts(code, now) == code \in now - 1 .. now + 1 /\ code > lastUsed

VerifyCode(b) ==
  LET code == signIn[b].code
  IN  /\ InLogin(b, "code")
      /\ IF Accepts(code, signIn[b].now)
         THEN /\ lastUsed' = code
              /\ spent' = [spent EXCEPT ![code] = @ + 1]
              /\ signIn' = [signIn EXCEPT ![b] = [stage |-> "verified"]]
         ELSE /\ signIn' = [signIn EXCEPT ![b] = NoLogin]
              /\ UNCHANGED <<lastUsed, spent>>
      /\ UNCHANGED <<step, epoch, sessions, cookie, request, revoking, count>>

\* The session's claims, signed before the session is entered in the table.
SignClaims(b) ==
  /\ InLogin(b, "verified") /\ count.issued < MaxIssued
  /\ count' = [count EXCEPT !.issued = @ + 1]
  /\ signIn' = [signIn EXCEPT ![b] =
       [stage |-> "signed",
        session |-> [id |-> count'.issued, epoch |-> epoch, endings |-> count.endings]]]
  /\ UNCHANGED <<step, lastUsed, epoch, sessions, cookie, request, revoking, spent>>

EnterSession(b) ==
  /\ InLogin(b, "signed")
  /\ IF Cardinality(sessions) < MaxSessions
     THEN /\ sessions' = sessions \cup {signIn[b].session.id}
          /\ signIn' = [signIn EXCEPT ![b].stage = "entered"]
     ELSE /\ signIn' = [signIn EXCEPT ![b] = NoLogin]
          /\ UNCHANGED sessions
  /\ UNCHANGED <<step, lastUsed, epoch, cookie, request, revoking, count, spent>>

\* Logging in again ends the session the browser held.
LoggedIn(b) ==
  /\ InLogin(b, "entered")
  /\ sessions' = sessions \ {cookie[b].id}
  /\ cookie' = [cookie EXCEPT ![b] = signIn[b].session]
  /\ signIn' = [signIn EXCEPT ![b] = NoLogin]
  /\ UNCHANGED <<step, lastUsed, epoch, request, revoking, count, spent>>

Login(b) == \/ PasswordChecked(b)
            \/ VerifyCode(b)
            \/ SignClaims(b)
            \/ EnterSession(b)
            \/ LoggedIn(b)

--------------------------------------------------------------------------------
(* A request with the session's cookie.                                        *)

InRequest(b, stage) == request[b].stage = stage

\* Mutant: only the table says whether a session is over.
EpochIgnored(session) == TRUE

EpochHolds(session) == session.epoch = epoch

\* The signature, the expiry and the epoch are checked before the table is locked.
CheckEpoch(b) ==
  /\ request[b] = NoRequest
  /\ cookie[b] # NoSession /\ EpochHolds(cookie[b])
  /\ request' = [request EXCEPT ![b] = [stage |-> "current", session |-> cookie[b]]]
  /\ UNCHANGED <<step, lastUsed, epoch, sessions, signIn, cookie, revoking, count, spent>>

LookUp(b) ==
  /\ InRequest(b, "current")
  /\ request' = [request EXCEPT ![b] =
       IF request[b].session.id \in sessions
       THEN [@ EXCEPT !.stage = "admitted"] ELSE NoRequest]
  /\ UNCHANGED <<step, lastUsed, epoch, sessions, signIn, cookie, revoking, count, spent>>

\* What an admitted request asks for: anything else, to log out, or to end them all.
Serve(b) ==
  /\ InRequest(b, "admitted")
  /\ request' = [request EXCEPT ![b] = NoRequest]
  /\ sessions' \in {sessions, sessions \ {request[b].session.id}}
  /\ UNCHANGED <<step, lastUsed, epoch, signIn, cookie, revoking, count, spent>>

\* Ending all sessions counts the epoch up, then empties the table.
EndTable == sessions' = {} /\ UNCHANGED epoch
EndEpoch == epoch' = epoch + 1 /\ UNCHANGED sessions

Ended == count' = [count EXCEPT !.endings = @ + 1]

RevokeAllSessions(b) ==
  /\ InRequest(b, "admitted")
  /\ ~revoking /\ count.endings < MaxEndings
  /\ EndEpoch
  /\ Ended /\ revoking' = TRUE
  /\ request' = [request EXCEPT ![b] = [stage |-> "revoking"]]
  /\ UNCHANGED <<step, lastUsed, signIn, cookie, spent>>

RevokedAllSessions(b) ==
  /\ InRequest(b, "revoking")
  /\ EndTable
  /\ revoking' = FALSE
  /\ request' = [request EXCEPT ![b] = NoRequest]
  /\ UNCHANGED <<step, lastUsed, signIn, cookie, count, spent>>

Request(b) == \/ CheckEpoch(b)
              \/ LookUp(b)
              \/ Serve(b)
              \/ RevokeAllSessions(b)
              \/ RevokedAllSessions(b)

--------------------------------------------------------------------------------
(* Time and the process.                                                       *)

Tick ==
  /\ step < MaxStep
  /\ step' = step + 1
  /\ UNCHANGED <<lastUsed, epoch, sessions, signIn, cookie, request, revoking, count, spent>>

\* A session ends unused, or at the age no use extends.
SessionEnds ==
  /\ \E id \in sessions : sessions' = sessions \ {id}
  /\ UNCHANGED <<step, lastUsed, epoch, signIn, cookie, request, revoking, count, spent>>

\* Mutant: the step after this one is taken for unused.
UnusableUntil(now) == now

\* A starting process takes every code the last one may have accepted for used.
Unusable(now) == now + 1

Restart ==
  /\ count.endings < MaxEndings
  /\ Ended
  /\ lastUsed' = Unusable(step)
  /\ epoch' = 1 /\ sessions' = {} /\ revoking' = FALSE
  /\ signIn' = [b \in Browsers |-> NoLogin]
  /\ request' = [b \in Browsers |-> NoRequest]
  /\ UNCHANGED <<step, cookie, spent>>

AdminInit ==
  /\ step = 0 /\ lastUsed = Unusable(0)
  /\ epoch = 1 /\ sessions = {} /\ revoking = FALSE
  /\ signIn = [b \in Browsers |-> NoLogin]
  /\ cookie = [b \in Browsers |-> NoSession]
  /\ request = [b \in Browsers |-> NoRequest]
  /\ count = [issued |-> 0, endings |-> 0]
  /\ spent = [code \in 0 .. MaxStep + 1 |-> 0]

AdminNext ==
  \/ \E b \in Browsers : Login(b) \/ Request(b)
  \/ Tick
  \/ SessionEnds
  \/ Restart

AdminSpec == AdminInit /\ [][AdminNext]_adminVars

--------------------------------------------------------------------------------
(* Properties.                                                                 *)

\* A one-time code opens the console once: not to two logins at the same time, not in
\* another order than the clock's, and not again to the process started after it.
CodeOpensOnce == \A code \in DOMAIN spent : spent[code] <= 1

\* Once all sessions were ended, none from before admits a request: not one whose
\* login was halfway, and not for a request that was halfway itself.
EndedSessionsStayOut ==
  [][\A b \in Browsers :
       InRequest(b, "current") /\ InRequest(b, "admitted")' =>
         revoking \/ request[b].session.endings = count.endings]_adminVars
=============================================================================
