------------------------------- MODULE Client -------------------------------
(***************************************************************************)
(* The Stratumn client's token: checkAndRenewToken and login of            *)
(* services/client/account.go, and callGqlEndpoint of client.go, which     *)
(* every call to Trace and Account goes through.                           *)
(*                                                                         *)
(* One client serves all the goroutines of the process and nothing locks   *)
(* its authToken.  A call reads it up to three times: to see whether there *)
(* is one, to read its expiry, and to put it in a header.  In between,     *)
(* other calls may store theirs.                                           *)
(*                                                                         *)
(* A token is its expiry.  Time is in seconds.                             *)
(***************************************************************************)
EXTENDS Integers

CONSTANTS
  Callers,        \* the goroutines that use the client
  Lifetime,       \* how long the tokens of the Account API are valid
  Timeout,        \* a login ends, or fails, within this time
  MaxTime,        \* bound: the clock
  MaxBadAnswers   \* bound: logins answered without a readable token

ASSUME BoundsAssumption == MaxTime \in Nat /\ MaxBadAnswers \in Nat
\* A token outlives the login that brings it by the margin of checkAndRenewToken.
ASSUME LifetimeAssumption ==
  Timeout \in Nat /\ Lifetime \in Nat /\ Lifetime >= Timeout + 2

NoToken    == 0    \* ""
Unreadable == -1   \* a text that ParseUnverified refuses
Token == Nat \cup {Unreadable}
IsJWT(t) == t > NoToken

VARIABLES
  now,         \* the clock
  authToken,   \* client.authToken
  pc,          \* where each call is
  loginAt,     \* when its login started
  answer,      \* the token it was answered
  bearer,      \* the token in the header of its request
  checkedAt,   \* history: when it last took a token for valid
  badAnswers   \* how many logins were answered without a readable token

callVars == <<pc, loginAt, answer, bearer, checkedAt>>
clientVars == <<now, authToken, callVars, badAnswers>>

Step == {"idle", "check", "parse", "login", "answered", "header", "request",
         "served", "rejected", "failed"}
Over == {"idle", "served", "rejected", "failed"}

Init ==
  /\ now = 0
  /\ authToken = NoToken
  /\ pc = [c \in Callers |-> "idle"]
  /\ loginAt = [c \in Callers |-> 0]
  /\ answer = [c \in Callers |-> NoToken]
  /\ bearer = [c \in Callers |-> NoToken]
  /\ checkedAt = [c \in Callers |-> 0]
  /\ badAnswers = 0

Goto(c, step) == pc' = [pc EXCEPT ![c] = step]

\* Mutant: the HTTP client has no timeout.
Tick_NoTimeout ==
  /\ now < MaxTime
  /\ now' = now + 1
  /\ UNCHANGED <<authToken, callVars, badAnswers>>

\* Only HTTP takes time that matters: the clock waits for a login that is due.
Tick ==
  /\ now < MaxTime
  /\ \A c \in Callers :
       pc[c] \in {"login", "answered"} => now < loginAt[c] + Timeout
  /\ now' = now + 1
  /\ UNCHANGED <<authToken, callVars, badAnswers>>

-----------------------------------------------------------------------------
(* callGqlEndpoint: checkAndRenewToken, then the request.                  *)

\* A caller makes its first call, or the next one whatever came of the last.
Call(c) ==
  /\ pc[c] \in Over
  /\ Goto(c, "check")
  /\ bearer' = [bearer EXCEPT ![c] = NoToken]
  /\ checkedAt' = [checkedAt EXCEPT ![c] = 0]
  /\ UNCHANGED <<now, authToken, loginAt, answer, badAnswers>>

HasToken(c) ==
  /\ pc[c] = "check"
  /\ authToken # NoToken
  /\ Goto(c, "parse")
  /\ UNCHANGED <<now, authToken, loginAt, answer, bearer, checkedAt, badAnswers>>

HasNoToken(c) ==
  /\ pc[c] = "check"
  /\ authToken = NoToken
  /\ Goto(c, "login")
  /\ loginAt' = [loginAt EXCEPT ![c] = now]
  /\ UNCHANGED <<now, authToken, answer, bearer, checkedAt, badAnswers>>

\* ParseUnverified fails: the call ends, and the token stays.
ParseFails(c) ==
  /\ pc[c] = "parse"
  /\ ~ IsJWT(authToken)
  /\ Goto(c, "failed")
  /\ UNCHANGED <<now, authToken, loginAt, answer, bearer, checkedAt, badAnswers>>

\* Mutant: no margin.
StillValid_NoMargin(t) == t > now

\* Expires later than the next second.
StillValid(t) == t > now + 1

TokenIsValid(c) ==
  /\ pc[c] = "parse"
  /\ IsJWT(authToken)
  /\ StillValid(authToken)
  /\ Goto(c, "header")
  /\ checkedAt' = [checkedAt EXCEPT ![c] = now]
  /\ UNCHANGED <<now, authToken, loginAt, answer, bearer, badAnswers>>

TokenExpires(c) ==
  /\ pc[c] = "parse"
  /\ IsJWT(authToken)
  /\ ~ StillValid(authToken)
  /\ Goto(c, "login")
  /\ loginAt' = [loginAt EXCEPT ![c] = now]
  /\ UNCHANGED <<now, authToken, answer, bearer, checkedAt, badAnswers>>

\* The Account API issues a token, which arrives some time later ...
AccountAnswers(c) ==
  /\ pc[c] = "login"
  /\ answer' = [answer EXCEPT ![c] = now + Lifetime]
  /\ Goto(c, "answered")
  /\ UNCHANGED <<now, authToken, loginAt, bearer, checkedAt, badAnswers>>

\* ... or an answer whose token is missing or cannot be read: login does not look.
AccountAnswersBadly(c) ==
  /\ pc[c] = "login"
  /\ badAnswers < MaxBadAnswers
  /\ badAnswers' = badAnswers + 1
  /\ \E t \in {NoToken, Unreadable} : answer' = [answer EXCEPT ![c] = t]
  /\ Goto(c, "answered")
  /\ UNCHANGED <<now, authToken, loginAt, bearer, checkedAt>>

\* ... or login returns an error: no answer, a status, a body that is not JSON.
LoginFails(c) ==
  /\ pc[c] = "login"
  /\ Goto(c, "failed")
  /\ loginAt' = [loginAt EXCEPT ![c] = 0]
  /\ UNCHANGED <<now, authToken, answer, bearer, checkedAt, badAnswers>>

\* Mutant: the token is used, and not kept.
StoreToken_Dropped(c) ==
  /\ pc[c] = "answered"
  /\ checkedAt' = [checkedAt EXCEPT ![c] = now]
  /\ loginAt' = [loginAt EXCEPT ![c] = 0]
  /\ Goto(c, "header")
  /\ UNCHANGED <<now, authToken, answer, bearer, badAnswers>>

\* The token is stored, over whatever the other calls stored since.
StoreToken(c) ==
  /\ pc[c] = "answered"
  /\ authToken' = answer[c]
  /\ checkedAt' = [checkedAt EXCEPT ![c] = now]
  /\ loginAt' = [loginAt EXCEPT ![c] = 0]
  /\ Goto(c, "header")
  /\ UNCHANGED <<now, answer, bearer, badAnswers>>

\* The header takes the token there is now: it may be another call's.
SetHeader(c) ==
  /\ pc[c] = "header"
  /\ bearer' = [bearer EXCEPT ![c] = authToken]
  /\ Goto(c, "request")
  /\ UNCHANGED <<now, authToken, loginAt, answer, checkedAt, badAnswers>>

\* The API serves a request whose token is valid when it arrives ...
Serve(c) ==
  /\ pc[c] = "request"
  /\ bearer[c] > now
  /\ Goto(c, "served")
  /\ UNCHANGED <<now, authToken, loginAt, answer, bearer, checkedAt, badAnswers>>

\* ... and answers the others with an error.
Reject(c) ==
  /\ pc[c] = "request"
  /\ bearer[c] <= now
  /\ Goto(c, "rejected")
  /\ UNCHANGED <<now, authToken, loginAt, answer, bearer, checkedAt, badAnswers>>

\* Any other error: no answer in time, one that is not JSON, a GraphQL error.
CallFails(c) ==
  /\ pc[c] = "request"
  /\ Goto(c, "failed")
  /\ UNCHANGED <<now, authToken, loginAt, answer, bearer, checkedAt, badAnswers>>

checkAndRenewToken(c) ==
  \/ HasToken(c) \/ HasNoToken(c) \/ ParseFails(c) \/ TokenIsValid(c) \/ TokenExpires(c)
  \/ AccountAnswers(c) \/ AccountAnswersBadly(c) \/ LoginFails(c) \/ StoreToken(c)

callGqlEndpoint(c) ==
  checkAndRenewToken(c) \/ SetHeader(c) \/ Serve(c) \/ Reject(c) \/ CallFails(c)

Next == Tick \/ \E c \in Callers : Call(c) \/ callGqlEndpoint(c)

Spec == Init /\ [][Next]_clientVars

\* Callers call again, as livesync does at every tick of its own; goroutines are
\* scheduled; neither API fails for ever.
Fairness ==
  \A c \in Callers :
    /\ WF_clientVars(Call(c))
    /\ WF_clientVars(callGqlEndpoint(c))
    /\ SF_clientVars(AccountAnswers(c))
    /\ SF_clientVars(Serve(c))

FairSpec == Spec /\ Fairness

-----------------------------------------------------------------------------
(* Properties.                                                             *)

\* The variables stay in their types, and a login that is under way is not overdue.
TypeOK ==
  /\ now \in Nat
  /\ authToken \in Token
  /\ pc \in [Callers -> Step]
  /\ loginAt \in [Callers -> Nat]
  /\ answer \in [Callers -> Token]
  /\ bearer \in [Callers -> Token]
  /\ checkedAt \in [Callers -> Nat]
  /\ badAnswers \in 0 .. MaxBadAnswers
  /\ \A c \in Callers : pc[c] \in {"login", "answered"} =>
       loginAt[c] <= now /\ now <= loginAt[c] + Timeout

\* A request is rejected for an expired token only when it reached the API two
\* seconds or more after checkAndRenewToken returned (account.go:88).  The check and
\* the header read the token separately, and other calls may store an older token in
\* between (account.go:98, client.go:92): that must never shorten this time.
RejectedOnlyIfSlow ==
  \A c \in Callers :
    pc[c] = "rejected" /\ IsJWT(bearer[c]) => now >= checkedAt[c] + 2

\* client.go:70: the token is renewed when necessary.  A caller that calls again and
\* again is served again and again, however logins overlap, fail, or overwrite each
\* other, unless a token that cannot be read was stored: no login replaces that one.
ServedUnlessUnreadable ==
  \A c \in Callers : []<>(pc[c] = "served") \/ <>[](authToken = Unreadable)

\* service_test.go:96: a second call does not log in.  A call logs in only when the
\* last token its goroutine was given is about to expire, or sooner by no more than
\* the time a login takes: by that much an overlapping login may set authToken back.
\* (As long as no login brought an empty or an unreadable token.)
NoNeedlessLogin ==
  [][\A c \in Callers :
       pc'[c] = "login" /\ pc[c] # "login" /\ badAnswers = 0 /\ IsJWT(answer[c])
         => now + 1 >= answer[c] - Timeout]_clientVars
=============================================================================
