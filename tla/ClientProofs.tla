---------------------------- MODULE ClientProofs ----------------------------
(* Proofs about Client, for any number of goroutines, any lifetime of the  *)
(* tokens, and any bounds.                                                 *)
EXTENDS Client, TLAPS

\* What makes RejectedOnlyIfSlow inductive: whichever call stored it, the token that
\* a header takes is good for two seconds after its own call was checked.
Margins ==
  \A c \in Callers :
    /\ checkedAt[c] <= now
    /\ pc[c] = "answered" /\ IsJWT(answer[c]) => answer[c] >= loginAt[c] + Lifetime
    /\ pc[c] = "header" /\ IsJWT(authToken) => authToken >= checkedAt[c] + 2
    /\ pc[c] \in {"request", "served", "rejected"} /\ IsJWT(bearer[c])
         => bearer[c] >= checkedAt[c] + 2
    /\ pc[c] = "rejected" => bearer[c] <= now

\* What makes NoNeedlessLogin inductive: a token in the client is at most Timeout
\* older than any that one of its goroutines was given.
NearlyNewest ==
  /\ \A c \in Callers : answer[c] <= now + Lifetime
  /\ badAnswers = 0 =>
       \A c \in Callers :
         /\ pc[c] = "answered" => IsJWT(answer[c])
         /\ pc[c] # "answered" /\ IsJWT(answer[c]) =>
              IsJWT(authToken) /\ authToken >= answer[c] - Timeout

ClientInv == TypeOK /\ Margins /\ NearlyNewest

LEMMA InitInv == Init => ClientInv
  BY BoundsAssumption, LifetimeAssumption, SMT
     DEF Init, ClientInv, TypeOK, Margins, NearlyNewest, Token, NoToken, Unreadable,
         IsJWT, Step

LEMMA TickInv == ClientInv /\ Tick => ClientInv'
  BY BoundsAssumption, LifetimeAssumption, SMT
     DEF Tick, callVars, ClientInv, TypeOK, Margins, NearlyNewest, Token, NoToken,
         Unreadable, IsJWT, Step

LEMMA CallInv == ASSUME NEW c \in Callers, ClientInv, Call(c) PROVE ClientInv'
  BY BoundsAssumption, LifetimeAssumption, SMT
     DEF Call, Goto, Over, ClientInv, TypeOK, Margins, NearlyNewest, Token, NoToken,
         Unreadable, IsJWT, Step

LEMMA CheckInv ==
  ASSUME NEW c \in Callers, ClientInv,
         HasToken(c) \/ HasNoToken(c) \/ ParseFails(c) \/ TokenIsValid(c) \/ TokenExpires(c)
  PROVE  ClientInv'
<1>. USE BoundsAssumption, LifetimeAssumption
     DEF Goto, ClientInv, TypeOK, Margins, NearlyNewest, Token, NoToken, Unreadable,
         IsJWT, Step
<1>1. CASE HasToken(c)      BY <1>1, SMT DEF HasToken
<1>2. CASE HasNoToken(c)    BY <1>2, SMT DEF HasNoToken
<1>3. CASE ParseFails(c)    BY <1>3, SMT DEF ParseFails
<1>4. CASE TokenIsValid(c)  BY <1>4, SMT DEF TokenIsValid, StillValid
<1>5. CASE TokenExpires(c)  BY <1>5, SMT DEF TokenExpires, StillValid
<1>6. QED BY <1>1, <1>2, <1>3, <1>4, <1>5

LEMMA LoginInv ==
  ASSUME NEW c \in Callers, ClientInv,
         AccountAnswers(c) \/ AccountAnswersBadly(c) \/ LoginFails(c) \/ StoreToken(c)
  PROVE  ClientInv'
<1>. USE BoundsAssumption, LifetimeAssumption
     DEF Goto, ClientInv, TypeOK, Margins, NearlyNewest, Token, NoToken, Unreadable,
         IsJWT, Step
<1>1. CASE AccountAnswers(c)       BY <1>1, SMT DEF AccountAnswers
<1>2. CASE AccountAnswersBadly(c)  BY <1>2, SMT DEF AccountAnswersBadly
<1>3. CASE LoginFails(c)           BY <1>3, SMT DEF LoginFails
<1>4. CASE StoreToken(c)           BY <1>4, SMTT(30) DEF StoreToken
<1>5. QED BY <1>1, <1>2, <1>3, <1>4

LEMMA RequestInv ==
  ASSUME NEW c \in Callers, ClientInv,
         SetHeader(c) \/ Serve(c) \/ Reject(c) \/ CallFails(c)
  PROVE  ClientInv'
<1>. USE BoundsAssumption, LifetimeAssumption
     DEF Goto, ClientInv, TypeOK, Margins, NearlyNewest, Token, NoToken, Unreadable,
         IsJWT, Step
<1>1. CASE SetHeader(c)  BY <1>1, SMT DEF SetHeader
<1>2. CASE Serve(c)      BY <1>2, SMT DEF Serve
<1>3. CASE Reject(c)     BY <1>3, SMT DEF Reject
<1>4. CASE CallFails(c)  BY <1>4, SMT DEF CallFails
<1>5. QED BY <1>1, <1>2, <1>3, <1>4

LEMMA NextInv == ClientInv /\ [Next]_clientVars => ClientInv'
<1>. SUFFICES ASSUME ClientInv, [Next]_clientVars PROVE ClientInv'
  OBVIOUS
<1>1. CASE Tick
  BY <1>1, TickInv
<1>2. ASSUME NEW c \in Callers, Call(c) PROVE ClientInv'
  BY <1>2, CallInv
<1>3. ASSUME NEW c \in Callers, callGqlEndpoint(c) PROVE ClientInv'
  BY <1>3, CheckInv, LoginInv, RequestInv DEF callGqlEndpoint, checkAndRenewToken
<1>4. CASE UNCHANGED clientVars
  BY <1>4, SMT DEF clientVars, callVars, ClientInv, TypeOK, Margins, NearlyNewest
<1>5. QED BY <1>1, <1>2, <1>3, <1>4 DEF Next

\* The inductive invariant holds of every behaviour of the client.
THEOREM InvariantHolds == Spec => []ClientInv
  BY InitInv, NextInv, PTL DEF Spec

\* Calls of any number of goroutines keep the client's types, and no login outlives
\* the timeout of the HTTP client.
THEOREM ClientTypeCorrect == Spec => []TypeOK
<1>1. ClientInv => TypeOK  BY DEF ClientInv
<1>2. QED BY <1>1, InvariantHolds, PTL

\* However calls overlap and overwrite each other's token, one that is rejected for
\* an expired token took two seconds or more from the check of checkAndRenewToken to
\* the API: its margin of a second is enough without a lock.
THEOREM NoEarlyReject == Spec => []RejectedOnlyIfSlow
<1>1. ClientInv => RejectedOnlyIfSlow
  BY SMT DEF ClientInv, TypeOK, Margins, RejectedOnlyIfSlow, Token, Unreadable, IsJWT, NoToken
<1>2. QED BY <1>1, InvariantHolds, PTL

\* A step that begins a login, when all the logins so far brought a token, begins it
\* at most Timeout before the last token of its goroutine is due for renewal.
THEOREM LoginsAreDue == Spec => NoNeedlessLogin
<1> DEFINE Due == \A c \in Callers :
             pc'[c] = "login" /\ pc[c] # "login" /\ badAnswers = 0 /\ IsJWT(answer[c])
               => now + 1 >= answer[c] - Timeout
<1>1. ClientInv /\ [Next]_clientVars => Due \/ UNCHANGED clientVars
  <2>. SUFFICES ASSUME ClientInv, Next,
                       NEW c \in Callers, pc'[c] = "login", pc[c] # "login",
                       badAnswers = 0, IsJWT(answer[c])
                PROVE  now + 1 >= answer[c] - Timeout
    OBVIOUS
  <2>1. ~ Tick
    BY DEF Tick, callVars
  <2>2. PICK d \in Callers : Call(d) \/ callGqlEndpoint(d)
    BY <2>1 DEF Next
  <2>3. HasNoToken(c) \/ TokenExpires(c)
    BY <2>2, SMT DEF callGqlEndpoint, checkAndRenewToken, Call, Goto, HasToken, HasNoToken,
          ParseFails, TokenIsValid, TokenExpires, AccountAnswers, AccountAnswersBadly,
          LoginFails, StoreToken, SetHeader, Serve, Reject, CallFails, ClientInv, TypeOK
  <2>4. pc[c] # "answered" /\ authToken \in Token /\ answer[c] \in Token
    BY <2>3 DEF HasNoToken, TokenExpires, ClientInv, TypeOK
  <2>5. IsJWT(authToken) /\ authToken >= answer[c] - Timeout
    BY <2>4 DEF ClientInv, NearlyNewest
  <2>6. QED
    BY <2>3, <2>4, <2>5, LifetimeAssumption, SMT
       DEF HasNoToken, TokenExpires, StillValid, ClientInv, TypeOK, Token, IsJWT, NoToken,
           Unreadable
<1>2. QED
  BY <1>1, InvariantHolds, PTL DEF Spec, NoNeedlessLogin
=============================================================================
