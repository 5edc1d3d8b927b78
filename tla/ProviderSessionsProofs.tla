----------------------- MODULE ProviderSessionsProofs -----------------------
(* Proofs about ProviderSessions, for any number of sessions, requests,    *)
(* sign-in flows and credentials.                                          *)
EXTENDS ProviderSessions, TLAPS

(* Types *)

LEMMA IdleTypes ==
  /\ Unused \in Session /\ Ended \in Session /\ Idle \in Request
  /\ \A sid \in ProviderIds \cup {Absent} : NewSession(sid) \in Session
  BY DEF Unused, Ended, Idle, NewSession, Session, Request, Stages

LEMMA WithoutTyped ==
  ASSUME session \in [Tokens -> Session], NEW S
  PROVE  /\ Without(S) \in [Tokens -> Session]
         /\ \A t \in Tokens : Without(S)[t] = IF t \in S \cap Live THEN Ended ELSE session[t]
  BY IdleTypes DEF Without

LEMMA ContinueTyped ==
  ASSUME request \in [Requests -> Request], NEW r \in Requests, NEW stage \in Stages
  PROVE  [request EXCEPT ![r].at = stage] \in [Requests -> Request]
  BY DEF Request

LEMMA FinishTyped ==
  ASSUME request \in [Requests -> Request], NEW r \in Requests
  PROVE  [request EXCEPT ![r] = Idle] \in [Requests -> Request]
  BY IdleTypes

LEMMA SessionBegins == SessionInit => SessionTypeOK
  <1> SUFFICES ASSUME SessionInit PROVE SessionTypeOK
    OBVIOUS
  <1>1. session \in [Tokens -> Session] /\ request \in [Requests -> Request]
    BY IdleTypes DEF SessionInit
  <1>2. flow \in [Flows -> [status: {"unused", "open", "closed"}, previous: Tokens \cup {Absent}]]
    BY DEF SessionInit
  <1>3. exchanged \in [Credentials -> Nat] /\ issued \in 0..MaxCredential
    BY SessionAssumption DEF SessionInit
  <1> QED
    BY <1>1, <1>2, <1>3 DEF SessionInit, SessionTypeOK

Tables == session' \in [Tokens -> Session] /\ request' \in [Requests -> Request]

LEMMA RequestTyped ==
  ASSUME SessionTypeOK, NEW r \in Requests, RequestStep(r)
  PROVE  Tables
  <1>a. session \in [Tokens -> Session] /\ request \in [Requests -> Request] /\ request[r] \in Request
    BY DEF SessionTypeOK
  <1>b. issued \in Nat /\ (issued < MaxCredential => issued + 1 \in Credentials)
    BY SessionAssumption DEF SessionTypeOK, Credentials
  <1>c. \A stage \in Stages : [request EXCEPT ![r].at = stage] \in [Requests -> Request]
    BY <1>a, ContinueTyped
  <1>d. [request EXCEPT ![r] = Idle] \in [Requests -> Request]
    BY <1>a, FinishTyped
  <1>e. \A S : Without(S) \in [Tokens -> Session]
    BY <1>a, WithoutTyped
  <1>1. ASSUME NEW t \in Tokens, ReadSession(r, t) PROVE Tables
    <2>1. session[t] \in Session
      BY <1>a
    <2>2. session[t].sid \in ProviderIds \cup {Absent}
      BY <2>1 DEF Session
    <2>3. PICK fresh \in BOOLEAN, stage \in {"logout", "revoked?"} :
            request' = [request EXCEPT ![r] =
               [Idle EXCEPT !.token = t, !.sid = session[t].sid, !.fresh = fresh, !.at = stage]]
      BY <1>1 DEF ReadSession
    <2>4. [Idle EXCEPT !.token = t, !.sid = session[t].sid, !.fresh = fresh, !.at = stage] \in Request
      BY <2>2 DEF Request, Stages, Idle, NoCredential
    <2> QED
      BY <1>1, <1>a, <2>3, <2>4 DEF ReadSession, Tables
  <1>2. CASE CheckRevoked(r) \/ RecheckRevoked(r) \/ VerifyRenewal(r)
    BY <1>2, <1>a, <1>c DEF CheckRevoked, RecheckRevoked, VerifyRenewal, Continue, Tables, Stages
  <1>3. CASE ClaimCredential(r)
    <2> DEFINE t == request[r].token
    <2>1. t \in Tokens /\ session[t] \in Session
      BY <1>3, <1>a DEF ClaimCredential, Live
    <2>2. Taken(t, r) \in Session
      BY <2>1 DEF Taken, Session, NoCredential
    <2>3. [request EXCEPT ![r].at = "exchange", ![r].credential = session[t].credential]
             \in [Requests -> Request]
      BY <1>a, <2>1 DEF Request, Session, Stages
    <2> QED
      BY <1>3, <1>a, <2>1, <2>2, <2>3 DEF ClaimCredential, Tables
  <1>4. CASE ClaimElse(r)
    BY <1>4, <1>a, <1>c, <1>d DEF ClaimElse, Continue, Finish, Tables, Stages
  <1>5. CASE ExchangeCredential(r)
    <2>1. \A stage \in Stages, c \in Credentials \cup {NoCredential} :
             [request EXCEPT ![r].at = stage, ![r].credential = c] \in [Requests -> Request]
      BY <1>a DEF Request
    <2>2. PICK stage \in Stages, c \in Credentials \cup {NoCredential} :
             request' = [request EXCEPT ![r].at = stage, ![r].credential = c]
      <3>1. CASE issued < MaxCredential
            /\ request' = [request EXCEPT ![r].at = "verify", ![r].credential = issued + 1]
        BY <3>1, <1>b DEF Stages
      <3>2. CASE request' = [request EXCEPT ![r].at = "logout", ![r].credential = NoCredential]
        BY <3>2 DEF Stages
      <3> QED
        BY <1>5, <3>1, <3>2 DEF ExchangeCredential
    <2>3. [request EXCEPT ![r].at = stage, ![r].credential = c] \in [Requests -> Request]
      BY <2>1
    <2> QED
      BY <1>5, <1>a, <2>2, <2>3 DEF ExchangeCredential, Tables
  <1>12. CASE ExchangeCode(r)
    <2>1. \A sid \in ProviderIds, c \in Credentials :
             [request EXCEPT ![r].at = "identity", ![r].sid = sid, ![r].credential = c]
                \in [Requests -> Request]
      BY <1>a DEF Request, Stages
    <2>2. CASE Finish(r)
      BY <1>12, <1>a, <1>d, <2>2 DEF ExchangeCode, Finish, Tables
    <2>3. CASE ~Finish(r)
      <3>1. PICK sid \in ProviderIds :
              request' = [request EXCEPT ![r].at = "identity", ![r].sid = sid,
                                         ![r].credential = issued + 1]
        BY <1>12, <2>3 DEF ExchangeCode
      <3>2. issued + 1 \in Credentials
        BY <1>12, <2>3, <1>b DEF ExchangeCode
      <3>3. [request EXCEPT ![r].at = "identity", ![r].sid = sid, ![r].credential = issued + 1]
               \in [Requests -> Request]
        BY <3>2, <2>1
      <3> QED
        BY <1>12, <1>a, <3>1, <3>3 DEF ExchangeCode, Tables
    <2> QED
      BY <2>2, <2>3
  <1>6. CASE CompleteRenewal(r)
    <2> DEFINE t == request[r].token
    <2>1. CASE MayComplete(r)
      <3>1. t \in Tokens /\ session[t] \in Session
        BY <2>1, <1>a DEF MayComplete, Live
      <3>2. session' \in [Tokens -> Session]
        BY <1>6, <1>a, <2>1, <3>1 DEF CompleteRenewal, Session, Request
      <3>3. request' \in [Requests -> Request]
        BY <1>6, <1>a, <2>1 DEF CompleteRenewal, Request, Stages, NoCredential
      <3> QED
        BY <3>2, <3>3 DEF Tables
    <2>2. CASE ~MayComplete(r)
      BY <1>6, <2>2, <1>a, <1>c DEF CompleteRenewal, Continue, Tables, Stages
    <2> QED
      BY <2>1, <2>2
  <1>7. CASE ResolveSession(r) \/ LogoutSession(r) \/ EndPrevious(r) \/ AbandonRequest(r)
    BY <1>7, <1>a, <1>c, <1>d, <1>e
       DEF ResolveSession, LogoutSession, EndPrevious, AbandonRequest, Continue, Finish, Tables, Stages
  <1>8. ASSUME NEW f \in Flows, ConsumeFlow(r, f) PROVE Tables
    <2>1. flow[f].previous \in Tokens \cup {Absent}
      BY DEF SessionTypeOK
    <2> QED
      BY <1>8, <1>a, <2>1, IdleTypes DEF ConsumeFlow, Tables, Request, Stages, Idle
  <1>9. CASE VerifySignIn(r)
    BY <1>9, <1>a, <1>c, <1>d DEF VerifySignIn, Continue, Finish, Tables, Stages
  <1>10. CASE Login(r)
    <2>1. CASE session' = session /\ Finish(r)
      BY <2>1, <1>a, <1>d DEF Finish, Tables
    <2>2. CASE ~(session' = session /\ Finish(r))
      <3> DEFINE kept == Without({t \in Live : session[t].aged \/ t = request[r].previous})
      <3>1. kept \in [Tokens -> Session]
        BY <1>e
      <3> HIDE DEF kept
      <3>2. PICK t \in Tokens :
              /\ session' = [kept EXCEPT ![t] = NewSession(request[r].sid)]
              /\ request' = [request EXCEPT ![r].at = "store", ![r].token = t]
        BY <1>10, <2>2 DEF Login, kept
      <3>3. NewSession(request[r].sid) \in Session
        BY <1>a, IdleTypes DEF Request
      <3> QED
        BY <1>a, <3>1, <3>2, <3>3 DEF Tables, Request, Stages
    <2> QED
      BY <2>1, <2>2
  <1>11. CASE StoreCredential(r)
    <2> DEFINE t == request[r].token
    <2>1. CASE session' = session /\ Continue(r, "logout")
      BY <2>1, <1>a, <1>c DEF Continue, Tables, Stages
    <2>2. CASE ~(session' = session /\ Continue(r, "logout"))
      <3>1. t \in Tokens /\ session[t] \in Session
        BY <1>11, <2>2, <1>a DEF StoreCredential, Live
      <3>2. session' \in [Tokens -> Session]
        BY <1>11, <1>a, <2>2, <3>1 DEF StoreCredential, Session, Request
      <3>3. request' \in [Requests -> Request]
        BY <1>11, <1>a, <2>2 DEF StoreCredential, Request, Stages, NoCredential
      <3> QED
        BY <3>2, <3>3 DEF Tables
    <2> QED
      BY <2>1, <2>2
  <1> QED
    BY <1>1, <1>2, <1>3, <1>4, <1>5, <1>6, <1>7, <1>8, <1>9, <1>10, <1>11, <1>12 DEF RequestStep

LEMMA SessionTyped ==
  ASSUME SessionTypeOK, SessionNext
  PROVE  SessionTypeOK'
  <1>a. session \in [Tokens -> Session] /\ request \in [Requests -> Request]
    BY DEF SessionTypeOK
  <1>b. \A S : Without(S) \in [Tokens -> Session]
    BY <1>a, WithoutTyped
  <1> DEFINE FlowType == [status: {"unused", "open", "closed"}, previous: Tokens \cup {Absent}]
  <1>c. flow \in [Flows -> FlowType] /\ Closed \in FlowType
    BY DEF SessionTypeOK, Closed
  <1>d. issued \in 0..MaxCredential /\ MaxCredential \in Nat /\ exchanged \in [Credentials -> Nat]
    BY SessionAssumption DEF SessionTypeOK
  <1> DEFINE Rest == UNCHANGED <<disabled, withdrawn, tombstones, issued, exchanged>>
  <1>1. ASSUME NEW r \in Requests, RequestStep(r) PROVE SessionTypeOK'
    <2>1. session' \in [Tokens -> Session] /\ request' \in [Requests -> Request]
      BY <1>1, RequestTyped DEF Tables
    <2>2. flow' \in [Flows -> FlowType]
      <3>1. ASSUME NEW f \in Flows, ConsumeFlow(r, f) PROVE flow' \in [Flows -> FlowType]
        BY <3>1, <1>c DEF ConsumeFlow
      <3>2. CASE UNCHANGED flow
        BY <3>2, <1>c
      <3> QED
        BY <1>1, <3>1, <3>2 DEF RequestStep, ReadSession, CheckRevoked, ClaimCredential, ClaimElse,
           ExchangeCredential, VerifyRenewal, RecheckRevoked, CompleteRenewal, ResolveSession,
           LogoutSession, AbandonRequest, ExchangeCode, VerifySignIn, Login, StoreCredential, EndPrevious
    <2>3. issued' \in 0..MaxCredential /\ exchanged' \in [Credentials -> Nat]
      <3>1. CASE ExchangeCredential(r)
        <4>1. exchanged' \in [Credentials -> Nat]
          <5> DEFINE c == request[r].credential
          <5>1. exchanged' = [exchanged EXCEPT ![c] = @ + 1]
            BY <3>1 DEF ExchangeCredential
          <5> HIDE DEF c
          <5>2. exchanged' = [d \in Credentials |-> IF d = c THEN exchanged[d] + 1 ELSE exchanged[d]]
            BY <5>1, <1>d
          <5> QED
            BY <5>2, <1>d
        <4>2. issued' = issued \/ (issued < MaxCredential /\ issued' = issued + 1)
          BY <3>1 DEF ExchangeCredential
        <4> QED
          BY <4>1, <4>2, <1>d
      <3>2. CASE ExchangeCode(r)
        <4>1. issued' = issued \/ (issued < MaxCredential /\ issued' = issued + 1)
          BY <3>2 DEF ExchangeCode
        <4>2. exchanged' = exchanged
          BY <3>2 DEF ExchangeCode
        <4> QED
          BY <4>1, <4>2, <1>d
      <3>3. CASE UNCHANGED <<issued, exchanged>>
        BY <3>3, <1>d
      <3> QED
        BY <1>1, <3>1, <3>2, <3>3 DEF RequestStep, ReadSession, CheckRevoked, ClaimCredential, ClaimElse,
           VerifyRenewal, RecheckRevoked, CompleteRenewal, ResolveSession, ConsumeFlow, KeepRest,
           LogoutSession, AbandonRequest, VerifySignIn, Login, StoreCredential, EndPrevious
    <2>4. UNCHANGED <<disabled, withdrawn, tombstones>>
      BY <1>1 DEF RequestStep, ReadSession, CheckRevoked, ClaimCredential, ClaimElse,
           ExchangeCredential, ExchangeCode,
           VerifyRenewal, RecheckRevoked, CompleteRenewal, ResolveSession, ConsumeFlow, KeepRest,
           LogoutSession, AbandonRequest, VerifySignIn, Login, StoreCredential, EndPrevious
    <2> QED
      BY <2>1, <2>2, <2>3, <2>4 DEF SessionTypeOK
  <1>2. ASSUME NEW f \in Flows, ExpireFlow(f) PROVE SessionTypeOK'
    <2>1. flow' \in [Flows -> FlowType]
      BY <1>2, <1>c DEF ExpireFlow
    <2> QED
      BY <1>2, <2>1 DEF ExpireFlow, KeepRest, SessionTypeOK
  <1>3. ASSUME NEW f \in Flows, NEW t \in Tokens \cup {Absent}, StartFlow(f, t) PROVE SessionTypeOK'
    <2>1. flow' \in [Flows -> FlowType]
      BY <1>3, <1>c DEF StartFlow
    <2> QED
      BY <1>3, <2>1 DEF StartFlow, KeepRest, SessionTypeOK
  <1>4. ASSUME NEW t \in Tokens, EndSession(t) \/ Later(t) PROVE SessionTypeOK'
    <2>1. session' \in [Tokens -> Session]
      <3>1. CASE EndSession(t)
        BY <1>b, <3>1 DEF EndSession
      <3>2. CASE Later(t)
        <4>1. \A life \in {"due", "over"} :
                 [session EXCEPT ![t].life = life] \in [Tokens -> Session]
          BY <1>a DEF Session
        <4>2. [session EXCEPT ![t].state = "lapsed"] \in [Tokens -> Session]
          BY <1>a DEF Session
        <4>3. [session EXCEPT ![t].aged = TRUE] \in [Tokens -> Session]
          BY <1>a DEF Session
        <4>4. \/ \E life \in {"due", "over"} : session' = [session EXCEPT ![t].life = life]
              \/ session' = [session EXCEPT ![t].state = "lapsed"]
              \/ session' = [session EXCEPT ![t].aged = TRUE]
          BY <3>2 DEF Later
        <4> QED
          BY <4>1, <4>2, <4>3, <4>4
      <3> QED
        BY <1>4, <3>1, <3>2
    <2>2. UNCHANGED <<flow, request, disabled, withdrawn, tombstones, issued, exchanged>>
      BY <1>4 DEF EndSession, Later, KeepRest
    <2> QED
      BY <2>1, <2>2 DEF SessionTypeOK
  <1>5. ASSUME NEW sid \in ProviderIds, ProviderRevokes(sid) \/ ApplyRevocation(sid)
        PROVE  SessionTypeOK'
    <2>1. session' \in [Tokens -> Session]
      BY <1>a, <1>b, <1>5 DEF ProviderRevokes, ApplyRevocation
    <2> QED
      BY <1>5, <2>1 DEF ProviderRevokes, ApplyRevocation, SessionTypeOK
  <1>6. ASSUME DisableIdentity PROVE SessionTypeOK'
    BY <1>6 DEF DisableIdentity, SessionTypeOK
  <1> QED
    BY <1>1, <1>2, <1>3, <1>4, <1>5, <1>6 DEF SessionNext

\* The tables of sessions, requests and credentials keep their types: a claim
\* is held by a request or by nobody, and no column is left half set.
THEOREM SessionTypes == SessionSpec => []SessionTypeOK
  <1>1. SessionTypeOK /\ [SessionNext]_sessions => SessionTypeOK'
    <2>1. CASE SessionNext
      BY <2>1, SessionTyped
    <2>2. CASE UNCHANGED sessions
      BY <2>2 DEF sessions, SessionTypeOK
    <2> QED
      BY <2>1, <2>2
  <1> QED
    BY SessionBegins, <1>1, PTL DEF SessionSpec

-----------------------------------------------------------------------------
(* Revocation *)

\* A live session was live before, or signed in while its provider session
\* was not revoked.
Descends ==
  \A t \in Tokens : session'[t].state \in {"unclaimed", "claimed", "lapsed"} =>
     \/ t \in Live /\ session'[t].sid = session[t].sid
     \/ session'[t].sid \notin tombstones

LEMMA WithoutDescends ==
  ASSUME SessionTypeOK, NEW S, session' = Without(S)
  PROVE  Descends
  BY WithoutTyped DEF Descends, SessionTypeOK, Ended, Unused, Live

LEMMA RequestDescends ==
  ASSUME SessionTypeOK, NEW r \in Requests, RequestStep(r)
  PROVE  Descends
  <1>a. session \in [Tokens -> Session] /\ \A t \in Tokens : session[t] \in Session
    BY DEF SessionTypeOK
  <1>1. CASE UNCHANGED session
    BY <1>1 DEF Descends, Live
  <1>2. CASE ClaimCredential(r)
    <2>1. \A t \in Tokens : session'[t].sid = session[t].sid
                            /\ (session'[t].state = session[t].state \/ t \in Live)
      BY <1>2, <1>a DEF ClaimCredential, Taken, Session
    <2> QED
      BY <2>1, <1>a DEF Descends, Live
  <1>3. CASE CompleteRenewal(r) \/ StoreCredential(r)
    <2> DEFINE Stays(t) == session'[t].sid = session[t].sid
                           /\ (session'[t].state = session[t].state \/ t \in Live)
    <2>1. CASE CompleteRenewal(r)
      <3>1. SUFFICES ASSUME ~UNCHANGED session PROVE \A t \in Tokens : Stays(t)
        BY <1>1, <1>a DEF Descends, Live
      <3>2. request[r].token \in Live /\ \A t \in Tokens : t # request[r].token => session'[t] = session[t]
        BY <2>1, <3>1, <1>a DEF CompleteRenewal, MayComplete
      <3>3. session'[request[r].token].sid = session[request[r].token].sid
        BY <2>1, <3>1, <3>2, <1>a DEF CompleteRenewal, Session, Live
      <3> QED
        BY <3>2, <3>3
    <2>2. CASE StoreCredential(r)
      <3>1. \A t \in Tokens : session'[t].sid = session[t].sid /\ session'[t].state = session[t].state
        BY <2>2, <1>a DEF StoreCredential, Session
      <3> QED
        BY <3>1, <1>a DEF Descends, Live
    <2> QED
      BY <1>3, <2>1, <2>2
  <1>4. CASE ResolveSession(r) \/ LogoutSession(r) \/ EndPrevious(r)
    <2>1. CASE UNCHANGED session
      BY <2>1, <1>1
    <2>2. CASE \E S : session' = Without(S)
      BY <2>2, WithoutDescends
    <2> QED
      BY <1>4, <2>1, <2>2 DEF ResolveSession, LogoutSession, EndPrevious
  <1>5. CASE Login(r) /\ ~UNCHANGED session
    <2> DEFINE kept == Without({t \in Live : session[t].aged \/ t = request[r].previous})
    <2>1. \A t \in Tokens : kept[t] \in {Ended, session[t]} /\ kept \in [Tokens -> Session]
      BY <1>a, WithoutTyped
    <2> HIDE DEF kept
    <2>2. PICK n \in Tokens : session' = [kept EXCEPT ![n] = NewSession(request[r].sid)]
      BY <1>5 DEF Login, kept
    <2>3. session'[n].sid = request[r].sid /\ request[r].sid \notin tombstones
      BY <1>5, <2>1, <2>2 DEF Login, NotRevoked, NewSession, Unused
    <2>4. \A t \in Tokens : t # n => session'[t] \in {Ended, session[t]}
      BY <2>1, <2>2
    <2> QED
      BY <2>3, <2>4, <1>a DEF Descends, Ended, Unused, Live
  <1> QED
    BY <1>1, <1>2, <1>3, <1>4, <1>5 DEF RequestStep, ReadSession, CheckRevoked, ClaimElse,
       ExchangeCredential, VerifyRenewal, RecheckRevoked, AbandonRequest, ConsumeFlow,
       ExchangeCode, VerifySignIn

LEMMA RevocationStep ==
  ASSUME SessionTypeOK, RevokedStaysOut, SessionNext
  PROVE  RevokedStaysOut'
  <1>a. session \in [Tokens -> Session] /\ \A t \in Tokens : session[t] \in Session
    BY DEF SessionTypeOK
  <1>1. ASSUME Descends, UNCHANGED tombstones PROVE RevokedStaysOut'
    BY <1>1 DEF Descends, RevokedStaysOut, Live
  <1>2. ASSUME NEW r \in Requests, RequestStep(r) PROVE RevokedStaysOut'
    <2>1. UNCHANGED tombstones
      BY <1>2 DEF RequestStep, ReadSession, CheckRevoked, ClaimCredential, ClaimElse,
         ExchangeCredential, ExchangeCode, VerifyRenewal, RecheckRevoked, CompleteRenewal,
         ResolveSession, ConsumeFlow, KeepRest, LogoutSession, AbandonRequest, VerifySignIn,
         Login, StoreCredential, EndPrevious
    <2> QED
      BY <1>1, <1>2, <2>1, RequestDescends
  <1>3. ASSUME NEW f \in Flows, NEW t \in Tokens \cup {Absent}, ExpireFlow(f) \/ StartFlow(f, t)
        PROVE  RevokedStaysOut'
    BY <1>3 DEF ExpireFlow, StartFlow, KeepRest, RevokedStaysOut, Live
  <1>4. ASSUME NEW t \in Tokens, EndSession(t) PROVE RevokedStaysOut'
    BY <1>1, <1>4, WithoutDescends DEF EndSession, KeepRest
  <1>5. ASSUME NEW t \in Tokens, Later(t) PROVE RevokedStaysOut'
    <2>1. \A u \in Tokens : session'[u].sid = session[u].sid
                            /\ (session'[u].state = session[u].state \/ u \in Live)
      BY <1>5, <1>a DEF Later, Session
    <2>2. Descends
      BY <2>1, <1>a DEF Descends, Live
    <2> QED
      BY <1>1, <1>5, <2>2 DEF Later, KeepRest
  <1>6. ASSUME NEW sid \in ProviderIds, ApplyRevocation(sid) PROVE RevokedStaysOut'
    <2>1. \A t \in Tokens : session'[t] = IF t \in Live /\ session[t].sid = sid THEN Ended ELSE session[t]
      BY <1>6, <1>a, WithoutTyped DEF ApplyRevocation
    <2> QED
      BY <1>6, <2>1 DEF ApplyRevocation, RevokedStaysOut, Live, Ended, Unused
  <1>7. ASSUME NEW sid \in ProviderIds, ProviderRevokes(sid) PROVE RevokedStaysOut'
    BY <1>7 DEF ProviderRevokes, RevokedStaysOut, Live
  <1>8. ASSUME DisableIdentity PROVE RevokedStaysOut'
    BY <1>8 DEF DisableIdentity, RevokedStaysOut, Live
  <1>9. \A f \in Flows : ExpireFlow(f) => RevokedStaysOut'
    BY DEF ExpireFlow, KeepRest, RevokedStaysOut, Live
  <1> QED
    BY <1>2, <1>3, <1>4, <1>5, <1>6, <1>7, <1>8, <1>9 DEF SessionNext

\* apply ends the sessions under the lock that loginVerified takes before it
\* looks for the tombstone, so in every order of event, sign-in and renewal no
\* session of a revoked provider session is live.
THEOREM RevocationHolds == SessionSpec => []RevokedStaysOut
  <1>1. SessionInit => RevokedStaysOut
    BY DEF SessionInit, RevokedStaysOut, Live, Unused
  <1>2. SessionTypeOK /\ RevokedStaysOut /\ [SessionNext]_sessions => RevokedStaysOut'
    <2>1. CASE SessionNext
      BY <2>1, RevocationStep
    <2>2. CASE UNCHANGED sessions
      BY <2>2 DEF sessions, RevokedStaysOut, Live
    <2> QED
      BY <2>1, <2>2
  <1> QED
    BY SessionTypes, <1>1, <1>2, PTL DEF SessionSpec

-----------------------------------------------------------------------------
(* Credentials *)

\* A credential in a row or in a request has been issued and not been sent.
Unspent(c) == c # NoCredential => c <= issued /\ exchanged[c] = 0

CredentialInv ==
  /\ \A t \in Tokens : Unspent(session[t].credential)
  /\ \A r \in Requests : Unspent(request[r].credential)
  /\ \A t, u \in Tokens : session[t].credential = session[u].credential
                             => t = u \/ session[t].credential = NoCredential
  /\ \A r, q \in Requests : request[r].credential = request[q].credential
                             => r = q \/ request[r].credential = NoCredential
  /\ \A t \in Tokens, r \in Requests : session[t].credential = request[r].credential
                             => session[t].credential = NoCredential
  /\ \A c \in Credentials : exchanged[c] <= 1 /\ (c > issued => exchanged[c] = 0)

\* Rows and requests that may drop a credential and take none.
Keeps ==
  /\ \A t \in Tokens : session'[t].credential \in {NoCredential, session[t].credential}
  /\ \A r \in Requests : request'[r].credential \in {NoCredential, request[r].credential}
  /\ UNCHANGED <<issued, exchanged>>

LEMMA KeepsInv ==
  ASSUME SessionTypeOK, CredentialInv, Keeps
  PROVE  CredentialInv'
  BY DEF CredentialInv, Keeps, Unspent

LEMMA RowsKeep ==
  ASSUME SessionTypeOK
  PROVE  /\ \A S : \A t \in Tokens : Without(S)[t].credential \in {NoCredential, session[t].credential}
         /\ \A r, q \in Requests, stage \in Stages :
               [request EXCEPT ![r].at = stage][q].credential = request[q].credential
         /\ \A r, q \in Requests :
               [request EXCEPT ![r] = Idle][q].credential \in {NoCredential, request[q].credential}
  <1>1. \A S : \A t \in Tokens : Without(S)[t].credential \in {NoCredential, session[t].credential}
    BY WithoutTyped DEF SessionTypeOK, Ended, Unused
  <1>2. request \in [Requests -> Request]
    BY DEF SessionTypeOK
  <1>3. \A r, q \in Requests, stage \in Stages :
               [request EXCEPT ![r].at = stage][q].credential = request[q].credential
    BY <1>2 DEF Request
  <1>4. \A r, q \in Requests :
               [request EXCEPT ![r] = Idle][q].credential \in {NoCredential, request[q].credential}
    BY <1>2 DEF Idle
  <1> QED
    BY <1>1, <1>3, <1>4

\* The steps of a request that neither move a credential nor get one.
LEMMA RequestKeeps ==
  ASSUME SessionTypeOK, NEW r \in Requests,
         \/ \E t \in Tokens : ReadSession(r, t)
         \/ CheckRevoked(r) \/ ClaimElse(r) \/ VerifyRenewal(r) \/ RecheckRevoked(r)
         \/ ResolveSession(r) \/ LogoutSession(r) \/ AbandonRequest(r)
         \/ \E f \in Flows : ConsumeFlow(r, f)
         \/ VerifySignIn(r) \/ Login(r) \/ EndPrevious(r)
  PROVE  Keeps
  <1>a. session \in [Tokens -> Session] /\ request \in [Requests -> Request]
    BY DEF SessionTypeOK
  <1> DEFINE Dropped == \A q \in Requests : request'[q].credential \in {NoCredential, request[q].credential}
  <1>1. ASSUME UNCHANGED session, KeepRest, Dropped PROVE Keeps
    BY <1>1 DEF Keeps, KeepRest
  <1>2. ASSUME NEW stage \in Stages, Continue(r, stage) PROVE Dropped
    BY <1>2, RowsKeep DEF Continue
  <1>3. ASSUME Finish(r) PROVE Dropped
    BY <1>3, RowsKeep DEF Finish
  <1>4. ASSUME NEW t \in Tokens, ReadSession(r, t) PROVE Keeps
    <2>1. Dropped
      BY <1>4, <1>a DEF ReadSession, Idle
    <2> QED
      BY <1>1, <1>4, <2>1 DEF ReadSession
  <1>5. ASSUME NEW f \in Flows, ConsumeFlow(r, f) PROVE Keeps
    <2>1. Dropped
      BY <1>5, <1>a DEF ConsumeFlow, Idle
    <2> QED
      BY <1>1, <1>5, <2>1 DEF ConsumeFlow
  <1>6. CASE CheckRevoked(r) \/ ClaimElse(r) \/ VerifyRenewal(r) \/ RecheckRevoked(r) \/ VerifySignIn(r)
             \/ AbandonRequest(r)
    <2>1. Finish(r) \/ \E stage \in Stages : Continue(r, stage)
      BY <1>6 DEF CheckRevoked, ClaimElse, VerifyRenewal, RecheckRevoked, VerifySignIn, AbandonRequest, Stages
    <2>2. Dropped
      BY <1>2, <1>3, <2>1
    <2> QED
      BY <1>1, <1>6, <2>2 DEF CheckRevoked, ClaimElse, VerifyRenewal, RecheckRevoked, VerifySignIn, AbandonRequest
  <1>7. CASE ResolveSession(r) \/ LogoutSession(r) \/ EndPrevious(r)
    <2>1. Finish(r) \/ Continue(r, "logout")
      BY <1>7 DEF ResolveSession, LogoutSession, EndPrevious
    <2>2. Dropped
      BY <1>2, <1>3, <2>1 DEF Stages
    <2>3. \A t \in Tokens : session'[t].credential \in {NoCredential, session[t].credential}
      BY <1>7, RowsKeep DEF ResolveSession, LogoutSession, EndPrevious
    <2>4. UNCHANGED <<issued, exchanged>>
      BY <1>7 DEF ResolveSession, LogoutSession, EndPrevious, KeepRest
    <2> QED
      BY <2>2, <2>3, <2>4 DEF Keeps
  <1>8. CASE Login(r)
    <2>1. CASE UNCHANGED session /\ Finish(r)
      BY <1>1, <1>3, <1>8, <2>1 DEF Login
    <2>2. CASE ~(UNCHANGED session /\ Finish(r))
      <3> DEFINE kept == Without({t \in Live : session[t].aged \/ t = request[r].previous})
      <3>1. /\ kept \in [Tokens -> Session]
            /\ \A t \in Tokens : kept[t].credential \in {NoCredential, session[t].credential}
        BY <1>a, WithoutTyped, RowsKeep
      <3> HIDE DEF kept
      <3>2. PICK n \in Tokens :
              /\ session' = [kept EXCEPT ![n] = NewSession(request[r].sid)]
              /\ request' = [request EXCEPT ![r].at = "store", ![r].token = n]
        BY <1>8, <2>2 DEF Login, kept
      <3>3. Dropped
        BY <1>a, <3>2 DEF Request
      <3>4. \A t \in Tokens : session'[t].credential \in {NoCredential, session[t].credential}
        BY <3>1, <3>2 DEF NewSession, Unused
      <3> QED
        BY <1>8, <3>3, <3>4 DEF Login, KeepRest, Keeps
    <2> QED
      BY <2>1, <2>2
  <1> QED
    BY <1>4, <1>5, <1>6, <1>7, <1>8

\* The credential goes from the row into the request.
LEMMA ClaimMoves ==
  ASSUME SessionTypeOK, CredentialInv, NEW r \in Requests, ClaimCredential(r)
  PROVE  CredentialInv'
  <1> DEFINE t == request[r].token
  <1>a. session \in [Tokens -> Session] /\ request \in [Requests -> Request] /\ t \in Tokens
    BY DEF SessionTypeOK, ClaimCredential, Live
  <1>1. session'[t].credential = NoCredential
        /\ \A u \in Tokens : u # t => session'[u].credential = session[u].credential
    BY <1>a DEF ClaimCredential, Taken, Session
  <1>2. request'[r].credential = session[t].credential
        /\ \A q \in Requests : q # r => request'[q].credential = request[q].credential
    BY <1>a DEF ClaimCredential, Request
  <1>3. UNCHANGED <<issued, exchanged>>
    BY DEF ClaimCredential, KeepRest
  <1> HIDE DEF t
  <1> QED
    BY <1>a, <1>1, <1>2, <1>3 DEF CredentialInv, Unspent

\* And from the request into the row.
LEMMA StoreMoves ==
  ASSUME SessionTypeOK, CredentialInv, NEW r \in Requests, CompleteRenewal(r) \/ StoreCredential(r)
  PROVE  CredentialInv'
  <1> DEFINE t == request[r].token
  <1>a. session \in [Tokens -> Session] /\ request \in [Requests -> Request]
    BY DEF SessionTypeOK
  <1>b. UNCHANGED <<issued, exchanged>>
    BY DEF CompleteRenewal, StoreCredential, KeepRest
  <1>1. CASE UNCHANGED session /\ Continue(r, "logout")
    <2>1. \A q \in Requests : request'[q].credential = request[q].credential
      BY <1>1, RowsKeep DEF Continue, Stages
    <2> QED
      BY <1>1, <1>b, <2>1, KeepsInv DEF Keeps
  <1>2. CASE ~(UNCHANGED session /\ Continue(r, "logout"))
    <2>1. t \in Tokens
      BY <1>2 DEF CompleteRenewal, StoreCredential, MayComplete, Live
    <2>2. session'[t].credential = request[r].credential
          /\ \A u \in Tokens : u # t => session'[u].credential = session[u].credential
      BY <1>2, <1>a, <2>1 DEF CompleteRenewal, StoreCredential, Session
    <2>3. request'[r].credential = NoCredential
          /\ \A q \in Requests : q # r => request'[q].credential = request[q].credential
      BY <1>2, <1>a DEF CompleteRenewal, StoreCredential, Request
    <2> HIDE DEF t
    <2> QED
      BY <1>b, <2>1, <2>2, <2>3 DEF CredentialInv, Unspent
  <1> QED
    BY <1>1, <1>2

\* A new credential is in no row and no other request, and a sent one nowhere.
LEMMA ExchangeMoves ==
  ASSUME SessionTypeOK, CredentialInv, NEW r \in Requests, ExchangeCredential(r) \/ ExchangeCode(r)
  PROVE  CredentialInv'
  <1> DEFINE c == request[r].credential
             new == request'[r].credential
  <1>a. /\ request \in [Requests -> Request] /\ \A q \in Requests : request[q].credential \in Nat
        /\ \A t \in Tokens : session[t].credential \in Nat
        /\ issued \in Nat /\ exchanged \in [Credentials -> Nat] /\ MaxCredential \in Nat
    BY SessionAssumption DEF SessionTypeOK, Request, Session, Credentials, NoCredential
  <1>1. UNCHANGED session /\ \A q \in Requests : q # r => request'[q].credential = request[q].credential
    BY <1>a DEF ExchangeCredential, ExchangeCode, Finish
  <1>2. \/ issued' = issued + 1 /\ issued < MaxCredential /\ new = issued + 1
        \/ issued' = issued /\ new = NoCredential
    <2>1. CASE ExchangeCredential(r)
      <3>1. CASE issued < MaxCredential /\ issued' = issued + 1
                 /\ request' = [request EXCEPT ![r].at = "verify", ![r].credential = issued + 1]
        <4>1. new = issued + 1
          BY <3>1, <1>a DEF Request
        <4> QED
          BY <3>1, <4>1
      <3>2. CASE issued' = issued
                 /\ request' = [request EXCEPT ![r].at = "logout", ![r].credential = NoCredential]
        <4>1. new = NoCredential
          BY <3>2, <1>a DEF Request
        <4> QED
          BY <3>2, <4>1
      <3> QED
        BY <2>1, <3>1, <3>2 DEF ExchangeCredential
    <2>2. CASE ExchangeCode(r)
      <3>1. CASE issued' = issued /\ Finish(r)
        <4>1. new = NoCredential
          BY <3>1, <1>a DEF Finish, Idle
        <4> QED
          BY <3>1, <4>1
      <3>2. CASE ~(issued' = issued /\ Finish(r))
        <4>1. PICK sid \in ProviderIds :
                request' = [request EXCEPT ![r].at = "identity", ![r].sid = sid,
                                           ![r].credential = issued + 1]
          BY <2>2, <3>2 DEF ExchangeCode
        <4>2. new = issued + 1
          BY <4>1, <1>a DEF Request
        <4> QED
          BY <2>2, <3>2, <4>2 DEF ExchangeCode
      <3> QED
        BY <3>1, <3>2
    <2> QED
      BY <2>1, <2>2
  <1>3. \A d \in Credentials : exchanged'[d] = exchanged[d] \/ (d = c /\ exchanged'[d] = exchanged[d] + 1)
    BY <1>a DEF ExchangeCredential, ExchangeCode
  <1>4. \A d \in Credentials : d \in Nat /\ d # NoCredential
    BY DEF Credentials, NoCredential
  <1> HIDE DEF c, new
  <1>5. \A d \in Credentials : d = c => exchanged[d] = 0 /\ d <= issued
    BY <1>4 DEF CredentialInv, Unspent, c
  <1>6. \A d \in Credentials : exchanged'[d] <= 1 /\ (d > issued' => exchanged'[d] = 0)
    BY <1>2, <1>3, <1>4, <1>5, <1>a DEF CredentialInv
  <1>7. issued + 1 # NoCredential /\ (issued < MaxCredential => exchanged[issued + 1] = 0)
    BY <1>a DEF CredentialInv, Credentials, NoCredential
  <1>8. \A t \in Tokens : session[t].credential = c => c = NoCredential
    BY DEF CredentialInv, c
  <1>9. \A q \in Requests : q # r /\ request[q].credential = c => c = NoCredential
    BY DEF CredentialInv, c
  <1>10. \A t \in Tokens : Unspent(session[t].credential)'
    <2>1. SUFFICES ASSUME NEW t \in Tokens, session[t].credential # NoCredential
                   PROVE  session[t].credential <= issued' /\ exchanged'[session[t].credential] = 0
      BY <1>1 DEF Unspent
    <2>2. session[t].credential <= issued /\ exchanged[session[t].credential] = 0
      BY <2>1 DEF CredentialInv, Unspent
    <2>3. session[t].credential \in Credentials
      BY <2>1 DEF SessionTypeOK, Session
    <2>4. session[t].credential # c
      BY <1>8, <2>1
    <2> QED
      BY <1>2, <1>3, <1>a, <2>2, <2>3, <2>4
  <1>11. \A q \in Requests : Unspent(request[q].credential)'
    <2>1. ASSUME NEW q \in Requests, q # r, request[q].credential # NoCredential
          PROVE  request[q].credential <= issued' /\ exchanged'[request[q].credential] = 0
      <3>1. request[q].credential <= issued /\ exchanged[request[q].credential] = 0
        BY <2>1 DEF CredentialInv, Unspent
      <3>2. request[q].credential \in Credentials
        BY <2>1 DEF SessionTypeOK, Request
      <3>3. request[q].credential # c
        BY <1>9, <2>1
      <3> QED
        BY <1>2, <1>3, <1>a, <3>1, <3>2, <3>3
    <2>2. new # NoCredential => new <= issued' /\ exchanged'[new] = 0
      <3>1. CASE issued' = issued + 1 /\ issued < MaxCredential /\ new = issued + 1
        <4>1. issued + 1 \in Credentials
          BY <3>1, <1>a DEF Credentials
        <4>2. issued + 1 # c
          BY <4>1, <1>5, <1>a
        <4> QED
          BY <3>1, <4>1, <4>2, <1>3, <1>7, <1>a
      <3> QED
        BY <3>1, <1>2
    <2> QED
      BY <1>1, <2>1, <2>2 DEF Unspent, new
  <1>12. \A q \in Requests : q # r /\ request'[q].credential = new => new = NoCredential
    BY <1>1, <1>2, <1>a DEF CredentialInv, Unspent
  <1>13. \A t \in Tokens : session'[t].credential = new => new = NoCredential
    BY <1>1, <1>2, <1>a DEF CredentialInv, Unspent
  <1>14. \A p, q \in Requests : request'[p].credential = request'[q].credential
                             => p = q \/ request'[p].credential = NoCredential
    BY <1>1, <1>12 DEF CredentialInv, new
  <1>15. \A t \in Tokens, q \in Requests : session'[t].credential = request'[q].credential
                             => session'[t].credential = NoCredential
    BY <1>1, <1>13 DEF CredentialInv, new
  <1>16. \A t, u \in Tokens : session'[t].credential = session'[u].credential
                             => t = u \/ session'[t].credential = NoCredential
    BY <1>1 DEF CredentialInv
  <1> QED
    BY <1>6, <1>10, <1>11, <1>14, <1>15, <1>16 DEF CredentialInv

LEMMA CredentialStep ==
  ASSUME SessionTypeOK, CredentialInv, SessionNext
  PROVE  CredentialInv'
  <1>a. session \in [Tokens -> Session]
    BY DEF SessionTypeOK
  <1>1. ASSUME NEW r \in Requests, RequestStep(r) PROVE CredentialInv'
    <2>1. CASE ClaimCredential(r)
      BY <2>1, ClaimMoves
    <2>2. CASE CompleteRenewal(r) \/ StoreCredential(r)
      BY <2>2, StoreMoves
    <2>3. CASE ExchangeCredential(r) \/ ExchangeCode(r)
      BY <2>3, ExchangeMoves
    <2>4. CASE ~(ClaimCredential(r) \/ CompleteRenewal(r) \/ StoreCredential(r)
                 \/ ExchangeCredential(r) \/ ExchangeCode(r))
      <3>1. Keeps
        BY <1>1, <2>4, RequestKeeps DEF RequestStep
      <3> QED
        BY <3>1, KeepsInv
    <2> QED
      BY <2>1, <2>2, <2>3, <2>4
  <1>2. ASSUME NEW f \in Flows, ExpireFlow(f) \/ \E t \in Tokens \cup {Absent} : StartFlow(f, t)
        PROVE  CredentialInv'
    <2>1. Keeps
      BY <1>2 DEF ExpireFlow, StartFlow, KeepRest, Keeps
    <2> QED
      BY <2>1, KeepsInv
  <1>3. ASSUME NEW t \in Tokens, EndSession(t) \/ Later(t) PROVE CredentialInv'
    <2>1. CASE EndSession(t)
      <3>1. Keeps
        BY <2>1, RowsKeep DEF EndSession, KeepRest, Keeps
      <3> QED
        BY <3>1, KeepsInv
    <2>2. CASE Later(t)
      <3>1. \A u \in Tokens : session'[u].credential = session[u].credential
        BY <2>2, <1>a DEF Later, Session
      <3>2. Keeps
        BY <2>2, <3>1 DEF Later, KeepRest, Keeps
      <3> QED
        BY <3>2, KeepsInv
    <2> QED
      BY <1>3, <2>1, <2>2
  <1>4. ASSUME NEW sid \in ProviderIds, ProviderRevokes(sid) \/ ApplyRevocation(sid)
        PROVE  CredentialInv'
    <2>1. Keeps
      BY <1>4, RowsKeep DEF ProviderRevokes, ApplyRevocation, Keeps
    <2> QED
      BY <2>1, KeepsInv
  <1>5. ASSUME DisableIdentity PROVE CredentialInv'
    <2>1. Keeps
      BY <1>5 DEF DisableIdentity, Keeps
    <2> QED
      BY <2>1, KeepsInv
  <1> QED
    BY <1>1, <1>2, <1>3, <1>4, <1>5 DEF SessionNext

\* Between claim and complete the credential is in the hands of one request and
\* in no row, so no interleaving, crash or lapse of a claim sends it twice.
THEOREM CredentialsSpentOnce == SessionSpec => []CredentialSpentOnce
  <1>1. SessionInit => CredentialInv
    BY DEF SessionInit, CredentialInv, Unspent, Unused, Idle
  <1>2. SessionTypeOK /\ CredentialInv /\ [SessionNext]_sessions => CredentialInv'
    <2>1. CASE SessionNext
      BY <2>1, CredentialStep
    <2>2. CASE UNCHANGED sessions
      BY <2>2 DEF sessions, CredentialInv, Unspent
    <2> QED
      BY <2>1, <2>2
  <1>3. CredentialInv => CredentialSpentOnce
    BY DEF CredentialInv, CredentialSpentOnce
  <1> QED
    BY SessionTypes, <1>1, <1>2, <1>3, PTL DEF SessionSpec
=============================================================================
