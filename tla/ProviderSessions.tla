-------------------------- MODULE ProviderSessions --------------------------
(***************************************************************************)
(* The app sessions of one customer who signs in through WorkOS: the       *)
(* single-use refresh credential that renews a session, and the revocation *)
(* of the provider session behind it (services/governance/workos-auth.cjs, *)
(* postgres-provider-sessions.cjs, postgres-workspace-auth.cjs,            *)
(* provider-revocations.cjs, account-sessions.cjs).                        *)
(*                                                                         *)
(* A transaction is one step; the awaits between transactions, the calls   *)
(* of the provider and the death of the process come in between.  Whether  *)
(* the provider's verification, the admission list or any statement fails  *)
(* is a choice, as each has the same effect on the session.                *)
(***************************************************************************)
EXTENDS Integers, FiniteSets, FiniteSetsExt

CONSTANTS
    Tokens,          \* session hashes, drawn at random at each sign-in
    ProviderIds,     \* sessions at the provider (the sid of its tokens)
    Flows,           \* sign-in flows (state hashes)
    Requests,        \* HTTP requests served at the same time, by any process
    Absent,          \* no token, no provider session, nobody
    MaxCredential,   \* bound: credentials the provider issues
    MaxFlows,        \* sign-in flows that may be open (1000 in the code)
    MaxSessions      \* sessions of one customer (20)

ASSUME SessionAssumption ==
    /\ MaxCredential \in Nat /\ MaxFlows \in Nat /\ MaxSessions \in Nat
    /\ Absent \notin Tokens \cup ProviderIds \cup Requests

VARIABLES
    session,    \* [Tokens -> Session]: governance_customer_sessions
    flow,       \* [Flows -> status and the session it replaces]
    request,    \* [Requests -> Request]: resolve or callback, at an await
    disabled,   \* the identity was disabled and its version changed
    withdrawn,  \* sessions the provider has revoked
    tombstones, \* governance_provider_revocations
    issued,     \* credentials the provider has issued: 1..issued
    exchanged   \* [credential -> times it was sent to the provider]

sessions == <<session, flow, request, disabled, withdrawn, tombstones, issued, exchanged>>

Credentials == 1..MaxCredential
NoCredential == 0

\* fresh: not within 30 seconds of its expiry; due: within them; over: expired.
\* aged: eight hours old or idle for half an hour.  A claim is held by the
\* owner whose random value is in the row, for 30 seconds.
Session == [state: {"unused", "unclaimed", "claimed", "lapsed", "ended"},
            sid: ProviderIds \cup {Absent}, credential: Credentials \cup {NoCredential},
            owner: Requests \cup {Absent}, life: {"fresh", "due", "over"}, aged: BOOLEAN]
Unused == [state |-> "unused", sid |-> Absent, credential |-> NoCredential,
           owner |-> Absent, life |-> "over", aged |-> FALSE]
Ended == [Unused EXCEPT !.state = "ended"]
NewSession(sid) == [Unused EXCEPT !.state = "unclaimed", !.sid = sid, !.life = "fresh"]

Stages == {"idle", "revoked?", "claim", "exchange", "verify", "recheck", "complete",
           "resolve", "logout", "code", "identity", "login", "store", "previous"}
Request == [at: Stages, token: Tokens \cup {Absent}, sid: ProviderIds \cup {Absent},
            previous: Tokens \cup {Absent}, fresh: BOOLEAN,
            credential: Credentials \cup {NoCredential}]
Idle == [at |-> "idle", token |-> Absent, sid |-> Absent, previous |-> Absent,
         fresh |-> FALSE, credential |-> NoCredential]

Closed == [status |-> "closed", previous |-> Absent]  \* used or expired

SessionTypeOK ==
    /\ session \in [Tokens -> Session]
    /\ flow \in [Flows -> [status: {"unused", "open", "closed"}, previous: Tokens \cup {Absent}]]
    /\ request \in [Requests -> Request]
    /\ disabled \in BOOLEAN
    /\ withdrawn \subseteq ProviderIds
    /\ tombstones \subseteq ProviderIds
    /\ issued \in 0..MaxCredential
    /\ exchanged \in [Credentials -> Nat]

SessionInit ==
    /\ session = [t \in Tokens |-> Unused]
    /\ flow = [f \in Flows |-> [status |-> "unused", previous |-> Absent]]
    /\ request = [r \in Requests |-> Idle]
    /\ disabled = FALSE
    /\ withdrawn = {} /\ tombstones = {}
    /\ issued = 0
    /\ exchanged = [c \in Credentials |-> 0]

Live == {t \in Tokens : session[t].state \in {"unclaimed", "claimed", "lapsed"}}
At(r, stage) == request[r].at = stage
Continue(r, stage) == request' = [request EXCEPT ![r].at = stage]
Finish(r) == request' = [request EXCEPT ![r] = Idle]
Without(S) == [t \in Tokens |-> IF t \in S \cap Live THEN Ended ELSE session[t]]
KeepRest == UNCHANGED <<disabled, withdrawn, tombstones, issued, exchanged>>

-----------------------------------------------------------------------------
(* Resolving a session *)

\* The row and the identity are read.
ReadSession(r, t) ==
    /\ At(r, "idle") /\ t \in Live
    /\ request' = [request EXCEPT ![r] =
          [Idle EXCEPT !.token = t, !.sid = session[t].sid, !.fresh = session[t].life = "fresh",
                       !.at = IF disabled \/ session[t].aged THEN "logout" ELSE "revoked?"]]
    /\ UNCHANGED <<session, flow>> /\ KeepRest

CheckRevoked(r) ==
    /\ At(r, "revoked?")
    /\ Continue(r, CASE request[r].sid \in tombstones -> "logout"
                     [] request[r].fresh -> "resolve"
                     [] OTHER -> "claim")
    /\ UNCHANGED <<session, flow>> /\ KeepRest

\* Seeded fault: the credential is read, and replaced when the renewal completes.
TakenLater(t, r) == session[t]

Taken(t, r) == [session[t] EXCEPT !.credential = NoCredential, !.state = "claimed", !.owner = r]

\* The credential leaves the row before it is sent.
ClaimCredential(r) ==
    LET t == request[r].token
    IN  /\ At(r, "claim") /\ t \in Live
        /\ session[t].life # "fresh" /\ session[t].state = "unclaimed"
        /\ session[t].credential # NoCredential
        /\ request' = [request EXCEPT ![r].at = "exchange",
                                      ![r].credential = session[t].credential]
        /\ session' = [session EXCEPT ![t] = Taken(t, r)]
        /\ UNCHANGED flow /\ KeepRest

\* Another owner has renewed or holds the claim, or none can be had.  While it
\* is busy the request polls and at last answers 503.
ClaimElse(r) ==
    LET t == request[r].token
    IN  /\ At(r, "claim")
        /\ \/ /\ t \in Live /\ session[t].life = "fresh"
              /\ Continue(r, "resolve")
           \/ /\ t \in Live /\ session[t].life # "fresh" /\ session[t].state = "claimed"
              /\ Finish(r)
           \/ /\ t \in Live => /\ session[t].life # "fresh"
                                /\ session[t].state # "claimed"
                                /\ \/ session[t].state = "lapsed"
                                   \/ session[t].credential = NoCredential
              /\ Continue(r, "logout")
        /\ UNCHANGED <<session, flow>> /\ KeepRest

\* The answer brings the next credential; a refusal, a timeout or a lost answer none.
ExchangeCredential(r) ==
    LET c == request[r].credential
    IN  /\ At(r, "exchange")
        /\ exchanged' = [exchanged EXCEPT ![c] = @ + 1]
        /\ \/ /\ issued < MaxCredential
              /\ issued' = issued + 1
              /\ request' = [request EXCEPT ![r].at = "verify", ![r].credential = issued + 1]
           \/ /\ issued' = issued
              /\ request' = [request EXCEPT ![r].at = "logout", ![r].credential = NoCredential]
        /\ UNCHANGED <<session, flow, disabled, withdrawn, tombstones>>

VerifyRenewal(r) ==
    /\ At(r, "verify")
    /\ \E verified \in BOOLEAN :
          Continue(r, IF verified /\ ~disabled THEN "recheck" ELSE "logout")
    /\ UNCHANGED <<session, flow>> /\ KeepRest

RecheckRevoked(r) ==
    /\ At(r, "recheck")
    /\ Continue(r, IF request[r].sid \in tombstones THEN "logout" ELSE "complete")
    /\ UNCHANGED <<session, flow>> /\ KeepRest

MayComplete(r) ==
    LET t == request[r].token
    IN  /\ t \in Live /\ ~disabled
        /\ session[t].sid = request[r].sid
        /\ session[t].state = "claimed" /\ session[t].owner = r
        /\ ~session[t].aged
        /\ session[t].credential = NoCredential

CompleteRenewal(r) ==
    LET t == request[r].token
    IN  /\ At(r, "complete")
        /\ IF MayComplete(r)
           THEN /\ session' = [session EXCEPT ![t].credential = request[r].credential,
                                              ![t].state = "unclaimed", ![t].owner = Absent,
                                              ![t].life = "fresh"]
                /\ request' = [request EXCEPT ![r].at = "resolve",
                                              ![r].credential = NoCredential]
           ELSE /\ UNCHANGED session
                /\ Continue(r, "logout")
        /\ UNCHANGED flow /\ KeepRest

Valid(t) == t \in Live /\ ~disabled /\ session[t].life # "over" /\ ~session[t].aged

\* The customer is served, or the session is found invalid and deleted.  One
\* who is no longer admitted is logged out.
ResolveSession(r) ==
    LET t == request[r].token
    IN  /\ At(r, "resolve")
        /\ \E admitted \in BOOLEAN :
              IF Valid(t) /\ ~admitted
              THEN session' = session /\ Continue(r, "logout")
              ELSE session' = (IF Valid(t) THEN session ELSE Without({t})) /\ Finish(r)
        /\ UNCHANGED flow /\ KeepRest

LogoutSession(r) ==
    /\ At(r, "logout")
    /\ session' = Without({request[r].token})
    /\ Finish(r)
    /\ UNCHANGED flow /\ KeepRest

-----------------------------------------------------------------------------
(* Signing in *)

StartFlow(f, previous) ==
    /\ flow[f].status = "unused"
    /\ Cardinality({g \in Flows : flow[g].status = "open"}) < MaxFlows
    /\ previous = Absent \/ previous \in Live
    /\ flow' = [flow EXCEPT ![f] = [status |-> "open", previous |-> previous]]
    /\ UNCHANGED <<session, request>> /\ KeepRest

\* One statement deletes the flow and returns it: a repeated callback finds none.
ConsumeFlow(r, f) ==
    /\ At(r, "idle") /\ flow[f].status = "open"
    /\ flow' = [flow EXCEPT ![f] = Closed]
    /\ request' = [request EXCEPT ![r] = [Idle EXCEPT !.at = "code", !.previous = flow[f].previous]]
    /\ UNCHANGED session /\ KeepRest

ExpireFlow(f) ==
    /\ flow[f].status = "open"
    /\ flow' = [flow EXCEPT ![f] = Closed]
    /\ UNCHANGED <<session, request>> /\ KeepRest

\* The provider may answer with a session it has already, or is about to, revoke.
ExchangeCode(r) ==
    /\ At(r, "code")
    /\ \/ /\ issued < MaxCredential
          /\ issued' = issued + 1
          /\ \E sid \in ProviderIds :
                request' = [request EXCEPT ![r].at = "identity", ![r].sid = sid,
                                           ![r].credential = issued + 1]
       \/ issued' = issued /\ Finish(r)
    /\ UNCHANGED <<session, flow, disabled, withdrawn, tombstones, exchanged>>

\* The identity is created or updated, then the revocations are read.
VerifySignIn(r) ==
    /\ At(r, "identity")
    /\ \E verified \in BOOLEAN :
          IF verified /\ ~disabled /\ request[r].sid \notin tombstones
          THEN Continue(r, "login") ELSE Finish(r)
    /\ UNCHANGED <<session, flow>> /\ KeepRest

\* Seeded fault: only the check before the transaction counts.
NotRevokedEarlier(r) == TRUE

\* Read again under the advisory lock that a revocation of the session takes.
NotRevoked(r) == request[r].sid \notin tombstones

\* Old sessions and the replaced one go, and the new one has no credential yet.
Login(r) ==
    LET kept == Without({t \in Live : session[t].aged \/ t = request[r].previous})
        count == Cardinality({t \in Live : kept[t].state # "ended"})
    IN  /\ At(r, "login")
        /\ IF NotRevoked(r) /\ ~disabled /\ count < MaxSessions
           THEN \E t \in {u \in Tokens : session[u].state = "unused"} :
                  /\ session' = [kept EXCEPT ![t] = NewSession(request[r].sid)]
                  /\ request' = [request EXCEPT ![r].at = "store", ![r].token = t]
           ELSE UNCHANGED session /\ Finish(r)
        /\ UNCHANGED flow /\ KeepRest

StoreCredential(r) ==
    LET t == request[r].token
    IN  /\ At(r, "store")
        /\ \/ /\ t \in Live /\ session[t].credential = NoCredential
              /\ session[t].state = "unclaimed"
              /\ session' = [session EXCEPT ![t].credential = request[r].credential]
              /\ request' = [request EXCEPT ![r].at = "previous", ![r].credential = NoCredential]
           \/ UNCHANGED session /\ Continue(r, "logout")
        /\ UNCHANGED flow /\ KeepRest

EndPrevious(r) ==
    /\ At(r, "previous")
    /\ session' = Without({request[r].previous})
    /\ Finish(r)
    /\ UNCHANGED flow /\ KeepRest

-----------------------------------------------------------------------------
(* Everything else that ends or ages a session *)

\* Sign out, or the end of another session of the same customer from a valid one.
EndSession(t) ==
    /\ t \in Live
    /\ session' = Without({t})
    /\ UNCHANGED <<flow, request>> /\ KeepRest

DisableIdentity ==
    /\ ~disabled
    /\ disabled' = TRUE
    /\ UNCHANGED <<session, flow, request, withdrawn, tombstones, issued, exchanged>>

ProviderRevokes(sid) ==
    /\ sid \notin withdrawn
    /\ withdrawn' = withdrawn \cup {sid}
    /\ UNCHANGED <<session, flow, request, disabled, tombstones, issued, exchanged>>

\* The event of a revocation, by webhook or replay, for the first time or again.
ApplyRevocation(sid) ==
    /\ sid \in withdrawn \ tombstones
    /\ tombstones' = tombstones \cup {sid}
    /\ session' = Without({t \in Live : session[t].sid = sid})
    /\ UNCHANGED <<flow, request, disabled, withdrawn, issued, exchanged>>

Later(t) ==
    /\ t \in Live
    /\ \/ /\ session[t].life # "over"
          /\ session' = [session EXCEPT ![t].life = IF @ = "fresh" THEN "due" ELSE "over"]
       \/ /\ session[t].state = "claimed"
          /\ session' = [session EXCEPT ![t].state = "lapsed"]
       \/ /\ ~session[t].aged
          /\ session' = [session EXCEPT ![t].aged = TRUE]
    /\ UNCHANGED <<flow, request>> /\ KeepRest

\* The process dies, or a statement fails where only the request ends.
AbandonRequest(r) ==
    /\ ~At(r, "idle")
    /\ Finish(r)
    /\ UNCHANGED <<session, flow>> /\ KeepRest

RequestStep(r) ==
    \/ \E t \in Tokens : ReadSession(r, t)
    \/ CheckRevoked(r) \/ ClaimCredential(r) \/ ClaimElse(r) \/ ExchangeCredential(r)
    \/ VerifyRenewal(r) \/ RecheckRevoked(r) \/ CompleteRenewal(r) \/ ResolveSession(r)
    \/ LogoutSession(r) \/ AbandonRequest(r)
    \/ \E f \in Flows : ConsumeFlow(r, f)
    \/ ExchangeCode(r) \/ VerifySignIn(r) \/ Login(r) \/ StoreCredential(r) \/ EndPrevious(r)

SessionNext ==
    \/ \E r \in Requests : RequestStep(r)
    \/ \E f \in Flows : ExpireFlow(f) \/ \E t \in Tokens \cup {Absent} : StartFlow(f, t)
    \/ \E t \in Tokens : EndSession(t) \/ Later(t)
    \/ \E sid \in ProviderIds : ProviderRevokes(sid) \/ ApplyRevocation(sid)
    \/ DisableIdentity

SessionSpec == SessionInit /\ [][SessionNext]_sessions

-----------------------------------------------------------------------------
\* A rotating credential leaves for the provider at most once, however many
\* requests renew the session at the same time, whose processes die and whose
\* claims lapse (claim and complete of postgres-provider-sessions.cjs); a
\* second use would make the provider end every session of the customer.
CredentialSpentOnce == \A c \in Credentials : exchanged[c] <= 1

\* Once the provider's revocation is recorded no session lives on or begins
\* under it, in whatever order the event, the sign-in and the renewals come
\* (apply of provider-revocations.cjs, loginVerified of postgres-workspace-auth.cjs).
RevokedStaysOut == \A t \in Live : session[t].sid \notin tombstones
=============================================================================
