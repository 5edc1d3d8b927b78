------------------------ MODULE HistoricalAuthority ------------------------
(***************************************************************************)
(* HistoricalAuthorityRegistry.sol and HistoricalAuthorisedAVRAnchor.sol   *)
(* for one organisation: its controller authorises agents in epochs and    *)
(* revokes them; an agent anchors a receipt if an epoch covers the block's *)
(* time.  The registry keeps every epoch so that an anchor can be checked  *)
(* against the time it was made.                                           *)
(***************************************************************************)
EXTENDS Integers, Sequences

CONSTANTS
    Agents,
    Commitments,  \* authority commitments
    Anchorables,  \* receipt ids
    MaxEpochs,    \* epochs of an agent (a bound)
    LastSecond    \* block.timestamp stops there (a bound)

ASSUME AuthorityAssumption == MaxEpochs \in Nat /\ LastSecond \in Nat \ {0}

VARIABLES
    second,     \* block.timestamp
    registered, \* the organisation is registered
    epochs,     \* delegationHistory: [Agents -> sequence of epochs]
    anchored    \* [Anchorables -> who anchored it, under what, and when]

authority == <<second, registered, epochs, anchored>>

Second == 0..LastSecond
Epoch == [commitment: Commitments, validAfter: Second, validUntil: Second, revokedAt: Second]
NoAnchor == [at |-> 0]
AnchorOf == [issuer: Agents, commitment: Commitments, at: 1..LastSecond]

AuthorityTypeOK ==
    /\ second \in 1..LastSecond /\ registered \in BOOLEAN
    /\ epochs \in [Agents -> Seq(Epoch)]
    /\ anchored \in [Anchorables -> AnchorOf \cup {NoAnchor}]

AuthorityInit ==
    /\ second = 1 /\ registered = FALSE
    /\ epochs = [g \in Agents |-> <<>>]
    /\ anchored = [r \in Anchorables |-> NoAnchor]

\* registerOrganization: the first caller becomes the controller.
Register ==
    /\ ~registered /\ registered' = TRUE
    /\ UNCHANGED <<second, epochs, anchored>>

\* The window may lie in the past or the future and overlap earlier ones.
AuthoriseAgent(g, c, from, until) ==
    /\ registered /\ from < until
    /\ Len(epochs[g]) < MaxEpochs
    /\ epochs' = [epochs EXCEPT ![g] = Append(@,
                    [commitment |-> c, validAfter |-> from, validUntil |-> until, revokedAt |-> 0])]
    /\ UNCHANGED <<second, registered, anchored>>

\* The latest epoch that is not revoked yet; earlier ones stay as they are.
RevokeLatestAgentEpoch(g) ==
    /\ registered
    /\ \E n \in DOMAIN epochs[g] :
          /\ epochs[g][n].revokedAt = 0
          /\ \A later \in DOMAIN epochs[g] : later > n => epochs[g][later].revokedAt # 0
          /\ epochs' = [epochs EXCEPT ![g][n].revokedAt = second]
    /\ UNCHANGED <<second, registered, anchored>>

Covers(e, c, at) ==
    /\ e.commitment = c
    /\ e.validAfter <= at /\ at < e.validUntil
    /\ e.revokedAt = 0 \/ at < e.revokedAt

IsAuthorisedAt(g, c, at) == \E n \in DOMAIN epochs[g] : Covers(epochs[g][n], c, at)

\* anchorAuthorisedReceipt
AnchorReceipt(g, c, r) ==
    /\ anchored[r] = NoAnchor
    /\ IsAuthorisedAt(g, c, second)
    /\ anchored' = [anchored EXCEPT ![r] = [issuer |-> g, commitment |-> c, at |-> second]]
    /\ UNCHANGED <<second, registered, epochs>>

NextSecond ==
    /\ second < LastSecond /\ second' = second + 1
    /\ UNCHANGED <<registered, epochs, anchored>>

AuthorityNext ==
    \/ Register \/ NextSecond
    \/ \E g \in Agents :
          \/ RevokeLatestAgentEpoch(g)
          \/ \E c \in Commitments :
                \/ \E from, until \in Second : AuthoriseAgent(g, c, from, until)
                \/ \E r \in Anchorables : AnchorReceipt(g, c, r)

AuthoritySpec == AuthorityInit /\ [][AuthorityNext]_authority

-----------------------------------------------------------------------------
\* Whoever asks the registry later about the time a receipt was anchored gets
\* the answer the anchor got, whatever was revoked or granted since.  Only a
\* revocation in that very second takes the answer back: the anchor came
\* before it in the block, and isAuthorisedAt counts the whole second out.
AnchorsStayAuthorised ==
    \A r \in Anchorables : anchored[r] # NoAnchor =>
        \E n \in DOMAIN epochs[anchored[r].issuer] :
            LET e == epochs[anchored[r].issuer][n]
            IN  Covers(e, anchored[r].commitment, anchored[r].at)
                \/ /\ e.revokedAt = anchored[r].at
                   /\ Covers([e EXCEPT !.revokedAt = 0], anchored[r].commitment, anchored[r].at)
=============================================================================
