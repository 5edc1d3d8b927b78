-------------------------- MODULE VerifierRegistry --------------------------
(***************************************************************************)
(* AVRProofVerifierRegistry.sol: versions of a proof verifier are proposed *)
(* by the owner, activated by anyone after a delay, retired by the owner   *)
(* or the guardian, and record each set of public values once.  A          *)
(* transaction is one step; a call that reverts changes nothing.           *)
(***************************************************************************)
EXTENDS Integers

CONSTANTS
    Accounts,   \* senders of transactions
    NoAccount,  \* address(0)
    Versions,   \* version ids
    Digests,    \* public values
    Delay,      \* minimumActivationDelay
    LastBlock   \* block.timestamp stops there (a bound)

ASSUME RegistryAssumption ==
    NoAccount \notin Accounts /\ Delay \in Nat \ {0} /\ LastBlock \in Nat \ {0}

VARIABLES
    blockTime,  \* block.timestamp
    office,     \* owner, pendingOwner, guardian and paused
    version,    \* [Versions -> the row of versions]
    verifiedAt  \* [Versions -> [Digests -> verificationTimes]]

registry == <<blockTime, office, version, verifiedAt>>

Time == 0..LastBlock
NoVersion == [activationTime |-> 0, activatedAt |-> 0, retiredAt |-> 0]

RegistryTypeOK ==
    /\ blockTime \in Time
    /\ office \in [owner: Accounts, pendingOwner: Accounts \cup {NoAccount},
                   guardian: Accounts, paused: BOOLEAN]
    /\ version \in [Versions -> [activationTime: 0..(LastBlock + Delay), activatedAt: Time, retiredAt: Time]]
    /\ verifiedAt \in [Versions -> [Digests -> Time]]

\* The constructor refuses one account in both roles.
RegistryInit ==
    /\ blockTime = 1
    /\ \E owner, guardian \in Accounts :
          /\ owner # guardian
          /\ office = [owner |-> owner, pendingOwner |-> NoAccount, guardian |-> guardian, paused |-> FALSE]
    /\ version = [v \in Versions |-> NoVersion]
    /\ verifiedAt = [v \in Versions |-> [d \in Digests |-> 0]]

OnlyGuardianOrOwner(sender) == sender \in {office.owner, office.guardian}

ProposeOwnership(sender, next) ==
    /\ sender = office.owner
    /\ office' = [office EXCEPT !.pendingOwner = next]
    /\ UNCHANGED <<blockTime, version, verifiedAt>>

AcceptOwnership(sender) ==
    /\ sender = office.pendingOwner
    /\ office' = [office EXCEPT !.owner = sender, !.pendingOwner = NoAccount]
    /\ UNCHANGED <<blockTime, version, verifiedAt>>

SetGuardian(sender, next) ==
    /\ sender = office.owner
    /\ office' = [office EXCEPT !.guardian = next]
    /\ UNCHANGED <<blockTime, version, verifiedAt>>

SetPaused(sender, paused) ==
    /\ IF paused THEN OnlyGuardianOrOwner(sender) ELSE sender = office.owner
    /\ office' = [office EXCEPT !.paused = paused]
    /\ UNCHANGED <<blockTime, version, verifiedAt>>

ProposeVerifier(sender, v) ==
    /\ sender = office.owner
    /\ version[v] = NoVersion
    /\ version' = [version EXCEPT ![v].activationTime = blockTime + Delay]
    /\ UNCHANGED <<blockTime, office, verifiedAt>>

\* Anyone may activate; whether the verifier has code by then is its deployer's.
ActivateVerifier(v) ==
    /\ version[v] # NoVersion
    /\ version[v].retiredAt = 0 /\ version[v].activatedAt = 0
    /\ blockTime >= version[v].activationTime
    /\ version' = [version EXCEPT ![v].activatedAt = blockTime]
    /\ UNCHANGED <<blockTime, office, verifiedAt>>

\* retireVerifier and emergencyRetireVerifier; a version that was never
\* activated can be retired too.
Retire(sender, v) ==
    /\ OnlyGuardianOrOwner(sender)
    /\ version[v] # NoVersion /\ version[v].retiredAt = 0
    /\ version' = [version EXCEPT ![v].retiredAt = blockTime]
    /\ UNCHANGED <<blockTime, office, verifiedAt>>

\* Seeded fault: an activated version stays in force when it is retired.
ForceOutlastsRetirement(v) == version[v].activatedAt # 0

InForce(v) == version[v].activatedAt # 0 /\ version[v].retiredAt = 0

\* The verifier accepts or rejects the proof; a rejected one reverts.
VerifyAndRecord(v, d) ==
    /\ ~office.paused
    /\ version[v] # NoVersion /\ InForce(v)
    /\ verifiedAt[v][d] = 0
    /\ verifiedAt' = [verifiedAt EXCEPT ![v][d] = blockTime]
    /\ UNCHANGED <<blockTime, office, version>>

MineLater ==
    /\ blockTime < LastBlock /\ blockTime' = blockTime + 1
    /\ UNCHANGED <<office, version, verifiedAt>>

RegistryNext ==
    \/ \E sender \in Accounts :
          \/ AcceptOwnership(sender)
          \/ \E next \in Accounts : ProposeOwnership(sender, next) \/ SetGuardian(sender, next)
          \/ \E paused \in BOOLEAN : SetPaused(sender, paused)
          \/ \E v \in Versions : ProposeVerifier(sender, v) \/ Retire(sender, v)
    \/ \E v \in Versions : ActivateVerifier(v) \/ \E d \in Digests : VerifyAndRecord(v, d)
    \/ MineLater

RegistrySpec == RegistryInit /\ [][RegistryNext]_registry

-----------------------------------------------------------------------------
\* A recorded verification was made while its version was in force: activated,
\* which it was not before its activation time, more than the delay after the
\* first block, and not retired in an earlier second, whoever held the offices
\* and however they changed hands.
VerifiedInForce ==
    \A v \in Versions, d \in Digests : verifiedAt[v][d] # 0 =>
        /\ Delay < version[v].activationTime
        /\ version[v].activatedAt \in version[v].activationTime..verifiedAt[v][d]
        /\ version[v].retiredAt # 0 => verifiedAt[v][d] <= version[v].retiredAt
=============================================================================
