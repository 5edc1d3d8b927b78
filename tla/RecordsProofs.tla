----------------------------- MODULE RecordsProofs -----------------------------
(* Proofs about what is recorded for later: VerifierRegistry, for any       *)
(* offices, versions and public values, HistoricalAuthority, for any        *)
(* agents, commitments and receipts, EventIndexer, for any contracts, ids   *)
(* and ranges, and BackupSets, for any number of sets, writes and files     *)
(* that go bad.                                                             *)
EXTENDS VerifierRegistry, HistoricalAuthority, EventIndexer, BackupSets,
        FiniteSetTheorems, SequenceTheorems, TLAPS

-----------------------------------------------------------------------------
(* The verifier registry. *)

VersionRow == [activationTime: 0..(LastBlock + Delay), activatedAt: Time, retiredAt: Time]

\* A version waits out its delay, and nothing is recorded ahead of time.
VersionOf(v) ==
    /\ version[v] # NoVersion => Delay < version[v].activationTime
    /\ version[v].activatedAt # 0 => version[v].activationTime <= version[v].activatedAt
    /\ version[v].activatedAt <= blockTime
    /\ version[v].retiredAt <= blockTime
    /\ \A d \in Digests : verifiedAt[v][d] <= blockTime

RegistryInv ==
    /\ RegistryTypeOK /\ blockTime # 0
    /\ \A v \in Versions : VersionOf(v)
    /\ VerifiedInForce

LEMMA RegistryBegins == RegistryInit => RegistryInv
  <1> SUFFICES ASSUME RegistryInit PROVE RegistryInv
    OBVIOUS
  <1>1. office \in [owner: Accounts, pendingOwner: Accounts \cup {NoAccount},
                    guardian: Accounts, paused: BOOLEAN]
    BY DEF RegistryInit
  <1>2. /\ blockTime \in Time /\ blockTime # 0
        /\ version \in [Versions -> VersionRow]
        /\ verifiedAt \in [Versions -> [Digests -> Time]]
    BY RegistryAssumption DEF RegistryInit, Time, NoVersion, VersionRow
  <1>3. /\ \A v \in Versions : version[v] = NoVersion
        /\ \A v \in Versions, d \in Digests : verifiedAt[v][d] = 0
        /\ blockTime = 1
    BY DEF RegistryInit
  <1>4. \A v \in Versions : VersionOf(v)
    BY <1>3 DEF VersionOf, NoVersion
  <1>5. VerifiedInForce
    BY <1>3 DEF VerifiedInForce
  <1> QED
    BY <1>1, <1>2, <1>4, <1>5 DEF RegistryInv, RegistryTypeOK, VersionRow

\* Steps that leave versions and records alone.
LEMMA OfficeStep ==
  ASSUME RegistryInv, UNCHANGED <<blockTime, version, verifiedAt>>,
         office' \in [owner: Accounts, pendingOwner: Accounts \cup {NoAccount},
                      guardian: Accounts, paused: BOOLEAN]
  PROVE  RegistryInv'
  BY DEF RegistryInv, RegistryTypeOK, VersionOf, VerifiedInForce

\* A row is filled in a place that was empty, with times that fit.
LEMMA VersionStep ==
  ASSUME RegistryInv, NEW v \in Versions, NEW row \in VersionRow,
         version' = [version EXCEPT ![v] = row],
         UNCHANGED <<blockTime, office, verifiedAt>>,
         Delay < row.activationTime,
         row.activatedAt # 0 => row.activationTime <= row.activatedAt,
         row.activatedAt <= blockTime, row.retiredAt <= blockTime,
         version[v].activatedAt # 0 => /\ row.activationTime = version[v].activationTime
                                       /\ row.activatedAt = version[v].activatedAt,
         row.retiredAt \in {version[v].retiredAt, blockTime}
  PROVE  RegistryInv'
  <1>1. version \in [Versions -> VersionRow] /\ version' \in [Versions -> VersionRow]
    BY DEF RegistryInv, RegistryTypeOK, VersionRow
  <1>2. version'[v] = row /\ \A w \in Versions \ {v} : version'[w] = version[w]
    BY <1>1
  <1>3. RegistryTypeOK'
    BY <1>1 DEF RegistryInv, RegistryTypeOK, VersionRow
  <1>4. ASSUME NEW w \in Versions PROVE VersionOf(w)'
    BY <1>2 DEF RegistryInv, VersionOf
  <1>5. VerifiedInForce'
    <2> SUFFICES ASSUME NEW w \in Versions, NEW d \in Digests, verifiedAt[w][d] # 0
                 PROVE  /\ Delay < version'[w].activationTime
                        /\ version'[w].activatedAt
                              \in version'[w].activationTime..verifiedAt[w][d]
                        /\ version'[w].retiredAt # 0
                              => verifiedAt[w][d] <= version'[w].retiredAt
      BY DEF VerifiedInForce
    <2>1. /\ Delay < version[w].activationTime
          /\ version[w].activatedAt \in version[w].activationTime..verifiedAt[w][d]
          /\ version[w].retiredAt # 0 => verifiedAt[w][d] <= version[w].retiredAt
      BY DEF RegistryInv, VerifiedInForce
    <2>2. CASE w # v
      BY <1>2, <2>1, <2>2
    <2>3. CASE w = v
      <3>1. version[v].activatedAt # 0
        <4>1. version[v] \in VersionRow /\ Delay \in Nat
          BY <1>1, RegistryAssumption
        <4> QED
          BY <2>1, <2>3, <4>1 DEF VersionRow, Time
      <3>2. verifiedAt[v][d] <= blockTime
        BY DEF RegistryInv, VersionOf
      <3> QED
        BY <1>2, <2>1, <2>3, <3>1, <3>2
    <2> QED
      BY <2>2, <2>3
  <1> QED
    BY <1>3, <1>4, <1>5 DEF RegistryInv

LEMMA RegistryStep == RegistryInv /\ [RegistryNext]_registry => RegistryInv'
  <1> SUFFICES ASSUME RegistryInv, [RegistryNext]_registry PROVE RegistryInv'
    OBVIOUS
  <1>o. /\ office \in [owner: Accounts, pendingOwner: Accounts \cup {NoAccount},
                       guardian: Accounts, paused: BOOLEAN]
        /\ version \in [Versions -> VersionRow]
    BY DEF RegistryInv, RegistryTypeOK, VersionRow
  <1>n. Delay \in Nat \ {0} /\ LastBlock \in Nat /\ blockTime \in 1..LastBlock
    BY RegistryAssumption DEF RegistryInv, RegistryTypeOK, Time
  <1>1. ASSUME NEW s \in Accounts,
               \/ AcceptOwnership(s)
               \/ \E next \in Accounts : ProposeOwnership(s, next) \/ SetGuardian(s, next)
               \/ \E paused \in BOOLEAN : SetPaused(s, paused)
        PROVE  RegistryInv'
    <2>1. office' \in [owner: Accounts, pendingOwner: Accounts \cup {NoAccount},
                       guardian: Accounts, paused: BOOLEAN]
      BY <1>1, <1>o DEF AcceptOwnership, ProposeOwnership, SetGuardian, SetPaused
    <2>2. UNCHANGED <<blockTime, version, verifiedAt>>
      BY <1>1 DEF AcceptOwnership, ProposeOwnership, SetGuardian, SetPaused
    <2> QED
      BY <2>1, <2>2, OfficeStep
  <1>2. ASSUME NEW s \in Accounts, NEW v \in Versions, ProposeVerifier(s, v)
        PROVE  RegistryInv'
    <2> DEFINE row == [activationTime |-> blockTime + Delay, activatedAt |-> 0, retiredAt |-> 0]
    <2>1. row \in VersionRow
      BY <1>n DEF VersionRow, Time
    <2>2. version[v] = NoVersion /\ version' = [version EXCEPT ![v] = row]
          /\ UNCHANGED <<blockTime, office, verifiedAt>>
      <3>1. [version[v] EXCEPT !.activationTime = blockTime + Delay] = row
        BY <1>2 DEF ProposeVerifier, NoVersion
      <3> HIDE DEF row
      <3> QED
        BY <1>2, <3>1 DEF ProposeVerifier
    <2>3. Delay < row.activationTime /\ row.activatedAt = 0 /\ row.retiredAt = 0
      BY <1>n
    <2>4. version[v].activatedAt = 0 /\ version[v].retiredAt = 0
      BY <2>2 DEF NoVersion
    <2> HIDE DEF row
    <2>8. /\ row.activatedAt # 0 => row.activationTime <= row.activatedAt
          /\ row.activatedAt <= blockTime /\ row.retiredAt <= blockTime
          /\ version[v].activatedAt # 0 => /\ row.activationTime = version[v].activationTime
                                           /\ row.activatedAt = version[v].activatedAt
          /\ row.retiredAt \in {version[v].retiredAt, blockTime}
      BY <1>n, <2>1, <2>2, <2>3, <2>4
    <2> QED
      BY <2>1, <2>2, <2>3, <2>8, VersionStep
  <1>3. ASSUME NEW v \in Versions, ActivateVerifier(v)
        PROVE  RegistryInv'
    <2> DEFINE row == [activationTime |-> version[v].activationTime,
                       activatedAt |-> blockTime, retiredAt |-> version[v].retiredAt]
    <2>1. row \in VersionRow
      BY <1>n, <1>o DEF VersionRow, Time
    <2>2. /\ version[v] # NoVersion /\ version[v].retiredAt = 0 /\ version[v].activatedAt = 0
          /\ blockTime >= version[v].activationTime
          /\ version' = [version EXCEPT ![v] = row]
          /\ UNCHANGED <<blockTime, office, verifiedAt>>
      <3>1. [version[v] EXCEPT !.activatedAt = blockTime] = row
        BY <1>o DEF VersionRow
      <3> HIDE DEF row
      <3> QED
        BY <1>3, <3>1 DEF ActivateVerifier
    <2>3. /\ Delay < row.activationTime /\ row.activationTime <= row.activatedAt
          /\ row.activatedAt = blockTime /\ row.retiredAt = 0
      BY <1>n, <1>o, <2>2 DEF RegistryInv, VersionOf, VersionRow
    <2> HIDE DEF row
    <2>8. /\ row.activatedAt # 0 => row.activationTime <= row.activatedAt
          /\ row.activatedAt <= blockTime /\ row.retiredAt <= blockTime
          /\ version[v].activatedAt # 0 => /\ row.activationTime = version[v].activationTime
                                           /\ row.activatedAt = version[v].activatedAt
          /\ row.retiredAt \in {version[v].retiredAt, blockTime}
      BY <1>n, <2>1, <2>2, <2>3
    <2> QED
      BY <2>1, <2>2, <2>3, <2>8, VersionStep
  <1>4. ASSUME NEW s \in Accounts, NEW v \in Versions, Retire(s, v)
        PROVE  RegistryInv'
    <2> DEFINE row == [activationTime |-> version[v].activationTime,
                       activatedAt |-> version[v].activatedAt, retiredAt |-> blockTime]
    <2>1. row \in VersionRow
      BY <1>n, <1>o DEF VersionRow, Time
    <2>2. /\ version[v] # NoVersion
          /\ version' = [version EXCEPT ![v] = row]
          /\ UNCHANGED <<blockTime, office, verifiedAt>>
      <3>1. [version[v] EXCEPT !.retiredAt = blockTime] = row
        BY <1>o DEF VersionRow
      <3> HIDE DEF row
      <3> QED
        BY <1>4, <3>1 DEF Retire
    <2>3. /\ Delay < row.activationTime
          /\ row.activatedAt # 0 => row.activationTime <= row.activatedAt
          /\ row.activatedAt <= blockTime
      BY <2>2 DEF RegistryInv, VersionOf
    <2>4. row.retiredAt = blockTime /\ row.activatedAt = version[v].activatedAt
          /\ row.activationTime = version[v].activationTime
      OBVIOUS
    <2> HIDE DEF row
    <2>8. /\ row.activatedAt # 0 => row.activationTime <= row.activatedAt
          /\ row.activatedAt <= blockTime /\ row.retiredAt <= blockTime
          /\ version[v].activatedAt # 0 => /\ row.activationTime = version[v].activationTime
                                           /\ row.activatedAt = version[v].activatedAt
          /\ row.retiredAt \in {version[v].retiredAt, blockTime}
      BY <1>n, <2>1, <2>2, <2>3, <2>4
    <2> QED
      BY <2>1, <2>2, <2>3, <2>8, VersionStep
  <1>5. ASSUME NEW v \in Versions, NEW d \in Digests, VerifyAndRecord(v, d)
        PROVE  RegistryInv'
    <2>1. /\ version[v] # NoVersion /\ version[v].activatedAt # 0 /\ version[v].retiredAt = 0
          /\ verifiedAt' = [verifiedAt EXCEPT ![v][d] = blockTime]
          /\ UNCHANGED <<blockTime, office, version>>
      BY <1>5 DEF VerifyAndRecord, InForce
    <2>2. verifiedAt \in [Versions -> [Digests -> Time]] /\ blockTime \in Time
      BY DEF RegistryInv, RegistryTypeOK
    <2>3. verifiedAt' \in [Versions -> [Digests -> Time]]
      BY <2>1, <2>2
    <2>4. /\ verifiedAt'[v][d] = blockTime
          /\ \A w \in Versions, c \in Digests :
                ~(w = v /\ c = d) => verifiedAt'[w][c] = verifiedAt[w][c]
      BY <2>1, <2>2
    <2>5. RegistryTypeOK'
      BY <2>1, <2>3 DEF RegistryInv, RegistryTypeOK
    <2>6. ASSUME NEW w \in Versions PROVE VersionOf(w)'
      <3>1. \A c \in Digests : verifiedAt'[w][c] <= blockTime
        BY <1>n, <2>4 DEF RegistryInv, VersionOf
      <3> QED
        BY <2>1, <3>1 DEF RegistryInv, VersionOf
    <2>7. ASSUME NEW w \in Versions, NEW c \in Digests, verifiedAt'[w][c] # 0
          PROVE  /\ Delay < version[w].activationTime
                 /\ version[w].activatedAt \in version[w].activationTime..verifiedAt'[w][c]
                 /\ version[w].retiredAt # 0 => verifiedAt'[w][c] <= version[w].retiredAt
      <3>1. CASE w = v /\ c = d
        <4>1. version[v] \in VersionRow
          BY <1>o
        <4> QED
          BY <1>n, <2>1, <2>4, <3>1, <4>1 DEF RegistryInv, VersionOf, VersionRow, Time
      <3>2. CASE ~(w = v /\ c = d)
        BY <2>4, <2>7, <3>2 DEF RegistryInv, VerifiedInForce
      <3> QED
        BY <3>1, <3>2
    <2>8. VerifiedInForce'
      BY <2>1, <2>7 DEF VerifiedInForce
    <2> QED
      BY <2>1, <2>5, <2>6, <2>8 DEF RegistryInv
  <1>6. CASE MineLater
    <2>1. /\ blockTime' \in Time /\ blockTime' # 0 /\ blockTime <= blockTime'
          /\ UNCHANGED <<office, version, verifiedAt>>
      BY <1>6, <1>n DEF MineLater, Time
    <2>2. RegistryTypeOK'
      BY <2>1 DEF RegistryInv, RegistryTypeOK
    <2>3. ASSUME NEW w \in Versions PROVE VersionOf(w)'
      <3>1. /\ version[w] \in VersionRow /\ \A c \in Digests : verifiedAt[w][c] \in Time
            /\ blockTime' \in Int /\ blockTime \in Int
        BY <1>o, <1>n, <2>1 DEF RegistryInv, RegistryTypeOK, Time
      <3>2. \A n \in Time : n <= blockTime => n <= blockTime'
        BY <2>1, <3>1 DEF Time
      <3> QED
        BY <2>1, <3>1, <3>2 DEF RegistryInv, VersionOf, VersionRow
    <2>4. VerifiedInForce'
      BY <2>1 DEF RegistryInv, VerifiedInForce
    <2> QED
      BY <2>1, <2>2, <2>3, <2>4 DEF RegistryInv
  <1>7. CASE UNCHANGED registry
    BY <1>7 DEF registry, RegistryInv, RegistryTypeOK, VersionOf, VerifiedInForce
  <1> QED
    BY <1>1, <1>2, <1>3, <1>4, <1>5, <1>6, <1>7 DEF RegistryNext

LEMMA RegistryInvariant == RegistrySpec => []RegistryInv
  BY RegistryBegins, RegistryStep, PTL DEF RegistrySpec

\* A verification is recorded only while its version is in force: after the
\* delay that follows its proposal and not after its retirement, whoever held
\* the offices.
THEOREM VerifiedWhileInForce == RegistrySpec => []VerifiedInForce
  <1>1. RegistryInv => VerifiedInForce
    BY DEF RegistryInv
  <1> QED
    BY <1>1, RegistryInvariant, PTL

-----------------------------------------------------------------------------
(* The historical authority of an agent. *)

\* The answer that an anchor needs, whether or not the epoch was revoked in
\* the very second of the anchor.
Vouches(e, c, at) ==
    \/ Covers(e, c, at)
    \/ e.revokedAt = at /\ Covers([e EXCEPT !.revokedAt = 0], c, at)

AuthorityInv ==
    /\ AuthorityTypeOK
    /\ \A g \in Agents : \A n \in DOMAIN epochs[g] : epochs[g][n].revokedAt <= second
    /\ \A r \in Anchorables : anchored[r].at <= second
    /\ AnchorsStayAuthorised

LEMMA AuthorityBegins == AuthorityInit => AuthorityInv
  <1> SUFFICES ASSUME AuthorityInit PROVE AuthorityInv
    OBVIOUS
  <1>1. /\ second = 1 /\ registered = FALSE
        /\ \A g \in Agents : epochs[g] = <<>>
        /\ \A r \in Anchorables : anchored[r] = NoAnchor
    BY DEF AuthorityInit
  <1>2. AuthorityTypeOK
    <2>1. <<>> \in Seq(Epoch)
      OBVIOUS
    <2>2. epochs \in [Agents -> Seq(Epoch)]
      BY <2>1 DEF AuthorityInit
    <2>3. anchored \in [Anchorables -> AnchorOf \cup {NoAnchor}]
      BY DEF AuthorityInit
    <2>4. second \in 1..LastSecond
      BY <1>1, AuthorityAssumption
    <2>5. registered \in BOOLEAN
      BY DEF AuthorityInit
    <2> QED
      BY <2>2, <2>3, <2>4, <2>5, Zenon DEF AuthorityTypeOK
  <1>3. \A r \in Anchorables : anchored[r].at <= second
    BY <1>1 DEF NoAnchor
  <1> QED
    BY <1>1, <1>2, <1>3 DEF AuthorityInv, AnchorsStayAuthorised

\* What is said of an epoch depends on its fields alone.
LEMMA VouchesFields ==
  ASSUME NEW e \in Epoch, NEW c, NEW at
  PROVE  Vouches(e, c, at) <=>
           /\ e.commitment = c /\ e.validAfter <= at /\ at < e.validUntil
           /\ e.revokedAt = 0 \/ at < e.revokedAt \/ e.revokedAt = at
  <1>1. [e EXCEPT !.revokedAt = 0] = [commitment |-> e.commitment, validAfter |-> e.validAfter,
                                      validUntil |-> e.validUntil, revokedAt |-> 0]
    BY DEF Epoch
  <1>2. Covers([e EXCEPT !.revokedAt = 0], c, at) <=>
           e.commitment = c /\ e.validAfter <= at /\ at < e.validUntil
    BY <1>1 DEF Covers
  <1> QED
    BY <1>2 DEF Vouches, Covers

\* The property in those terms.
LEMMA StayAuthorised ==
  AnchorsStayAuthorised <=>
    \A r \in Anchorables : anchored[r] # NoAnchor =>
        \E n \in DOMAIN epochs[anchored[r].issuer] :
            Vouches(epochs[anchored[r].issuer][n], anchored[r].commitment, anchored[r].at)
  BY DEF AnchorsStayAuthorised, Vouches

\* Anchors stay, and each epoch either stays or is revoked now.
LEMMA EpochsStep ==
  ASSUME AuthorityInv, AuthorityTypeOK', UNCHANGED anchored, second <= second',
         \A g \in Agents : \A n \in DOMAIN epochs[g] :
            /\ n \in DOMAIN epochs'[g]
            /\ \/ epochs'[g][n] = epochs[g][n]
               \/ /\ epochs[g][n].revokedAt = 0
                  /\ epochs'[g][n] = [commitment |-> epochs[g][n].commitment,
                                      validAfter |-> epochs[g][n].validAfter,
                                      validUntil |-> epochs[g][n].validUntil,
                                      revokedAt |-> second]
  PROVE  AnchorsStayAuthorised'
  <1> SUFFICES ASSUME NEW r \in Anchorables, anchored[r] # NoAnchor
               PROVE  \E n \in DOMAIN epochs'[anchored[r].issuer] :
                         Vouches(epochs'[anchored[r].issuer][n],
                                 anchored[r].commitment, anchored[r].at)
    BY DEF AnchorsStayAuthorised, Vouches
  <1>1. PICK g \in Agents, c \in Commitments, at \in 1..LastSecond :
           anchored[r].issuer = g /\ anchored[r].commitment = c /\ anchored[r].at = at
    BY DEF AuthorityInv, AuthorityTypeOK, AnchorOf
  <1>2. PICK n \in DOMAIN epochs[g] : Vouches(epochs[g][n], c, at)
    BY <1>1, StayAuthorised DEF AuthorityInv
  <1>3. at <= second /\ second \in 1..LastSecond
    BY <1>1 DEF AuthorityInv, AuthorityTypeOK
  <1>4. epochs[g][n] \in Epoch /\ n \in DOMAIN epochs'[g] /\ epochs'[g][n] \in Epoch
    <2>1. epochs[g] \in Seq(Epoch) /\ epochs'[g] \in Seq(Epoch)
      BY DEF AuthorityInv, AuthorityTypeOK
    <2>2. n \in DOMAIN epochs'[g]
      OBVIOUS
    <2> QED
      BY <2>1, <2>2
  <1>5. Vouches(epochs'[g][n], c, at)
    <2>1. CASE epochs'[g][n] = epochs[g][n]
      BY <1>2, <2>1
    <2>2. CASE /\ epochs[g][n].revokedAt = 0
               /\ epochs'[g][n] = [commitment |-> epochs[g][n].commitment,
                                   validAfter |-> epochs[g][n].validAfter,
                                   validUntil |-> epochs[g][n].validUntil,
                                   revokedAt |-> second]
      <3>1. /\ epochs[g][n].commitment = c /\ epochs[g][n].validAfter <= at
            /\ at < epochs[g][n].validUntil
        BY <1>2, <1>4, VouchesFields
      <3>2. /\ epochs'[g][n].commitment = c /\ epochs'[g][n].validAfter <= at
            /\ at < epochs'[g][n].validUntil /\ epochs'[g][n].revokedAt = second
        BY <2>2, <3>1
      <3>3. at < second \/ second = at
        BY <1>3
      <3> QED
        BY <1>4, <3>2, <3>3, VouchesFields
    <2> QED
      BY <2>1, <2>2
  <1> QED
    BY <1>1, <1>4, <1>5

LEMMA AuthorityStep == AuthorityInv /\ [AuthorityNext]_authority => AuthorityInv'
  <1> SUFFICES ASSUME AuthorityInv, [AuthorityNext]_authority PROVE AuthorityInv'
    OBVIOUS
  <1>t. /\ second \in 1..LastSecond /\ epochs \in [Agents -> Seq(Epoch)]
        /\ LastSecond \in Nat
        /\ anchored \in [Anchorables -> AnchorOf \cup {NoAnchor}]
    BY AuthorityAssumption DEF AuthorityInv, AuthorityTypeOK
  <1>1. CASE Register \/ UNCHANGED authority
    <2>1. UNCHANGED <<second, epochs, anchored>> /\ registered' \in BOOLEAN
      BY <1>1 DEF Register, authority, AuthorityInv, AuthorityTypeOK
    <2> QED
      BY <2>1 DEF AuthorityInv, AuthorityTypeOK, AnchorsStayAuthorised
  <1>2. CASE NextSecond
    <2>1. /\ second' \in 1..LastSecond /\ second' = second + 1
          /\ UNCHANGED <<registered, epochs, anchored>>
      BY <1>2, <1>t DEF NextSecond
    <2>2. \A g \in Agents : \A n \in DOMAIN epochs[g] : epochs[g][n].revokedAt <= second'
      <3>1. \A g \in Agents : \A n \in DOMAIN epochs[g] : epochs[g][n].revokedAt \in Nat
        <4>1. ASSUME NEW g \in Agents, NEW n \in DOMAIN epochs[g]
              PROVE  epochs[g][n] \in Epoch
          <5>1. epochs[g] \in Seq(Epoch)
            BY <1>t
          <5> QED
            BY <5>1
        <4> QED
          BY <1>t, <4>1 DEF Epoch, Second
      <3> QED
        BY <1>t, <2>1, <3>1 DEF AuthorityInv
    <2>3. \A r \in Anchorables : anchored[r].at <= second'
      <3>1. \A r \in Anchorables : anchored[r].at \in Nat
        BY <1>t DEF AnchorOf, NoAnchor
      <3> QED
        BY <1>t, <2>1, <3>1 DEF AuthorityInv
    <2> QED
      BY <2>1, <2>2, <2>3 DEF AuthorityInv, AuthorityTypeOK, AnchorsStayAuthorised
  <1>3. ASSUME NEW g \in Agents, RevokeLatestAgentEpoch(g) PROVE AuthorityInv'
    <2>1. PICK n \in DOMAIN epochs[g] :
             /\ epochs[g][n].revokedAt = 0
             /\ epochs' = [epochs EXCEPT ![g][n].revokedAt = second]
      BY <1>3 DEF RevokeLatestAgentEpoch
    <2> DEFINE e == [commitment |-> epochs[g][n].commitment,
                     validAfter |-> epochs[g][n].validAfter,
                     validUntil |-> epochs[g][n].validUntil, revokedAt |-> second]
    <2>2. UNCHANGED <<second, registered, anchored>>
      BY <1>3 DEF RevokeLatestAgentEpoch
    <2>3. epochs[g] \in Seq(Epoch) /\ epochs[g][n] \in Epoch
      BY <1>t
    <2>4. [epochs[g][n] EXCEPT !.revokedAt = second] = e /\ e \in Epoch
      <3>1. [epochs[g][n] EXCEPT !.revokedAt = second] = e
        BY <2>3 DEF Epoch
      <3>2. second \in Second
        BY <1>t DEF Second
      <3> QED
        BY <2>3, <3>1, <3>2 DEF Epoch
    <2>5. e.revokedAt = second
      OBVIOUS
    <2>6. epochs' = [epochs EXCEPT ![g] = [epochs[g] EXCEPT ![n] = e]]
      BY <2>1, <2>4
    <2> HIDE DEF e
    <2>7. [epochs[g] EXCEPT ![n] = e] \in Seq(Epoch)
      BY <2>3, <2>4
    <2>8. /\ epochs' \in [Agents -> Seq(Epoch)]
          /\ \A h \in Agents \ {g} : epochs'[h] = epochs[h]
          /\ DOMAIN epochs'[g] = DOMAIN epochs[g] /\ epochs'[g][n] = e
          /\ \A k \in DOMAIN epochs[g] \ {n} : epochs'[g][k] = epochs[g][k]
      BY <1>t, <2>6, <2>7
    <2>9. AuthorityTypeOK'
      BY <2>2, <2>8 DEF AuthorityInv, AuthorityTypeOK
    <2>10. \A h \in Agents : \A k \in DOMAIN epochs'[h] : epochs'[h][k].revokedAt <= second
      <3>1. ASSUME NEW h \in Agents, NEW k \in DOMAIN epochs'[h]
            PROVE  epochs'[h][k].revokedAt <= second
        <4>1. CASE h = g /\ k = n
          BY <1>t, <2>5, <2>8, <4>1
        <4>2. CASE ~(h = g /\ k = n)
          BY <2>8, <3>1, <4>2 DEF AuthorityInv
        <4> QED
          BY <4>1, <4>2
      <3> QED
        BY <3>1
    <2>11. AnchorsStayAuthorised'
      <3>1. ASSUME NEW h \in Agents, NEW k \in DOMAIN epochs[h]
            PROVE  /\ k \in DOMAIN epochs'[h]
                   /\ \/ epochs'[h][k] = epochs[h][k]
                      \/ epochs[h][k].revokedAt = 0 /\ h = g /\ k = n /\ epochs'[h][k] = e
        BY <2>1, <2>8
      <3>2. second' = second /\ second <= second' /\ UNCHANGED anchored
        BY <1>t, <2>2
      <3> QED
        BY <2>9, <3>1, <3>2, EpochsStep DEF e
    <2> QED
      BY <2>2, <2>9, <2>10, <2>11 DEF AuthorityInv
  <1>4. ASSUME NEW g \in Agents, NEW c \in Commitments, NEW from \in Second, NEW until \in Second,
               AuthoriseAgent(g, c, from, until)
        PROVE  AuthorityInv'
    <2> DEFINE e == [commitment |-> c, validAfter |-> from, validUntil |-> until, revokedAt |-> 0]
    <2>1. /\ epochs' = [epochs EXCEPT ![g] = Append(epochs[g], e)]
          /\ UNCHANGED <<second, registered, anchored>>
      BY <1>4 DEF AuthoriseAgent
    <2>2. e \in Epoch /\ e.revokedAt = 0
      BY <1>t DEF Epoch, Second
    <2> HIDE DEF e
    <2>3. /\ epochs[g] \in Seq(Epoch) /\ Append(epochs[g], e) \in Seq(Epoch)
      BY <1>t, <2>2
    <2>4. /\ DOMAIN Append(epochs[g], e) = 1..(Len(epochs[g]) + 1)
          /\ DOMAIN epochs[g] = 1..Len(epochs[g]) /\ Len(epochs[g]) \in Nat
          /\ Append(epochs[g], e)[Len(epochs[g]) + 1] = e
          /\ \A n \in DOMAIN epochs[g] : Append(epochs[g], e)[n] = epochs[g][n]
      BY <2>3
    <2>5. /\ epochs' \in [Agents -> Seq(Epoch)]
          /\ \A h \in Agents \ {g} : epochs'[h] = epochs[h]
          /\ epochs'[g] = Append(epochs[g], e)
      BY <1>t, <2>1, <2>3
    <2>6. AuthorityTypeOK'
      BY <2>1, <2>5 DEF AuthorityInv, AuthorityTypeOK
    <2>7. ASSUME NEW h \in Agents, NEW k \in DOMAIN epochs'[h]
          PROVE  epochs'[h][k].revokedAt <= second
      <3>1. CASE h # g
        BY <2>5, <2>7, <3>1 DEF AuthorityInv
      <3>2. CASE h = g /\ k \in DOMAIN epochs[g]
        BY <2>4, <2>5, <3>2 DEF AuthorityInv
      <3>3. CASE h = g /\ k = Len(epochs[g]) + 1
        BY <1>t, <2>2, <2>4, <2>5, <3>3
      <3> QED
        BY <2>4, <2>5, <2>7, <3>1, <3>2, <3>3
    <2>8. \A h \in Agents : \A n \in DOMAIN epochs[h] :
             n \in DOMAIN epochs'[h] /\ epochs'[h][n] = epochs[h][n]
      BY <2>4, <2>5
    <2>9. AnchorsStayAuthorised'
      BY <1>t, <2>1, <2>6, <2>8, EpochsStep
    <2> QED
      BY <2>1, <2>6, <2>7, <2>9 DEF AuthorityInv
  <1>5. ASSUME NEW g \in Agents, NEW c \in Commitments, NEW r \in Anchorables, AnchorReceipt(g, c, r)
        PROVE  AuthorityInv'
    <2> DEFINE a == [issuer |-> g, commitment |-> c, at |-> second]
    <2>1. /\ anchored' = [anchored EXCEPT ![r] = a] /\ IsAuthorisedAt(g, c, second)
          /\ UNCHANGED <<second, registered, epochs>>
      BY <1>5 DEF AnchorReceipt
    <2>2. a \in AnchorOf /\ a.issuer = g /\ a.commitment = c /\ a.at = second
      BY <1>t DEF AnchorOf
    <2> HIDE DEF a
    <2>3. /\ anchored' \in [Anchorables -> AnchorOf \cup {NoAnchor}]
          /\ anchored'[r] = a
          /\ \A q \in Anchorables \ {r} : anchored'[q] = anchored[q]
      BY <1>t, <2>1, <2>2
    <2>4. AuthorityTypeOK'
      BY <2>1, <2>3 DEF AuthorityInv, AuthorityTypeOK
    <2>5. \A q \in Anchorables : anchored'[q].at <= second
      BY <1>t, <2>2, <2>3 DEF AuthorityInv
    <2>6. PICK n \in DOMAIN epochs[g] : Covers(epochs[g][n], c, second)
      BY <2>1 DEF IsAuthorisedAt
    <2>7. AnchorsStayAuthorised'
      BY <2>1, <2>2, <2>3, <2>6 DEF AuthorityInv, AnchorsStayAuthorised
    <2> QED
      BY <2>1, <2>4, <2>5, <2>7 DEF AuthorityInv
  <1> QED
    BY <1>1, <1>2, <1>3, <1>4, <1>5 DEF AuthorityNext

LEMMA AuthorityInvariant == AuthoritySpec => []AuthorityInv
  BY AuthorityBegins, AuthorityStep, PTL DEF AuthoritySpec

\* Whoever asks the registry later about the time a receipt was anchored gets
\* the answer the anchor got, whatever was granted or revoked since, but for a
\* revocation in that very second.
THEOREM AuthorityOutlasts == AuthoritySpec => []AnchorsStayAuthorised
  <1>1. AuthorityInv => AnchorsStayAuthorised
    BY DEF AuthorityInv
  <1> QED
    BY <1>1, AuthorityInvariant, PTL

-----------------------------------------------------------------------------
(* The event indexer. *)

\* What the sync under way has found canonical is not undone (the finding about
\* Undercut shows what happens else).
StaysSettled == ~Undercut

BlockType == [hash: 1..MaxSerial, events: SUBSET Event]
LogType == [block: 1..MaxHeight, hash: 1..MaxSerial, id: Anchored]
EntryType == [block: 0..MaxHeight, hash: 0..MaxSerial, contract: 0..Contracts, manifest: BOOLEAN]
SyncType == [at: {"idle", "check", "latest", "range", "logs", "events"},
             index: IndexType, latest: 0..MaxHeight, to: 0..MaxHeight, end: 0..MaxSerial,
             contract: 0..(Contracts + 1), logs: SUBSET LogType]

IndexerTypes ==
    /\ chain \in Seq(BlockType) /\ Len(chain) <= MaxHeight
    /\ serial \in 0..MaxSerial
    /\ \A n \in DOMAIN chain : chain[n].hash <= serial
    /\ file \in IndexType /\ sync \in SyncType

\* Entries are events of the blocks up to n.
UpTo(entries, n) ==
    \A a \in Anchored : entries[a] # NoEntry =>
        entries[a].block \in 1..n /\ Canonical(a, entries[a])

Follows(index) ==
    /\ UpTo(index.entries, index.next - 1)
    /\ \A e \in EventsUpTo(index.next - 1) : Indexed(index, e[2])

\* The checkpoint is the hash of a block that was made, if there is one, and an
\* index whose checkpoint stands says what the chain says.
Stamped(index) ==
    /\ index.next = 1 => \A a \in Anchored : index.entries[a] = NoEntry
    /\ index.next # 1 => index.hash \in 1..serial
IndexOK(index) == Stamped(index) /\ (StillCanonical(index) => Follows(index))

\* What a scan has of a range, while the blocks of the range stand.
Scanned(s) ==
    /\ UpTo(s.index.entries, s.to)
    /\ \A e \in EventsUpTo(s.index.next - 1) : Indexed(s.index, e[2])
    /\ \A n \in s.index.next..s.to : \A e \in chain[n].events :
          /\ e[1] < s.contract => Indexed(s.index, e[2])
          /\ s.at = "events" /\ e[1] = s.contract =>
                Indexed(s.index, e[2]) \/ Log(n, e[2]) \in s.logs
    /\ s.at = "events" => \A log \in s.logs :
          /\ log.block \in s.index.next..s.to
          /\ chain[log.block].hash = log.hash
          /\ <<s.contract, log.id>> \in chain[log.block].events
ScanOK(s) ==
    /\ s.index.next <= s.to /\ s.end \in 1..serial
    /\ s.at = "events" => s.contract <= Contracts
    /\ s.index.next # 1 => s.index.hash \in 1..serial
    /\ Hash(s.to) = s.end => Scanned(s)

SyncInv ==
    /\ sync.at \in {"check", "latest", "range"} => IndexOK(sync.index)
    /\ sync.at \in {"latest", "range", "logs", "events"} => StillCanonical(sync.index)
    /\ sync.at \in {"logs", "events"} => ScanOK(sync)

IndexerInv == IndexerTypes /\ IndexOK(file) /\ SyncInv

LEMMA NewIndex ==
  NewState \in IndexType /\ NoSync \in SyncType /\ IndexOK(NewState) /\ StillCanonical(NewState)
  <1>1. NoEntry \in EntryType
    BY IndexerAssumption DEF NoEntry, EntryType, NoHash
  <1>2. /\ NewState.next = 1 /\ NewState.hash = 0
        /\ NewState.entries \in [Anchored -> EntryType]
        /\ \A a \in Anchored : NewState.entries[a] = NoEntry
    BY <1>1 DEF NewState, NoHash
  <1>3. NewState \in IndexType
    BY <1>1, IndexerAssumption DEF NewState, IndexType, NoHash, EntryType
  <1>4. NoSync \in SyncType
    BY <1>3, IndexerAssumption DEF NoSync, SyncType, NoHash
  <1>5. EventsUpTo(0) = {}
    BY DEF EventsUpTo
  <1>6. IndexOK(NewState) /\ StillCanonical(NewState)
    BY <1>2, <1>5 DEF IndexOK, Stamped, StillCanonical, Follows, UpTo
  <1> QED
    BY <1>3, <1>4, <1>6

LEMMA IndexerBegins == IndexerInit => IndexerInv
  <1> SUFFICES ASSUME IndexerInit PROVE IndexerInv
    OBVIOUS
  <1>1. chain = <<>> /\ chain \in Seq(BlockType) /\ Len(chain) = 0
    BY DEF IndexerInit
  <1>2. serial \in 0..MaxSerial /\ 0 <= MaxHeight
    BY IndexerAssumption DEF IndexerInit
  <1>3. IndexerTypes
    BY <1>1, <1>2, NewIndex DEF IndexerInit, IndexerTypes
  <1>4. sync.at = "idle"
    BY DEF IndexerInit, NoSync
  <1> QED
    BY <1>3, <1>4, NewIndex DEF IndexerInv, SyncInv, IndexerInit

-----------------------------------------------------------------------------
(* A new block, and what it leaves alone. *)

\* The blocks up to block k stay, and one follows them.
NewBlock(k) ==
    /\ k \in 0..Len(chain)
    /\ DOMAIN chain' = 1..(k + 1)
    /\ \A m \in 1..k : chain'[m] = chain[m]
    /\ chain'[k + 1].hash = serial + 1
    /\ serial' = serial + 1
    /\ UNCHANGED <<file, sync>>

LEMMA ChainGrows ==
  ASSUME IndexerInv, NEW events \in SUBSET Event,
         NEW k \in 0..Len(chain), k < MaxHeight, serial < MaxSerial,
         chain' = Append(SubSeq(chain, 1, k), [hash |-> serial + 1, events |-> events]),
         serial' = serial + 1, UNCHANGED <<file, sync>>
  PROVE  NewBlock(k) /\ IndexerTypes'
  <1> DEFINE b == [hash |-> serial + 1, events |-> events]
  <1>1. /\ chain \in Seq(BlockType) /\ Len(chain) \in Nat /\ serial \in 0..MaxSerial
        /\ \A n \in DOMAIN chain : chain[n].hash <= serial
        /\ MaxSerial \in Nat /\ MaxHeight \in Nat
    BY IndexerAssumption DEF IndexerInv, IndexerTypes
  <1>2. b \in BlockType /\ b.hash = serial + 1
    BY <1>1 DEF BlockType
  <1> HIDE DEF b
  <1>3. /\ SubSeq(chain, 1, k) \in Seq(BlockType) /\ Len(SubSeq(chain, 1, k)) = k
        /\ \A m \in 1..k : SubSeq(chain, 1, k)[m] = chain[m]
    BY <1>1
  <1>4. /\ chain' \in Seq(BlockType) /\ Len(chain') = k + 1
        /\ \A m \in 1..k : chain'[m] = chain[m]
        /\ chain'[k + 1] = b
    BY <1>2, <1>3 DEF b
  <1>5. DOMAIN chain' = 1..(k + 1)
    BY <1>4
  <1>6. ASSUME NEW n \in DOMAIN chain' PROVE chain'[n].hash <= serial'
    <2>1. CASE n = k + 1
      BY <1>1, <1>2, <1>4, <2>1
    <2>2. CASE n \in 1..k
      <3>1. n \in DOMAIN chain /\ chain[n] \in BlockType
        BY <1>1, <2>2
      <3>2. chain[n].hash <= serial /\ chain[n].hash \in Int
        BY <1>1, <3>1 DEF BlockType
      <3> QED
        BY <1>1, <1>4, <2>2, <3>2
    <2> QED
      BY <1>5, <1>6, <2>1, <2>2
  <1>7. serial' \in 0..MaxSerial /\ Len(chain') <= MaxHeight
    BY <1>1, <1>4
  <1>8. NewBlock(k)
    BY <1>2, <1>4, <1>5 DEF NewBlock
  <1> QED
    BY <1>4, <1>6, <1>7, <1>8 DEF IndexerInv, IndexerTypes

LEMMA BlocksStay ==
  ASSUME IndexerInv, NEW k \in Nat, NewBlock(k)
  PROVE  /\ \A m \in 1..k : m \in DOMAIN chain /\ m \in DOMAIN chain' /\ chain'[m] = chain[m]
         /\ \A m \in 0..k : Hash(m)' = Hash(m)
         /\ \A n \in 0..k : EventsUpTo(n)' = EventsUpTo(n)
  <1>1. /\ chain \in Seq(BlockType) /\ Len(chain) \in Nat /\ k \in 0..Len(chain)
        /\ DOMAIN chain = 1..Len(chain)
    BY DEF IndexerInv, IndexerTypes, NewBlock
  <1>2. \A m \in 1..k : m \in DOMAIN chain /\ m \in DOMAIN chain' /\ chain'[m] = chain[m]
    BY <1>1 DEF NewBlock
  <1>3. \A m \in 0..k : Hash(m)' = Hash(m)
    <2>1. 0 \notin DOMAIN chain /\ 0 \notin DOMAIN chain'
      BY <1>1 DEF NewBlock
    <2> QED
      BY <1>2, <2>1 DEF Hash
  <1>4. ASSUME NEW n \in 0..k PROVE EventsUpTo(n)' = EventsUpTo(n)
    <2>1. \A m \in 1..n : m \in 1..k
      OBVIOUS
    <2>2. (1..n) \cap DOMAIN chain' = 1..n /\ (1..n) \cap DOMAIN chain = 1..n
      BY <1>2, <2>1
    <2>3. \A m \in 1..n : chain'[m].events = chain[m].events
      BY <1>2, <2>1
    <2> QED
      BY <2>2, <2>3 DEF EventsUpTo
  <1> QED
    BY <1>2, <1>3, <1>4

\* A hash that was given before is found where it was, below the new block.
LEMMA HashesStay ==
  ASSUME IndexerInv, NEW k \in Nat, NewBlock(k), NEW m \in Nat, NEW h \in 1..serial,
         Hash(m)' = h
  PROVE  m \in 1..k /\ Hash(m) = h
  <1>1. serial \in Nat /\ h # serial + 1 /\ h # 0
    BY IndexerAssumption DEF IndexerInv, IndexerTypes
  <1>2. m \in DOMAIN chain' /\ chain'[m].hash = h
    BY <1>1 DEF Hash, NoHash
  <1>3. m # k + 1
    BY <1>1, <1>2 DEF NewBlock
  <1>4. m \in 1..k
    BY <1>2, <1>3 DEF NewBlock
  <1> QED
    BY <1>4, BlocksStay

LEMMA IndexStays ==
  ASSUME IndexerInv, NEW k \in Nat, NewBlock(k), NEW index \in IndexType, IndexOK(index)
  PROVE  /\ Stamped(index)'
         /\ StillCanonical(index)' => StillCanonical(index) /\ Follows(index)'
  <1>1. serial \in Nat /\ serial' = serial + 1 /\ index.next \in Nat \ {0}
    BY IndexerAssumption DEF IndexerInv, IndexerTypes, IndexType, NewBlock
  <1>2. Stamped(index)'
    BY <1>1 DEF IndexOK, Stamped
  <1>3. CASE index.next = 1
    <2>1. \A a \in Anchored : index.entries[a] = NoEntry
      BY <1>3 DEF IndexOK, Stamped
    <2>2. EventsUpTo(index.next - 1)' = {}
      BY <1>3 DEF EventsUpTo
    <2> QED
      BY <1>2, <1>3, <2>1, <2>2 DEF Follows, UpTo, StillCanonical
  <1>4. CASE index.next # 1
    <2> SUFFICES ASSUME StillCanonical(index)'
                 PROVE  StillCanonical(index) /\ Follows(index)'
      BY <1>2
    <2> DEFINE n == index.next - 1
    <2>1. n \in Nat /\ index.hash \in 1..serial /\ Hash(n)' = index.hash
      BY <1>1, <1>4 DEF IndexOK, Stamped, StillCanonical
    <2>2. n \in 1..k /\ Hash(n) = index.hash
      BY <2>1, HashesStay
    <2>3. StillCanonical(index) /\ Follows(index)
      BY <2>2 DEF StillCanonical, IndexOK
    <2>4. EventsUpTo(n)' = EventsUpTo(n)
      BY <2>2, BlocksStay
    <2>5. ASSUME NEW a \in Anchored, index.entries[a] # NoEntry
          PROVE  index.entries[a].block \in 1..n /\ Canonical(a, index.entries[a])'
      <3>1. index.entries[a].block \in 1..n /\ Canonical(a, index.entries[a])
        BY <2>3, <2>5 DEF Follows, UpTo
      <3>2. index.entries[a].block \in 1..k
        BY <2>2, <3>1
      <3> QED
        BY <3>1, <3>2, BlocksStay DEF Canonical
    <2>6. UpTo(index.entries, index.next - 1)'
      BY <2>5 DEF UpTo
    <2>7. \A e \in EventsUpTo(index.next - 1)' : Indexed(index, e[2])
      BY <2>3, <2>4 DEF Follows
    <2> QED
      BY <2>3, <2>6, <2>7 DEF Follows, Indexed
  <1> QED
    BY <1>3, <1>4

LEMMA ScanStays ==
  ASSUME IndexerInv, NEW k \in Nat, NewBlock(k), ScanOK(sync), sync.at \in {"logs", "events"},
         k >= sync.index.next - 1
  PROVE  ScanOK(sync)'
  <1>1. /\ serial \in Nat /\ serial' = serial + 1 /\ sync' = sync
        /\ sync.index \in IndexType /\ sync.index.next \in Nat \ {0} /\ sync.to \in Nat
        /\ sync.logs \subseteq LogType
    <2>1. serial \in Nat /\ serial' = serial + 1 /\ sync' = sync /\ sync \in SyncType
      BY IndexerAssumption DEF IndexerInv, IndexerTypes, NewBlock
    <2>2. sync.index \in IndexType /\ sync.to \in Nat /\ sync.logs \subseteq LogType
      BY <2>1, IndexerAssumption DEF SyncType
    <2>3. sync.index.next \in Nat \ {0}
      BY <2>2, IndexerAssumption DEF IndexType
    <2> QED
      BY <2>1, <2>2, <2>3
  <1>2. /\ sync.index.next <= sync.to /\ sync.end \in 1..serial'
        /\ sync.index.next # 1 => sync.index.hash \in 1..serial'
    BY <1>1 DEF ScanOK
  <1> SUFFICES ASSUME Hash(sync.to)' = sync.end PROVE Scanned(sync)'
    BY <1>1, <1>2 DEF ScanOK
  <1> DEFINE from == sync.index.next
             to == sync.to
  <1>3. Hash(to)' = sync.end
    OBVIOUS
  <1>4. to \in 1..k /\ Hash(to) = sync.end
    BY <1>1, <1>2, <1>3, HashesStay DEF ScanOK
  <1>5. Scanned(sync)
    BY <1>4 DEF ScanOK
  <1>6. \A m \in 1..k : m \in DOMAIN chain /\ m \in DOMAIN chain' /\ chain'[m] = chain[m]
    BY BlocksStay
  <1>7. UpTo(sync.index.entries, sync.to)'
    <2> SUFFICES ASSUME NEW a \in Anchored, sync.index.entries[a] # NoEntry
                 PROVE  sync.index.entries[a].block \in 1..to
                          /\ Canonical(a, sync.index.entries[a])'
      BY <1>1 DEF UpTo
    <2>1. sync.index.entries[a].block \in 1..to /\ Canonical(a, sync.index.entries[a])
      BY <1>5 DEF Scanned, UpTo
    <2>2. sync.index.entries[a].block \in 1..k
      BY <1>4, <2>1
    <2> QED
      BY <2>1, <2>2, <1>1, BlocksStay DEF Canonical
  <1>8. EventsUpTo(from - 1)' = EventsUpTo(from - 1)
    <2>1. from - 1 \in 0..k
      BY <1>1, <1>2, <1>4
    <2>2. \A n \in 0..k : EventsUpTo(n)' = EventsUpTo(n)
      BY BlocksStay
    <2> HIDE DEF from
    <2>3. from' = from
      BY <1>1 DEF from
    <2> QED
      BY <2>1, <2>2, <2>3
  <1>9. \A m \in from..to : m \in 1..k /\ chain'[m] = chain[m]
    BY <1>1, <1>4, <1>6
  <1>10. \A e \in EventsUpTo(sync.index.next - 1)' : Indexed(sync.index, e[2])
    BY <1>5, <1>8 DEF Scanned
  <1>11. ASSUME NEW n \in from..to, NEW e \in chain'[n].events
         PROVE  /\ e[1] < sync.contract => Indexed(sync.index, e[2])
                /\ sync.at = "events" /\ e[1] = sync.contract =>
                      Indexed(sync.index, e[2]) \/ Log(n, e[2])' \in sync.logs
    <2>1. chain'[n] = chain[n] /\ e \in chain[n].events
      BY <1>9
    <2>2. Log(n, e[2])' = Log(n, e[2])
      BY <2>1 DEF Log
    <2> QED
      BY <2>1, <2>2, <1>5 DEF Scanned
  <1>12. ASSUME sync.at = "events", NEW log \in sync.logs
         PROVE  /\ log.block \in from..to
                /\ chain'[log.block].hash = log.hash
                /\ <<sync.contract, log.id>> \in chain'[log.block].events
    <2>1. /\ log.block \in from..to
          /\ chain[log.block].hash = log.hash
          /\ <<sync.contract, log.id>> \in chain[log.block].events
      BY <1>5, <1>12 DEF Scanned
    <2> QED
      BY <2>1, <1>9
  <1> QED
    BY <1>1, <1>7, <1>10, <1>11, <1>12 DEF Scanned, Indexed

LEMMA NewBlockKeeps ==
  ASSUME IndexerInv, NEW k \in Nat, NewBlock(k), IndexerTypes',
         sync.at \notin {"idle", "check"} => k >= sync.index.next - 1
  PROVE  IndexerInv'
  <1>1. /\ sync' = sync /\ file' = file /\ sync.index \in IndexType /\ file \in IndexType
        /\ sync.index.next \in Nat \ {0}
        /\ sync.at \in {"idle", "check", "latest", "range", "logs", "events"}
    BY SMTT(20), IndexerAssumption DEF IndexerInv, IndexerTypes, NewBlock, SyncType, IndexType
  <1>2. IndexOK(file)'
    <2>1. IndexOK(file)
      BY DEF IndexerInv
    <2>2. Stamped(file)' /\ (StillCanonical(file)' => Follows(file)')
      <3>1. \A index \in IndexType : IndexOK(index) =>
                Stamped(index)' /\ (StillCanonical(index)' => Follows(index)')
        BY IndexStays
      <3> QED
        BY <1>1, <2>1, <3>1 DEF Stamped, StillCanonical, Follows, UpTo, Indexed
    <2> QED
      BY <2>2 DEF IndexOK
  <1>3. sync.at \in {"check", "latest", "range"} => IndexOK(sync.index)'
    <2> SUFFICES ASSUME sync.at \in {"check", "latest", "range"} PROVE IndexOK(sync.index)'
      OBVIOUS
    <2>1. IndexOK(sync.index)
      BY DEF IndexerInv, SyncInv
    <2>2. Stamped(sync.index)' /\ (StillCanonical(sync.index)' => Follows(sync.index)')
      <3>1. \A index \in IndexType : IndexOK(index) =>
                Stamped(index)' /\ (StillCanonical(index)' => Follows(index)')
        BY IndexStays
      <3> QED
        BY <1>1, <2>1, <3>1 DEF Stamped, StillCanonical, Follows, UpTo, Indexed
    <2> QED
      BY <2>2 DEF IndexOK
  <1>4. sync.at \in {"latest", "range", "logs", "events"} => StillCanonical(sync.index)'
    <2> SUFFICES ASSUME sync.at \in {"latest", "range", "logs", "events"}
                 PROVE  StillCanonical(sync.index)'
      OBVIOUS
    <2>1. StillCanonical(sync.index) /\ sync.index.next - 1 \in 0..k
      BY <1>1 DEF IndexerInv, SyncInv
    <2>2. \A m \in 0..k : Hash(m)' = Hash(m)
      BY BlocksStay
    <2>3. Hash(sync.index.next - 1)' = Hash(sync.index.next - 1)
      <3> DEFINE m == sync.index.next - 1
      <3>1. m' = m
        BY <1>1
      <3> HIDE DEF m
      <3>2. Hash(m)' = Hash(m)
        BY <2>1, <2>2, <3>1 DEF m, Hash
      <3> QED
        BY <3>2 DEF m
    <2> QED
      BY <1>1, <2>1, <2>3 DEF StillCanonical
  <1>5. sync.at \in {"logs", "events"} => ScanOK(sync)'
    <2> SUFFICES ASSUME sync.at \in {"logs", "events"} PROVE ScanOK(sync)'
      OBVIOUS
    <2>1. ScanOK(sync) /\ k >= sync.index.next - 1
      BY DEF IndexerInv, SyncInv
    <2> QED
      BY <2>1, ScanStays
  <1> QED
    BY <1>1, <1>2, <1>3, <1>4, <1>5 DEF IndexerInv, SyncInv

LEMMA ChainChanges ==
  ASSUME IndexerInv, StaysSettled, NEW events \in SUBSET Event,
         Extend(events) \/ \E n \in 0..(Len(chain) - 1) : Reorganise(n, events)
  PROVE  IndexerInv'
  <1>1. /\ chain \in Seq(BlockType) /\ Len(chain) \in Nat /\ Len(chain) <= MaxHeight
        /\ DOMAIN chain = 1..Len(chain) /\ MaxHeight \in Nat
        /\ sync.index.next \in Nat \ {0} /\ sync.index.next - 1 <= MaxHeight
    BY IndexerAssumption DEF IndexerInv, IndexerTypes, SyncType, IndexType
  <1>2. CASE Extend(events)
    <2>1. Len(chain) \in 0..Len(chain) /\ Len(chain) < MaxHeight /\ serial < MaxSerial
      BY <1>1, <1>2 DEF Extend
    <2>2. SubSeq(chain, 1, Len(chain)) = chain
      BY <1>1
    <2>3. chain' = Append(SubSeq(chain, 1, Len(chain)), [hash |-> serial + 1, events |-> events])
      BY <1>2, <2>2 DEF Extend, Block
    <2>4. serial' = serial + 1 /\ UNCHANGED <<file, sync>>
      BY <1>2 DEF Extend
    <2>5. NewBlock(Len(chain)) /\ IndexerTypes'
      BY <2>1, <2>3, <2>4, ChainGrows
    <2>6. ASSUME sync.at \notin {"idle", "check"} PROVE Len(chain) >= sync.index.next - 1
      <3>1. sync.at \in {"latest", "range", "logs", "events"}
        BY <2>6 DEF IndexerInv, IndexerTypes, SyncType
      <3>2. /\ StillCanonical(sync.index)
            /\ sync.index.next # 1 => sync.index.hash \in 1..serial
        BY <3>1 DEF IndexerInv, SyncInv, IndexOK, Stamped, ScanOK
      <3>3. CASE sync.index.next = 1
        BY <1>1, <3>3
      <3>4. CASE sync.index.next # 1
        <4>1. Hash(sync.index.next - 1) # 0
          BY <3>2, <3>4 DEF StillCanonical
        <4>2. sync.index.next - 1 \in DOMAIN chain
          BY <4>1 DEF Hash, NoHash
        <4> QED
          BY <4>2, <1>1
      <3> QED
        BY <3>3, <3>4
    <2> QED
      BY <1>1, <2>5, <2>6, NewBlockKeeps
  <1>3. ASSUME NEW n \in 0..(Len(chain) - 1), Reorganise(n, events) PROVE IndexerInv'
    <2>1. n \in 0..Len(chain) /\ n \in Nat /\ n < MaxHeight /\ serial < MaxSerial
      BY <1>1, <1>3 DEF Reorganise
    <2>2. chain' = Append(SubSeq(chain, 1, n), [hash |-> serial + 1, events |-> events])
      BY <1>3 DEF Reorganise, Block
    <2>3. serial' = serial + 1 /\ UNCHANGED <<file, sync>>
      BY <1>3 DEF Reorganise
    <2>4. NewBlock(n) /\ IndexerTypes'
      BY <2>1, <2>2, <2>3, ChainGrows
    <2>5. sync.at \notin {"idle", "check"} => n >= sync.index.next - 1
      BY <1>3 DEF Reorganise, Settled, StaysSettled
    <2> QED
      BY <2>1, <2>4, <2>5, NewBlockKeeps
  <1> QED
    BY <1>2, <1>3

-----------------------------------------------------------------------------
(* The steps of a sync. *)

\* The chain, the file and the place of a sync when only the sync moves.
LEMMA SyncMoves ==
  ASSUME IndexerInv, UNCHANGED <<chain, serial>>, file' \in IndexType,
         sync' \in SyncType, IndexOK(file'),
         sync'.at \in {"check", "latest", "range"} => IndexOK(sync'.index),
         sync'.at \in {"latest", "range", "logs", "events"} => StillCanonical(sync'.index),
         sync'.at \in {"logs", "events"} => ScanOK(sync')
  PROVE  IndexerInv'
  <1>1. IndexerTypes'
    BY DEF IndexerInv, IndexerTypes
  <1>2. IndexOK(file)'
    BY DEF IndexOK, Stamped, StillCanonical, Follows, UpTo, Canonical, Hash, EventsUpTo, Indexed
  <1>3. sync'.at \in {"check", "latest", "range"} => IndexOK(sync.index)'
    BY DEF IndexOK, Stamped, StillCanonical, Follows, UpTo, Canonical, Hash, EventsUpTo, Indexed
  <1>4. sync'.at \in {"latest", "range", "logs", "events"} => StillCanonical(sync.index)'
    BY DEF StillCanonical, Hash
  <1>5. sync'.at \in {"logs", "events"} => ScanOK(sync)'
    BY DEF ScanOK, Scanned, UpTo, Canonical, Hash, EventsUpTo, Indexed, Log
  <1> QED
    BY <1>1, <1>2, <1>3, <1>4, <1>5 DEF IndexerInv, SyncInv

\* At rest nothing is asked of the sync.
LEMMA SyncRests ==
  ASSUME IndexerInv, UNCHANGED <<chain, serial>>, file' \in IndexType, IndexOK(file'),
         sync' = NoSync
  PROVE  IndexerInv'
  <1>1. sync' \in SyncType /\ sync'.at = "idle"
    BY NewIndex DEF NoSync
  <1> QED
    BY <1>1, SyncMoves

LEMMA StartSyncKeeps == ASSUME IndexerInv, StartSync PROVE IndexerInv'
  <1>1. /\ UNCHANGED <<chain, serial, file>>
        /\ sync' = [at |-> "check", index |-> file, latest |-> 0, to |-> 0, end |-> NoHash,
                    contract |-> 0, logs |-> {}]
    BY DEF StartSync, NoSync
  <1>2. file \in IndexType /\ IndexOK(file)
    BY DEF IndexerInv, IndexerTypes
  <1>3. sync' \in SyncType
    BY <1>1, <1>2, IndexerAssumption DEF SyncType, NoHash
  <1>4. sync'.at = "check" /\ sync'.index = file
    BY <1>1
  <1> QED
    BY <1>1, <1>2, <1>3, <1>4, SyncMoves

LEMMA RewindKeeps == ASSUME IndexerInv, RewindForReorg PROVE IndexerInv'
  <1>1. /\ sync.at = "check" /\ UNCHANGED <<chain, serial>>
        /\ sync \in SyncType /\ file \in IndexType /\ IndexOK(file) /\ IndexOK(sync.index)
    BY DEF IndexerInv, IndexerTypes, SyncInv, RewindForReorg
  <1>2. CASE StillCanonical(sync.index)
    <2>1. file' = file /\ sync' = [sync EXCEPT !.at = "latest"]
      BY <1>2 DEF RewindForReorg
    <2>2. sync' \in SyncType /\ sync'.at = "latest" /\ sync'.index = sync.index
      BY <1>1, <2>1 DEF SyncType
    <2> QED
      BY <1>1, <1>2, <2>1, <2>2, SyncMoves
  <1>3. CASE ~StillCanonical(sync.index)
    <2>1. file' = NewState /\ sync' = [sync EXCEPT !.at = "latest", !.index = NewState]
      BY <1>3 DEF RewindForReorg
    <2>2. sync' \in SyncType /\ sync'.at = "latest" /\ sync'.index = NewState
      <3>1. NewState \in IndexType
        BY NewIndex
      <3> HIDE DEF NewState
      <3> QED
        BY <1>1, <2>1, <3>1 DEF SyncType
    <2> QED
      BY <1>1, <2>1, <2>2, NewIndex, SyncMoves
  <1> QED
    BY <1>2, <1>3

LEMMA LatestKeeps == ASSUME IndexerInv, ReadLatest PROVE IndexerInv'
  <1>1. /\ sync.at = "latest" /\ UNCHANGED <<chain, serial, file>>
        /\ sync' = [sync EXCEPT !.at = "range", !.latest = Len(chain)]
        /\ sync \in SyncType /\ file \in IndexType /\ IndexOK(file)
        /\ IndexOK(sync.index) /\ StillCanonical(sync.index)
    BY DEF IndexerInv, IndexerTypes, SyncInv, ReadLatest
  <1>2. Len(chain) \in 0..MaxHeight
    BY IndexerAssumption DEF IndexerInv, IndexerTypes
  <1>3. sync' \in SyncType /\ sync'.at = "range" /\ sync'.index = sync.index
    BY <1>1, <1>2 DEF SyncType
  <1> QED
    BY <1>1, <1>3, SyncMoves

LEMMA GiveUpKeeps == ASSUME IndexerInv, GiveUp PROVE IndexerInv'
  BY SyncRests DEF GiveUp, IndexerInv, IndexerTypes

LEMMA LesserOf == ASSUME NEW a \in Int, NEW b \in Int
                  PROVE  Min({a, b}) \in {a, b} /\ Min({a, b}) <= a /\ Min({a, b}) <= b
  <1>1. \E x \in {a, b} : \A y \in {a, b} : x <= y
    <2>1. CASE a <= b
      BY <2>1
    <2>2. CASE b <= a
      BY <2>2
    <2> QED
      BY <2>1, <2>2
  <1> QED
    BY <1>1 DEF Min

\* An event of the chain is one of a contract with an id.
LEMMA EventsAre ==
  ASSUME IndexerInv, NEW n \in DOMAIN chain, NEW e \in chain[n].events
  PROVE  e[1] \in 1..Contracts /\ e[2] \in Anchored /\ e = <<e[1], e[2]>>
  <1>1. chain[n] \in BlockType
    BY DEF IndexerInv, IndexerTypes
  <1>2. e \in Event
    BY <1>1 DEF BlockType
  <1> QED
    BY <1>2 DEF Event

LEMMA BlockHashes ==
  ASSUME IndexerInv
  PROVE  /\ DOMAIN chain = 1..Len(chain) /\ Len(chain) \in Nat /\ Len(chain) <= MaxHeight
         /\ \A n \in DOMAIN chain :
              Hash(n) \in 1..serial /\ Hash(n) = chain[n].hash /\ Hash(n) \in 1..MaxSerial
  <1>1. /\ chain \in Seq(BlockType) /\ Len(chain) \in Nat /\ serial \in 0..MaxSerial
        /\ Len(chain) <= MaxHeight /\ \A n \in DOMAIN chain : chain[n].hash <= serial
    BY DEF IndexerInv, IndexerTypes
  <1>2. \A n \in DOMAIN chain : chain[n] \in BlockType
    BY <1>1
  <1>3. \A n \in DOMAIN chain : chain[n].hash \in 1..MaxSerial
    BY <1>2 DEF BlockType
  <1> QED
    BY <1>1, <1>3, IndexerAssumption DEF Hash

LEMMA OpenRangeKeeps == ASSUME IndexerInv, OpenRange PROVE IndexerInv'
  <1> DEFINE from == sync.index.next
             to == Min({sync.latest, sync.index.next + MaxRange - 1})
  <1>1. /\ sync.at = "range" /\ UNCHANGED <<chain, serial, file>>
        /\ from <= sync.latest /\ from \in DOMAIN chain /\ to \in DOMAIN chain
        /\ sync' = [sync EXCEPT !.at = "logs", !.to = to, !.end = Hash(to), !.contract = 1]
        /\ sync \in SyncType /\ file \in IndexType /\ IndexOK(file)
        /\ IndexOK(sync.index) /\ StillCanonical(sync.index)
    BY DEF IndexerInv, IndexerTypes, SyncInv, OpenRange
  <1>2. sync.index \in IndexType /\ from \in Nat \ {0} /\ sync.latest \in Nat
        /\ MaxRange \in Nat \ {0} /\ Contracts \in Nat /\ MaxSerial \in Nat /\ MaxHeight \in Nat
    BY <1>1, IndexerAssumption DEF SyncType, IndexType
  <1>3. from <= to /\ to \in Nat
    <2> DEFINE a == sync.latest
               b == sync.index.next + MaxRange - 1
    <2>1. a \in Int /\ b \in Int /\ a \in Nat /\ b \in Nat /\ from <= a /\ from <= b
      BY <1>1, <1>2
    <2> HIDE DEF a, b
    <2>2. Min({a, b}) \in {a, b}
      BY <2>1, LesserOf, Zenon
    <2>3. Min({a, b}) = a \/ Min({a, b}) = b
      BY <2>2
    <2> QED
      BY <2>1, <2>3 DEF a, b
  <1> HIDE DEF to
  <1>4. /\ to \in 1..MaxHeight /\ Hash(to) \in 1..serial /\ Hash(to) \in 0..MaxSerial
        /\ DOMAIN chain = 1..Len(chain) /\ Len(chain) \in Nat
    BY <1>1, <1>2, <1>3, BlockHashes
  <1> DEFINE h == Hash(to)
  <1> HIDE DEF h
  <1>5. sync' = [at |-> "logs", index |-> sync.index, latest |-> sync.latest, to |-> to,
                 end |-> h, contract |-> 1, logs |-> sync.logs]
    BY <1>1 DEF SyncType, h
  <1>6. sync' \in SyncType
    BY <1>1, <1>2, <1>4, <1>5 DEF SyncType, h
  <1>7. Follows(sync.index) /\ (from # 1 => sync.index.hash \in 1..serial)
    BY <1>1 DEF IndexOK, Stamped
  <1>8. /\ sync'.at = "logs" /\ sync'.index = sync.index /\ sync'.to = to /\ sync'.end = h
        /\ sync'.contract = 1
    BY <1>5
  <1>9. UpTo(sync.index.entries, to)
    BY <1>2, <1>3, <1>7 DEF Follows, UpTo
  <1>10. ASSUME NEW n \in from..to, NEW e \in chain[n].events PROVE ~(e[1] < 1)
    <2>1. n \in DOMAIN chain
      BY <1>1, <1>2, <1>3, <1>4
    <2>2. e[1] \in 1..Contracts
      BY <2>1, <1>10, EventsAre
    <2> QED
      BY <2>2, <1>2
  <1>11. Scanned(sync')
    BY <1>7, <1>8, <1>9, <1>10 DEF Scanned, Follows
  <1>12. ScanOK(sync')
    BY <1>3, <1>4, <1>7, <1>8, <1>11 DEF ScanOK, h
  <1>13. IndexOK(file') /\ StillCanonical(sync'.index)
    BY <1>1, <1>8
  <1> QED
    BY <1>1, <1>6, <1>8, <1>12, <1>13, SyncMoves

LEMMA GetLogsKeeps == ASSUME IndexerInv, GetLogs PROVE IndexerInv'
  <1> DEFINE from == sync.index.next
             to == sync.to
             c == sync.contract
             logs == LogsOf(c, from, to)
  <1>1. /\ sync.at = "logs" /\ c <= Contracts /\ UNCHANGED <<chain, serial, file>>
        /\ sync' = [sync EXCEPT !.at = "events", !.logs = logs]
        /\ sync \in SyncType /\ file \in IndexType /\ IndexOK(file)
        /\ StillCanonical(sync.index) /\ ScanOK(sync)
    BY DEF IndexerInv, IndexerTypes, SyncInv, GetLogs
  <1>2. sync.index \in IndexType /\ from \in Nat \ {0} /\ to \in Nat
    <2>1. sync.index \in IndexType /\ to \in Nat
      BY <1>1, IndexerAssumption DEF SyncType
    <2> QED
      BY <2>1, IndexerAssumption DEF IndexType
  <1>3. ASSUME NEW log \in logs
        PROVE  /\ log \in LogType /\ log.block \in from..to
               /\ chain[log.block].hash = log.hash
               /\ <<c, log.id>> \in chain[log.block].events
    <2>1. PICK n \in (from..to) \cap DOMAIN chain, a \in Anchored : log = Log(n, a)
      BY DEF LogsOf
    <2>2. log.block = n /\ log.id = a /\ log.hash = chain[n].hash
      BY <2>1 DEF Log
    <2>3. Hash(n) = chain[n].hash /\ Hash(n) \in 1..MaxSerial /\ n \in 1..MaxHeight
      BY BlockHashes, IndexerAssumption
    <2>4. log \in LogType
      BY <2>1, <2>3 DEF Log, LogType
    <2>5. <<c, log.id>> \in chain[log.block].events
      BY <1>3 DEF LogsOf
    <2> QED
      BY <2>2, <2>4, <2>5
  <1>4. ASSUME NEW n \in (from..to) \cap DOMAIN chain, NEW a \in Anchored,
               <<c, a>> \in chain[n].events
        PROVE  Log(n, a) \in logs
    <2>1. Log(n, a).block = n /\ Log(n, a).id = a
      BY DEF Log
    <2> QED
      BY <1>4, <2>1 DEF LogsOf
  <1> HIDE DEF logs
  <1>5. sync' = [at |-> "events", index |-> sync.index, latest |-> sync.latest, to |-> to,
                 end |-> sync.end, contract |-> c, logs |-> logs]
    BY <1>1 DEF SyncType
  <1>6. sync' \in SyncType
    <2>1. logs \subseteq LogType
      BY <1>3
    <2> QED
      BY <1>1, <1>5, <2>1 DEF SyncType
  <1>7. /\ sync'.at = "events" /\ sync'.index = sync.index /\ sync'.to = to
        /\ sync'.end = sync.end /\ sync'.contract = c /\ sync'.logs = logs
    BY <1>5
  <1>8. ASSUME Hash(to) = sync.end PROVE Scanned(sync')
    <2>1. Scanned(sync)
      BY <1>1, <1>8 DEF ScanOK
    <2>2. to \in DOMAIN chain
      BY <1>1, <1>8 DEF ScanOK, Hash, NoHash
    <2>3. \A n \in from..to : n \in DOMAIN chain
      BY <1>2, <2>2, BlockHashes
    <2>4. ASSUME NEW n \in from..to, NEW e \in chain[n].events, e[1] = c
          PROVE  Log(n, e[2]) \in logs
      <3>1. n \in DOMAIN chain
        BY <2>3
      <3>2. e[2] \in Anchored /\ e = <<c, e[2]>>
        BY <3>1, <2>4, EventsAre
      <3> QED
        BY <3>1, <3>2, <1>4, <2>4
    <2>5. \A n \in from..to : \A e \in chain[n].events : e[1] < c => Indexed(sync.index, e[2])
      BY <2>1 DEF Scanned
    <2> QED
      BY <1>3, <1>7, <2>1, <2>4, <2>5 DEF Scanned
  <1>9. ScanOK(sync')
    BY <1>1, <1>7, <1>8 DEF ScanOK
  <1>10. IndexOK(file') /\ StillCanonical(sync'.index)
    BY <1>1, <1>7
  <1> QED
    BY <1>1, <1>6, <1>7, <1>9, <1>10, SyncMoves

LEMMA NextContractKeeps == ASSUME IndexerInv, NextContract PROVE IndexerInv'
  <1> DEFINE c == sync.contract
  <1>1. /\ sync.at = "events" /\ sync.logs = {} /\ UNCHANGED <<chain, serial, file>>
        /\ sync' = [sync EXCEPT !.at = "logs", !.contract = @ + 1]
        /\ sync \in SyncType /\ file \in IndexType /\ IndexOK(file)
        /\ StillCanonical(sync.index) /\ ScanOK(sync)
    BY DEF IndexerInv, IndexerTypes, SyncInv, NextContract
  <1>2. c \in 0..(Contracts + 1) /\ Contracts \in Nat /\ c <= Contracts
    BY <1>1, IndexerAssumption DEF SyncType, ScanOK
  <1>3. sync' = [at |-> "logs", index |-> sync.index, latest |-> sync.latest, to |-> sync.to,
                 end |-> sync.end, contract |-> c + 1, logs |-> sync.logs]
    BY <1>1 DEF SyncType
  <1>4. sync' \in SyncType
    <2>1. c + 1 \in 0..(Contracts + 1)
      BY <1>2
    <2> QED
      BY <1>1, <1>3, <2>1 DEF SyncType
  <1>5. /\ sync'.at = "logs" /\ sync'.index = sync.index /\ sync'.to = sync.to
        /\ sync'.end = sync.end /\ sync'.contract = c + 1
    BY <1>3
  <1>6. ASSUME Hash(sync.to) = sync.end PROVE Scanned(sync')
    <2>1. Scanned(sync)
      BY <1>1, <1>6 DEF ScanOK
    <2>2. ASSUME NEW n \in sync.index.next..sync.to, NEW e \in chain[n].events, e[1] < c + 1
          PROVE  Indexed(sync.index, e[2])
      <3>1. n \in DOMAIN chain
        <4>1. sync.to \in DOMAIN chain
          BY <1>1, <1>6 DEF ScanOK, Hash, NoHash
        <4>2. sync.index \in IndexType
          BY <1>1 DEF SyncType
        <4>3. sync.index.next \in Nat \ {0}
          BY <4>2, IndexerAssumption DEF IndexType
        <4> QED
          BY <4>1, <4>3, BlockHashes
      <3>2. e[1] \in 1..Contracts
        BY <3>1, <2>2, EventsAre
      <3>3. e[1] < c \/ e[1] = c
        BY <2>2, <3>2, <1>2
      <3> QED
        BY <3>3, <2>1, <1>1 DEF Scanned
    <2> QED
      BY <1>5, <2>1, <2>2 DEF Scanned
  <1>7. ScanOK(sync')
    BY <1>1, <1>5, <1>6 DEF ScanOK
  <1>8. IndexOK(file') /\ StillCanonical(sync'.index)
    BY <1>1, <1>5
  <1> QED
    BY <1>1, <1>4, <1>5, <1>7, <1>8, SyncMoves

LEMMA NewCheckpoint ==
  ASSUME NEW index \in IndexType, NEW n \in 1..(MaxHeight + 1), NEW h \in 0..MaxSerial,
         NEW moved, moved = [index EXCEPT !.next = n, !.hash = h]
  PROVE  moved = [next |-> n, hash |-> h, entries |-> index.entries]
  BY DEF IndexType

LEMMA CloseRangeKeeps == ASSUME IndexerInv, CloseRange PROVE IndexerInv'
  <1> DEFINE index == [sync.index EXCEPT !.next = sync.to + 1, !.hash = sync.end]
  <1>1. /\ sync.at = "logs" /\ sync.contract > Contracts /\ UNCHANGED <<chain, serial>>
        /\ Hash(sync.to) = sync.end
        /\ file' = index /\ sync' = [sync EXCEPT !.at = "range", !.index = index]
        /\ sync \in SyncType /\ ScanOK(sync)
    BY DEF IndexerInv, IndexerTypes, SyncInv, CloseRange, RangeStood
  <1>2. Scanned(sync) /\ sync.end \in 1..serial
    BY <1>1 DEF ScanOK
  <1>3. /\ sync.index \in IndexType /\ sync.to \in 0..MaxHeight /\ sync.end \in 0..MaxSerial
        /\ sync.contract \in 0..(Contracts + 1) /\ MaxHeight \in Nat /\ Contracts \in Nat
    BY <1>1, IndexerAssumption DEF SyncType
  <1>4. sync.index.next \in Nat \ {0} /\ sync.index.next <= sync.to
    BY <1>1, <1>3, IndexerAssumption DEF IndexType, ScanOK
  <1>5. index = [next |-> sync.to + 1, hash |-> sync.end, entries |-> sync.index.entries]
    <2>1. sync.to + 1 \in 1..(MaxHeight + 1)
      BY <1>3
    <2> QED
      BY <1>3, <2>1, NewCheckpoint
  <1>6. index \in IndexType
    <2>1. sync.to + 1 \in 1..(MaxHeight + 1)
      BY <1>3
    <2> QED
      BY <1>3, <1>5, <2>1 DEF IndexType
  <1>7. /\ index.next = sync.to + 1 /\ index.hash = sync.end
        /\ index.entries = sync.index.entries
    BY <1>5
  <1> HIDE DEF index
  <1>8. sync' \in SyncType /\ sync'.at = "range" /\ sync'.index = index
    BY <1>1, <1>6 DEF SyncType
  <1>9. index.next - 1 = sync.to /\ index.next # 1
    BY <1>3, <1>4, <1>7
  <1>10. StillCanonical(index) /\ Stamped(index)
    BY <1>1, <1>2, <1>7, <1>9 DEF StillCanonical, Stamped
  <1>11. ASSUME NEW e \in EventsUpTo(sync.to) PROVE Indexed(index, e[2])
    <2>1. PICK n \in (1..sync.to) \cap DOMAIN chain : e \in chain[n].events
      BY <1>11 DEF EventsUpTo
    <2>2. CASE n <= sync.index.next - 1
      <3>1. n \in (1..(sync.index.next - 1)) \cap DOMAIN chain
        BY <1>4, <2>1, <2>2
      <3>2. e \in EventsUpTo(sync.index.next - 1)
        BY <2>1, <3>1 DEF EventsUpTo
      <3> QED
        BY <1>2, <1>7, <3>2 DEF Scanned, Indexed
    <2>3. CASE n >= sync.index.next
      <3>1. n \in sync.index.next..sync.to
        BY <1>3, <1>4, <2>1, <2>3
      <3>2. e[1] < sync.contract
        <4>1. e[1] \in 1..Contracts
          BY <2>1, EventsAre
        <4> QED
          BY <4>1, <1>1, <1>3
      <3> QED
        BY <1>2, <1>7, <2>1, <3>1, <3>2 DEF Scanned, Indexed
    <2> QED
      BY <1>4, <2>1, <2>2, <2>3
  <1>12. Follows(index)
    BY <1>2, <1>7, <1>9, <1>11 DEF Follows, Scanned
  <1>13. IndexOK(index)
    BY <1>10, <1>12 DEF IndexOK
  <1> QED
    BY <1>1, <1>6, <1>8, <1>10, <1>13, SyncMoves

LEMMA AttachKeeps == ASSUME IndexerInv, AttachManifests PROVE IndexerInv'
  <1> DEFINE Attached(a, entry) ==
                [entry EXCEPT !.manifest = @ \/ (a \in Manifests /\ entry # NoEntry)]
             old == sync.index.entries
             entries == [a \in Anchored |-> Attached(a, old[a])]
             index == [sync.index EXCEPT !.entries = entries]
  <1>1. /\ sync.at = "range" /\ UNCHANGED <<chain, serial>> /\ sync' = NoSync
        /\ sync \in SyncType /\ IndexOK(sync.index)
    BY DEF IndexerInv, IndexerTypes, SyncInv, AttachManifests
  <1>2. sync.index \in IndexType /\ old \in [Anchored -> EntryType]
    <2>1. sync.index \in IndexType
      BY <1>1 DEF SyncType
    <2> QED
      BY <2>1 DEF IndexType, EntryType
  <1>3. file' = index
    <2>1. file' = [sync.index EXCEPT !.entries = [a \in Anchored |-> Attached(a, @[a])]]
      BY DEF AttachManifests
    <2> QED
      BY <1>2, <2>1 DEF IndexType
  <1>4. ASSUME NEW a \in Anchored
        PROVE  /\ Attached(a, old[a]) \in EntryType
               /\ Attached(a, old[a]).block = old[a].block
               /\ Attached(a, old[a]).hash = old[a].hash
               /\ Attached(a, old[a]).contract = old[a].contract
               /\ old[a] = NoEntry => Attached(a, old[a]) = NoEntry
    <2>1. old[a] \in EntryType
      BY <1>2
    <2>2. ASSUME NEW e \in EntryType
          PROVE  /\ Attached(a, e) \in EntryType
                 /\ Attached(a, e).block = e.block /\ Attached(a, e).hash = e.hash
                 /\ Attached(a, e).contract = e.contract
      <3>1. (e.manifest \/ (a \in Manifests /\ e # NoEntry)) \in BOOLEAN
        OBVIOUS
      <3> DEFINE m == e.manifest \/ (a \in Manifests /\ e # NoEntry)
      <3>2. Attached(a, e) = [e EXCEPT !.manifest = m]
        OBVIOUS
      <3> HIDE DEF m
      <3>3. [e EXCEPT !.manifest = m] =
               [block |-> e.block, hash |-> e.hash, contract |-> e.contract, manifest |-> m]
        BY DEF EntryType
      <3> QED
        BY <3>1, <3>2, <3>3 DEF EntryType, m
    <2>3. Attached(a, NoEntry) = NoEntry
      <3> DEFINE m == NoEntry.manifest \/ (a \in Manifests /\ NoEntry # NoEntry)
      <3>1. m = FALSE
        BY DEF NoEntry
      <3>2. Attached(a, NoEntry) = [NoEntry EXCEPT !.manifest = m]
        OBVIOUS
      <3> HIDE DEF m
      <3>3. ASSUME NEW e \in EntryType PROVE [e EXCEPT !.manifest = e.manifest] = e
        BY DEF EntryType
      <3>4. NoEntry \in EntryType /\ NoEntry.manifest = FALSE
        BY IndexerAssumption DEF NoEntry, EntryType, NoHash
      <3> QED
        BY <3>1, <3>2, <3>3, <3>4
    <2> QED
      BY <2>1, <2>2, <2>3
  <1>5. entries \in [Anchored -> EntryType] /\ \A a \in Anchored : entries[a] = Attached(a, old[a])
    BY <1>4
  <1> HIDE DEF Attached, entries
  <1>6. /\ index = [next |-> sync.index.next, hash |-> sync.index.hash, entries |-> entries]
        /\ index \in IndexType
    BY <1>2, <1>5 DEF IndexType, EntryType
  <1>7. index.next = sync.index.next /\ index.hash = sync.index.hash /\ index.entries = entries
    BY <1>6
  <1> HIDE DEF index
  <1>8. ASSUME NEW a \in Anchored
        PROVE  /\ entries[a].block = old[a].block
               /\ entries[a].hash = old[a].hash
               /\ entries[a].contract = old[a].contract
               /\ old[a] = NoEntry => entries[a] = NoEntry
               /\ old[a] # NoEntry /\ old[a].block # 0 => entries[a] # NoEntry
    <2>1. NoEntry.block = 0
      BY DEF NoEntry
    <2> QED
      BY <1>4, <1>5, <2>1
  <1>9. Stamped(index)
    BY <1>1, <1>7, <1>8 DEF IndexOK, Stamped
  <1>10. ASSUME StillCanonical(index) PROVE Follows(index)
    <2>1. Follows(sync.index)
      BY <1>1, <1>7, <1>10 DEF StillCanonical, IndexOK
    <2>2. UpTo(entries, index.next - 1)
      BY <1>7, <1>8, <2>1 DEF Follows, UpTo, Canonical
    <2>3. ASSUME NEW e \in EventsUpTo(index.next - 1) PROVE Indexed(index, e[2])
      <3>1. Indexed(sync.index, e[2])
        BY <1>7, <2>1 DEF Follows
      <3>2. PICK n \in DOMAIN chain : e \in chain[n].events
        BY DEF EventsUpTo
      <3>3. e[2] \in Anchored
        BY <3>2, EventsAre
      <3>4. old[e[2]] # NoEntry /\ old[e[2]].block \in 1..(sync.index.next - 1)
        BY <2>1, <3>1, <3>3 DEF Follows, UpTo, Indexed
      <3>5. old[e[2]].block # 0
        BY <3>4
      <3> QED
        BY <1>7, <1>8, <3>3, <3>4, <3>5 DEF Indexed
    <2> QED
      BY <1>7, <2>2, <2>3 DEF Follows
  <1>11. IndexOK(index)
    BY <1>9, <1>10 DEF IndexOK
  <1> QED
    BY <1>1, <1>3, <1>6, <1>11, SyncRests

LEMMA ApplyLogKeeps == ASSUME IndexerInv, ApplyLog PROVE IndexerInv'
  <1> DEFINE from == sync.index.next
             to == sync.to
             c == sync.contract
             old == sync.index.entries
  <1>1. PICK log \in sync.logs :
          /\ Hash(log.block) = log.hash
          /\ sync' = [sync EXCEPT !.logs = @ \ {log},
                !.index.entries[log.id] = [block |-> log.block, hash |-> log.hash,
                                           contract |-> sync.contract, manifest |-> FALSE]]
    BY DEF ApplyLog
  <1> DEFINE entry == [block |-> log.block, hash |-> log.hash, contract |-> c, manifest |-> FALSE]
             entries == [old EXCEPT ![log.id] = entry]
             index == [next |-> from, hash |-> sync.index.hash, entries |-> entries]
             logs == sync.logs \ {log}
  <1>2. /\ sync.at = "events" /\ UNCHANGED <<chain, serial, file>>
        /\ sync \in SyncType /\ file \in IndexType /\ IndexOK(file)
        /\ StillCanonical(sync.index) /\ ScanOK(sync)
    BY DEF IndexerInv, IndexerTypes, SyncInv, ApplyLog
  <1>3. /\ sync.index \in IndexType /\ sync.logs \subseteq LogType
        /\ to \in Nat /\ c \in 0..Contracts
    BY <1>2, IndexerAssumption DEF SyncType, ScanOK
  <1>4. old \in [Anchored -> EntryType] /\ from \in Nat \ {0}
    BY <1>3, IndexerAssumption DEF IndexType, EntryType
  <1>5. log \in LogType
    BY <1>3
  <1>6. entry \in EntryType /\ entry.block \in 1..MaxHeight /\ log.id \in Anchored
    <2>1. /\ log.block \in 1..MaxHeight /\ log.hash \in 0..MaxSerial /\ log.id \in Anchored
          /\ log.block \in 0..MaxHeight
      BY <1>5, IndexerAssumption DEF LogType
    <2> QED
      BY <1>3, <2>1 DEF EntryType
  <1>7. entry # NoEntry /\ entry.block = log.block /\ entry.hash = log.hash /\ entry.contract = c
    <2>1. NoEntry.block = 0
      BY DEF NoEntry
    <2>2. entry.block # 0
      BY <1>6
    <2> QED
      BY <2>1, <2>2
  <1> HIDE DEF entry
  <1>8. /\ entries \in [Anchored -> EntryType] /\ entries[log.id] = entry
        /\ \A a \in Anchored : a # log.id => entries[a] = old[a]
    BY <1>4, <1>6
  <1>9. sync' = [sync EXCEPT !.index = [sync.index EXCEPT !.entries = entries], !.logs = logs]
    BY <1>1, <1>2, <1>3 DEF SyncType, IndexType, entry
  <1> HIDE DEF entries
  <1>10. [sync.index EXCEPT !.entries = entries] = index
    BY <1>3 DEF IndexType
  <1>11. index \in IndexType
    BY <1>3, <1>8 DEF IndexType, EntryType
  <1>12. index.next = from /\ index.hash = sync.index.hash /\ index.entries = entries
    OBVIOUS
  <1> HIDE DEF index
  <1>13. logs \subseteq LogType
    BY <1>3
  <1>14. sync' = [sync EXCEPT !.index = index, !.logs = logs]
    BY <1>9, <1>10
  <1> HIDE DEF logs
  <1>15. /\ sync' \in SyncType /\ sync'.at = "events" /\ sync'.index = index /\ sync'.to = to
         /\ sync'.end = sync.end /\ sync'.contract = c /\ sync'.logs = logs
    BY <1>2, <1>11, <1>13, <1>14 DEF SyncType
  <1>16. ASSUME Hash(to) = sync.end PROVE Scanned(sync')
    <2>1. Scanned(sync)
      BY <1>2, <1>16 DEF ScanOK
    <2>2. /\ log.block \in from..to /\ chain[log.block].hash = log.hash
          /\ <<c, log.id>> \in chain[log.block].events
      BY <1>2, <2>1 DEF Scanned
    <2>3. UpTo(entries, to)
      <3> SUFFICES ASSUME NEW a \in Anchored, entries[a] # NoEntry
                   PROVE  entries[a].block \in 1..to /\ Canonical(a, entries[a])
        BY DEF UpTo
      <3>1. CASE a = log.id
        <4>1. entries[a].block \in 1..to
          BY <1>4, <1>7, <1>8, <2>2, <3>1
        <4> QED
          BY <1>1, <1>7, <1>8, <2>2, <3>1, <4>1 DEF Canonical
      <3>2. CASE a # log.id
        BY <1>8, <2>1, <3>2 DEF Scanned, UpTo
      <3> QED
        BY <3>1, <3>2
    <2>4. ASSUME NEW a \in Anchored, Indexed(sync.index, a) \/ a = log.id
          PROVE  Indexed(index, a)
      BY <1>7, <1>8, <1>12, <2>4 DEF Indexed
    <2>5. to \in DOMAIN chain
      BY <1>2, <1>16 DEF ScanOK, Hash, NoHash
    <2>6. ASSUME NEW n \in DOMAIN chain, NEW e \in chain[n].events
          PROVE  e[2] \in Anchored
      BY <2>6, EventsAre
    <2>7. ASSUME NEW e \in EventsUpTo(from - 1) PROVE Indexed(index, e[2])
      <3>1. PICK n \in DOMAIN chain : e \in chain[n].events
        BY DEF EventsUpTo
      <3>2. Indexed(sync.index, e[2])
        BY <2>1 DEF Scanned
      <3> QED
        BY <2>4, <2>6, <3>1, <3>2
    <2>8. ASSUME NEW n \in from..to, NEW e \in chain[n].events
          PROVE  /\ e[1] < c => Indexed(index, e[2])
                 /\ e[1] = c => Indexed(index, e[2]) \/ Log(n, e[2]) \in logs
      <3>1. n \in DOMAIN chain
        BY <1>4, <2>5, BlockHashes
      <3>2. e[2] \in Anchored
        BY <2>6, <3>1
      <3>3. /\ e[1] < c => Indexed(sync.index, e[2])
            /\ e[1] = c => Indexed(sync.index, e[2]) \/ Log(n, e[2]) \in sync.logs
        BY <1>2, <2>1 DEF Scanned
      <3>4. Log(n, e[2]) \in sync.logs => Log(n, e[2]) \in logs \/ e[2] = log.id
        BY DEF Log, logs
      <3> QED
        BY <2>4, <3>2, <3>3, <3>4
    <2>9. ASSUME NEW other \in logs
          PROVE  /\ other.block \in from..to
                 /\ chain[other.block].hash = other.hash
                 /\ <<c, other.id>> \in chain[other.block].events
      BY <1>2, <2>1 DEF Scanned, logs
    <2> QED
      BY <1>12, <1>15, <2>3, <2>7, <2>8, <2>9 DEF Scanned
  <1>17. ScanOK(sync')
    BY <1>2, <1>12, <1>15, <1>16 DEF ScanOK
  <1>18. IndexOK(file') /\ StillCanonical(sync'.index)
    BY <1>2, <1>12, <1>15 DEF StillCanonical
  <1> QED
    BY <1>2, <1>15, <1>17, <1>18, SyncMoves

LEMMA IndexerStep == ASSUME StaysSettled, IndexerInv, [IndexerNext]_indexer PROVE IndexerInv'
  <1>1. CASE Sync
    BY <1>1, StartSyncKeeps, RewindKeeps, LatestKeeps, OpenRangeKeeps, GetLogsKeeps,
       ApplyLogKeeps, NextContractKeeps, CloseRangeKeeps, AttachKeeps, GiveUpKeeps DEF Sync
  <1>2. ASSUME NEW events \in {{}} \cup {{e} : e \in Event},
               Extend(events) \/ \E n \in 0..(Len(chain) - 1) : Reorganise(n, events)
        PROVE  IndexerInv'
    <2>1. events \in SUBSET Event
      OBVIOUS
    <2> QED
      BY <1>2, <2>1, ChainChanges
  <1>3. CASE UNCHANGED indexer
    <2>1. /\ UNCHANGED <<chain, serial>> /\ file' = file /\ sync' = sync
          /\ file \in IndexType /\ sync \in SyncType /\ IndexOK(file)
      BY <1>3 DEF indexer, IndexerInv, IndexerTypes
    <2>2. /\ sync.at \in {"check", "latest", "range"} => IndexOK(sync.index)
          /\ sync.at \in {"latest", "range", "logs", "events"} => StillCanonical(sync.index)
          /\ sync.at \in {"logs", "events"} => ScanOK(sync)
      BY DEF IndexerInv, SyncInv
    <2>3. /\ sync'.at \in {"check", "latest", "range"} => IndexOK(sync'.index)
          /\ sync'.at \in {"latest", "range", "logs", "events"} => StillCanonical(sync'.index)
          /\ sync'.at \in {"logs", "events"} => ScanOK(sync')
      BY <2>1, <2>2
    <2> QED
      BY <2>1, <2>3, SyncMoves
  <1> QED
    BY <1>1, <1>2, <1>3 DEF IndexerNext

LEMMA IndexerInvariant == ASSUME StaysSettled PROVE IndexerSpec => []IndexerInv
  <1>1. IndexerInv /\ [IndexerNext]_indexer => IndexerInv'
    BY IndexerStep
  <1> QED
    BY <1>1, IndexerBegins, PTL DEF IndexerSpec

\* As long as a sync under way never sees a block undone that it has settled,
\* the index on disk follows the chain: whatever was reorganised while the
\* ranges were read, a file whose newest checkpoint is a block of the chain
\* says what the chain says up to it, no event more and none less.
THEOREM IndexStaysTrue == ASSUME StaysSettled PROVE IndexerSpec => []IndexFollowsChain
  <1>1. IndexerInv => IndexFollowsChain
    BY DEF IndexerInv, IndexOK, IndexFollowsChain, Follows, UpTo, Indexed
  <1> QED
    BY <1>1, IndexerInvariant, PTL

-----------------------------------------------------------------------------
(* The backup sets. *)

DataType == [batched: Nat, attached: Nat, signed: Nat]
FilesType == [Files -> Contents]
SetType == [remote: BOOLEAN, data: DataType, files: FilesType, written: FilesType,
            index: FilesType]
PhaseNames == {"inspect", "inventory", "index", "write", "mark", "inspectCopy",
               "compareSource", "compareCopy"}
TransferType == [phases: Seq(PhaseNames), kind: Kind \cup {"none"}, from: Nat, to: Nat,
                 todo: Seq(Files), before: FilesType]

BackupTypes ==
    /\ source \in DataType /\ locked \in BOOLEAN
    /\ sets \in Seq(SetType)
    /\ capture \in [at: {"idle", "dump", "journals", "commit", "manifest", "mark"}, set: Nat]
    /\ transfer \in TransferType
    /\ verified \subseteq DOMAIN sets

Ordered(data) == data.attached <= data.signed /\ data.signed <= data.batched
Marked(set) == set.files["complete"] # "none"

\* What a set is: its marker vouches for the rest.
SetOK(set) ==
    /\ \A f \in Files : set.files[f] = "whole" => set.written[f] = "whole"
    /\ Marked(set) =>
          /\ Ordered(set.data)
          /\ \A f \in Files : set.files[f] # "none"
          /\ set.remote => \A f \in Files : set.index[f] # "none"

\* The tables stand still from the dump to the journals.
CaptureOK ==
    /\ locked <=> capture.at \in {"dump", "journals", "commit"}
    /\ capture.at # "idle" =>
          LET set == sets[capture.set] IN
          /\ transfer = NoTransfer
          /\ capture.set \in DOMAIN sets \ verified
          /\ ~set.remote /\ ~Marked(set)
          /\ capture.at # "dump" => set.files["postgres"] # "none"
          /\ capture.at = "journals" =>
                set.data.batched = source.batched /\ set.data.attached = source.attached
          /\ capture.at \in {"commit", "manifest", "mark"} =>
                set.files["journals"] # "none" /\ Ordered(set.data)
          /\ capture.at = "mark" => set.files["manifest"] # "none"

\* A transfer is past a phase with file f.
Past(t, phase, f) ==
    \/ phase \notin ToSet(t.phases)
    \/ Head(t.phases) = phase /\ f \notin ToSet(t.todo)

\* The order in which the phases of a kind come.
InOrder(kind, phases) ==
    \A i \in DOMAIN phases :
       /\ phases[i] = "index" => kind = "download"
       /\ phases[i] = "mark" => \A j \in DOMAIN phases : j >= i => phases[j] # "write"
       /\ phases[i] \in {"write", "mark"} =>
             \A j \in DOMAIN phases : j >= i => phases[j] \notin {"inventory", "index"}
       /\ kind # "upload" /\ phases[i] \in {"write", "mark"} =>
             \E j \in DOMAIN phases : j > i /\ phases[j] = "inspectCopy"

\* What each phase leaves behind, for the file it has been through.
Achieved(t, to) ==
    /\ t.kind = "upload" => \A f \in Files : Past(t, "inventory", f) => t.before[f] # "none"
    /\ t.kind = "download" /\ Past(t, "index", "complete") =>
          \A f \in Files : t.before[f] # "none"
    /\ \A f \in Files \ {"complete"} : Past(t, "write", f) => to.files[f] # "none"
    /\ t.kind = "upload" /\ "write" \notin ToSet(t.phases) => \A f \in Files : to.index[f] # "none"
    /\ Past(t, "mark", "complete") => Marked(to)
    /\ t.kind # "upload" => \A f \in Files : Past(t, "inspectCopy", f) => to.written[f] = "whole"

TransferOK ==
    transfer # NoTransfer =>
       /\ capture.at = "idle"
       /\ transfer.kind \in Kind /\ transfer.phases # <<>>
       /\ InOrder(transfer.kind, transfer.phases)
       /\ ToSet(transfer.todo) \subseteq ToSet(Todo(Head(transfer.phases)))
       /\ transfer.todo = <<>> => Tail(transfer.phases) = <<>>
       /\ transfer.from \in DOMAIN sets /\ transfer.to \in DOMAIN sets \ verified
       /\ transfer.from # transfer.to
       /\ Marked(sets[transfer.from]) /\ (transfer.kind = "download" => sets[transfer.from].remote)
       /\ sets[transfer.to].remote <=> transfer.kind = "upload"
       /\ Ordered(sets[transfer.to].data)
       /\ Achieved(transfer, sets[transfer.to])

VerifiedOK == \A s \in verified : \A f \in Files : sets[s].written[f] = "whole"
PointerOK == pointer # 0 => /\ pointer \in DOMAIN sets
                            /\ Marked(sets[pointer]) /\ sets[pointer].remote

BackupInv ==
    /\ BackupTypes /\ Ordered(source)
    /\ \A s \in DOMAIN sets : SetOK(sets[s])
    /\ CaptureOK /\ TransferOK /\ VerifiedOK /\ PointerOK

LEMMA TailIs ==
  ASSUME NEW S, NEW s \in Seq(S), s # <<>>
  PROVE  /\ Tail(s) \in Seq(S) /\ Head(s) \in S /\ Head(s) = s[1] /\ 1 \in DOMAIN s
         /\ \A i \in DOMAIN Tail(s) : i + 1 \in DOMAIN s /\ Tail(s)[i] = s[i + 1] /\ i \in Nat
         /\ ToSet(Tail(s)) \subseteq ToSet(s)
         /\ ToSet(s) = {Head(s)} \cup ToSet(Tail(s))
         /\ ToSet(s) \subseteq S
  <1>1. Len(s) \in Nat \ {0} /\ DOMAIN s = 1..Len(s)
    OBVIOUS
  <1>2. /\ Tail(s) \in Seq(S) /\ DOMAIN Tail(s) = 1..(Len(s) - 1)
        /\ \A i \in DOMAIN Tail(s) : Tail(s)[i] = s[i + 1]
    BY <1>1
  <1>3. Head(s) = s[1] /\ 1 \in DOMAIN s
    BY <1>1
  <1>4. \A i \in DOMAIN Tail(s) : i + 1 \in DOMAIN s /\ i \in Nat
    BY <1>1, <1>2
  <1>5. ToSet(Tail(s)) \subseteq ToSet(s)
    BY <1>2, <1>4 DEF ToSet
  <1>6. \A i \in DOMAIN s : i # 1 => i - 1 \in DOMAIN Tail(s) /\ Tail(s)[i - 1] = s[i]
    BY <1>1, <1>2
  <1>7. ToSet(s) \subseteq {Head(s)} \cup ToSet(Tail(s))
    BY <1>3, <1>6 DEF ToSet
  <1>8. Head(s) \in ToSet(s)
    BY <1>3 DEF ToSet
  <1>9. ToSet(s) \subseteq S
    BY <1>1 DEF ToSet
  <1> QED
    BY <1>2, <1>3, <1>4, <1>5, <1>7, <1>8, <1>9

LEMMA NoTail == ASSUME NEW S, NEW s \in Seq(S), s # <<>>, Tail(s) = <<>>
                PROVE  ToSet(s) = {Head(s)}
  <1>1. ToSet(Tail(s)) = {}
    BY DEF ToSet
  <1> QED
    BY <1>1, TailIs

\* The files of each phase.
LEMMA TodoFiles ==
  /\ \A phase : Todo(phase) \in Seq(Files) /\ Todo(phase) # <<>>
  /\ \A phase \in {"mark", "index"} : ToSet(Todo(phase)) = {"complete"}
  /\ ToSet(Todo("write")) = Files \ {"complete"}
  /\ ToSet(Todo("inspectCopy")) = Files /\ ToSet(Todo("inventory")) = Files
  <1>1. ASSUME NEW a \in Files PROVE <<a>> \in Seq(Files) /\ <<a>> # <<>> /\ ToSet(<<a>>) = {a}
    BY DEF ToSet
  <1>2. ASSUME NEW a \in Files, NEW b \in Files, NEW c \in Files
        PROVE  /\ <<a, b, c>> \in Seq(Files) /\ <<a, b, c>> # <<>>
               /\ ToSet(<<a, b, c>>) = {a, b, c}
    <2>1. DOMAIN <<a, b, c>> = {1, 2, 3}
      OBVIOUS
    <2> QED
      BY <2>1 DEF ToSet
  <1>3. ASSUME NEW a \in Files, NEW b \in Files, NEW c \in Files, NEW d \in Files
        PROVE  /\ <<a, b, c, d>> \in Seq(Files) /\ <<a, b, c, d>> # <<>>
               /\ ToSet(<<a, b, c, d>>) = {a, b, c, d}
    <2>1. DOMAIN <<a, b, c, d>> = {1, 2, 3, 4}
      OBVIOUS
    <2> QED
      BY <2>1 DEF ToSet
  <1>4. {"postgres", "journals", "manifest", "complete"} = Files
    BY DEF Files
  <1>5. ASSUME NEW phase PROVE Todo(phase) \in Seq(Files) /\ Todo(phase) # <<>>
    <2>1. CASE phase \in {"mark", "index"}
      BY <1>1, <1>4, <2>1 DEF Todo
    <2>2. CASE phase = "write"
      BY <1>2, <1>4, <2>2 DEF Todo
    <2>3. CASE phase \in {"inspect", "inspectCopy"}
      BY <1>3, <1>4, <2>3 DEF Todo
    <2>4. CASE phase \notin {"mark", "index", "write", "inspect", "inspectCopy"}
      BY <1>3, <1>4, <2>4 DEF Todo
    <2> QED
      BY <2>1, <2>2, <2>3, <2>4
  <1>6. \A phase \in {"mark", "index"} : ToSet(Todo(phase)) = {"complete"}
    BY <1>1, <1>4 DEF Todo
  <1>7. ToSet(Todo("write")) = Files \ {"complete"}
    <2>1. Todo("write") = <<"postgres", "manifest", "journals">>
      BY DEF Todo
    <2> QED
      BY <1>2, <1>4, <2>1
  <1>8. ToSet(Todo("inspectCopy")) = Files
    <2>1. Todo("inspectCopy") = <<"complete", "manifest", "postgres", "journals">>
      BY DEF Todo
    <2> QED
      BY <1>3, <1>4, <2>1
  <1>9. ToSet(Todo("inventory")) = Files
    <2>1. Todo("inventory") = <<"postgres", "manifest", "journals", "complete">>
      BY DEF Todo
    <2> QED
      BY <1>3, <1>4, <2>1
  <1> QED
    BY <1>5, <1>6, <1>7, <1>8, <1>9

\* What Onward makes of a transfer whose turn is f.
MovesOn(t, f) ==
    /\ t \in TransferType /\ t.phases # <<>>
    /\ t.kind = transfer.kind /\ t.from = transfer.from /\ t.to = transfer.to
    /\ t.before = transfer.before
    /\ InOrder(t.kind, t.phases)
    /\ ToSet(t.todo) \subseteq ToSet(Todo(Head(t.phases)))
    /\ t.todo = <<>> => Tail(t.phases) = <<>>
    /\ \A phase : \A g \in ToSet(Todo(phase)) :
          Past(t, phase, g) => Past(transfer, phase, g) \/ (phase = Phase /\ g = f)
    /\ "write" \notin ToSet(t.phases) =>
          "write" \notin ToSet(transfer.phases) \/ (Phase = "write" /\ Tail(transfer.todo) = <<>>)

LEMMA OnwardMoves ==
  ASSUME BackupInv, transfer # NoTransfer, NEW f \in Files, Turn(f)
  PROVE  MovesOn(Onward, f)
  <1> DEFINE left == Tail(transfer.todo)
             rest == Tail(transfer.phases)
             t == Onward
  <1>1. /\ transfer \in TransferType /\ transfer.phases # <<>> /\ transfer.todo # <<>>
        /\ Head(transfer.todo) = f
        /\ InOrder(transfer.kind, transfer.phases)
        /\ ToSet(transfer.todo) \subseteq ToSet(Todo(Head(transfer.phases)))
    BY DEF BackupInv, BackupTypes, TransferOK, Turn
  <1>2. transfer.phases \in Seq(PhaseNames) /\ transfer.todo \in Seq(Files)
    BY <1>1 DEF TransferType
  <1>3. /\ left \in Seq(Files) /\ ToSet(transfer.todo) = {f} \cup ToSet(left)
        /\ rest \in Seq(PhaseNames) /\ ToSet(transfer.phases) = {Phase} \cup ToSet(rest)
    BY <1>1, <1>2, TailIs DEF Phase
  <1>4. CASE left # <<>> \/ rest = <<>>
    <2>1. t = [transfer EXCEPT !.todo = left]
      BY <1>4 DEF Onward
    <2>2. /\ t \in TransferType /\ t.phases = transfer.phases /\ t.todo = left
          /\ t.kind = transfer.kind /\ t.from = transfer.from /\ t.to = transfer.to
          /\ t.before = transfer.before
      BY <1>1, <1>3, <2>1 DEF TransferType
    <2> HIDE DEF t
    <2>3. ToSet(t.todo) \subseteq ToSet(Todo(Head(t.phases)))
      BY <1>1, <1>3, <2>2
    <2>4. t.todo = <<>> => Tail(t.phases) = <<>>
      BY <1>4, <2>2
    <2>5. ASSUME NEW phase, NEW g, Past(t, phase, g)
          PROVE  Past(transfer, phase, g) \/ (phase = Phase /\ g = f)
      BY <1>3, <2>2, <2>5 DEF Past, Phase
    <2> QED
      BY <1>1, <2>2, <2>3, <2>4, <2>5 DEF MovesOn, t
  <1>5. CASE left = <<>> /\ rest # <<>>
    <2>1. t = [transfer EXCEPT !.phases = rest, !.todo = Todo(Head(rest))]
      BY <1>5 DEF Onward
    <2>2. Todo(Head(rest)) \in Seq(Files) /\ Todo(Head(rest)) # <<>>
      BY TodoFiles
    <2>3. /\ t \in TransferType /\ t.phases = rest /\ t.todo = Todo(Head(rest))
          /\ t.kind = transfer.kind /\ t.from = transfer.from /\ t.to = transfer.to
          /\ t.before = transfer.before
      BY <1>1, <1>3, <2>1, <2>2 DEF TransferType
    <2> HIDE DEF t
    <2>4. InOrder(t.kind, t.phases)
      <3> DEFINE p == transfer.phases
                 k == transfer.kind
      <3>1. \A i \in DOMAIN rest : i + 1 \in DOMAIN p /\ rest[i] = p[i + 1] /\ i \in Nat
        BY <1>1, <1>2, TailIs
      <3>2. \A i \in DOMAIN p : i > 1 => i - 1 \in DOMAIN rest /\ rest[i - 1] = p[i]
        BY <1>2
      <3>3. DOMAIN p \subseteq Nat
        BY <1>2
      <3>4. InOrder(k, p)
        BY <1>1
      <3> HIDE DEF p, k, rest
      <3>5. ASSUME NEW i \in DOMAIN rest
            PROVE  /\ rest[i] = "index" => k = "download"
                   /\ rest[i] = "mark" => \A j \in DOMAIN rest : j >= i => rest[j] # "write"
                   /\ rest[i] \in {"write", "mark"} =>
                         \A j \in DOMAIN rest : j >= i => rest[j] \notin {"inventory", "index"}
        BY <3>1, <3>4 DEF InOrder
      <3>6. ASSUME NEW i \in DOMAIN rest, k # "upload", rest[i] \in {"write", "mark"}
            PROVE  \E j \in DOMAIN rest : j > i /\ rest[j] = "inspectCopy"
        <4>1. PICK j \in DOMAIN p : j > i + 1 /\ p[j] = "inspectCopy"
          BY <3>1, <3>4, <3>6 DEF InOrder
        <4>2. j - 1 \in DOMAIN rest /\ rest[j - 1] = p[j] /\ j - 1 > i
          BY <3>1, <3>2, <3>3, <4>1
        <4> QED
          BY <4>1, <4>2
      <3>7. InOrder(k, rest)
        BY <3>5, <3>6 DEF InOrder
      <3> QED
        BY <2>3, <3>7 DEF k
    <2>5. ASSUME NEW phase, NEW g \in ToSet(Todo(phase)), Past(t, phase, g)
          PROVE  Past(transfer, phase, g) \/ (phase = Phase /\ g = f)
      <3>1. ToSet(left) = {}
        BY <1>5 DEF ToSet
      <3>2. phase \notin ToSet(rest)
        BY <2>3, <2>5 DEF Past
      <3> QED
        BY <1>3, <3>1, <3>2 DEF Past, Phase
    <2>6. "write" \notin ToSet(t.phases) =>
             "write" \notin ToSet(transfer.phases) \/ (Phase = "write" /\ left = <<>>)
      BY <1>3, <1>5, <2>3
    <2>7. ToSet(t.todo) \subseteq ToSet(Todo(Head(t.phases))) /\ t.todo # <<>>
      BY <2>2, <2>3
    <2> QED
      BY <1>5, <2>3, <2>4, <2>5, <2>6, <2>7 DEF MovesOn, t
  <1> QED
    BY <1>4, <1>5

LEMMA OneSet ==
  ASSUME BackupTypes, NEW s \in DOMAIN sets, NEW row \in SetType, NEW W,
         W = [sets EXCEPT ![s] = row]
  PROVE  /\ W \in Seq(SetType) /\ DOMAIN W = DOMAIN sets /\ W[s] = row
         /\ \A r \in DOMAIN sets : r # s => W[r] = sets[r]
  BY DEF BackupTypes

LEMMA NewSet ==
  ASSUME BackupTypes, NEW row \in SetType, NEW W, W = Append(sets, row)
  PROVE  /\ W \in Seq(SetType) /\ DOMAIN W = DOMAIN sets \cup {Len(sets) + 1}
         /\ Len(sets) + 1 \notin DOMAIN sets /\ Len(sets) \in Nat
         /\ W[Len(sets) + 1] = row /\ \A r \in DOMAIN sets : W[r] = sets[r]
  <1>1. sets \in Seq(SetType) /\ Len(sets) \in Nat /\ DOMAIN sets = 1..Len(sets)
    BY DEF BackupTypes
  <1>2. W \in Seq(SetType) /\ Len(W) = Len(sets) + 1 /\ DOMAIN W = 1..(Len(sets) + 1)
    BY <1>1
  <1>3. W[Len(sets) + 1] = row /\ \A r \in DOMAIN sets : W[r] = sets[r]
    BY <1>1
  <1> QED
    BY <1>1, <1>2, <1>3

LEMMA WrittenField ==
  ASSUME NEW a, NEW b, NEW x, NEW y, NEW z, NEW i
  PROVE  [[remote |-> a, data |-> b, files |-> x, written |-> y, index |-> i] EXCEPT !.written = z]
            = [remote |-> a, data |-> b, files |-> x, written |-> z, index |-> i]
  OBVIOUS

LEMMA WrittenIs ==
  ASSUME BackupTypes, NEW s \in DOMAIN sets, NEW f \in Files, NEW c \in Contents, NEW W,
         W = Written(s, f, c)
  PROVE  /\ W \in Seq(SetType) /\ DOMAIN W = DOMAIN sets
         /\ \A r \in DOMAIN sets : r # s => W[r] = sets[r]
         /\ W[s] \in SetType /\ W[s].remote = sets[s].remote /\ W[s].data = sets[s].data
         /\ W[s].index = sets[s].index
         /\ W[s].files = [sets[s].files EXCEPT ![f] = c]
         /\ W[s].written = [sets[s].written EXCEPT ![f] = c]
  <1> DEFINE x == [sets[s].files EXCEPT ![f] = c]
             y == [sets[s].written EXCEPT ![f] = c]
             row == [remote |-> sets[s].remote, data |-> sets[s].data,
                     files |-> x, written |-> y, index |-> sets[s].index]
  <1>1. sets \in Seq(SetType) /\ sets[s] \in SetType
    BY DEF BackupTypes
  <1>2. /\ [sets[s].files EXCEPT ![f] = c] \in FilesType
        /\ [sets[s].written EXCEPT ![f] = c] \in FilesType
    BY <1>1 DEF SetType, FilesType
  <1>3. row \in SetType
    BY <1>1, <1>2 DEF SetType
  <1>4. W = [sets EXCEPT ![s] = row]
    <2> DEFINE A == [sets EXCEPT ![s].files[f] = c]
               half == [remote |-> sets[s].remote, data |-> sets[s].data,
                        files |-> x, written |-> sets[s].written, index |-> sets[s].index]
    <2>1. half \in SetType
      BY <1>1, <1>2 DEF SetType
    <2>2. A = [sets EXCEPT ![s] = half]
      <3> DEFINE old == sets[s]
                 touched == [old EXCEPT !.files = x]
      <3>1. A = [sets EXCEPT ![s] = touched]
        OBVIOUS
      <3> HIDE DEF x
      <3>2. old \in SetType
        BY <1>1
      <3> HIDE DEF old
      <3>3. touched = [remote |-> old.remote, data |-> old.data, files |-> x,
                       written |-> old.written, index |-> old.index]
        BY <3>2 DEF SetType
      <3> QED
        BY <3>1, <3>3 DEF old, x
    <2>3. W = [A EXCEPT ![s].written[f] = c]
      BY DEF Written
    <2>4. half.written = sets[s].written
      OBVIOUS
    <2>5. [half EXCEPT !.written = y] = row
      <3> HIDE DEF x, y
      <3> QED
        BY WrittenField
    <2>6. [half EXCEPT !.written = [half.written EXCEPT ![f] = c]] = row
      <3> HIDE DEF half, row
      <3> QED
        BY <2>4, <2>5, Zenon
    <2> HIDE DEF A, half, row
    <2>7. A \in Seq(SetType) /\ DOMAIN A = DOMAIN sets /\ A[s] = half
      BY <2>1, <2>2, OneSet
    <2>8. W = [A EXCEPT ![s] = row]
      BY <2>3, <2>6, <2>7
    <2> QED
      BY <2>2, <2>8
  <1> HIDE DEF row
  <1>5. /\ W \in Seq(SetType) /\ DOMAIN W = DOMAIN sets /\ W[s] = row
        /\ \A r \in DOMAIN sets : r # s => W[r] = sets[r]
    BY <1>3, <1>4, OneSet
  <1> QED
    BY <1>3, <1>5 DEF row

\* Sets with a marker are not the one under way.
LEMMA CaptureKeeps ==
  ASSUME BackupInv, capture.at # "idle",
         sets' \in Seq(SetType), DOMAIN sets' = DOMAIN sets,
         \A r \in DOMAIN sets : r # capture.set => sets'[r] = sets[r],
         SetOK(sets'[capture.set]), CaptureOK',
         capture' \in [at: {"idle", "dump", "journals", "commit", "manifest", "mark"}, set: Nat],
         locked' \in BOOLEAN, UNCHANGED <<source, transfer, verified, pointer>>
  PROVE  BackupInv'
  <1>1. /\ transfer = NoTransfer /\ capture.set \in DOMAIN sets \ verified
        /\ ~sets[capture.set].remote /\ verified \subseteq DOMAIN sets
    BY DEF BackupInv, CaptureOK, BackupTypes
  <1>2. BackupTypes'
    BY DEF BackupInv, BackupTypes
  <1>3. \A s \in DOMAIN sets' : SetOK(sets'[s])
    BY DEF BackupInv
  <1>4. TransferOK'
    BY <1>1 DEF TransferOK, NoTransfer
  <1>5. VerifiedOK'
    BY <1>1 DEF BackupInv, VerifiedOK
  <1>6. PointerOK'
    BY <1>1 DEF BackupInv, PointerOK
  <1> QED
    BY <1>2, <1>3, <1>4, <1>5, <1>6 DEF BackupInv

LEMMA EmptyIs ==
  /\ EmptySet \in SetType /\ SetOK(EmptySet) /\ ~Marked(EmptySet) /\ ~EmptySet.remote
  /\ NoFiles \in FilesType
  <1>1. NoFiles \in FilesType /\ \A f \in Files : NoFiles[f] = "none"
    BY DEF NoFiles, FilesType, Contents
  <1>2. NoData \in DataType
    BY DEF NoData, DataType
  <1>3. "complete" \in Files
    BY DEF Files
  <1> QED
    BY <1>1, <1>2, <1>3 DEF EmptySet, SetType, SetOK, Marked

LEMMA NoTransferIs == NoTransfer \in TransferType
  <1>1. <<>> \in Seq(PhaseNames) /\ <<>> \in Seq(Files)
    OBVIOUS
  <1> QED
    BY <1>1, EmptyIs DEF NoTransfer, TransferType

LEMMA BackupsBegin == BackupInit => BackupInv
  <1> SUFFICES ASSUME BackupInit PROVE BackupInv
    OBVIOUS
  <1>1. sets = <<>> /\ sets \in Seq(SetType) /\ DOMAIN sets = {}
    BY DEF BackupInit
  <1>2. source \in DataType /\ Ordered(source)
    BY DEF BackupInit, NoData, DataType, Ordered
  <1>3. BackupTypes
    BY <1>1, <1>2, NoTransferIs DEF BackupInit, BackupTypes, NoCapture
  <1>4. CaptureOK
    BY DEF BackupInit, CaptureOK, NoCapture
  <1> QED
    BY <1>1, <1>2, <1>3, <1>4 DEF BackupInit, BackupInv, TransferOK, VerifiedOK, PointerOK

LEMMA WriteSourceKeeps == ASSUME BackupInv, WriteSource PROVE BackupInv'
  <1>1. UNCHANGED <<locked, sets, capture, transfer, verified, pointer>>
    BY DEF WriteSource
  <1>2. /\ source \in DataType /\ Ordered(source)
        /\ locked <=> capture.at \in {"dump", "journals", "commit"}
    BY DEF BackupInv, BackupTypes, CaptureOK
  <1>3. /\ source' \in DataType /\ Ordered(source')
        /\ locked => source'.batched = source.batched /\ source'.attached = source.attached
    <2>1. CASE CommitBatch
      <3>1. ~locked /\ source' = [source EXCEPT !.batched = @ + 1]
        BY <2>1 DEF CommitBatch
      <3> QED
        BY <1>2, <3>1 DEF DataType, Ordered
    <2>2. CASE SignBatch
      <3>1. source.signed < source.batched /\ source' = [source EXCEPT !.signed = @ + 1]
        BY <2>2 DEF SignBatch
      <3> QED
        BY <1>2, <3>1 DEF DataType, Ordered
    <2>3. CASE AttachHash
      <3>1. source.attached < source.signed /\ ~locked /\ source' = [source EXCEPT !.attached = @ + 1]
        BY <2>3 DEF AttachHash
      <3> QED
        BY <1>2, <3>1 DEF DataType, Ordered
    <2> QED
      BY <2>1, <2>2, <2>3 DEF WriteSource
  <1>4. BackupTypes'
    BY <1>1, <1>3 DEF BackupInv, BackupTypes
  <1>5. CaptureOK'
    BY <1>1, <1>2, <1>3 DEF BackupInv, CaptureOK
  <1>6. TransferOK' /\ VerifiedOK' /\ PointerOK' /\ \A s \in DOMAIN sets' : SetOK(sets'[s])
    BY <1>1 DEF BackupInv, TransferOK, VerifiedOK, PointerOK
  <1> QED
    BY <1>3, <1>4, <1>5, <1>6 DEF BackupInv

LEMMA DataIs ==
  ASSUME NEW W \in Seq(SetType), NEW s \in DOMAIN W, NEW d \in DataType, NEW V,
         V = [W EXCEPT ![s].data = d]
  PROVE  /\ V \in Seq(SetType) /\ DOMAIN V = DOMAIN W /\ \A r \in DOMAIN W : r # s => V[r] = W[r]
         /\ V[s].remote = W[s].remote /\ V[s].data = d /\ V[s].files = W[s].files
         /\ V[s].written = W[s].written /\ V[s].index = W[s].index
  <1> DEFINE row == [remote |-> W[s].remote, data |-> d, files |-> W[s].files,
                     written |-> W[s].written, index |-> W[s].index]
             old == W[s]
             touched == [old EXCEPT !.data = d]
  <1>1. W[s] \in SetType
    OBVIOUS
  <1>2. row \in SetType
    BY <1>1 DEF SetType
  <1>3. V = [W EXCEPT ![s] = touched]
    OBVIOUS
  <1> HIDE DEF old
  <1>4. touched = [remote |-> old.remote, data |-> d, files |-> old.files,
                   written |-> old.written, index |-> old.index]
    BY SMTT(20), <1>1 DEF SetType, old
  <1>5. touched = row
    BY <1>4 DEF old
  <1> HIDE DEF row, touched
  <1>6. /\ V \in Seq(SetType) /\ DOMAIN V = DOMAIN W /\ V[s] = row
        /\ \A r \in DOMAIN W : r # s => V[r] = W[r]
    BY <1>2, <1>3, <1>5
  <1> QED
    BY <1>6 DEF row

LEMMA StartCaptureKeeps == ASSUME BackupInv, StartCapture PROVE BackupInv'
  <1> DEFINE c == Len(sets) + 1
  <1>1. /\ capture.at = "idle" /\ transfer = NoTransfer
        /\ locked' = TRUE /\ sets' = Append(sets, EmptySet)
        /\ capture' = [at |-> "dump", set |-> c]
        /\ UNCHANGED <<source, transfer, verified, pointer, damage>>
    BY DEF StartCapture
  <1>2. BackupTypes /\ verified \subseteq DOMAIN sets
    BY DEF BackupInv, BackupTypes
  <1>3. /\ sets' \in Seq(SetType) /\ DOMAIN sets' = DOMAIN sets \cup {c}
        /\ c \notin DOMAIN sets /\ c \in Nat
        /\ sets'[c] = EmptySet /\ \A r \in DOMAIN sets : sets'[r] = sets[r]
    <2>1. EmptySet \in SetType /\ sets' = Append(sets, EmptySet) /\ BackupTypes
      BY <1>1, <1>2, EmptyIs
    <2> DEFINE W == sets'
    <2>2. W = Append(sets, EmptySet)
      BY <2>1
    <2> HIDE DEF W
    <2>3. /\ W \in Seq(SetType) /\ DOMAIN W = DOMAIN sets \cup {Len(sets) + 1}
          /\ Len(sets) + 1 \notin DOMAIN sets /\ Len(sets) \in Nat
          /\ W[Len(sets) + 1] = EmptySet /\ \A r \in DOMAIN sets : W[r] = sets[r]
      BY ZenonT(30), <2>1, <2>2, NewSet
    <2> QED
      BY <2>3 DEF W
  <1>4. BackupTypes'
    BY <1>1, <1>2, <1>3 DEF BackupTypes
  <1>5. \A s \in DOMAIN sets' : SetOK(sets'[s])
    BY <1>3, EmptyIs DEF BackupInv
  <1>6. CaptureOK'
    BY <1>1, <1>2, <1>3, EmptyIs DEF CaptureOK
  <1>7. TransferOK'
    BY <1>1 DEF TransferOK, NoTransfer
  <1>8. VerifiedOK' /\ PointerOK'
    BY <1>1, <1>2, <1>3 DEF BackupInv, VerifiedOK, PointerOK
  <1>9. Ordered(source')
    BY <1>1 DEF BackupInv
  <1> QED
    BY <1>4, <1>5, <1>6, <1>7, <1>8, <1>9 DEF BackupInv

\* A file written whole to a set that has no marker.
LEMMA WholeFile ==
  ASSUME BackupInv, NEW s \in DOMAIN sets, ~Marked(sets[s]),
         NEW f \in Files \ {"complete"}, NEW W, W = Written(s, f, "whole")
  PROVE  /\ W \in Seq(SetType) /\ DOMAIN W = DOMAIN sets
         /\ \A r \in DOMAIN sets : r # s => W[r] = sets[r]
         /\ W[s].remote = sets[s].remote /\ W[s].data = sets[s].data
         /\ ~Marked(W[s]) /\ SetOK(W[s]) /\ W[s].files[f] = "whole"
         /\ \A g \in Files : g # f => W[s].files[g] = sets[s].files[g]
  <1>1. BackupTypes /\ SetOK(sets[s]) /\ "whole" \in Contents
    BY DEF BackupInv, Contents
  <1>2. /\ W \in Seq(SetType) /\ DOMAIN W = DOMAIN sets
        /\ \A r \in DOMAIN sets : r # s => W[r] = sets[r]
        /\ W[s].remote = sets[s].remote /\ W[s].data = sets[s].data
        /\ W[s].files = [sets[s].files EXCEPT ![f] = "whole"]
        /\ W[s].written = [sets[s].written EXCEPT ![f] = "whole"]
    BY <1>1, WrittenIs
  <1>3. sets[s].files \in FilesType /\ sets[s].written \in FilesType
    <2>1. sets[s] \in SetType
      BY <1>1 DEF BackupTypes
    <2> QED
      BY <2>1 DEF SetType
  <1>4. /\ W[s].files[f] = "whole" /\ W[s].written[f] = "whole"
        /\ \A g \in Files : g # f =>
              W[s].files[g] = sets[s].files[g] /\ W[s].written[g] = sets[s].written[g]
    BY <1>2, <1>3 DEF FilesType
  <1>5. ~Marked(W[s])
    BY <1>4 DEF Marked, Files
  <1> QED
    BY <1>1, <1>2, <1>4, <1>5 DEF SetOK

LEMMA DumpKeeps == ASSUME BackupInv, Dump PROVE BackupInv'
  <1> DEFINE c == capture.set
             W == Written(c, "postgres", "whole")
             half == [sets[c].data EXCEPT !.batched = source.batched]
             data == [half EXCEPT !.attached = source.attached]
  <1>1. /\ capture.at = "dump"
        /\ sets' = [W EXCEPT ![c].data.batched = source.batched,
                             ![c].data.attached = source.attached]
        /\ capture' = [capture EXCEPT !.at = "journals"]
        /\ UNCHANGED <<source, locked, transfer, verified, pointer, damage>>
    BY DEF Dump
  <1>2. /\ BackupTypes /\ c \in DOMAIN sets \ verified /\ transfer = NoTransfer
        /\ ~sets[c].remote /\ ~Marked(sets[c]) /\ locked = TRUE
        /\ capture \in [at: {"idle", "dump", "journals", "commit", "manifest", "mark"}, set: Nat]
    BY <1>1 DEF BackupInv, CaptureOK, BackupTypes
  <1>3. "postgres" \in Files \ {"complete"}
    BY DEF Files
  <1>4. /\ W \in Seq(SetType) /\ DOMAIN W = DOMAIN sets
        /\ \A r \in DOMAIN sets : r # c => W[r] = sets[r]
        /\ W[c].remote = sets[c].remote /\ W[c].data = sets[c].data
        /\ ~Marked(W[c]) /\ SetOK(W[c]) /\ W[c].files["postgres"] = "whole"
    BY <1>2, <1>3, WholeFile
  <1>5. sets[c].data \in DataType /\ source \in DataType
    <2>1. sets[c] \in SetType /\ source \in DataType
      BY <1>2 DEF BackupTypes
    <2> QED
      BY <2>1 DEF SetType
  <1>6. data \in DataType /\ data.batched = source.batched /\ data.attached = source.attached
    BY <1>5 DEF DataType
  <1> HIDE DEF W
  <1>7. sets' = [W EXCEPT ![c].data = data]
    <2> DEFINE V == [W EXCEPT ![c].data.batched = source.batched]
    <2>1. V = [W EXCEPT ![c].data = half]
      BY <1>4
    <2>2. half \in DataType
      BY <1>5 DEF DataType
    <2>3. sets' = [V EXCEPT ![c].data.attached = source.attached]
      BY <1>1
    <2> HIDE DEF V, half
    <2>4. V \in Seq(SetType) /\ DOMAIN V = DOMAIN W /\ V[c].data = half
      BY SMTT(20), <1>2, <1>4, <2>1, <2>2, DataIs
    <2>5. sets' = [V EXCEPT ![c].data = data]
      BY <2>3, <2>4
    <2> HIDE DEF data
    <2>6. [V EXCEPT ![c].data = data] = [W EXCEPT ![c].data = data]
      BY <2>1, <1>4, <1>2
    <2> QED
      BY <2>5, <2>6
  <1> HIDE DEF data
  <1>8. /\ sets' \in Seq(SetType) /\ DOMAIN sets' = DOMAIN W
        /\ \A r \in DOMAIN W : r # c => sets'[r] = W[r]
        /\ sets'[c].remote = W[c].remote /\ sets'[c].data = data
        /\ sets'[c].files = W[c].files /\ sets'[c].written = W[c].written
    <2>1. W \in Seq(SetType) /\ c \in DOMAIN W /\ data \in DataType
      BY <1>2, <1>4, <1>6
    <2> QED
      BY <1>7, <2>1, DataIs
  <1>9. SetOK(sets'[c]) /\ ~Marked(sets'[c])
    BY <1>4, <1>8 DEF SetOK, Marked
  <1>10. /\ capture'.at = "journals" /\ capture'.set = c
         /\ capture' \in [at: {"idle", "dump", "journals", "commit", "manifest", "mark"}, set: Nat]
    BY <1>1, <1>2
  <1>11. CaptureOK'
    BY <1>1, <1>2, <1>4, <1>6, <1>8, <1>9, <1>10 DEF CaptureOK
  <1> QED
    BY <1>1, <1>2, <1>4, <1>8, <1>9, <1>10, <1>11, CaptureKeeps

LEMMA SnapshotKeeps == ASSUME BackupInv, SnapshotJournal PROVE BackupInv'
  <1> DEFINE c == capture.set
             W == Written(c, "journals", "whole")
             data == [sets[c].data EXCEPT !.signed = source.signed]
  <1>1. /\ capture.at = "journals"
        /\ sets' = [W EXCEPT ![c].data.signed = source.signed]
        /\ capture' = [capture EXCEPT !.at = "commit"]
        /\ UNCHANGED <<source, locked, transfer, verified, pointer, damage>>
    BY DEF SnapshotJournal
  <1>2. /\ BackupTypes /\ c \in DOMAIN sets \ verified /\ transfer = NoTransfer
        /\ ~sets[c].remote /\ ~Marked(sets[c]) /\ locked = TRUE
        /\ sets[c].files["postgres"] # "none"
        /\ sets[c].data.batched = source.batched /\ sets[c].data.attached = source.attached
        /\ capture \in [at: {"idle", "dump", "journals", "commit", "manifest", "mark"}, set: Nat]
    BY <1>1 DEF BackupInv, CaptureOK, BackupTypes
  <1>3. {"postgres", "journals"} \subseteq Files \ {"complete"}
    BY DEF Files
  <1>4. /\ W \in Seq(SetType) /\ DOMAIN W = DOMAIN sets
        /\ \A r \in DOMAIN sets : r # c => W[r] = sets[r]
        /\ W[c].remote = sets[c].remote /\ W[c].data = sets[c].data
        /\ ~Marked(W[c]) /\ SetOK(W[c]) /\ W[c].files["journals"] = "whole"
        /\ W[c].files["postgres"] # "none"
    BY <1>2, <1>3, WholeFile
  <1>5. sets[c].data \in DataType /\ source \in DataType /\ Ordered(source)
    <2>1. sets[c] \in SetType /\ source \in DataType /\ Ordered(source)
      BY <1>2 DEF BackupTypes, BackupInv
    <2> QED
      BY <2>1 DEF SetType
  <1>6. data \in DataType /\ Ordered(data)
    <2>1. data \in DataType /\ data.signed = source.signed
          /\ data.batched = sets[c].data.batched /\ data.attached = sets[c].data.attached
      BY <1>5 DEF DataType
    <2> QED
      BY <1>2, <1>5, <2>1 DEF Ordered
  <1>7. W \in Seq(SetType) /\ c \in DOMAIN W /\ data \in DataType
    BY <1>2, <1>4, <1>6
  <1> HIDE DEF W
  <1>8. sets' = [W EXCEPT ![c].data = data]
    BY <1>1, <1>4, <1>7
  <1> HIDE DEF data
  <1>9. /\ sets' \in Seq(SetType) /\ DOMAIN sets' = DOMAIN W
        /\ \A r \in DOMAIN W : r # c => sets'[r] = W[r]
        /\ sets'[c].remote = W[c].remote /\ sets'[c].data = data
        /\ sets'[c].files = W[c].files /\ sets'[c].written = W[c].written
    BY <1>7, <1>8, DataIs
  <1>10. SetOK(sets'[c]) /\ ~Marked(sets'[c])
    BY <1>4, <1>9 DEF SetOK, Marked
  <1>11. /\ capture'.at = "commit" /\ capture'.set = c
         /\ capture' \in [at: {"idle", "dump", "journals", "commit", "manifest", "mark"}, set: Nat]
    BY <1>1, <1>2
  <1>12. CaptureOK'
    BY <1>1, <1>2, <1>4, <1>6, <1>9, <1>10, <1>11 DEF CaptureOK
  <1> QED
    BY <1>1, <1>2, <1>4, <1>9, <1>10, <1>11, <1>12, CaptureKeeps

LEMMA ReleaseKeeps == ASSUME BackupInv, ReleaseTables PROVE BackupInv'
  <1>1. /\ capture.at = "commit" /\ locked' = FALSE
        /\ capture' = [capture EXCEPT !.at = "manifest"]
        /\ UNCHANGED <<source, sets, transfer, verified, pointer, damage>>
    BY DEF ReleaseTables
  <1>2. /\ BackupTypes /\ CaptureOK /\ capture.set \in DOMAIN sets
        /\ SetOK(sets[capture.set])
        /\ capture \in [at: {"idle", "dump", "journals", "commit", "manifest", "mark"}, set: Nat]
    BY <1>1 DEF BackupInv, CaptureOK, BackupTypes
  <1>3. /\ capture'.at = "manifest" /\ capture'.set = capture.set
        /\ capture' \in [at: {"idle", "dump", "journals", "commit", "manifest", "mark"}, set: Nat]
    BY <1>1, <1>2
  <1>4. CaptureOK'
    BY <1>1, <1>2, <1>3 DEF CaptureOK
  <1>5. sets' \in Seq(SetType)
    BY <1>1, <1>2 DEF BackupTypes
  <1> QED
    BY <1>1, <1>2, <1>3, <1>4, <1>5, CaptureKeeps

LEMMA FinishCaptureKeeps == ASSUME BackupInv, FinishCapture PROVE BackupInv'
  <1> DEFINE c == capture.set
  <1>1. /\ capture.at \in {"manifest", "mark"}
        /\ UNCHANGED <<source, locked, transfer, verified, pointer, damage>>
    BY DEF FinishCapture
  <1>2. /\ BackupTypes /\ c \in DOMAIN sets \ verified /\ transfer = NoTransfer
        /\ ~sets[c].remote /\ ~Marked(sets[c]) /\ locked = FALSE
        /\ sets[c].files["postgres"] # "none" /\ sets[c].files["journals"] # "none"
        /\ Ordered(sets[c].data)
        /\ capture \in [at: {"idle", "dump", "journals", "commit", "manifest", "mark"}, set: Nat]
    BY <1>1 DEF BackupInv, CaptureOK, BackupTypes
  <1>3. {"postgres", "journals", "manifest"} = Files \ {"complete"} /\ "complete" \in Files
    BY DEF Files
  <1>4. CASE capture.at = "manifest"
    <2> DEFINE W == sets'
    <2>1. W = Written(c, "manifest", "whole") /\ capture' = [capture EXCEPT !.at = "mark"]
      BY <1>4 DEF FinishCapture
    <2> HIDE DEF W
    <2>2. /\ W \in Seq(SetType) /\ DOMAIN W = DOMAIN sets
          /\ \A r \in DOMAIN sets : r # c => W[r] = sets[r]
          /\ W[c].remote = sets[c].remote /\ W[c].data = sets[c].data
          /\ ~Marked(W[c]) /\ SetOK(W[c]) /\ W[c].files["manifest"] = "whole"
          /\ W[c].files["postgres"] # "none" /\ W[c].files["journals"] # "none"
      BY <1>2, <1>3, <2>1, WholeFile
    <2>3. /\ capture'.at = "mark" /\ capture'.set = c
          /\ capture' \in [at: {"idle", "dump", "journals", "commit", "manifest", "mark"}, set: Nat]
      BY <1>2, <2>1
    <2>4. CaptureOK'
      BY <1>1, <1>2, <2>2, <2>3 DEF CaptureOK, W
    <2> QED
      BY <1>1, <1>2, <2>2, <2>3, <2>4, CaptureKeeps DEF W
  <1>5. CASE capture.at = "mark"
    <2> DEFINE W == sets'
    <2>1. W = Written(c, "complete", "whole") /\ capture' = NoCapture
      BY <1>5 DEF FinishCapture
    <2> HIDE DEF W
    <2>2. sets[c].files["manifest"] # "none" /\ SetOK(sets[c])
      BY <1>2, <1>5 DEF BackupInv, CaptureOK
    <2>3. "whole" \in Contents
      BY DEF Contents
    <2>4. /\ W \in Seq(SetType) /\ DOMAIN W = DOMAIN sets
          /\ \A r \in DOMAIN sets : r # c => W[r] = sets[r]
          /\ W[c].remote = sets[c].remote /\ W[c].data = sets[c].data
          /\ W[c].files = [sets[c].files EXCEPT !["complete"] = "whole"]
          /\ W[c].written = [sets[c].written EXCEPT !["complete"] = "whole"]
      BY <1>2, <1>3, <2>1, <2>3, WrittenIs
    <2>5. sets[c].files \in FilesType /\ sets[c].written \in FilesType
      <3>1. sets[c] \in SetType
        BY <1>2 DEF BackupTypes
      <3> QED
        BY <3>1 DEF SetType
    <2>6. /\ W[c].files["complete"] = "whole" /\ W[c].written["complete"] = "whole"
          /\ \A g \in Files \ {"complete"} :
                W[c].files[g] = sets[c].files[g] /\ W[c].written[g] = sets[c].written[g]
      BY <1>3, <2>4, <2>5 DEF FilesType
    <2>7. SetOK(W[c])
      BY <1>2, <1>3, <2>2, <2>4, <2>6 DEF SetOK
    <2>8. capture'.at = "idle"
          /\ capture' \in [at: {"idle", "dump", "journals", "commit", "manifest", "mark"}, set: Nat]
      BY <2>1 DEF NoCapture
    <2>9. CaptureOK'
      BY <1>1, <1>2, <2>8 DEF CaptureOK
    <2> QED
      BY <1>1, <1>2, <2>4, <2>7, <2>8, <2>9, CaptureKeeps DEF W
  <1> QED
    BY <1>1, <1>4, <1>5

LEMMA EndCaptureKeeps == ASSUME BackupInv, EndCapture PROVE BackupInv'
  <1> DEFINE c == capture.set
  <1>1. /\ capture.at # "idle" /\ capture' = NoCapture /\ locked' = FALSE
        /\ UNCHANGED <<source, transfer, verified, pointer, damage>>
    BY DEF EndCapture
  <1>2. BackupTypes /\ c \in DOMAIN sets /\ sets \in Seq(SetType)
    BY <1>1 DEF BackupInv, CaptureOK, BackupTypes
  <1>3. /\ sets' \in Seq(SetType) /\ DOMAIN sets' = DOMAIN sets
        /\ \A r \in DOMAIN sets : r # c => sets'[r] = sets[r]
        /\ SetOK(sets'[c])
    <2>1. CASE sets' = sets
      BY <1>2, <2>1 DEF BackupInv
    <2>2. CASE sets' = [sets EXCEPT ![c] = EmptySet]
      BY <1>2, <2>2, EmptyIs, OneSet
    <2> QED
      BY <2>1, <2>2 DEF EndCapture
  <1>4. capture'.at = "idle"
        /\ capture' \in [at: {"idle", "dump", "journals", "commit", "manifest", "mark"}, set: Nat]
    BY <1>1 DEF NoCapture
  <1>5. CaptureOK'
    BY <1>1, <1>4 DEF CaptureOK
  <1> QED
    BY <1>1, <1>2, <1>3, <1>4, <1>5, CaptureKeeps

LEMMA Tuples ==
  ASSUME NEW S, NEW a \in S, NEW b \in S, NEW c \in S, NEW d \in S, NEW e \in S,
         NEW f \in S, NEW g \in S
  PROVE  /\ <<a, b, c, d, e>> \in Seq(S) /\ <<a, b, c, d, e>> # <<>>
         /\ <<a, b, c, d, e, f>> \in Seq(S) /\ <<a, b, c, d, e, f>> # <<>>
         /\ <<a, b, c, d, e, f, g>> \in Seq(S) /\ <<a, b, c, d, e, f, g>> # <<>>
  OBVIOUS

LEMMA PhasesOfCopy ==
  LET p == Phases("copy") IN
     /\ p \in Seq(PhaseNames) /\ p # <<>> /\ InOrder("copy", p)
     /\ {"write", "mark", "inspectCopy"} \subseteq ToSet(p)
  <1> DEFINE p == Phases("copy")
  <1>1. p = <<"inspect", "inventory", "write", "mark", "inspectCopy", "compareSource", "compareCopy">>
    BY DEF Phases
  <1>2. p \in Seq(PhaseNames) /\ p # <<>>
    <2>1. /\ "inspect" \in PhaseNames /\ "inventory" \in PhaseNames /\ "index" \in PhaseNames
          /\ "write" \in PhaseNames /\ "mark" \in PhaseNames /\ "inspectCopy" \in PhaseNames
          /\ "compareSource" \in PhaseNames /\ "compareCopy" \in PhaseNames
      BY DEF PhaseNames
    <2> HIDE DEF p
    <2> QED
      BY <1>1, <2>1, Tuples
  <1>3. /\ DOMAIN p = 1..7
        /\ p[1] = "inspect" /\ p[2] = "inventory" /\ p[3] = "write" /\ p[4] = "mark"
        /\ p[5] = "inspectCopy" /\ p[6] = "compareSource" /\ p[7] = "compareCopy"
    BY <1>1
  <1> HIDE DEF p
  <1>4. InOrder("copy", p)
    BY <1>3 DEF InOrder
  <1>5. {"write", "mark", "inspectCopy"} \subseteq ToSet(p)
    BY <1>3 DEF ToSet
  <1> QED
    BY <1>2, <1>4, <1>5 DEF p

LEMMA PhasesOfRotation ==
  LET p == Phases("rotate") IN
     /\ p \in Seq(PhaseNames) /\ p # <<>> /\ InOrder("rotate", p)
     /\ {"write", "mark", "inspectCopy"} \subseteq ToSet(p)
  <1> DEFINE p == Phases("rotate")
  <1>1. p = <<"inspect", "inventory", "write", "mark", "inspectCopy", "compareSource">>
    BY DEF Phases
  <1>2. p \in Seq(PhaseNames) /\ p # <<>>
    <2>1. /\ "inspect" \in PhaseNames /\ "inventory" \in PhaseNames /\ "index" \in PhaseNames
          /\ "write" \in PhaseNames /\ "mark" \in PhaseNames /\ "inspectCopy" \in PhaseNames
          /\ "compareSource" \in PhaseNames /\ "compareCopy" \in PhaseNames
      BY DEF PhaseNames
    <2> HIDE DEF p
    <2> QED
      BY <1>1, <2>1, Tuples
  <1>3. /\ DOMAIN p = 1..6
        /\ p[1] = "inspect" /\ p[2] = "inventory" /\ p[3] = "write" /\ p[4] = "mark"
        /\ p[5] = "inspectCopy" /\ p[6] = "compareSource"
    BY <1>1
  <1> HIDE DEF p
  <1>4. InOrder("rotate", p)
    BY <1>3 DEF InOrder
  <1>5. {"write", "mark", "inspectCopy"} \subseteq ToSet(p)
    BY <1>3 DEF ToSet
  <1> QED
    BY <1>2, <1>4, <1>5 DEF p

LEMMA PhasesOfUpload ==
  LET p == Phases("upload") IN
     /\ p \in Seq(PhaseNames) /\ p # <<>> /\ InOrder("upload", p)
     /\ {"write", "mark", "inventory"} \subseteq ToSet(p)
  <1> DEFINE p == Phases("upload")
  <1>1. p = <<"inspect", "inventory", "write", "compareSource", "mark">>
    BY DEF Phases
  <1>2. p \in Seq(PhaseNames) /\ p # <<>>
    <2>1. /\ "inspect" \in PhaseNames /\ "inventory" \in PhaseNames /\ "index" \in PhaseNames
          /\ "write" \in PhaseNames /\ "mark" \in PhaseNames /\ "inspectCopy" \in PhaseNames
          /\ "compareSource" \in PhaseNames /\ "compareCopy" \in PhaseNames
      BY DEF PhaseNames
    <2> HIDE DEF p
    <2> QED
      BY <1>1, <2>1, Tuples
  <1>3. /\ DOMAIN p = 1..5
        /\ p[1] = "inspect" /\ p[2] = "inventory" /\ p[3] = "write"
        /\ p[4] = "compareSource" /\ p[5] = "mark"
    BY <1>1
  <1> HIDE DEF p
  <1>4. InOrder("upload", p)
    BY <1>3 DEF InOrder
  <1>5. {"write", "mark", "inventory"} \subseteq ToSet(p)
    BY <1>3 DEF ToSet
  <1> QED
    BY <1>2, <1>4, <1>5 DEF p

LEMMA PhasesOfDownload ==
  LET p == Phases("download") IN
     /\ p \in Seq(PhaseNames) /\ p # <<>> /\ InOrder("download", p)
     /\ {"index", "write", "mark", "inspectCopy"} \subseteq ToSet(p)
  <1> DEFINE p == Phases("download")
  <1>1. p = <<"index", "write", "mark", "compareCopy", "inspectCopy">>
    BY DEF Phases
  <1>2. p \in Seq(PhaseNames) /\ p # <<>>
    <2>1. /\ "inspect" \in PhaseNames /\ "inventory" \in PhaseNames /\ "index" \in PhaseNames
          /\ "write" \in PhaseNames /\ "mark" \in PhaseNames /\ "inspectCopy" \in PhaseNames
          /\ "compareSource" \in PhaseNames /\ "compareCopy" \in PhaseNames
      BY DEF PhaseNames
    <2> HIDE DEF p
    <2> QED
      BY <1>1, <2>1, Tuples
  <1>3. /\ DOMAIN p = 1..5
        /\ p[1] = "index" /\ p[2] = "write" /\ p[3] = "mark"
        /\ p[4] = "compareCopy" /\ p[5] = "inspectCopy"
    BY <1>1
  <1> HIDE DEF p
  <1>4. InOrder("download", p)
    BY <1>3 DEF InOrder
  <1>5. {"index", "write", "mark", "inspectCopy"} \subseteq ToSet(p)
    BY <1>3 DEF ToSet
  <1> QED
    BY <1>2, <1>4, <1>5 DEF p

LEMMA PhasesAre ==
  ASSUME NEW kind \in Kind
  PROVE  /\ Phases(kind) \in Seq(PhaseNames) /\ Phases(kind) # <<>>
         /\ InOrder(kind, Phases(kind))
         /\ {"write", "mark"} \subseteq ToSet(Phases(kind))
         /\ kind # "upload" => "inspectCopy" \in ToSet(Phases(kind))
         /\ kind = "upload" => "inventory" \in ToSet(Phases(kind))
         /\ kind = "download" => "index" \in ToSet(Phases(kind))
  BY PhasesOfCopy, PhasesOfRotation, PhasesOfUpload, PhasesOfDownload DEF Kind

\* A transfer under way: what the invariant says of it.
LEMMA UnderWay ==
  ASSUME BackupInv, transfer # NoTransfer
  PROVE  /\ BackupTypes /\ transfer \in TransferType /\ sets \in Seq(SetType)
         /\ capture.at = "idle" /\ locked = FALSE
         /\ transfer.kind \in Kind /\ transfer.phases # <<>> /\ transfer.phases \in Seq(PhaseNames)
         /\ transfer.todo \in Seq(Files) /\ transfer.before \in FilesType
         /\ InOrder(transfer.kind, transfer.phases)
         /\ ToSet(transfer.todo) \subseteq ToSet(Todo(Phase))
         /\ transfer.todo = <<>> => Tail(transfer.phases) = <<>>
         /\ transfer.from \in DOMAIN sets /\ transfer.to \in DOMAIN sets \ verified
         /\ transfer.from # transfer.to
         /\ sets[transfer.from] \in SetType /\ sets[transfer.to] \in SetType
         /\ \A f \in Files : Here(f) # "none" /\ Here(f) \in Contents
         /\ transfer.kind = "download" =>
               \A f \in Files : sets[transfer.from].index[f] # "none"
         /\ sets[transfer.from].index \in FilesType
         /\ sets[transfer.to].remote <=> transfer.kind = "upload"
         /\ Ordered(sets[transfer.to].data) /\ SetOK(sets[transfer.to])
         /\ Achieved(transfer, sets[transfer.to])
         /\ 1 \in DOMAIN transfer.phases /\ transfer.phases[1] = Phase
         /\ Phase \in ToSet(transfer.phases)
  <1>1. /\ BackupTypes /\ transfer \in TransferType /\ sets \in Seq(SetType) /\ CaptureOK
        /\ TransferOK /\ \A s \in DOMAIN sets : SetOK(sets[s])
    BY DEF BackupInv, BackupTypes
  <1>2. /\ transfer.phases \in Seq(PhaseNames) /\ transfer.todo \in Seq(Files)
        /\ transfer.before \in FilesType /\ transfer.phases # <<>>
    BY <1>1 DEF TransferType, TransferOK
  <1>3. /\ 1 \in DOMAIN transfer.phases /\ transfer.phases[1] = Phase
        /\ Phase \in ToSet(transfer.phases)
    BY <1>2, TailIs DEF Phase
  <1>4. /\ transfer.from \in DOMAIN sets /\ SetOK(sets[transfer.from])
        /\ Marked(sets[transfer.from]) /\ (transfer.kind = "download" => sets[transfer.from].remote)
        /\ transfer.to \in DOMAIN sets
    BY <1>1 DEF TransferOK
  <1>5. sets[transfer.from] \in SetType /\ sets[transfer.to] \in SetType
    BY <1>1, <1>4
  <1>6. sets[transfer.from].files \in FilesType /\ sets[transfer.from].index \in FilesType
    BY <1>5 DEF SetType
  <1>7. \A f \in Files : Here(f) # "none" /\ Here(f) \in Contents
    BY <1>4, <1>6 DEF SetOK, Here, FilesType
  <1>8. transfer.kind = "download" => \A f \in Files : sets[transfer.from].index[f] # "none"
    BY <1>4 DEF SetOK
  <1>9. capture.at = "idle" /\ locked = FALSE
    BY <1>1 DEF TransferOK, CaptureOK, BackupTypes
  <1> QED
    BY <1>1, <1>2, <1>3, <1>4, <1>5, <1>6, <1>7, <1>8, <1>9 DEF TransferOK, Phase

\* A step of a transfer writes to its own set only.
LEMMA TransferKeeps ==
  ASSUME BackupInv, transfer # NoTransfer, transfer' \in TransferType,
         sets' \in Seq(SetType), DOMAIN sets' = DOMAIN sets,
         \A r \in DOMAIN sets : r # transfer.to => sets'[r] = sets[r],
         SetOK(sets'[transfer.to]), TransferOK',
         UNCHANGED <<source, locked, capture>>, verified' \subseteq DOMAIN sets,
         verified' = verified \/ (verified' = verified \cup {transfer.to} /\
             \A f \in Files : sets'[transfer.to].written[f] = "whole"),
         \/ pointer' = pointer
         \/ pointer' = transfer.to /\ Marked(sets'[transfer.to]) /\ sets'[transfer.to].remote,
         Marked(sets[transfer.to]) /\ sets[transfer.to].remote =>
             Marked(sets'[transfer.to]) /\ sets'[transfer.to].remote
  PROVE  BackupInv'
  <1>1. /\ BackupTypes /\ transfer.to \in DOMAIN sets \ verified /\ capture.at = "idle"
        /\ locked = FALSE
    BY UnderWay
  <1>2. BackupTypes'
    BY <1>1 DEF BackupTypes
  <1>3. \A s \in DOMAIN sets' : SetOK(sets'[s])
    BY DEF BackupInv
  <1>4. CaptureOK'
    BY <1>1 DEF CaptureOK
  <1>5. VerifiedOK'
    BY <1>1 DEF BackupInv, VerifiedOK, BackupTypes
  <1>6. PointerOK'
    BY <1>1 DEF BackupInv, PointerOK
  <1> QED
    BY <1>2, <1>3, <1>4, <1>5, <1>6 DEF BackupInv

\* Every phase before the marker is behind a transfer that writes or marks.
LEMMA BeforeWriting ==
  ASSUME BackupInv, transfer # NoTransfer, Phase \in {"write", "mark"}
  PROVE  /\ "inventory" \notin ToSet(transfer.phases) /\ "index" \notin ToSet(transfer.phases)
         /\ Phase = "mark" => "write" \notin ToSet(transfer.phases)
         /\ transfer.kind # "upload" => "inspectCopy" \in ToSet(transfer.phases)
  <1> DEFINE p == transfer.phases
  <1>1. /\ InOrder(transfer.kind, p) /\ 1 \in DOMAIN p /\ p[1] = Phase
        /\ p \in Seq(PhaseNames)
    BY UnderWay
  <1>2. \A j \in DOMAIN p : j >= 1
    BY <1>1
  <1> HIDE DEF p
  <1>3. \A j \in DOMAIN p : p[j] \notin {"inventory", "index"} /\ (Phase = "mark" => p[j] # "write")
    BY <1>1, <1>2 DEF InOrder
  <1>4. transfer.kind # "upload" => \E j \in DOMAIN p : p[j] = "inspectCopy"
    BY <1>1, <1>2 DEF InOrder
  <1> QED
    BY <1>3, <1>4 DEF ToSet, p

LEMMA FinishTransferKeeps == ASSUME BackupInv, FinishTransfer PROVE BackupInv'
  <1> DEFINE to == sets[transfer.to]
  <1>1. /\ transfer # NoTransfer /\ transfer.todo = <<>> /\ transfer' = NoTransfer
        /\ UNCHANGED <<source, locked, sets, capture, damage>>
        /\ IF transfer.kind = "upload"
           THEN pointer' \in {pointer, transfer.to} /\ verified' = verified
           ELSE verified' = verified \cup {transfer.to} /\ pointer' = pointer
    BY DEF FinishTransfer
  <1>2. /\ Achieved(transfer, to) /\ transfer.phases \in Seq(PhaseNames)
        /\ transfer.phases # <<>> /\ Tail(transfer.phases) = <<>> /\ transfer.kind \in Kind
        /\ to.remote <=> transfer.kind = "upload"
        /\ sets \in Seq(SetType) /\ BackupTypes /\ SetOK(to) /\ transfer.to \in DOMAIN sets
    BY <1>1, UnderWay
  <1>3. ToSet(transfer.phases) = {Head(transfer.phases)} /\ ToSet(transfer.todo) = {}
    <2>1. ToSet(transfer.phases) = {Head(transfer.phases)}
      BY <1>2, NoTail
    <2> QED
      BY <1>1, <2>1 DEF ToSet
  <1>4. \A phase, f : Past(transfer, phase, f)
    BY <1>3 DEF Past
  <1>5. Marked(to) /\ (transfer.kind # "upload" => \A f \in Files : to.written[f] = "whole")
    BY <1>2, <1>4 DEF Achieved
  <1>6. TransferOK'
    BY <1>1 DEF TransferOK
  <1>7. verified \subseteq DOMAIN sets
    BY <1>2 DEF BackupTypes
  <1>8. transfer' \in TransferType
    BY <1>1, NoTransferIs
  <1>9. verified' = verified \/ (verified' = verified \cup {transfer.to} /\
             \A f \in Files : sets'[transfer.to].written[f] = "whole")
    BY <1>1, <1>5
  <1>10. \/ pointer' = pointer
         \/ pointer' = transfer.to /\ Marked(sets'[transfer.to]) /\ sets'[transfer.to].remote
    BY <1>1, <1>2, <1>5
  <1>11. verified' \subseteq DOMAIN sets
    BY <1>1, <1>2, <1>7
  <1> QED
    BY <1>1, <1>2, <1>6, <1>8, <1>9, <1>10, <1>11, TransferKeeps

LEMMA EndTransferKeeps == ASSUME BackupInv, EndTransfer PROVE BackupInv'
  <1>1. /\ transfer # NoTransfer /\ transfer' = NoTransfer
        /\ UNCHANGED <<source, locked, capture, verified, pointer, damage>>
    BY DEF EndTransfer
  <1>2. /\ sets \in Seq(SetType) /\ BackupTypes /\ SetOK(sets[transfer.to])
        /\ transfer.to \in DOMAIN sets
    BY <1>1, UnderWay
  <1>3. /\ sets' \in Seq(SetType) /\ DOMAIN sets' = DOMAIN sets
        /\ \A r \in DOMAIN sets : r # transfer.to => sets'[r] = sets[r]
        /\ SetOK(sets'[transfer.to])
        /\ sets[transfer.to].remote => sets'[transfer.to] = sets[transfer.to]
    <2>1. CASE sets' = sets
      BY <1>2, <2>1
    <2>2. CASE ~sets[transfer.to].remote /\ sets' = [sets EXCEPT ![transfer.to] = EmptySet]
      BY <1>2, <2>2, EmptyIs, OneSet
    <2> QED
      BY <2>1, <2>2 DEF EndTransfer
  <1>4. TransferOK'
    BY <1>1 DEF TransferOK
  <1>5. verified' \subseteq DOMAIN sets
    BY <1>1, <1>2 DEF BackupTypes
  <1>6. transfer' \in TransferType
    BY <1>1, NoTransferIs
  <1> QED
    BY <1>1, <1>2, <1>3, <1>4, <1>5, <1>6, TransferKeeps

LEMMA CheckKeeps == ASSUME BackupInv, transfer # NoTransfer, NEW f \in Files, Check(f) PROVE BackupInv'
  <1> DEFINE o == Onward
             t == transfer'
             to == sets[transfer.to]
             from == sets[transfer.from]
  <1>1. /\ Turn(f) /\ UNCHANGED <<source, locked, sets, capture, verified, pointer, damage>>
    BY DEF Check
  <1>2. MovesOn(o, f)
    BY <1>1, OnwardMoves
  <1> HIDE DEF o
  <1>3. /\ BackupTypes /\ sets \in Seq(SetType) /\ capture.at = "idle" /\ transfer.to \in DOMAIN sets
        /\ InOrder(transfer.kind, transfer.phases) /\ 1 \in DOMAIN transfer.phases
        /\ transfer.phases[1] = Phase /\ Phase \in ToSet(transfer.phases)
        /\ \A g \in Files : Here(g) # "none" /\ Here(g) \in Contents
        /\ transfer.kind = "download" => \A g \in Files : from.index[g] # "none"
        /\ from.index \in FilesType /\ transfer.before \in FilesType
        /\ SetOK(to) /\ Achieved(transfer, to)
    BY UnderWay
  <1>4. /\ o \in TransferType /\ o.phases # <<>> /\ o.before = transfer.before
        /\ o.kind = transfer.kind /\ o.from = transfer.from /\ o.to = transfer.to
    BY <1>2 DEF MovesOn
  <1>5. Phase \notin {"write", "mark"}
    BY DEF Check
  <1>6. PICK b \in FilesType :
          /\ t = [o EXCEPT !.before = b]
          /\ Phase = "inventory" => b = [transfer.before EXCEPT ![f] = Here(f)]
          /\ Phase = "index" => b = from.index
          /\ Phase \notin {"inventory", "index"} => b = transfer.before
    <2>1. CASE Phase = "inventory"
      <3>1. t = [o EXCEPT !.before[f] = Here(f)]
        BY <2>1 DEF Check, o
      <3>2. [transfer.before EXCEPT ![f] = Here(f)] \in FilesType
        BY <1>3 DEF FilesType
      <3>3. t = [o EXCEPT !.before = [transfer.before EXCEPT ![f] = Here(f)]]
        BY <1>4, <3>1
      <3> QED
        BY <2>1, <3>2, <3>3
    <2>2. CASE Phase = "index"
      <3>1. t = [o EXCEPT !.before = from.index]
        BY <2>2 DEF Check, o
      <3> QED
        BY <1>3, <2>2, <3>1
    <2>3. CASE Phase \notin {"inventory", "index"}
      <3>1. t = o
        BY <2>3 DEF Check, o
      <3>2. o = [o EXCEPT !.before = transfer.before]
        BY <1>4 DEF TransferType
      <3> QED
        BY <1>3, <2>3, <3>1, <3>2
    <2> QED
      BY <2>1, <2>2, <2>3
  <1>7. /\ t \in TransferType /\ t.before = b
        /\ t.kind = transfer.kind /\ t.from = transfer.from /\ t.to = transfer.to
        /\ t.phases = o.phases /\ t.todo = o.todo
    BY <1>4, <1>6 DEF TransferType
  <1> HIDE DEF t
  <1>8. Phase = "inspectCopy" => to.files[f] = "whole"
    BY DEF Check, There
  <1>9. ASSUME NEW phase, NEW g \in ToSet(Todo(phase)), Past(t, phase, g)
        PROVE  Past(transfer, phase, g) \/ (phase = Phase /\ g = f)
    BY <1>2, <1>7, <1>9 DEF MovesOn, Past
  <1>10. Achieved(t, to)
    <2>1. ASSUME t.kind = "upload", NEW g \in Files, Past(t, "inventory", g)
          PROVE  t.before[g] # "none"
      <3>1. Past(transfer, "inventory", g) \/ (Phase = "inventory" /\ g = f)
        BY <1>9, <2>1, TodoFiles
      <3>2. Phase # "index"
        BY <1>3, <1>7, <2>1 DEF InOrder
      <3>3. Past(transfer, "inventory", g) => transfer.before[g] # "none"
        BY <1>3, <1>7, <2>1 DEF Achieved
      <3>4. b[g] = transfer.before[g] \/ b[g] = Here(f)
        BY <1>3, <1>6, <3>2 DEF FilesType
      <3>5. Phase = "inventory" => b[f] = Here(f)
        BY <1>3, <1>6 DEF FilesType
      <3> QED
        BY <1>3, <1>7, <3>1, <3>3, <3>4, <3>5
    <2>2. ASSUME t.kind = "download", Past(t, "index", "complete"), NEW g \in Files
          PROVE  t.before[g] # "none"
      <3>1. Past(transfer, "index", "complete") \/ Phase = "index"
        BY <1>9, <2>2, TodoFiles
      <3>2. Phase = "index" => b[g] # "none"
        BY <1>3, <1>6, <1>7, <2>2
      <3>3. Past(transfer, "index", "complete") => transfer.before[g] # "none"
        BY <1>3, <1>7, <2>2 DEF Achieved
      <3>4. Phase # "index" => b[g] = transfer.before[g] \/ b[g] = Here(f)
        BY <1>3, <1>6 DEF FilesType
      <3> QED
        BY <1>3, <1>7, <3>1, <3>2, <3>3, <3>4
    <2>3. ASSUME NEW g \in Files \ {"complete"}, Past(t, "write", g) PROVE to.files[g] # "none"
      <3>1. Past(transfer, "write", g)
        BY <1>5, <1>9, <2>3, TodoFiles
      <3> QED
        BY <1>3, <3>1 DEF Achieved
    <2>4. ASSUME t.kind = "upload", "write" \notin ToSet(t.phases), NEW g \in Files
          PROVE  to.index[g] # "none"
      <3>1. "write" \notin ToSet(transfer.phases)
        BY <1>2, <1>5, <1>7, <2>4 DEF MovesOn
      <3> QED
        BY <1>3, <1>7, <2>4, <3>1 DEF Achieved
    <2>5. ASSUME Past(t, "mark", "complete") PROVE Marked(to)
      <3>1. Past(transfer, "mark", "complete")
        BY <1>5, <1>9, <2>5, TodoFiles
      <3> QED
        BY <1>3, <3>1 DEF Achieved
    <2>6. ASSUME t.kind # "upload", NEW g \in Files, Past(t, "inspectCopy", g)
          PROVE  to.written[g] = "whole"
      <3>1. Past(transfer, "inspectCopy", g) \/ (Phase = "inspectCopy" /\ g = f)
        BY <1>9, <2>6, TodoFiles
      <3>2. Past(transfer, "inspectCopy", g) => to.written[g] = "whole"
        BY <1>3, <1>7, <2>6 DEF Achieved
      <3>3. to.files[f] = "whole" => to.written[f] = "whole"
        BY <1>3 DEF SetOK
      <3> QED
        BY <1>8, <3>1, <3>2, <3>3
    <2> QED
      BY <2>1, <2>2, <2>3, <2>4, <2>5, <2>6 DEF Achieved
  <1>11. TransferOK'
    BY <1>1, <1>2, <1>7, <1>10, <1>3 DEF BackupInv, TransferOK, MovesOn, t
  <1>12. transfer' \in TransferType /\ verified' \subseteq DOMAIN sets
    BY <1>1, <1>3, <1>7 DEF BackupTypes, t
  <1> QED
    BY <1>1, <1>3, <1>11, <1>12, TransferKeeps

LEMMA WriteFileKeeps ==
  ASSUME BackupInv, transfer # NoTransfer, NEW f \in Files, WriteFile(f) PROVE BackupInv'
  <1> DEFINE t == Onward
             n == transfer.to
             to == sets[n]
             new == sets'[n]
             content == IF transfer.kind = "download" THEN transfer.before[f] ELSE Here(f)
             copied == Written(n, f, content)
             last == transfer.kind = "upload" /\ Phase = "write" /\ Tail(transfer.todo) = <<>>
  <1>1. /\ Turn(f) /\ Phase \in {"write", "mark"} /\ transfer' = t
        /\ sets' = IF last THEN [copied EXCEPT ![n].index = transfer.before] ELSE copied
        /\ UNCHANGED <<source, locked, capture, verified, pointer, damage>>
    BY DEF WriteFile
  <1>2. MovesOn(t, f)
    BY <1>1, OnwardMoves
  <1> HIDE DEF t
  <1>3. /\ BackupTypes /\ sets \in Seq(SetType) /\ n \in DOMAIN sets
        /\ \A g \in Files : Here(g) # "none" /\ Here(g) \in Contents
        /\ transfer.before \in FilesType /\ transfer.todo \in Seq(Files)
        /\ ToSet(transfer.todo) \subseteq ToSet(Todo(Phase)) /\ Phase \in ToSet(transfer.phases)
        /\ SetOK(to) /\ Achieved(transfer, to) /\ to \in SetType /\ Ordered(to.data)
        /\ to.remote <=> transfer.kind = "upload"
        /\ transfer.kind \in Kind
    BY UnderWay
  <1>4. /\ "inventory" \notin ToSet(transfer.phases) /\ "index" \notin ToSet(transfer.phases)
        /\ Phase = "mark" => "write" \notin ToSet(transfer.phases)
        /\ transfer.kind # "upload" => "inspectCopy" \in ToSet(transfer.phases)
    BY <1>1, BeforeWriting
  <1>5. /\ transfer.kind \in {"upload", "download"} => \A g \in Files : transfer.before[g] # "none"
        /\ Phase = "mark" => \A g \in Files \ {"complete"} : to.files[g] # "none"
        /\ Phase = "mark" /\ transfer.kind = "upload" => \A g \in Files : to.index[g] # "none"
    BY <1>3, <1>4 DEF Achieved, Past
  <1>6. content \in Contents /\ content # "none"
    BY <1>3, <1>5 DEF FilesType
  <1> HIDE DEF content
  <1>7. f \in ToSet(Todo(Phase))
    <2>1. f \in ToSet(transfer.todo)
      BY <1>1, <1>3, TailIs DEF Turn
    <2> QED
      BY <1>3, <2>1
  <1>8. (Phase = "mark" => f = "complete") /\ (Phase = "write" => f # "complete")
    BY <1>7, TodoFiles
  <1>9. /\ copied \in Seq(SetType) /\ DOMAIN copied = DOMAIN sets
        /\ \A r \in DOMAIN sets : r # n => copied[r] = sets[r]
        /\ copied[n] \in SetType /\ copied[n].remote = to.remote /\ copied[n].data = to.data
        /\ copied[n].index = to.index
        /\ copied[n].files = [to.files EXCEPT ![f] = content]
        /\ copied[n].written = [to.written EXCEPT ![f] = content]
    <2>1. n \in DOMAIN sets /\ content \in Contents /\ BackupTypes
      BY <1>3, <1>6
    <2> QED
      BY <2>1, WrittenIs
  <1> HIDE DEF copied
  <1>10. /\ sets' \in Seq(SetType) /\ DOMAIN sets' = DOMAIN sets
         /\ \A r \in DOMAIN sets : r # n => sets'[r] = sets[r]
         /\ new.remote = to.remote /\ new.data = to.data
         /\ new.files = [to.files EXCEPT ![f] = content]
         /\ new.written = [to.written EXCEPT ![f] = content]
         /\ new.index = IF last THEN transfer.before ELSE to.index
    <2>1. CASE ~last
      BY <1>1, <1>9, <2>1
    <2>2. CASE last
      <3> DEFINE row == [copied[n] EXCEPT !.index = transfer.before]
                 old == copied[n]
      <3>1. sets' = [copied EXCEPT ![n] = row]
        BY <1>1, <2>2
      <3>2. old \in SetType
        BY <1>9
      <3>3. row = [old EXCEPT !.index = transfer.before]
        OBVIOUS
      <3> HIDE DEF old, row
      <3>4. /\ row \in SetType /\ row.remote = old.remote /\ row.data = old.data
            /\ row.files = old.files /\ row.written = old.written /\ row.index = transfer.before
        BY <1>3, <3>2, <3>3 DEF SetType
      <3>5. /\ sets' \in Seq(SetType) /\ DOMAIN sets' = DOMAIN copied /\ sets'[n] = row
            /\ \A r \in DOMAIN copied : r # n => sets'[r] = copied[r]
        BY <1>3, <1>9, <3>1, <3>4
      <3> QED
        BY <1>9, <2>2, <3>4, <3>5 DEF old
    <2> QED
      BY <2>1, <2>2
  <1> HIDE DEF new
  <1>11. to.files \in FilesType /\ to.written \in FilesType
    BY <1>3 DEF SetType
  <1>12. /\ new.files[f] = content /\ new.written[f] = content
         /\ \A g \in Files : g # f => new.files[g] = to.files[g] /\ new.written[g] = to.written[g]
    BY <1>10, <1>11 DEF FilesType
  <1>13. Marked(to) => Marked(new)
    BY <1>6, <1>12 DEF Marked, Files
  <1>14. \A g \in Files : to.index[g] # "none" => new.index[g] # "none"
    BY <1>5, <1>10
  <1>15. SetOK(new)
    <2>1. ASSUME NEW g \in Files, new.files[g] = "whole" PROVE new.written[g] = "whole"
      BY <1>3, <1>12, <2>1 DEF SetOK
    <2>2. ASSUME Marked(new)
          PROVE  /\ \A g \in Files : new.files[g] # "none"
                 /\ new.remote => \A g \in Files : new.index[g] # "none"
      <3>1. CASE Phase = "mark"
        BY <1>3, <1>5, <1>6, <1>8, <1>10, <1>12, <1>14, <3>1
      <3>2. CASE Phase = "write"
        <4>1. Marked(to)
          BY <1>8, <1>12, <2>2, <3>2 DEF Marked, Files
        <4> QED
          BY SMTT(20), <1>3, <1>6, <1>10, <1>12, <1>14, <4>1 DEF SetOK
      <3> QED
        BY <1>1, <3>1, <3>2
    <2> QED
      BY <1>3, <1>10, <2>1, <2>2 DEF SetOK
  <1>16. /\ t \in TransferType /\ t.kind = transfer.kind /\ t.to = n /\ t.from = transfer.from
         /\ t.before = transfer.before
    BY <1>2 DEF MovesOn
  <1>17. ASSUME NEW phase, NEW g \in ToSet(Todo(phase)), Past(t, phase, g)
         PROVE  Past(transfer, phase, g) \/ (phase = Phase /\ g = f)
    BY <1>2, <1>17 DEF MovesOn
  <1>18. Achieved(t, new)
    <2>1. t.kind = "upload" => \A g \in Files : t.before[g] # "none"
      BY <1>5, <1>16
    <2>2. t.kind = "download" => \A g \in Files : t.before[g] # "none"
      BY <1>5, <1>16
    <2>3. ASSUME NEW g \in Files \ {"complete"}, Past(t, "write", g) PROVE new.files[g] # "none"
      <3>1. Past(transfer, "write", g) \/ g = f
        BY <1>17, <2>3, TodoFiles
      <3>2. Past(transfer, "write", g) => to.files[g] # "none"
        BY <1>3 DEF Achieved
      <3> QED
        BY <1>6, <1>12, <3>1, <3>2
    <2>4. ASSUME t.kind = "upload", "write" \notin ToSet(t.phases), NEW g \in Files
          PROVE  new.index[g] # "none"
      <3>1. "write" \notin ToSet(transfer.phases) \/ (Phase = "write" /\ Tail(transfer.todo) = <<>>)
        BY <1>2, <2>4 DEF MovesOn
      <3>2. CASE "write" \notin ToSet(transfer.phases)
        BY <1>3, <1>14, <1>16, <2>4, <3>2 DEF Achieved
      <3>3. CASE Phase = "write" /\ Tail(transfer.todo) = <<>>
        BY <1>5, <1>10, <1>16, <2>4, <3>3
      <3> QED
        BY <3>1, <3>2, <3>3
    <2>5. ASSUME Past(t, "mark", "complete") PROVE Marked(new)
      <3>1. Past(transfer, "mark", "complete") \/ f = "complete"
        BY <1>17, <2>5, TodoFiles
      <3> QED
        BY <1>3, <1>6, <1>12, <1>13, <3>1 DEF Achieved, Marked
    <2>6. ASSUME t.kind # "upload", NEW g \in Files, Past(t, "inspectCopy", g)
          PROVE  new.written[g] = "whole"
      <3>1. Past(transfer, "inspectCopy", g)
        BY <1>1, <1>17, <2>6, TodoFiles
      <3>2. Phase = "inspectCopy"
        BY <1>4, <1>16, <2>6, <3>1 DEF Past, Phase
      <3> QED
        BY <1>1, <3>2
    <2> QED
      BY <2>1, <2>2, <2>3, <2>4, <2>5, <2>6 DEF Achieved
  <1>19. TransferOK'
    <2>1. /\ transfer.from \in DOMAIN sets /\ n \in DOMAIN sets \ verified
          /\ transfer.from # n /\ capture.at = "idle"
          /\ Marked(sets[transfer.from]) /\ (transfer.kind = "download" => sets[transfer.from].remote)
      BY DEF BackupInv, TransferOK
    <2>2. /\ InOrder(t.kind, t.phases) /\ ToSet(t.todo) \subseteq ToSet(Todo(Head(t.phases)))
          /\ t.todo = <<>> => Tail(t.phases) = <<>>
          /\ t.phases # <<>>
      BY <1>2 DEF MovesOn
    <2>3. sets'[transfer.from] = sets[transfer.from]
      BY <1>10, <2>1
    <2> QED
      BY <1>1, <1>3, <1>10, <1>16, <1>18, <2>1, <2>2, <2>3 DEF TransferOK, new
  <1>20. transfer' \in TransferType /\ verified' \subseteq DOMAIN sets
    BY <1>1, <1>3, <1>16 DEF BackupTypes
  <1> QED
    BY <1>1, <1>3, <1>10, <1>13, <1>15, <1>19, <1>20, TransferKeeps DEF new

LEMMA StartTransferKeeps ==
  ASSUME BackupInv, NEW kind \in Kind, NEW s \in DOMAIN sets, StartTransfer(kind, s)
  PROVE  BackupInv'
  <1> DEFINE n == Len(sets) + 1
             row == [EmptySet EXCEPT !.remote = (kind = "upload"), !.data = sets[s].data]
             p == Phases(kind)
             t == transfer'
             W == sets'
  <1>1. /\ transfer = NoTransfer /\ capture.at = "idle"
        /\ sets[s].files["complete"] # "none"
        /\ sets[s].remote <=> kind = "download"
        /\ W = Append(sets, row)
        /\ t = [NoTransfer EXCEPT !.phases = p, !.kind = kind,
                    !.from = s, !.to = n, !.todo = Todo(p[1])]
        /\ UNCHANGED <<source, locked, capture, verified, pointer, damage>>
    BY DEF StartTransfer
  <1>2. /\ BackupTypes /\ sets \in Seq(SetType) /\ verified \subseteq DOMAIN sets
        /\ sets[s] \in SetType /\ SetOK(sets[s]) /\ locked = FALSE
    BY <1>1 DEF BackupInv, BackupTypes, CaptureOK
  <1>3. sets[s].data \in DataType /\ Ordered(sets[s].data) /\ Marked(sets[s])
    BY <1>1, <1>2 DEF SetType, SetOK, Marked
  <1>4. /\ row \in SetType /\ (row.remote <=> kind = "upload") /\ row.data = sets[s].data
        /\ row.files = NoFiles /\ row.written = NoFiles
    <2> DEFINE data == sets[s].data
    <2>1. EmptySet.files = NoFiles /\ EmptySet.written = NoFiles /\ EmptySet \in SetType
      BY EmptyIs DEF EmptySet
    <2>2. PICK up \in BOOLEAN : (up <=> kind = "upload") /\
                row = [EmptySet EXCEPT !.remote = up, !.data = data]
      <3>1. CASE kind = "upload"
        <4>1. row = [EmptySet EXCEPT !.remote = TRUE, !.data = data]
          BY <3>1
        <4> QED
          BY <3>1, <4>1
      <3>2. CASE kind # "upload"
        <4>1. row = [EmptySet EXCEPT !.remote = FALSE, !.data = data]
          BY <3>2
        <4> QED
          BY <3>2, <4>1
      <3> QED
        BY <3>1, <3>2
    <2>3. data \in DataType
      BY <1>3
    <2> HIDE DEF data, row
    <2>4. /\ row \in SetType /\ row.remote = up /\ row.data = data
          /\ row.files = EmptySet.files /\ row.written = EmptySet.written
      BY <2>1, <2>2, <2>3 DEF SetType
    <2> QED
      BY <2>1, <2>2, <2>4 DEF data
  <1> HIDE DEF row, W
  <1>5. /\ W \in Seq(SetType) /\ DOMAIN W = DOMAIN sets \cup {n}
        /\ n \notin DOMAIN sets /\ n \in Nat /\ W[n] = row
        /\ \A r \in DOMAIN sets : W[r] = sets[r]
    <2>1. /\ W \in Seq(SetType) /\ DOMAIN W = DOMAIN sets \cup {Len(sets) + 1}
          /\ Len(sets) + 1 \notin DOMAIN sets /\ Len(sets) \in Nat
          /\ W[Len(sets) + 1] = row /\ \A r \in DOMAIN sets : W[r] = sets[r]
      BY <1>1, <1>2, <1>4, NewSet
    <2> QED
      BY <2>1
  <1>6. SetOK(row) /\ ~Marked(row)
    BY <1>4 DEF SetOK, Marked, NoFiles, Files
  <1>7. /\ p \in Seq(PhaseNames) /\ p # <<>> /\ InOrder(kind, p)
        /\ {"write", "mark"} \subseteq ToSet(p)
        /\ kind # "upload" => "inspectCopy" \in ToSet(p)
        /\ kind = "upload" => "inventory" \in ToSet(p)
        /\ kind = "download" => "index" \in ToSet(p)
    BY PhasesAre
  <1>8. p[1] = Head(p) /\ Todo(p[1]) \in Seq(Files) /\ Todo(p[1]) # <<>>
    BY <1>7, TailIs, TodoFiles
  <1> HIDE DEF p, n
  <1>9. /\ t = [phases |-> p, kind |-> kind, from |-> s, to |-> n, todo |-> Todo(p[1]),
                before |-> NoFiles]
    <2> HIDE DEF t
    <2> QED
      BY <1>1 DEF NoTransfer, t
  <1>10. /\ t \in TransferType /\ t.phases = p /\ t.kind = kind /\ t.from = s /\ t.to = n
         /\ t.todo = Todo(Head(p))
    <2>1. s \in Nat /\ kind \in Kind \cup {"none"}
      BY <1>2
    <2> QED
      BY <1>5, <1>7, <1>8, <1>9, <2>1, EmptyIs DEF TransferType
  <1> HIDE DEF t
  <1>11. \A phase \in ToSet(p) : \A g \in ToSet(Todo(phase)) : ~Past(t, phase, g)
    BY <1>10 DEF Past
  <1>12. Achieved(t, row)
    <2>1. kind = "upload" => \A g \in Files : ~Past(t, "inventory", g)
      BY <1>7, <1>11, TodoFiles
    <2>2. kind = "download" => ~Past(t, "index", "complete")
      BY <1>7, <1>11, TodoFiles
    <2>3. \A g \in Files \ {"complete"} : ~Past(t, "write", g)
      BY <1>7, <1>11, TodoFiles
    <2>4. "write" \in ToSet(t.phases)
      BY <1>7, <1>10
    <2>5. ~Past(t, "mark", "complete")
      BY <1>7, <1>11, TodoFiles
    <2>6. kind # "upload" => \A g \in Files : ~Past(t, "inspectCopy", g)
      BY <1>7, <1>11, TodoFiles
    <2> QED
      BY <1>10, <2>1, <2>2, <2>3, <2>4, <2>5, <2>6 DEF Achieved
  <1>13. TransferOK'
    <2>1. W[s] = sets[s] /\ s # n
      BY <1>5
    <2> QED
      BY <1>1, <1>2, <1>3, <1>4, <1>5, <1>7, <1>8, <1>10, <1>12, <2>1 DEF TransferOK, t, W
  <1>14. BackupTypes'
    BY <1>1, <1>2, <1>5, <1>10 DEF BackupTypes, t, W
  <1>15. \A r \in DOMAIN sets' : SetOK(sets'[r])
    BY <1>5, <1>6 DEF BackupInv, W
  <1>16. CaptureOK'
    BY <1>1, <1>2 DEF CaptureOK
  <1>17. VerifiedOK' /\ PointerOK'
    BY <1>1, <1>2, <1>5 DEF BackupInv, VerifiedOK, PointerOK, W
  <1>18. Ordered(source')
    BY <1>1 DEF BackupInv
  <1> QED
    BY <1>13, <1>14, <1>15, <1>16, <1>17, <1>18 DEF BackupInv

LEMMA GoBadKeeps ==
  ASSUME BackupInv, NEW s \in DOMAIN sets, NEW f \in Files, GoBad(s, f) PROVE BackupInv'
  <1> DEFINE W == sets'
             files == [sets[s].files EXCEPT ![f] = "damaged"]
             old == sets[s]
             row == [old EXCEPT !.files = files]
  <1>1. /\ sets[s].files[f] = "whole" /\ W = [sets EXCEPT ![s] = row]
        /\ UNCHANGED <<source, locked, capture, transfer, verified, pointer>>
    BY DEF GoBad
  <1>2. BackupTypes /\ sets \in Seq(SetType) /\ sets[s] \in SetType /\ verified \subseteq DOMAIN sets
    BY DEF BackupInv, BackupTypes
  <1>3. /\ files \in FilesType
        /\ \A g \in Files : files[g] = IF g = f THEN "damaged" ELSE sets[s].files[g]
    <2>1. sets[s].files \in FilesType /\ "damaged" \in Contents
      BY <1>2 DEF SetType, Contents
    <2> QED
      BY <2>1 DEF FilesType
  <1> HIDE DEF files, W, old
  <1>4. /\ row \in SetType /\ row.remote = old.remote /\ row.data = old.data
        /\ row.files = files /\ row.written = old.written /\ row.index = old.index
    BY <1>2, <1>3 DEF SetType, old
  <1> HIDE DEF row
  <1>5. /\ W \in Seq(SetType) /\ DOMAIN W = DOMAIN sets /\ W[s] = row
        /\ \A r \in DOMAIN sets : r # s => W[r] = sets[r]
    BY <1>1, <1>2, <1>4, OneSet
  <1>6. ASSUME NEW r \in DOMAIN sets
        PROVE  /\ W[r].remote = sets[r].remote /\ W[r].data = sets[r].data
               /\ W[r].written = sets[r].written /\ W[r].index = sets[r].index
               /\ \A g \in Files : W[r].files[g] = "none" <=> sets[r].files[g] = "none"
               /\ \A g \in Files : W[r].files[g] = "whole" => sets[r].files[g] = "whole"
    BY <1>1, <1>3, <1>4, <1>5 DEF old
  <1>7. ASSUME NEW r \in DOMAIN sets
        PROVE  (Marked(W[r]) <=> Marked(sets[r])) /\ SetOK(W[r])
    <2>1. Marked(W[r]) <=> Marked(sets[r])
      BY <1>6 DEF Marked, Files
    <2>2. SetOK(sets[r])
      BY DEF BackupInv
    <2> QED
      BY <1>6, <2>1, <2>2 DEF SetOK
  <1>8. BackupTypes'
    BY <1>1, <1>2, <1>5 DEF BackupTypes, W
  <1>9. CaptureOK'
    <2>1. {"postgres", "journals", "manifest"} \subseteq Files
      BY DEF Files
    <2>2. CaptureOK
      BY DEF BackupInv
    <2>3. CASE capture.at = "idle"
      BY <1>1, <2>2, <2>3 DEF CaptureOK
    <2>4. CASE capture.at # "idle"
      <3> DEFINE c == capture.set
      <3>1. c \in DOMAIN sets
        BY <2>2, <2>4 DEF CaptureOK
      <3>2. /\ W[c].remote = sets[c].remote /\ W[c].data = sets[c].data
            /\ Marked(W[c]) <=> Marked(sets[c])
            /\ W[c].files["postgres"] = "none" <=> sets[c].files["postgres"] = "none"
            /\ W[c].files["journals"] = "none" <=> sets[c].files["journals"] = "none"
            /\ W[c].files["manifest"] = "none" <=> sets[c].files["manifest"] = "none"
        BY <1>6, <1>7, <2>1, <3>1
      <3> QED
        BY <1>1, <1>5, <2>2, <2>4, <3>2 DEF CaptureOK, W
    <2> QED
      BY <2>3, <2>4
  <1>10. TransferOK'
    <2> SUFFICES ASSUME transfer # NoTransfer PROVE TransferOK'
      BY <1>1 DEF TransferOK
    <2> DEFINE n == transfer.to
    <2>1. n \in DOMAIN sets /\ transfer.from \in DOMAIN sets /\ Achieved(transfer, sets[n])
      BY UnderWay
    <2>2. Achieved(transfer, W[n])
      BY <1>6, <1>7, <2>1 DEF Achieved
    <2>3. /\ W[n].remote = sets[n].remote /\ W[n].data = sets[n].data
          /\ W[transfer.from].remote = sets[transfer.from].remote
          /\ Marked(W[transfer.from]) <=> Marked(sets[transfer.from])
      BY <1>6, <1>7, <2>1
    <2> QED
      BY <1>1, <1>5, <2>2, <2>3 DEF BackupInv, TransferOK, W
  <1>11. VerifiedOK'
    BY <1>1, <1>2, <1>6 DEF BackupInv, VerifiedOK, W
  <1>12. PointerOK'
    BY <1>1, <1>5, <1>6, <1>7 DEF BackupInv, PointerOK, W
  <1>13. (\A r \in DOMAIN sets' : SetOK(sets'[r])) /\ Ordered(source')
    BY <1>1, <1>5, <1>7 DEF BackupInv, W
  <1> QED
    BY <1>8, <1>9, <1>10, <1>11, <1>12, <1>13 DEF BackupInv

LEMMA BackupStep == BackupInv /\ [BackupNext]_backups => BackupInv'
  <1> SUFFICES ASSUME BackupInv, [BackupNext]_backups PROVE BackupInv'
    OBVIOUS
  <1>1. ASSUME NEW f \in Files, Turn(f) PROVE transfer # NoTransfer
    BY <1>1 DEF Turn, NoTransfer
  <1>2. CASE \E f \in Files : Check(f) \/ WriteFile(f)
    <2>1. PICK f \in Files : Check(f) \/ WriteFile(f)
      BY <1>2
    <2>2. Turn(f)
      BY <2>1 DEF Check, WriteFile
    <2>3. transfer # NoTransfer
      BY <1>1, <2>2
    <2> QED
      BY <2>1, <2>3, CheckKeeps, WriteFileKeeps
  <1>3. CASE \E s \in DOMAIN sets :
                \/ \E kind \in Kind : StartTransfer(kind, s)
                \/ \E f \in Files : GoBad(s, f)
    BY <1>3, StartTransferKeeps, GoBadKeeps
  <1>4. CASE StartCapture \/ Dump \/ SnapshotJournal \/ ReleaseTables \/ FinishCapture \/ EndCapture
    BY <1>4, StartCaptureKeeps, DumpKeeps, SnapshotKeeps, ReleaseKeeps, FinishCaptureKeeps,
       EndCaptureKeeps
  <1>5. CASE UNCHANGED backups
    BY <1>5 DEF backups, BackupInv, BackupTypes, CaptureOK, TransferOK, VerifiedOK, PointerOK
  <1> QED
    BY <1>2, <1>3, <1>4, <1>5, WriteSourceKeeps, FinishTransferKeeps, EndTransferKeeps
       DEF BackupNext

\* Whatever is written to the databases meanwhile, wherever an operation stops
\* and whichever file goes bad: a set with its marker is whole and coherent, the
\* pointer names such a set, and what was reported as verified was written whole.
THEOREM BackupsStaySound == BackupSpec => []BackupsSound
  <1>1. BackupInv => BackupsSound
    <2> SUFFICES ASSUME BackupInv PROVE BackupsSound
      OBVIOUS
    <2>1. CaptureCoherent
      BY DEF BackupInv, SetOK, CaptureCoherent, Complete, Marked, Ordered
    <2>2. ASSUME NEW s \in DOMAIN sets, Complete(s), sets[s].remote PROVE sets[s].index # NoFiles
      <3>1. \A f \in Files : sets[s].index[f] # "none"
        BY <2>2 DEF BackupInv, SetOK, Complete, Marked
      <3>2. "complete" \in Files /\ NoFiles["complete"] = "none"
        BY DEF Files, NoFiles
      <3> QED
        BY <3>1, <3>2
    <2>3. MarkerIsLast
      BY <2>2 DEF BackupInv, SetOK, PointerOK, MarkerIsLast, Complete, Marked
    <2>4. VerifiedIsWhole
      BY DEF BackupInv, VerifiedOK, VerifiedIsWhole
    <2> QED
      BY <2>1, <2>3, <2>4 DEF BackupsSound
  <1> QED
    BY <1>1, BackupsBegin, BackupStep, PTL DEF BackupSpec

\* The bounds of the model beside what a set means.
BackupSizes ==
    /\ Len(sets) <= MaxSets /\ source.batched <= MaxWrites
    /\ damage \in 0..MaxDamage

LEMMA SameLength ==
  ASSUME BackupInv, BackupInv', DOMAIN sets' = DOMAIN sets
  PROVE  Len(sets') = Len(sets)
  <1>1. /\ Len(sets) \in Nat /\ DOMAIN sets = 1..Len(sets)
        /\ Len(sets') \in Nat /\ DOMAIN sets' = 1..Len(sets')
    BY DEF BackupInv, BackupTypes
  <1> QED
    BY <1>1

\* Only a capture or a transfer that begins adds a set.
LEMMA LengthStep ==
  ASSUME BackupInv, BackupInv', BackupSizes, BackupNext
  PROVE  Len(sets') <= MaxSets
  <1>1. CASE StartCapture
    <2>1. Len(sets) < MaxSets /\ Len(sets') = Len(sets) + 1 /\ Len(sets) \in Nat
      BY <1>1 DEF StartCapture, BackupInv, BackupTypes
    <2> QED
      BY <2>1, BackupAssumption
  <1>2. ASSUME NEW kind \in Kind, NEW s \in DOMAIN sets, StartTransfer(kind, s)
        PROVE  Len(sets') <= MaxSets
    <2>1. Len(sets) < MaxSets /\ Len(sets') = Len(sets) + 1 /\ Len(sets) \in Nat
      <3>1. PICK row : sets' = Append(sets, row)
        BY <1>2 DEF StartTransfer
      <3> QED
        BY <1>2, <3>1 DEF StartTransfer, BackupInv, BackupTypes
    <2> QED
      BY <2>1, BackupAssumption
  <1>3. ASSUME NEW s, NEW f, GoBad(s, f) PROVE DOMAIN sets' = DOMAIN sets
    BY <1>3 DEF GoBad
  <1>4. ASSUME NEW s, NEW f, NEW c PROVE DOMAIN Written(s, f, c) = DOMAIN sets
    BY DEF Written
  <1>5. CASE Dump \/ SnapshotJournal \/ FinishCapture
    <2>1. DOMAIN sets' = DOMAIN sets
      BY <1>4, <1>5 DEF Dump, SnapshotJournal, FinishCapture
    <2> QED
      BY <2>1, SameLength DEF BackupSizes
  <1>6. ASSUME NEW f \in Files, WriteFile(f) PROVE DOMAIN sets' = DOMAIN sets
    BY <1>4, <1>6 DEF WriteFile
  <1>7. CASE EndCapture \/ EndTransfer
    <2>1. DOMAIN sets' = DOMAIN sets
      BY <1>7 DEF EndCapture, EndTransfer
    <2> QED
      BY <2>1, SameLength DEF BackupSizes
  <1>8. CASE UNCHANGED sets
    BY <1>8 DEF BackupSizes
  <1> QED
    BY <1>1, <1>2, <1>3, <1>5, <1>6, <1>7, <1>8, SameLength
       DEF BackupNext, BackupSizes, WriteSource, ReleaseTables, Check, FinishTransfer

LEMMA SizesStep ==
  ASSUME BackupInv, BackupInv', BackupSizes, [BackupNext]_backups
  PROVE  BackupSizes'
  <1>1. Len(sets') <= MaxSets
    BY LengthStep DEF BackupSizes, backups
  <1>2. source'.batched <= MaxWrites
    <2>1. CASE CommitBatch
      BY <2>1, BackupAssumption DEF CommitBatch, BackupInv, BackupTypes, DataType
    <2>2. CASE SignBatch \/ AttachHash
      BY <2>2 DEF SignBatch, AttachHash, BackupInv, BackupTypes, DataType, BackupSizes
    <2>3. CASE UNCHANGED source
      BY <2>3 DEF BackupSizes
    <2> QED
      BY <2>1, <2>2, <2>3
         DEF BackupNext, WriteSource, StartCapture, Dump, SnapshotJournal, ReleaseTables,
             FinishCapture, EndCapture, StartTransfer, GoBad, Check, WriteFile,
             FinishTransfer, EndTransfer, backups
  <1>3. damage' \in 0..MaxDamage
    <2>1. ASSUME NEW s, NEW f, GoBad(s, f) PROVE damage' \in 0..MaxDamage
      BY <2>1, BackupAssumption DEF GoBad, BackupSizes
    <2>2. CASE UNCHANGED damage
      BY <2>2 DEF BackupSizes
    <2> QED
      BY <2>1, <2>2
         DEF BackupNext, WriteSource, StartCapture, Dump, SnapshotJournal, ReleaseTables,
             FinishCapture, EndCapture, StartTransfer, Check, WriteFile,
             FinishTransfer, EndTransfer, backups
  <1> QED
    BY <1>1, <1>2, <1>3 DEF BackupSizes

LEMMA SourceIs ==
  ASSUME NEW data \in DataType, Ordered(data), data.batched <= MaxWrites
  PROVE  data \in [{"batched", "attached", "signed"} -> 0..MaxWrites]
  <1>1. data = [f \in {"batched", "attached", "signed"} |-> data[f]]
    BY DEF DataType
  <1>2. \A f \in {"batched", "attached", "signed"} : data[f] \in 0..MaxWrites
    <2>1. /\ data.batched \in Nat /\ data.attached \in Nat /\ data.signed \in Nat
          /\ data.attached <= data.signed /\ data.signed <= data.batched
      BY DEF DataType, Ordered
    <2> QED
      BY <2>1, BackupAssumption
  <1> QED
    BY <1>1, <1>2

LEMMA BackupTypesAre == BackupInv /\ BackupSizes => BackupTypeOK
  <1> SUFFICES ASSUME BackupInv, BackupSizes PROVE BackupTypeOK
    OBVIOUS
  <1>1. source \in [{"batched", "attached", "signed"} -> 0..MaxWrites]
    BY SourceIs DEF BackupInv, BackupTypes, BackupSizes
  <1>2. \A s \in DOMAIN sets : /\ sets[s].files \in [Files -> Contents]
                              /\ sets[s].written \in [Files -> Contents]
                              /\ sets[s].index \in [Files -> Contents]
    <2>1. \A s \in DOMAIN sets : sets[s] \in SetType
      BY DEF BackupInv, BackupTypes
    <2> QED
      BY <2>1 DEF SetType, FilesType
  <1>3. transfer.kind \in Kind \cup {"none"} /\ ToSet(transfer.todo) \subseteq Files
    <2>1. transfer.kind \in Kind \cup {"none"} /\ transfer.todo \in Seq(Files)
      BY DEF BackupInv, BackupTypes, TransferType
    <2> QED
      BY <2>1 DEF ToSet
  <1> QED
    BY <1>1, <1>2, <1>3
       DEF BackupInv, BackupTypes, BackupSizes, PointerOK, BackupTypeOK

\* A backup set is made of the files of a set, and nothing under way leaves
\* what an operation may be in, whatever fails and whichever file goes bad.
THEOREM BackupsTyped == BackupSpec => []BackupTypeOK
  <1>1. BackupInit => BackupSizes
    BY BackupAssumption DEF BackupInit, BackupSizes, NoData
  <1>2. BackupInv /\ [BackupNext]_backups => BackupInv'
    BY BackupStep
  <1>3. BackupInv /\ BackupInv' /\ BackupSizes /\ [BackupNext]_backups => BackupSizes'
    BY SizesStep
  <1> QED
    BY <1>1, <1>2, <1>3, BackupsBegin, BackupTypesAre, PTL DEF BackupSpec

\* The index and the sync keep their types as long as a sync under way never
\* sees a block undone that it has settled.
THEOREM IndexTyped == ASSUME StaysSettled PROVE IndexerSpec => []IndexerTypeOK
  <1>1. IndexerInv => IndexerTypeOK
    <2> SUFFICES ASSUME IndexerInv PROVE IndexerTypeOK
      OBVIOUS
    <2>1. \A n \in DOMAIN chain : chain[n] \in BlockType
      BY DEF IndexerInv, IndexerTypes
    <2>2. \A n \in DOMAIN chain : chain[n].hash \in 1..MaxSerial /\ chain[n].events \subseteq Event
      BY <2>1 DEF BlockType
    <2>3. /\ sync.at \in {"idle", "check", "latest", "range", "logs", "events"}
          /\ sync.index \in IndexType /\ sync.latest \in 0..MaxHeight
          /\ sync.to \in 0..MaxHeight /\ sync.end \in 0..MaxSerial
          /\ sync.contract \in 0..(Contracts + 1)
      BY DEF IndexerInv, IndexerTypes, SyncType
    <2> QED
      BY <2>2, <2>3 DEF IndexerInv, IndexerTypes, IndexerTypeOK
  <1> QED
    BY <1>1, IndexerInvariant, PTL

=============================================================================
