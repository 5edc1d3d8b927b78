--------------------------- MODULE ServicesProofs ---------------------------
(* Proofs about the services of MCServices, for any customers, operations,  *)
(* keys, replay steps, releases and restores, and about all the parts       *)
(* together.                                                                *)
EXTENDS MCServices, OutboundProofs, RecordsProofs

-----------------------------------------------------------------------------
(* The revocation replay. *)

LEMMA MaxOfTwo ==
  ASSUME NEW a \in Int, NEW b \in Int
  PROVE  Max({a, b}) = IF a >= b THEN a ELSE b
  <1> DEFINE m == IF a >= b THEN a ELSE b
  <1>1. m \in {a, b} /\ \A y \in {a, b} : m >= y
    OBVIOUS
  <1>2. \A x \in {a, b} : (\A y \in {a, b} : x >= y) => x = m
    OBVIOUS
  <1> QED
    BY <1>1, <1>2 DEF Max

LEMMA MinOfTwo ==
  ASSUME NEW a \in Int, NEW b \in Int
  PROVE  Min({a, b}) = IF a <= b THEN a ELSE b
  <1> DEFINE m == IF a <= b THEN a ELSE b
  <1>1. m \in {a, b} /\ \A y \in {a, b} : m =< y
    OBVIOUS
  <1>2. \A x \in {a, b} : (\A y \in {a, b} : x =< y) => x = m
    OBVIOUS
  <1> QED
    BY <1>1, <1>2 DEF Min

\* The events before instant x that the coverage has to account for are in S.
Seen(x, S) ==
  \A e \in Revocations :
     happened[e] # Never /\ happened[e] >= Baseline /\ happened[e] < x => e \in S

\* The list hides no event for longer than Late.
ListedInv == \A e \in Revocations \ listed : happened[e] # Never => time <= happened[e] + Late

\* A step under way began at a checkpoint behind which everything was recorded,
\* and what it has read and not applied yet closes the gap up to its end.
StepInv ==
  \A p \in Steps : step[p].at # "idle" =>
     /\ step[p].covered < step[p].to /\ step[p].to <= time - Lag
     /\ step[p].from = IF Baseline >= step[p].covered - Overlap
                       THEN Baseline ELSE step[p].covered - Overlap
     /\ Seen(step[p].covered - Overlap, recorded)
     /\ step[p].at = "apply" => Seen(step[p].to - Overlap, recorded \cup step[p].events)

ReplayInv == ReplayTypeOK /\ covered <= time /\ ListedInv /\ StepInv /\ NothingSkipped

LEMMA ReplayBegins == ReplayInit => ReplayInv
  <1> SUFFICES ASSUME ReplayInit PROVE ReplayInv
    OBVIOUS
  <1>1. ReplayTypeOK /\ covered <= time
    BY ReplayAssumption DEF ReplayInit, ReplayTypeOK, Instants, Never, NoLease, ReplayResting, Step
  <1>2. ListedInv /\ StepInv /\ NothingSkipped
    BY DEF ReplayInit, ListedInv, StepInv, NothingSkipped, ReplayResting
  <1> QED
    BY <1>1, <1>2 DEF ReplayInv

\* The window of a claim ends after the checkpoint and leaves out the present.
LEMMA WindowBounds ==
  ASSUME ReplayTypeOK
  PROVE  /\ From = (IF Baseline >= covered - Overlap THEN Baseline ELSE covered - Overlap)
         /\ From \in Int /\ To \in Int /\ To <= time - Lag
  <1>1. Baseline \in Int /\ covered - Overlap \in Int /\ time - Lag \in Int /\ Window \in Int
    BY ReplayAssumption DEF ReplayTypeOK, Instants
  <1>2. From = (IF Baseline >= covered - Overlap THEN Baseline ELSE covered - Overlap)
    BY <1>1, MaxOfTwo DEF From
  <1>3. From \in Int /\ From + Window \in Int
    BY <1>1, <1>2
  <1>4. To = IF time - Lag <= From + Window THEN time - Lag ELSE From + Window
    BY <1>1, <1>3, MinOfTwo DEF To
  <1> QED
    BY <1>1, <1>2, <1>3, <1>4

\* A step that has read keeps its window.
LEMMA WindowRead ==
  ASSUME ReplayTypeOK, NEW p \in Steps, ReadWindow(p)
  PROVE  /\ step' \in [Steps -> Step]
         /\ step'[p].to = step[p].to /\ step'[p].from = step[p].from
         /\ step'[p].covered = step[p].covered /\ step'[p].at = "apply"
         /\ \A q \in Steps : q # p => step'[q] = step[q]
  <1> DEFINE E == {e \in listed : happened[e] \in step[p].from..step[p].to}
             old == step[p]
             new == [at |-> "apply", covered |-> old.covered, from |-> old.from, to |-> old.to, events |-> E]
  <1>1. old \in Step /\ E \in SUBSET Revocations /\ step \in [Steps -> Step]
    BY DEF ReplayTypeOK
  <1>2. step' = [step EXCEPT ![p].at = "apply", ![p].events = E]
    BY DEF ReadWindow
  <1> HIDE DEF E
  <1>3. step' = [q \in Steps |-> IF q = p THEN new ELSE step[q]]
    <2>1. step'[p] = new
      BY <1>1, <1>2 DEF Step
    <2>2. step' = [q \in Steps |-> IF q = p THEN step'[p] ELSE step[q]]
      BY <1>1, <1>2
    <2> QED
      BY <2>1, <2>2
  <1>4. new \in Step
    BY <1>1 DEF Step
  <1>5. new.to = old.to /\ new.from = old.from /\ new.covered = old.covered /\ new.at = "apply"
    OBVIOUS
  <1> HIDE DEF new
  <1> QED
    BY <1>1, <1>3, <1>4, <1>5

LEMMA ReplayTyped ==
  ASSUME ReplayTypeOK, ReplayNext
  PROVE  ReplayTypeOK'
  <1> USE DEF ReplayTypeOK
  <1>1. ASSUME NEW p \in Steps, ClaimReplay(p) PROVE ReplayTypeOK'
    <2>1. From \in Int /\ To \in Int
      BY WindowBounds
    <2>2. time \in Nat /\ NoLease \in [owner: Steps \cup {NoStep}, until: Int]
      BY DEF Instants, NoLease
    <2>3. step' \in [Steps -> Step]
      BY <1>1, <2>1 DEF ClaimReplay, Step
    <2> QED
      BY <1>1, <2>2, <2>3, ReplayAssumption DEF ClaimReplay
  <1>2. ASSUME NEW p \in Steps, ReadWindow(p) PROVE ReplayTypeOK'
    BY <1>2, WindowRead DEF ReadWindow
  <1>3. ASSUME NEW p \in Steps, NEW e \in Revocations, ApplyEvent(p, e) PROVE ReplayTypeOK'
    BY <1>3 DEF ApplyEvent, Step
  <1>4. ASSUME NEW p \in Steps, CompleteReplay(p) \/ FailReplay(p) \/ CrashReplay(p) PROVE ReplayTypeOK'
    <2>1. ReplayResting \in Step /\ NoLease \in [owner: Steps \cup {NoStep}, until: Int]
      BY DEF ReplayResting, Step, NoLease
    <2>2. step[p].to \in Int
      BY DEF Step
    <2> QED
      BY <1>4, <2>1, <2>2 DEF CompleteReplay, FailReplay, CrashReplay, Rest, Released
  <1>5. ASSUME NEW e \in Revocations, Happen(e) \/ Show(e) PROVE ReplayTypeOK'
    BY <1>5 DEF Happen, Show
  <1>6. ASSUME Advance PROVE ReplayTypeOK'
    BY <1>6, ReplayAssumption DEF Advance, Instants
  <1> QED
    BY <1>1, <1>2, <1>3, <1>4, <1>5, <1>6 DEF ReplayNext

\* What a step has read holds every event of its window: those that happened
\* before its end less the overlap are listed by now.
LEMMA WindowComplete ==
  ASSUME ReplayInv, NEW p \in Steps, ReadWindow(p)
  PROVE  Seen(step[p].to - Overlap, recorded \cup step'[p].events)
  <1>1. step[p] \in Step /\ step[p].at # "idle" /\ time \in Nat
    BY DEF ReplayInv, ReplayTypeOK, ReadWindow, Instants
  <1>2. step'[p].events = {e \in listed : happened[e] \in step[p].from..step[p].to}
    BY <1>1 DEF ReadWindow, ReplayInv, ReplayTypeOK, Step
  <1>3. SUFFICES ASSUME NEW e \in Revocations, happened[e] # Never, happened[e] >= Baseline,
                        happened[e] < step[p].to - Overlap, e \notin recorded
                 PROVE  e \in listed /\ happened[e] \in step[p].from..step[p].to
    BY <1>2 DEF Seen
  <1>4. happened[e] \in Nat
    BY <1>3 DEF ReplayInv, ReplayTypeOK, Instants
  <1>5. e \in listed
    <2>1. step[p].to <= time - Lag /\ step[p].to \in Int
      BY <1>1 DEF ReplayInv, StepInv, Step
    <2>2. ~(time <= happened[e] + Late)
      BY <1>1, <1>3, <1>4, <2>1, ReplayAssumption
    <2> QED
      BY <1>3, <2>2 DEF ReplayInv, ListedInv
  <1>6. ~(happened[e] < step[p].covered - Overlap)
    BY <1>1, <1>3 DEF ReplayInv, StepInv, Seen
  <1>7. step[p].from = IF Baseline >= step[p].covered - Overlap
                       THEN Baseline ELSE step[p].covered - Overlap
    BY <1>1 DEF ReplayInv, StepInv
  <1>8. step[p].covered \in Int /\ step[p].to \in Int /\ Baseline \in Nat /\ Overlap \in Nat
    BY <1>1, ReplayAssumption DEF Step
  <1> QED
    BY <1>3, <1>4, <1>5, <1>6, <1>7, <1>8

LEMMA ReplayStep ==
  ASSUME ReplayInv, ReplayNext
  PROVE  ReplayInv' /\ covered' >= covered
  <1>0. ReplayTypeOK /\ ReplayTypeOK'
    BY ReplayTyped DEF ReplayInv
  <1>a. time \in Nat /\ covered \in Int /\ Baseline \in Nat /\ Overlap \in Nat /\ Lag \in Nat
    BY <1>0, ReplayAssumption DEF ReplayTypeOK, Instants
  <1>b. \A p \in Steps : step[p] \in Step
    BY <1>0 DEF ReplayTypeOK
  <1>c. \A e \in Revocations : happened[e] = Never \/ happened[e] \in Nat
    BY <1>0 DEF ReplayTypeOK, Instants
  <1>1. ASSUME NEW p \in Steps, ClaimReplay(p) PROVE ReplayInv' /\ covered' >= covered
    <2>1. Seen(covered - Overlap, recorded)
      BY DEF ReplayInv, NothingSkipped, Seen
    <2>2. StepInv'
      BY <1>1, <1>0, <1>a, <1>b, <2>1, WindowBounds
         DEF ClaimReplay, ReplayInv, StepInv, Seen, ReplayTypeOK
    <2> QED
      BY <1>0, <1>1, <1>a, <2>2 DEF ClaimReplay, ReplayInv, ListedInv, NothingSkipped
  <1>2. ASSUME NEW p \in Steps, ReadWindow(p) PROVE ReplayInv' /\ covered' >= covered
    <2>1. Seen(step[p].to - Overlap, recorded \cup step'[p].events)
      BY <1>2, WindowComplete
    <2>2. /\ step'[p].to = step[p].to /\ step'[p].from = step[p].from
          /\ step'[p].covered = step[p].covered /\ step'[p].at = "apply"
      BY <1>2, <1>0, WindowRead
    <2>3. \A q \in Steps : q # p => step'[q] = step[q]
      BY <1>2, <1>0, WindowRead
    <2>a. UNCHANGED <<time, happened, recorded, covered, lease>> /\ step[p].at = "read" /\ StepInv
      BY <1>2 DEF ReadWindow, ReplayInv
    <2>4. StepInv'
      BY <2>a, <2>1, <2>2, <2>3 DEF StepInv, Seen
    <2> QED
      BY <1>0, <1>2, <1>a, <2>4 DEF ReadWindow, ReplayInv, ListedInv, NothingSkipped
  <1>3. ASSUME NEW p \in Steps, NEW e \in Revocations, ApplyEvent(p, e)
        PROVE  ReplayInv' /\ covered' >= covered
    <2>1. /\ step'[p].to = step[p].to /\ step'[p].from = step[p].from
          /\ step'[p].covered = step[p].covered /\ step'[p].at = step[p].at
          /\ step'[p].events = step[p].events \ {e}
      BY <1>3, <1>0, <1>b DEF ApplyEvent, ReplayTypeOK, Step
    <2>2. \A q \in Steps : q # p => step'[q] = step[q]
      BY <1>3, <1>0 DEF ApplyEvent, ReplayTypeOK
    <2>3. recorded' \cup step'[p].events = recorded \cup step[p].events \cup {e}
      BY <1>3, <2>1 DEF ApplyEvent
    <2>4. StepInv'
      <3>1. ASSUME NEW q \in Steps, step'[q].at # "idle"
            PROVE  Seen(step[q].covered - Overlap, recorded)'
        BY <1>3, <2>1, <2>2, <3>1 DEF ApplyEvent, ReplayInv, StepInv, Seen
      <3>2. ASSUME NEW q \in Steps, step'[q].at = "apply"
            PROVE  Seen(step[q].to - Overlap, recorded \cup step[q].events)'
        BY <1>3, <2>1, <2>2, <2>3, <3>2 DEF ApplyEvent, ReplayInv, StepInv, Seen
      <3> QED
        BY <1>3, <2>1, <2>2, <3>1, <3>2 DEF ApplyEvent, ReplayInv, StepInv, Seen
    <2> QED
      BY <1>0, <1>3, <1>a, <2>4 DEF ApplyEvent, ReplayInv, ListedInv, NothingSkipped
  <1>4. ASSUME NEW p \in Steps, CompleteReplay(p) PROVE ReplayInv' /\ covered' >= covered
    <2>1. /\ step[p].covered < step[p].to /\ step[p].to <= time - Lag
          /\ Seen(step[p].to - Overlap, recorded)
      BY <1>4 DEF CompleteReplay, ReplayInv, StepInv, Seen
    <2>2. StepInv'
      BY <1>4, <1>0 DEF CompleteReplay, Rest, ReplayResting, ReplayInv, StepInv, Seen, ReplayTypeOK
    <2>3. covered' <= time' /\ covered' >= covered
      BY <1>4, <1>a, <1>b, <2>1 DEF CompleteReplay, Fencing, ReplayInv, Step
    <2>4. NothingSkipped'
      BY <1>4, <2>1 DEF CompleteReplay, ReplayInv, NothingSkipped, Seen
    <2> QED
      BY <1>0, <1>4, <2>2, <2>3, <2>4 DEF CompleteReplay, ReplayInv, ListedInv
  <1>5. ASSUME NEW p \in Steps, FailReplay(p) \/ CrashReplay(p)
        PROVE  ReplayInv' /\ covered' >= covered
    <2>1. StepInv'
      BY <1>5, <1>0 DEF FailReplay, CrashReplay, Rest, ReplayResting, ReplayInv, StepInv, Seen, ReplayTypeOK
    <2> QED
      BY <1>0, <1>5, <1>a, <2>1 DEF FailReplay, CrashReplay, ReplayInv, ListedInv, NothingSkipped
  <1>6. ASSUME NEW e \in Revocations, Happen(e) PROVE ReplayInv' /\ covered' >= covered
    <2>1. \A d \in Revocations : happened'[d] = happened[d] \/ (d = e /\ happened'[d] = time)
      BY <1>6, <1>0 DEF Happen, ReplayTypeOK
    <2>2. ASSUME NEW x \in Int, NEW S, x <= time, Seen(x, S) PROVE Seen(x, S)'
      BY <2>1, <2>2, <1>6, <1>a DEF Seen, Happen
    <2>3. NothingSkipped'
      BY <2>1, <1>6, <1>a DEF NothingSkipped, ReplayInv, Happen
    <2>4. ListedInv'
      BY <2>1, <1>6, <1>a, ReplayAssumption DEF ListedInv, ReplayInv, Happen
    <2>5. StepInv'
      <3>1. SUFFICES ASSUME NEW q \in Steps, step[q].at # "idle"
                     PROVE  /\ Seen(step[q].covered - Overlap, recorded)'
                            /\ step[q].at = "apply" => Seen(step[q].to - Overlap, recorded \cup step[q].events)'
        BY <1>6, <1>a DEF StepInv, ReplayInv, Happen
      <3>2. step[q].covered < step[q].to /\ step[q].to <= time - Lag
        BY <3>1 DEF StepInv, ReplayInv
      <3>3. step[q].covered \in Int /\ step[q].to \in Int
        BY <1>b DEF Step
      <3>4. step[q].covered - Overlap <= time /\ step[q].to - Overlap <= time
        BY <3>2, <3>3, <1>a
      <3>5. Seen(step[q].covered - Overlap, recorded)
        BY <3>1 DEF StepInv, ReplayInv
      <3>6. step[q].at = "apply" => Seen(step[q].to - Overlap, recorded \cup step[q].events)
        BY <3>1 DEF StepInv, ReplayInv
      <3> QED
        BY <1>6, <1>a, <2>1, <3>3, <3>4, <3>5, <3>6 DEF Seen, Happen
    <2> QED
      BY <1>0, <1>6, <1>a, <2>3, <2>4, <2>5 DEF Happen, ReplayInv
  <1>7. ASSUME NEW e \in Revocations, Show(e) PROVE ReplayInv' /\ covered' >= covered
    BY <1>0, <1>7, <1>a DEF Show, ReplayInv, ListedInv, StepInv, NothingSkipped, Seen
  <1>8. ASSUME Advance PROVE ReplayInv' /\ covered' >= covered
    <2>1. ListedInv'
      BY <1>8, <1>a, <1>c, ReplayAssumption DEF Advance, ListedInv, Never
    <2>2. StepInv'
      BY <1>8, <1>a, <1>b DEF Advance, ReplayInv, StepInv, Seen, Step
    <2> QED
      BY <1>0, <1>8, <1>a, <2>1, <2>2 DEF Advance, ReplayInv, NothingSkipped
  <1> QED
    BY <1>1, <1>2, <1>3, <1>4, <1>5, <1>6, <1>7, <1>8 DEF ReplayNext

LEMMA ReplayInvariant == ReplaySpec => []ReplayInv
  <1>1. ReplayInv /\ [ReplayNext]_replay => ReplayInv'
    <2>1. CASE ReplayNext
      BY <2>1, ReplayStep
    <2>2. CASE UNCHANGED replay
      BY <2>2 DEF replay, ReplayInv, ReplayTypeOK, ListedInv, StepInv, NothingSkipped, Seen
    <2> QED
      BY <2>1, <2>2
  <1> QED
    BY ReplayBegins, <1>1, PTL DEF ReplaySpec

\* No revocation that happened since the baseline and before the reach of the
\* next window is missing, whatever the provider lists late, fails or repeats
\* and however many processes take the lease from each other.
THEOREM ReplayComplete == ReplaySpec => []NothingSkipped
  <1>1. ReplayInv => NothingSkipped
    BY DEF ReplayInv
  <1> QED
    BY ReplayInvariant, <1>1, PTL

\* A step that lost its lease, or was passed by another, never moves the
\* checkpoint back: provider-replay-state's complete fences it.
THEOREM ReplayProgresses == ReplaySpec => CoverageGrows
  <1>1. ReplayInv /\ [ReplayNext]_replay => [covered' >= covered]_replay
    BY ReplayStep
  <1> QED
    BY ReplayInvariant, <1>1, PTL DEF ReplaySpec, CoverageGrows

-----------------------------------------------------------------------------
(* CustomerDirectory and ProjectKeys. *)

Underway == [at: {"workspace", "rows", "write"}, actor: Customers, id: ActionIds, body: Bodies]
OperationType == Underway \cup {Resting}

\* The part of the types that the locks and what was read under them rest on.
TypesInv ==
  /\ role \in [Customers -> Roles \cup {"none"}]
  /\ invitation \in [Invitations -> Invitation]
  /\ operation \in [Operations -> OperationType]
  /\ key \in [Keys -> KeyStates] /\ outlived \subseteq Keys

Inside(o) == OperationAt(o, "rows") \/ OperationAt(o, "write")

\* An operation that has read its authority holds the workspace row.
LockInv == \A o \in Operations : Inside(o) => holder = o

Grows(body) == body.kind = "key-create" \/ (body.kind = "key-rotate" /\ body.value = "grace")
Swaps(body) == body.kind = "key-rotate" /\ body.value # "grace"

\* What an operation has read to write is still so.
ReadInv(o) ==
  /\ Doing(o).kind = "member-change" =>
        (role[Doing(o).subject] = "owner" /\ Doing(o).value # "owner" => Cardinality(Owners) > 1)
  /\ Doing(o).kind = "invite-accept" => role[Actor(o)] = "none"
  /\ Grows(Doing(o)) => Cardinality(Usable) < MaxKeys
  /\ Swaps(Doing(o)) => Cardinality(Usable \ {Doing(o).subject}) < MaxKeys
  /\ Doing(o).kind = "key-rotate" => key[Doing(o).subject] = "active"

WriteInv == \A o \in Operations : OperationAt(o, "write") => ReadInv(o)

KeysInv == TypesInv /\ LockInv /\ WriteInv /\ WorkspaceSafe

LEMMA UsableFinite == IsFiniteSet(Usable) /\ Cardinality(Usable) \in Nat
  <1>1. Usable \in SUBSET Keys
    BY DEF Usable
  <1>2. IsFiniteSet(Usable)
    BY <1>1, FS_Subset, KeyAssumption
  <1> QED
    BY <1>2, FS_CardinalityType

LEMMA KeysBegin == KeysInit => KeysInv
  <1> SUFFICES ASSUME KeysInit PROVE KeysInv
    OBVIOUS
  <1>1. operation \in [Operations -> OperationType] /\ \A o \in Operations : OperationAt(o, "idle")
    BY DEF KeysInit, DirectoryInit, Resting, OperationType, OperationAt
  <1>2. LockInv /\ WriteInv /\ AuthorityHolds
    BY <1>1 DEF LockInv, Inside, WriteInv, AuthorityHolds, OperationAt
  <1>3. role \in [Customers -> Roles \cup {"none"}] /\ OwnerRemains
    <2>1. CASE NoWorkspace
      BY <2>1 DEF NoWorkspace, OwnerRemains
    <2>2. CASE ExistingWorkspace
      BY <2>2 DEF ExistingWorkspace, OwnerRemains, Owners
    <2> QED
      BY <2>1, <2>2 DEF KeysInit, DirectoryInit
  <1>4. invitation \in [Invitations -> Invitation]
    <2>1. NoInvitation \in Invitation
      BY DEF NoInvitation, Invitation
    <2>2. \A c \in Customers, r \in Roles : Invited(c, r) \in Invitation
      BY DEF Invited, Invitation
    <2>3. CASE NoWorkspace
      BY <2>1, <2>3 DEF NoWorkspace
    <2>4. CASE ExistingWorkspace
      <3>1. {NoInvitation} \cup {Invited(c, r) : c \in {d \in Customers : role[d] = "none"},
                                                 r \in Roles \ {"owner"}} \subseteq Invitation
        BY <2>1, <2>2
      <3> QED
        BY <2>4, <3>1 DEF ExistingWorkspace
    <2> QED
      BY <2>3, <2>4 DEF KeysInit, DirectoryInit
  <1>5. key \in [Keys -> KeyStates] /\ outlived \subseteq Keys
    BY DEF KeysInit, KeyStates
  <1>6. KeysBounded
    BY KeyAssumption, UsableFinite DEF KeysInit, KeysBounded
  <1> QED
    BY <1>1, <1>2, <1>3, <1>4, <1>5, <1>6 DEF KeysInv, TypesInv, WorkspaceSafe

(* Every step but a write leaves what was read under the lock alone. *)

Others(o) == \A p \in Operations : p # o => operation'[p] = operation[p]

\* An operation begins, is refused, repeated or rolled back.
LEMMA QuietStep ==
  ASSUME KeysInv, NEW o \in Operations, KeepTables, UNCHANGED keys,
         operation' \in [Operations -> OperationType], Others(o),
         operation'[o].at \in {"idle", "workspace"},
         holder' = holder \/ (holder = o /\ holder' = Free)
  PROVE  KeysInv'
  <1> USE DEF KeysInv
  <1>1. TypesInv'
    BY DEF TypesInv, KeepTables, keys
  <1>2. \A p \in Operations : Inside(p)' => p # o /\ Inside(p) /\ operation'[p] = operation[p]
    BY DEF Inside, OperationAt, Others
  <1>3. LockInv'
    BY <1>2 DEF LockInv
  <1>4. AuthorityHolds'
    BY <1>2 DEF AuthorityHolds, Inside, WorkspaceSafe, Permits, Actor, Doing, KeepTables
  <1>5. WriteInv'
    <2>1. ASSUME NEW p \in Operations, OperationAt(p, "write")' PROVE ReadInv(p)'
      <3>1. OperationAt(p, "write") /\ operation'[p] = operation[p]
        BY <2>1, <1>2 DEF Inside, OperationAt
      <3>2. ReadInv(p)
        BY <3>1 DEF WriteInv
      <3> QED
        BY <3>1, <3>2 DEF ReadInv, Doing, Actor, KeepTables, keys, Owners, Usable
    <2> QED
      BY <2>1 DEF WriteInv
  <1>6. OwnerRemains' /\ KeysBounded'
    BY DEF WorkspaceSafe, OwnerRemains, KeysBounded, Owners, Usable, KeepTables, keys
  <1> QED
    BY <1>1, <1>3, <1>4, <1>5, <1>6 DEF WorkspaceSafe

LEMMA UnlockQuiet ==
  ASSUME TypesInv, NEW o \in Operations, Unlock(o)
  PROVE  /\ operation' \in [Operations -> OperationType] /\ Others(o)
         /\ operation'[o].at \in {"idle", "workspace"}
         /\ holder' = holder \/ (holder = o /\ holder' = Free)
  <1>1. Resting \in OperationType
    BY DEF Resting, OperationType
  <1> QED
    BY <1>1 DEF TypesInv, Unlock, Others, Resting

LEMMA ProceedOnly ==
  ASSUME TypesInv, NEW o \in Operations, NEW stage \in {"rows", "write"}, Proceed(o, stage),
         ~OperationAt(o, "idle")
  PROVE  /\ operation' \in [Operations -> OperationType] /\ Others(o)
         /\ operation'[o] = [operation[o] EXCEPT !.at = stage]
         /\ OperationAt(o, stage)' /\ UNCHANGED <<Doing(o), Actor(o)>>
  <1>1. operation[o] \in Underway
    BY DEF TypesInv, OperationType, OperationAt, Resting
  <1>2. [operation[o] EXCEPT !.at = stage] \in Underway
    BY <1>1 DEF Underway
  <1>3. operation' = [operation EXCEPT ![o] = [operation[o] EXCEPT !.at = stage]]
    BY <1>1 DEF TypesInv, Proceed
  <1>4. operation' \in [Operations -> OperationType] /\ Others(o)
        /\ operation'[o] = [operation[o] EXCEPT !.at = stage]
    BY <1>2, <1>3 DEF TypesInv, Others, OperationType
  <1> QED
    BY <1>1, <1>2, <1>4 DEF OperationAt, Doing, Actor, Underway

LEMMA BeginKeeps ==
  ASSUME KeysInv, NEW o \in Operations, NEW c \in Customers, NEW id \in ActionIds, NEW body \in Bodies,
         Begin(o, c, id, body), UNCHANGED keys
  PROVE  KeysInv'
  <1>1. [at |-> "workspace", actor |-> c, id |-> id, body |-> body] \in OperationType
    BY DEF OperationType, Underway
  <1>2. operation' \in [Operations -> OperationType] /\ Others(o) /\ operation'[o].at = "workspace"
    BY <1>1 DEF Begin, KeysInv, TypesInv, Others
  <1> QED
    BY <1>2, QuietStep DEF Begin

\* The lock is free, so no other operation is inside, and what the actor may
\* do is read with it.
LEMMA LockKeeps ==
  ASSUME KeysInv, NEW o \in Operations, LockWorkspace(o), UNCHANGED keys
  PROVE  KeysInv'
  <1>1. CASE ~Permits(Actor(o), Doing(o))
    BY <1>1, UnlockQuiet, QuietStep DEF LockWorkspace, KeysInv
  <1>2. CASE Permits(Actor(o), Doing(o))
    <2>1. /\ operation' \in [Operations -> OperationType] /\ Others(o)
          /\ OperationAt(o, "rows")' /\ UNCHANGED <<Doing(o), Actor(o)>>
      BY <1>2, ProceedOnly DEF LockWorkspace, KeysInv, OperationAt
    <2>2. \A p \in Operations : ~Inside(p)
      BY DirectoryAssumption DEF KeysInv, LockInv, LockWorkspace, LockGranted, Free
    <2>3. \A p \in Operations : Inside(p)' => p = o
      BY <2>1, <2>2 DEF Inside, OperationAt, Others
    <2>4. KeepTables /\ UNCHANGED keys /\ holder' = o
      BY <1>2 DEF LockWorkspace
    <2>5. TypesInv'
      BY <2>1, <2>4 DEF KeysInv, TypesInv, KeepTables, keys
    <2>6. LockInv'
      BY <2>3, <2>4 DEF LockInv
    <2>7. Permits(Actor(o), Doing(o))'
      BY <1>2, <2>1, <2>4 DEF Permits, KeepTables
    <2>8. AuthorityHolds'
      BY <2>3, <2>7 DEF AuthorityHolds, Inside
    <2>9. WriteInv'
      BY <2>1, <2>3 DEF WriteInv, Inside, OperationAt
    <2>10. OwnerRemains' /\ KeysBounded'
      BY <2>4 DEF KeysInv, WorkspaceSafe, OwnerRemains, KeysBounded, Owners, Usable, KeepTables, keys
    <2> QED
      BY <2>5, <2>6, <2>8, <2>9, <2>10 DEF KeysInv, WorkspaceSafe
  <1> QED
    BY <1>1, <1>2

\* The rows are read: what is found is what ReadInv says.
LEMMA ReadKeeps ==
  ASSUME KeysInv, NEW o \in Operations, ReadRows(o) \/ ReadKeys(o), UNCHANGED keys
  PROVE  KeysInv'
  <1>1. /\ operation' \in [Operations -> OperationType] /\ Others(o)
        /\ OperationAt(o, "write")' /\ UNCHANGED <<Doing(o), Actor(o)>>
    BY ProceedOnly DEF ReadRows, ReadKeys, KeysInv, OperationAt
  <1>2. OperationAt(o, "rows") /\ KeepTables /\ UNCHANGED holder
    BY DEF ReadRows, ReadKeys
  <1>3. \A p \in Operations : p # o => (Inside(p)' <=> Inside(p)) /\ operation'[p] = operation[p]
    BY <1>1 DEF Inside, OperationAt, Others
  <1>4. TypesInv'
    BY <1>1, <1>2 DEF KeysInv, TypesInv, KeepTables, keys
  <1>5. LockInv'
    BY <1>2, <1>3 DEF KeysInv, LockInv, Inside
  <1>6. AuthorityHolds'
    <2>1. ASSUME NEW p \in Operations, Inside(p)' PROVE Permits(Actor(p), Doing(p))'
      <3>1. Inside(p) /\ Doing(p)' = Doing(p) /\ Actor(p)' = Actor(p)
        BY <2>1, <1>1, <1>2, <1>3 DEF Inside, Doing, Actor
      <3>2. Permits(Actor(p), Doing(p))
        BY <3>1 DEF KeysInv, WorkspaceSafe, AuthorityHolds, Inside
      <3> QED
        BY <3>1, <3>2, <1>2 DEF Permits, KeepTables
    <2> QED
      BY <2>1 DEF AuthorityHolds, Inside
  <1>7. ReadInv(o)
    <2> DEFINE body == Doing(o)
    <2>0. body \in Bodies \cup {NoBody}
      BY DEF KeysInv, TypesInv, OperationType, Underway, Resting, Doing
    <2>1. CASE ReadRows(o)
      <3>1. body \in DirectoryBodies /\ Acceptable(o)
        BY <2>1 DEF ReadRows
      <3>2. ~Grows(body) /\ ~Swaps(body) /\ body.kind # "key-rotate"
        BY <3>1 DEF DirectoryBodies, MemberBodies, InviteBodies, AnswerBodies, CreateBodies, Grows, Swaps
      <3>3. body.kind = "member-change" =>
              (role[body.subject] = "owner" /\ body.value # "owner" => Cardinality(Owners) > 1)
        BY <3>1 DEF Acceptable
      <3>4. body.kind = "invite-accept" => role[Actor(o)] = "none"
        BY <3>1 DEF Acceptable
      <3> QED
        BY <3>2, <3>3, <3>4 DEF ReadInv
    <2>2. CASE ReadKeys(o)
      <3>1. body.kind \in {"key-create", "key-rotate", "key-revoke"}
        BY <2>2 DEF ReadKeys
      <3>2. Grows(body) => Cardinality(Usable) < MaxKeys
        BY <2>2 DEF ReadKeys, Grows, Room
      <3>3. body.kind = "key-rotate" => key[body.subject] = "active"
        BY <2>2 DEF ReadKeys, Rotatable
      <3>4. ASSUME Swaps(body) PROVE Cardinality(Usable \ {body.subject}) < MaxKeys
        <4>1. body \in KeyBodies
          BY <2>0, <3>4 DEF Swaps, Bodies, DirectoryBodies, MemberBodies, InviteBodies, AnswerBodies,
                            CreateBodies, NoBody
        <4>2. body.subject \in Keys
          BY <3>4, <4>1 DEF Swaps, KeyBodies
        <4>3. body.subject \in Usable
          BY <2>2, <3>4, <4>2 DEF ReadKeys, Swaps, Rotatable, Usable
        <4>4. Cardinality(Usable) <= MaxKeys
          BY DEF KeysInv, WorkspaceSafe, KeysBounded
        <4>5. Cardinality(Usable \ {body.subject}) = Cardinality(Usable) - 1
          BY <4>3, UsableFinite, FS_RemoveElement
        <4> QED
          BY <4>4, <4>5, UsableFinite, KeyAssumption
      <3> QED
        BY <3>1, <3>2, <3>3, <3>4 DEF ReadInv
    <2> QED
      BY <2>1, <2>2
  <1>8. WriteInv'
    <2>1. ASSUME NEW p \in Operations, OperationAt(p, "write")' PROVE ReadInv(p)'
      <3>1. ReadInv(p) /\ Doing(p)' = Doing(p) /\ Actor(p)' = Actor(p)
        BY <2>1, <1>1, <1>3, <1>7 DEF KeysInv, WriteInv, Doing, Actor, OperationAt
      <3> QED
        BY <3>1, <1>2 DEF ReadInv, KeepTables, keys, Owners, Usable
    <2> QED
      BY <2>1 DEF WriteInv
  <1>9. OwnerRemains' /\ KeysBounded'
    BY <1>2 DEF KeysInv, WorkspaceSafe, OwnerRemains, KeysBounded, Owners, Usable, KeepTables, keys
  <1> QED
    BY <1>4, <1>5, <1>6, <1>8, <1>9 DEF KeysInv, WorkspaceSafe

(* A write: nobody else is inside, so only the tables have to be looked at. *)

LEMMA WriterAlone ==
  ASSUME KeysInv, NEW o \in Operations, OperationAt(o, "write"), Unlock(o)
  PROVE  /\ operation' \in [Operations -> OperationType]
         /\ LockInv' /\ WriteInv' /\ AuthorityHolds'
         /\ ReadInv(o) /\ Permits(Actor(o), Doing(o))
  <1>1. holder = o /\ \A p \in Operations : p # o => ~Inside(p)
    BY DEF KeysInv, LockInv, Inside
  <1>2. operation' \in [Operations -> OperationType] /\ Others(o) /\ operation'[o].at \in {"idle", "workspace"}
    BY UnlockQuiet DEF KeysInv
  <1>3. \A p \in Operations : ~Inside(p)'
    BY <1>1, <1>2 DEF Inside, OperationAt, Others
  <1>4. ReadInv(o) /\ Permits(Actor(o), Doing(o))
    BY DEF KeysInv, WriteInv, WorkspaceSafe, AuthorityHolds
  <1> QED
    BY <1>2, <1>3, <1>4 DEF LockInv, WriteInv, AuthorityHolds, Inside

LEMMA MoreThanOne ==
  ASSUME NEW S, Cardinality(S) > 1, NEW x
  PROVE  \E y \in S : y # x
  <1> SUFFICES ASSUME \A y \in S : y = x PROVE FALSE
    OBVIOUS
  <1>1. CASE S = {}
    BY <1>1, FS_EmptySet
  <1>2. CASE S # {}
    <2>1. S = {x}
      BY <1>2
    <2>2. Cardinality(S) = 1
      BY <2>1, FS_Singleton
    <2> QED
      BY <2>2
  <1> QED
    BY <1>1, <1>2

WithStatus(rows, i, status) == [rows EXCEPT ![i].status = status]

InvitationRows == [Invitations -> Invitation]

LEMMA InvitationSet ==
  ASSUME NEW rows, NEW i, NEW value, rows \in InvitationRows, i \in Invitations,
         value \in {"unused", "pending", "accepted", "revoked", "expired"}
  PROVE  WithStatus(rows, i, value) \in InvitationRows
  <1> DEFINE old == rows[i]
             new == [status |-> value, role |-> old.role, customer |-> old.customer]
             changed == [rows EXCEPT ![i] = new]
  <1>1. WithStatus(rows, i, value) = [rows EXCEPT ![i] = [old EXCEPT !.status = value]]
    BY DEF WithStatus
  <1>2. old \in Invitation
    BY DEF InvitationRows
  <1> HIDE DEF old
  <1>3. [old EXCEPT !.status = value] = new /\ new \in Invitation
    BY <1>2 DEF Invitation
  <1> HIDE DEF new
  <1>4. WithStatus(rows, i, value) = changed
    BY <1>1, <1>3
  <1>5. changed \in InvitationRows
    BY <1>3 DEF InvitationRows
  <1> HIDE DEF changed
  <1> QED
    BY <1>4, <1>5, Zenon

LEMMA WriteKeeps ==
  ASSUME KeysInv, NEW o \in Operations, Write(o), UNCHANGED keys
  PROVE  KeysInv'
  <1> DEFINE body == Doing(o)
  <1>1. /\ operation' \in [Operations -> OperationType]
        /\ LockInv' /\ WriteInv' /\ AuthorityHolds' /\ ReadInv(o)
    BY WriterAlone DEF Write
  <1>2. KeysBounded' /\ key' \in [Keys -> KeyStates] /\ outlived' \subseteq Keys
    BY DEF KeysInv, TypesInv, WorkspaceSafe, KeysBounded, Usable, keys
  <1>a. /\ role \in [Customers -> Roles \cup {"none"}] /\ invitation \in [Invitations -> Invitation]
        /\ Actor(o) \in Customers /\ body \in DirectoryBodies
    BY DEF KeysInv, TypesInv, Write, OperationType, Underway, Resting, Actor, OperationAt
  <1>b. created => \E c \in Customers : role[c] = "owner"
    BY DEF KeysInv, WorkspaceSafe, OwnerRemains, Owners
  <1> DEFINE Tables == /\ role' \in [Customers -> Roles \cup {"none"}]
                       /\ invitation' \in [Invitations -> Invitation]
                       /\ created' => \E c \in Customers : role'[c] = "owner"
  <1>3. CASE body.kind = "workspace-create" /\ CreateWorkspace(o)
    <2>1. role' \in [Customers -> Roles \cup {"none"}] /\ role'[Actor(o)] = "owner"
      BY <1>3, <1>a DEF CreateWorkspace, Roles
    <2> QED
      BY <1>1, <1>2, <1>3, <1>a, <2>1
         DEF CreateWorkspace, KeysInv, TypesInv, WorkspaceSafe, OwnerRemains, Owners
  <1>4. CASE body.kind = "project-create" /\ CreateProject(o)
    BY <1>1, <1>2, <1>4, <1>a, <1>b DEF CreateProject, KeysInv, TypesInv, WorkspaceSafe, OwnerRemains, Owners
  <1>5. CASE body.kind = "member-change" /\ ChangeMember(o)
    <2>1. body.value \in Roles \cup {"none"}
      BY <1>5, <1>a DEF DirectoryBodies, MemberBodies, InviteBodies, AnswerBodies, CreateBodies
    <2>2. role' = [role EXCEPT ![body.subject] = body.value]
      BY <1>5 DEF ChangeMember
    <2>3. role' \in [Customers -> Roles \cup {"none"}]
      BY <1>a, <2>1, <2>2
    <2>4. created' => \E c \in Customers : role'[c] = "owner"
      <3>1. SUFFICES ASSUME created PROVE \E c \in Customers : role'[c] = "owner"
        BY <1>5 DEF ChangeMember
      <3>2. CASE role[body.subject] = "owner" /\ body.value # "owner"
        <4>1. Cardinality(Owners) > 1
          BY <1>1, <1>5, <3>2 DEF ReadInv
        <4>2. PICK c \in Owners : c # body.subject
          BY <4>1, MoreThanOne
        <4> QED
          BY <1>a, <2>2, <4>2 DEF Owners
      <3>3. CASE body.value = "owner" \/ role[body.subject] # "owner"
        <4>1. PICK c \in Customers : role[c] = "owner"
          BY <1>b, <3>1
        <4> QED
          BY <1>a, <2>2, <3>3, <4>1
      <3> QED
        BY <3>2, <3>3
    <2> QED
      BY <1>1, <1>2, <1>5, <1>a, <2>3, <2>4
         DEF ChangeMember, KeysInv, TypesInv, WorkspaceSafe, OwnerRemains, Owners
  <1>6. CASE body.kind = "invite-create" /\ Invite(o)
    <2>1. body.subject \in Customers /\ body.value \in Roles
      BY <1>6, <1>a DEF DirectoryBodies, MemberBodies, InviteBodies, AnswerBodies, CreateBodies
    <2>2. Invited(body.subject, body.value) \in Invitation
      BY <2>1 DEF Invited, Invitation
    <2>3. invitation' \in [Invitations -> Invitation]
      BY <1>6, <1>a, <2>2 DEF Invite
    <2> QED
      BY <1>1, <1>2, <1>6, <1>a, <1>b, <2>3
         DEF Invite, KeysInv, TypesInv, WorkspaceSafe, OwnerRemains, Owners
  <1>7. CASE body.kind = "invite-revoke" /\ RevokeInvitation(o)
    <2>0. body.subject \in Invitations
      BY <1>7, <1>a DEF DirectoryBodies, MemberBodies, InviteBodies, AnswerBodies, CreateBodies
    <2>2. PICK status \in {"unused", "pending", "accepted", "revoked", "expired"} :
            invitation' = WithStatus(invitation, body.subject, status)
      <3>2. CASE invitation[body.subject].status = "accepted"
        BY <1>7, <1>a, <2>0, <3>2 DEF RevokeInvitation, WithStatus
      <3>3. CASE invitation[body.subject].status # "accepted"
        BY <1>7, <1>a, <2>0, <3>3 DEF RevokeInvitation, WithStatus
      <3> QED
        BY <3>2, <3>3
    <2>1. invitation' \in [Invitations -> Invitation]
      <3>1. invitation \in InvitationRows
        BY <1>a DEF InvitationRows
      <3>2. WithStatus(invitation, body.subject, status) \in InvitationRows
        BY <2>0, <3>1, InvitationSet, Zenon
      <3> QED
        BY <2>2, <3>2 DEF InvitationRows
    <2> QED
      BY <1>1, <1>2, <1>7, <1>a, <1>b, <2>1
         DEF RevokeInvitation, KeysInv, TypesInv, WorkspaceSafe, OwnerRemains, Owners
  <1>8. CASE body.kind = "invite-accept" /\ AcceptInvitation(o)
    <2>1. body.subject \in Invitations
      BY <1>8, <1>a DEF DirectoryBodies, MemberBodies, InviteBodies, AnswerBodies, CreateBodies
    <2>2. invitation[body.subject].role \in Roles \cup {"none"}
      BY <1>a, <2>1 DEF Invitation
    <2>3. role' \in [Customers -> Roles \cup {"none"}]
      BY <1>8, <1>a, <2>2 DEF AcceptInvitation
    <2>4. invitation' \in [Invitations -> Invitation]
      <3>1. invitation' = WithStatus(invitation, body.subject, "accepted")
        BY <1>8 DEF AcceptInvitation, WithStatus
      <3>2. "accepted" \in {"unused", "pending", "accepted", "revoked", "expired"}
        OBVIOUS
      <3>3. invitation \in InvitationRows
        BY <1>a DEF InvitationRows
      <3>4. WithStatus(invitation, body.subject, "accepted") \in InvitationRows
        BY <2>1, <3>2, <3>3, InvitationSet, Zenon
      <3> QED
        BY <3>1, <3>4 DEF InvitationRows
    <2>5. role[Actor(o)] = "none"
      BY <1>1, <1>8 DEF ReadInv
    <2>6. \A c \in Customers : role[c] = "owner" => role'[c] = "owner"
      BY <1>8, <1>a, <2>5 DEF AcceptInvitation
    <2> QED
      BY <1>1, <1>2, <1>8, <1>b, <2>3, <2>4, <2>6
         DEF AcceptInvitation, KeysInv, TypesInv, WorkspaceSafe, OwnerRemains, Owners
  <1>9. body.kind \in {"workspace-create", "project-create", "member-change",
                       "invite-create", "invite-revoke", "invite-accept"}
    BY <1>a DEF DirectoryBodies, MemberBodies, InviteBodies, AnswerBodies, CreateBodies
  <1> QED
    BY <1>3, <1>4, <1>5, <1>6, <1>7, <1>8, <1>9 DEF Write

\* New keys take a room that was read, or the place of the key they replace.
LEMMA WriteKeysKeeps ==
  ASSUME KeysInv, NEW o \in Operations, WriteKeys(o)
  PROVE  KeysInv' /\ Over \subseteq Over'
  <1> DEFINE body == Doing(o)
             k == body.subject
  <1>1. /\ operation' \in [Operations -> OperationType]
        /\ LockInv' /\ WriteInv' /\ AuthorityHolds' /\ ReadInv(o)
    BY WriterAlone DEF WriteKeys
  <1>2. UNCHANGED <<role, created, projects, invitation, barred, outlived, resolver>>
    BY DEF WriteKeys
  <1>3. OwnerRemains' /\ role' \in [Customers -> Roles \cup {"none"}]
        /\ invitation' \in [Invitations -> Invitation] /\ outlived' \subseteq Keys
    BY <1>2 DEF KeysInv, TypesInv, WorkspaceSafe, OwnerRemains, Owners
  <1>a. key \in [Keys -> KeyStates] /\ Cardinality(Usable) <= MaxKeys
    BY DEF KeysInv, TypesInv, WorkspaceSafe, KeysBounded
  <1>b. IsFiniteSet(Usable) /\ IsFiniteSet(Usable') /\ Cardinality(Usable) \in Nat
        /\ Cardinality(Usable') \in Nat /\ MaxKeys \in Nat
    <2>1. Usable' \in SUBSET Keys
      BY DEF Usable
    <2>2. IsFiniteSet(Usable')
      BY <2>1, FS_Subset, KeyAssumption
    <2> QED
      BY <2>2, UsableFinite, FS_CardinalityType, KeyAssumption
  <1>c. ASSUME NEW S, IsFiniteSet(S), Cardinality(S) < MaxKeys, NEW n, Usable' \subseteq S \cup {n}
        PROVE  Cardinality(Usable') <= MaxKeys
    <2>0. Cardinality(S) \in Nat
      BY <1>c, FS_CardinalityType
    <2>1. IsFiniteSet(S \cup {n}) /\ Cardinality(S \cup {n}) <= Cardinality(S) + 1
      <3>1. IsFiniteSet(S \cup {n})
            /\ Cardinality(S \cup {n}) = IF n \in S THEN Cardinality(S) ELSE Cardinality(S) + 1
        BY <1>c, FS_AddElement
      <3> QED
        BY <2>0, <3>1
    <2>2. Cardinality(Usable') <= Cardinality(S \cup {n})
      BY <1>c, <2>1, FS_Subset
    <2>3. Cardinality(S) \in Nat /\ Cardinality(S \cup {n}) \in Nat
      BY <1>c, <2>1, FS_CardinalityType
    <2> QED
      BY <1>b, <1>c, <2>1, <2>2, <2>3
  <1>4. CASE body.kind = "key-create"
    <2>1. PICK n \in Keys : key[n] = "unused" /\ key' = [key EXCEPT ![n] = "active"]
      BY <1>4 DEF WriteKeys
    <2>2. Cardinality(Usable) < MaxKeys
      BY <1>1, <1>4 DEF ReadInv, Grows
    <2>3. Usable' \subseteq Usable \cup {n} /\ Over \subseteq Over' /\ key' \in [Keys -> KeyStates]
      BY <1>2, <1>a, <2>1 DEF Usable, Over, KeyStates
    <2>4. Cardinality(Usable') <= MaxKeys
      BY <1>b, <1>c, <2>2, <2>3
    <2> QED
      BY <1>1, <1>3, <2>3, <2>4 DEF KeysInv, TypesInv, WorkspaceSafe, KeysBounded
  <1>5. CASE body.kind = "key-rotate"
    <2> DEFINE end == IF body.value = "grace" THEN "closing" ELSE "revoked"
    <2>1. PICK n \in Keys : key[n] = "unused" /\ key' = [key EXCEPT ![n] = "active", ![k] = end]
      BY <1>5 DEF WriteKeys
    <2>2. key[k] = "active"
      BY <1>1, <1>5 DEF ReadInv
    <2>3. Over \subseteq Over' /\ key' \in [Keys -> KeyStates]
      BY <1>2, <1>a, <2>1, <2>2 DEF Over, KeyStates
    <2>4. CASE body.value = "grace"
      <3>1. Cardinality(Usable) < MaxKeys
        BY <1>1, <1>5, <2>4 DEF ReadInv, Grows
      <3>2. Usable' \subseteq Usable \cup {n}
        BY <1>2, <1>a, <2>1, <2>2 DEF Usable
      <3> QED
        BY <1>1, <1>3, <1>b, <1>c, <2>3, <3>1, <3>2 DEF KeysInv, TypesInv, WorkspaceSafe, KeysBounded
    <2>5. CASE body.value # "grace"
      <3>1. Cardinality(Usable \ {k}) < MaxKeys
        BY <1>1, <1>5, <2>5 DEF ReadInv, Swaps
      <3>2. key' = [key EXCEPT ![n] = "active", ![k] = "revoked"]
        BY <2>1, <2>5
      <3>3. Usable' \subseteq (Usable \ {k}) \cup {n}
        BY <1>2, <1>a, <2>1, <2>2, <3>2 DEF Usable
      <3>4. IsFiniteSet(Usable \ {k})
        BY <1>b, FS_RemoveElement
      <3>5. Cardinality(Usable') <= MaxKeys
        BY <1>c, <3>1, <3>3, <3>4
      <3> QED
        BY <1>1, <1>3, <2>3, <3>5 DEF KeysInv, TypesInv, WorkspaceSafe, KeysBounded
    <2> QED
      BY <2>4, <2>5
  <1>6. CASE body.kind = "key-revoke"
    <2>1. key' = [key EXCEPT ![k] = "revoked"]
      BY <1>6 DEF WriteKeys
    <2>2. Usable' \in SUBSET Usable /\ Over \subseteq Over' /\ key' \in [Keys -> KeyStates]
      BY <1>2, <1>a, <2>1 DEF Usable, Over, KeyStates
    <2>3. Cardinality(Usable') <= Cardinality(Usable)
      BY <2>2, <1>b, FS_Subset
    <2> QED
      BY <1>1, <1>3, <1>a, <1>b, <2>2, <2>3 DEF KeysInv, TypesInv, WorkspaceSafe, KeysBounded
  <1> QED
    BY <1>4, <1>5, <1>6 DEF WriteKeys

(* What happens beside the operations *)

\* Fewer usable keys, or an invitation that expires, take nothing from what an
\* operation has read.
LEMMA BesideKeeps ==
  ASSUME KeysInv, UNCHANGED <<role, created, holder, operation>>, TypesInv',
         Usable' \subseteq Usable, \A k \in Keys : key[k] = "active" => key'[k] = "active",
         \A i \in Invitations : /\ invitation'[i].role = invitation[i].role
                                /\ invitation[i].status # "unused" => invitation'[i].status # "unused"
  PROVE  KeysInv'
  <1>1. LockInv' /\ OwnerRemains'
    BY DEF KeysInv, LockInv, Inside, OperationAt, WorkspaceSafe, OwnerRemains, Owners
  <1>2. IsFiniteSet(Usable) /\ Cardinality(Usable) \in Nat
    BY UsableFinite
  <1>3. Cardinality(Usable') <= Cardinality(Usable) /\ Cardinality(Usable') \in Nat
    BY <1>2, FS_Subset, FS_CardinalityType
  <1>4. ASSUME NEW k PROVE /\ Cardinality(Usable' \ {k}) <= Cardinality(Usable \ {k})
                           /\ Cardinality(Usable' \ {k}) \in Nat /\ Cardinality(Usable \ {k}) \in Nat
    <2>1. IsFiniteSet(Usable \ {k}) /\ Usable' \ {k} \in SUBSET (Usable \ {k})
      BY <1>2, FS_RemoveElement
    <2>2. IsFiniteSet(Usable' \ {k}) /\ Cardinality(Usable' \ {k}) <= Cardinality(Usable \ {k})
      BY <2>1, FS_Subset
    <2> QED
      BY <2>1, <2>2, FS_CardinalityType
  <1>5. MaxKeys \in Nat
    BY KeyAssumption
  <1>6. KeysBounded'
    BY <1>2, <1>3, <1>5 DEF KeysInv, WorkspaceSafe, KeysBounded
  <1>7. AuthorityHolds'
    <2>1. ASSUME NEW o \in Operations, Inside(o) PROVE Permits(Actor(o), Doing(o))'
      <3>1. Permits(Actor(o), Doing(o)) /\ Doing(o)' = Doing(o) /\ Actor(o)' = Actor(o)
        BY <2>1 DEF KeysInv, WorkspaceSafe, AuthorityHolds, Inside, Doing, Actor
      <3>2. CASE Doing(o).kind = "invite-revoke"
        <4>1. Doing(o) \in Bodies
          BY <2>1, <3>2 DEF KeysInv, TypesInv, OperationType, Underway, Resting, Doing, NoBody
        <4>2. Doing(o).subject \in Invitations
          BY <4>1, <3>2 DEF Bodies, DirectoryBodies, MemberBodies, InviteBodies, AnswerBodies,
                            CreateBodies, KeyBodies
        <4> QED
          BY <3>1, <3>2, <4>2 DEF Permits
      <3>3. CASE Doing(o).kind # "invite-revoke"
        BY <3>1, <3>3 DEF Permits
      <3> QED
        BY <3>2, <3>3
    <2> QED
      BY <2>1 DEF AuthorityHolds, Inside, OperationAt
  <1>8. WriteInv'
    <2>1. ASSUME NEW o \in Operations, OperationAt(o, "write") PROVE ReadInv(o)'
      <3>1. ReadInv(o) /\ Doing(o)' = Doing(o) /\ Actor(o)' = Actor(o) /\ Owners' = Owners
        BY <2>1 DEF KeysInv, WriteInv, Doing, Actor, Owners
      <3>2. Grows(Doing(o)) => Cardinality(Usable') < MaxKeys
        BY <1>2, <1>3, <1>5, <3>1 DEF ReadInv
      <3>3. Swaps(Doing(o)) => Cardinality(Usable' \ {Doing(o).subject}) < MaxKeys
        <4>1. Swaps(Doing(o)) => Cardinality(Usable \ {Doing(o).subject}) < MaxKeys
          BY <3>1 DEF ReadInv
        <4>2. PICK k : k = Doing(o).subject
          OBVIOUS
        <4>3. /\ Cardinality(Usable' \ {k}) <= Cardinality(Usable \ {k})
              /\ Cardinality(Usable' \ {k}) \in Nat /\ Cardinality(Usable \ {k}) \in Nat
          BY <1>4
        <4>4. Swaps(Doing(o)) => Cardinality(Usable \ {k}) < MaxKeys
          BY <4>1, <4>2
        <4>5. Swaps(Doing(o)) => Cardinality(Usable' \ {k}) < MaxKeys
          BY <4>3, <4>4, <1>5
        <4> QED
          BY <4>2, <4>5
      <3>4. Doing(o).kind = "key-rotate" => key'[Doing(o).subject] = "active"
        <4>1. Doing(o).kind = "key-rotate" => Doing(o).subject \in Keys
          BY DEF KeysInv, TypesInv, OperationType, Underway, Resting, Doing, NoBody, Bodies, DirectoryBodies,
                 MemberBodies, InviteBodies, AnswerBodies, CreateBodies, KeyBodies
        <4> QED
          BY <3>1, <4>1 DEF ReadInv
      <3> QED
        BY <3>1, <3>2, <3>3, <3>4 DEF ReadInv
    <2> QED
      BY <2>1 DEF WriteInv, OperationAt
  <1> QED
    BY <1>1, <1>6, <1>7, <1>8 DEF KeysInv, WorkspaceSafe

\* A request that presents a key is served only if the key is usable then.
Served == \A v \in Resolvers : resolver'[v].at = "served" /\ resolver[v].at # "served"
                                  => resolver[v].key \in Usable

LEMMA KeysStep ==
  ASSUME KeysInv, KeysNext
  PROVE  KeysInv' /\ Over \subseteq Over'
  <1>a. TypesInv
    BY DEF KeysInv
  <1>1. ASSUME NEW o \in Operations, NEW c \in Customers, NEW id \in ActionIds, NEW body \in Bodies,
               Begin(o, c, id, body), UNCHANGED keys
        PROVE  KeysInv' /\ Over \subseteq Over'
    BY <1>1, BeginKeeps DEF keys, Over
  <1>2. ASSUME NEW o \in Operations, DirectoryStep(o), UNCHANGED keys
        PROVE  KeysInv' /\ Over \subseteq Over'
    <2>1. CASE LockWorkspace(o)
      BY <1>2, <2>1, LockKeeps DEF keys, Over
    <2>2. CASE Repeat(o) \/ Rollback(o)
      <3>1. Unlock(o) /\ KeepTables
        BY <2>2 DEF Repeat, Rollback
      <3> QED
        BY <1>2, <1>a, <3>1, UnlockQuiet, QuietStep DEF keys, Over
    <2>3. CASE ReadRows(o)
      BY <1>2, <2>3, ReadKeeps DEF keys, Over
    <2>4. CASE Write(o)
      BY <1>2, <2>4, WriteKeeps DEF keys, Over
    <2> QED
      BY <1>2, <2>1, <2>2, <2>3, <2>4 DEF DirectoryStep
  <1>3. ASSUME NEW i \in Invitations, ExpireInvitation(i), UNCHANGED keys
        PROVE  KeysInv' /\ Over \subseteq Over'
    <2>1. /\ invitation' \in [Invitations -> Invitation]
          /\ \A j \in Invitations : /\ invitation'[j].role = invitation[j].role
                                    /\ invitation[j].status # "unused" => invitation'[j].status # "unused"
      BY <1>3, <1>a DEF ExpireInvitation, TypesInv, Invitation
    <2>2. TypesInv' /\ Usable' = Usable /\ Over' = Over
      BY <1>3, <1>a, <2>1 DEF ExpireInvitation, TypesInv, keys, Usable, Over
    <2> QED
      BY <1>3, <2>1, <2>2, BesideKeeps DEF ExpireInvitation, keys
  <1>4. ASSUME NEW c \in Customers, Disable(c), UNCHANGED keys
        PROVE  KeysInv' /\ Over \subseteq Over'
    <2>1. TypesInv' /\ Usable' = Usable /\ Over' = Over
      BY <1>4, <1>a DEF Disable, TypesInv, keys, Usable, Over
    <2> QED
      BY <1>4, <2>1, BesideKeeps DEF Disable, keys
  <1>5. ASSUME NEW o \in Operations, ReadKeys(o) PROVE KeysInv' /\ Over \subseteq Over'
    <2>1. UNCHANGED keys
      BY <1>5 DEF ReadKeys, keys
    <2> QED
      BY <1>5, <2>1, ReadKeeps DEF keys, Over
  <1>6. ASSUME NEW o \in Operations, WriteKeys(o) PROVE KeysInv' /\ Over \subseteq Over'
    BY <1>6, WriteKeysKeeps
  <1>7. ASSUME NEW k \in Keys, EndKey(k) PROVE KeysInv' /\ Over \subseteq Over'
    <2>1. UNCHANGED <<role, created, invitation, holder, operation>>
      BY <1>7 DEF EndKey, directory
    <2>2. /\ key' \in [Keys -> KeyStates] /\ outlived' \subseteq Keys
          /\ Usable' \subseteq Usable /\ Over \subseteq Over'
          /\ \A j \in Keys : key[j] = "active" => key'[j] = "active"
      BY <1>7, <1>a DEF EndKey, TypesInv, KeyStates, Usable, Over
    <2>3. TypesInv'
      BY <1>a, <2>1, <2>2 DEF TypesInv
    <2> QED
      BY <2>1, <2>2, <2>3, BesideKeeps
  <1>8. ASSUME NEW v \in Resolvers, UseKey(v) \/ EndResolve(v) \/ \E k \in Keys : LookUp(v, k)
        PROVE  KeysInv' /\ Over \subseteq Over'
    <2>1. UNCHANGED <<role, created, invitation, holder, operation, key, outlived>>
      BY <1>8 DEF UseKey, EndResolve, LookUp, directory
    <2>2. TypesInv' /\ Usable' = Usable /\ Over' = Over
      BY <1>a, <2>1 DEF TypesInv, Usable, Over
    <2> QED
      BY <2>1, <2>2, BesideKeeps
  <1>9. CASE DirectoryNext /\ UNCHANGED keys
    BY <1>1, <1>2, <1>3, <1>4, <1>9 DEF DirectoryNext, Bodies
  <1>10. CASE \E o \in Operations, c \in Customers, id \in ActionIds, body \in KeyBodies :
                 Begin(o, c, id, body) /\ UNCHANGED keys
    BY <1>1, <1>10 DEF Bodies
  <1> QED
    BY <1>5, <1>6, <1>7, <1>8, <1>9, <1>10 DEF KeysNext

ResolverInv == resolver \in [Resolvers -> [at: {"idle", "found", "served"}, key: Keys \cup {Nothing}]]

LEMMA ServedStep ==
  ASSUME ResolverInv, KeysNext
  PROVE  ResolverInv' /\ Served
  <1> USE DEF ResolverInv
  <1>1. CASE UNCHANGED resolver
    BY <1>1 DEF Served
  <1>2. ASSUME NEW v \in Resolvers, UseKey(v) PROVE ResolverInv' /\ Served
    <2>1. CASE StillUsable(v)
      BY <1>2, <2>1 DEF UseKey, StillUsable, Served
    <2>2. CASE ~StillUsable(v)
      BY <1>2, <2>2 DEF UseKey, Served, NoLookup
    <2> QED
      BY <2>1, <2>2
  <1>3. ASSUME NEW v \in Resolvers, EndResolve(v) PROVE ResolverInv' /\ Served
    BY <1>3 DEF EndResolve, Served, NoLookup
  <1>4. ASSUME NEW v \in Resolvers, NEW k \in Keys, LookUp(v, k) PROVE ResolverInv' /\ Served
    BY <1>4 DEF LookUp, Served
  <1> QED
    BY <1>1, <1>2, <1>3, <1>4 DEF KeysNext, keys, ReadKeys, WriteKeys, EndKey

LEMMA KeysInvariant == KeysSpec => [](KeysInv /\ ResolverInv)
  <1>1. KeysInit => ResolverInv
    BY DEF KeysInit, ResolverInv, NoLookup
  <1>2. KeysInv /\ ResolverInv /\ [KeysNext]_<<directory, keys>> => KeysInv' /\ ResolverInv'
    <2>1. CASE KeysNext
      BY <2>1, KeysStep, ServedStep
    <2>2. CASE UNCHANGED <<directory, keys>>
      BY <2>2 DEF directory, keys, KeysInv, ResolverInv, TypesInv, LockInv, WriteInv, ReadInv, WorkspaceSafe,
         OwnerRemains, AuthorityHolds, KeysBounded, Owners, Usable, Inside, OperationAt, Doing, Actor, Permits
    <2> QED
      BY <2>1, <2>2
  <1> QED
    BY KeysBegin, <1>1, <1>2, PTL DEF KeysSpec

\* A workspace never loses its last owner, no operation commits after its
\* actor has lost the authority for it, and a project never exceeds its number
\* of keys, however many operations overlap: each reads everything it depends
\* on under the workspace row's lock and commits under it.
THEOREM WorkspaceStaysSafe == KeysSpec => []WorkspaceSafe
  <1>1. KeysInv => WorkspaceSafe
    BY DEF KeysInv
  <1> QED
    BY KeysInvariant, <1>1, PTL

\* No step makes a revoked or expired key usable again, and a request that
\* found a key before its end is refused after it.
THEOREM KeysEndForGood == KeysSpec => KeyEndsForGood
  <1>1. KeysInv /\ ResolverInv /\ [KeysNext]_<<directory, keys>> =>
          [Over \subseteq Over' /\ Served]_keys
    BY KeysStep, ServedStep DEF keys
  <1> QED
    BY KeysInvariant, <1>1, PTL DEF KeysSpec, KeyEndsForGood, Served

-----------------------------------------------------------------------------
(* The types of the whole directory. *)

TablesInv ==
  /\ created \in BOOLEAN /\ projects \in 0..MaxProjects
  /\ barred \subseteq Customers /\ actions \subseteq (Customers \cup {Nothing}) \X ActionIds
  /\ identity \in [Customers -> Operations \cup {Free}]
  /\ holder \in Operations \cup {Free}

\* An operation about to create a project has seen room for it, and holds the
\* workspace row since.
ProjectRoom ==
  \A o \in Operations : OperationAt(o, "write") /\ Doing(o).kind = "project-create"
                           => projects < MaxProjects

LEMMA TablesBegin == KeysInit => TablesInv /\ ProjectRoom
  <1> SUFFICES ASSUME KeysInit PROVE TablesInv /\ ProjectRoom
    OBVIOUS
  <1>1. created \in BOOLEAN /\ projects \in 0..MaxProjects
    <2>1. created \in BOOLEAN /\ projects \in {0, 1}
      <3>1. CASE NoWorkspace
        BY <3>1 DEF NoWorkspace
      <3>2. CASE ExistingWorkspace
        BY <3>2 DEF ExistingWorkspace
      <3> QED
        BY <3>1, <3>2 DEF KeysInit, DirectoryInit
    <2> QED
      BY <2>1, DirectoryAssumption
  <1>2. ProjectRoom
    BY DEF KeysInit, DirectoryInit, ProjectRoom, OperationAt, Resting
  <1> QED
    BY <1>1, <1>2 DEF KeysInit, DirectoryInit, TablesInv

\* Nobody but a writer changes how many projects there are, or gets to write.
LEMMA RoomKept ==
  ASSUME ProjectRoom, UNCHANGED projects,
         \A p \in Operations : OperationAt(p, "write")' => UNCHANGED operation[p]
  PROVE  ProjectRoom'
  BY DEF ProjectRoom, OperationAt, Doing

LEMMA UnlockTables ==
  ASSUME TypesInv, TablesInv, NEW o \in Operations, Unlock(o)
  PROVE  /\ identity' \in [Customers -> Operations \cup {Free}]
         /\ holder' \in Operations \cup {Free}
         /\ \A p \in Operations : OperationAt(p, "write")' => p # o /\ UNCHANGED operation[p]
  BY DEF TypesInv, TablesInv, Unlock, OperationAt, Resting

\* The rows an operation writes leave the number of projects in its range.
LEMMA ProjectsWritten ==
  ASSUME KeysInv, TablesInv, ProjectRoom, NEW o \in Operations, Write(o)
  PROVE  created' \in BOOLEAN /\ projects' \in 0..MaxProjects
  <1>1. CASE Doing(o).kind = "workspace-create" /\ CreateWorkspace(o)
    BY <1>1, DirectoryAssumption DEF CreateWorkspace
  <1>2. CASE Doing(o).kind = "project-create" /\ CreateProject(o)
    BY <1>2, DirectoryAssumption DEF CreateProject, ProjectRoom, TablesInv, Write
  <1>3. CASE UNCHANGED <<created, projects>>
    BY <1>3 DEF TablesInv
  <1>4. Doing(o).kind \in {"workspace-create", "project-create", "member-change",
                           "invite-create", "invite-revoke", "invite-accept"}
    BY DEF Write, DirectoryBodies, MemberBodies, InviteBodies, AnswerBodies, CreateBodies
  <1> QED
    BY <1>1, <1>2, <1>3, <1>4
       DEF Write, ChangeMember, Invite, RevokeInvitation, AcceptInvitation

LEMMA TablesStep ==
  ASSUME KeysInv, TablesInv, ProjectRoom, KeysNext
  PROVE  TablesInv' /\ ProjectRoom'
  <1>a. TypesInv
    BY DEF KeysInv
  <1>1. ASSUME NEW o \in Operations, NEW c \in Customers, NEW id, NEW body, Begin(o, c, id, body)
        PROVE  TablesInv' /\ ProjectRoom'
    <2>1. \A p \in Operations : OperationAt(p, "write")' => UNCHANGED operation[p]
      BY <1>1, <1>a DEF Begin, TypesInv, OperationAt
    <2>2. identity' \in [Customers -> Operations \cup {Free}]
      BY <1>1 DEF Begin, TablesInv
    <2> QED
      BY <1>1, <2>1, <2>2, RoomKept DEF Begin, KeepTables, TablesInv
  <1>2. ASSUME NEW o \in Operations, LockWorkspace(o) PROVE TablesInv' /\ ProjectRoom'
    <2>1. CASE Unlock(o)
      BY <1>2, <1>a, <2>1, UnlockTables, RoomKept DEF LockWorkspace, KeepTables, TablesInv
    <2>2. CASE holder' = o /\ Proceed(o, "rows") /\ UNCHANGED identity
      <3>1. \A p \in Operations : OperationAt(p, "write")' => UNCHANGED operation[p]
        <4>1. Others(o) /\ OperationAt(o, "rows")'
          BY <1>2, <1>a, <2>2, ProceedOnly DEF LockWorkspace, OperationAt
        <4> QED
          BY <4>1 DEF Others, OperationAt
      <3> QED
        BY <1>2, <2>2, <3>1, RoomKept DEF LockWorkspace, KeepTables, TablesInv
    <2> QED
      BY <1>2, <2>1, <2>2 DEF LockWorkspace
  <1>3. ASSUME NEW o \in Operations, Repeat(o) \/ Rollback(o) PROVE TablesInv' /\ ProjectRoom'
    BY <1>3, <1>a, UnlockTables, RoomKept DEF Repeat, Rollback, KeepTables, TablesInv
  <1>4. ASSUME NEW o \in Operations, ReadRows(o) \/ ReadKeys(o) PROVE TablesInv' /\ ProjectRoom'
    <2>1. Others(o) /\ UNCHANGED <<Doing(o), projects>>
      BY <1>4, <1>a, ProceedOnly DEF ReadRows, ReadKeys, OperationAt, KeepTables
    <2>2. Doing(o).kind = "project-create" => projects < MaxProjects
      BY <1>4 DEF ReadRows, ReadKeys, Acceptable
    <2>3. ProjectRoom'
      <3>1. ASSUME NEW p \in Operations, OperationAt(p, "write")', Doing(p)'.kind = "project-create"
            PROVE  projects < MaxProjects
        <4>1. CASE p = o
          BY <2>1, <2>2, <3>1, <4>1
        <4>2. CASE p # o
          BY <2>1, <3>1, <4>2 DEF Others, ProjectRoom, OperationAt, Doing
        <4> QED
          BY <4>1, <4>2
      <3> QED
        BY <2>1, <3>1 DEF ProjectRoom
    <2> QED
      BY <1>4, <2>3 DEF ReadRows, ReadKeys, KeepTables, TablesInv
  <1>5. ASSUME NEW o \in Operations, Write(o) \/ WriteKeys(o) PROVE TablesInv' /\ ProjectRoom'
    <2>1. OperationAt(o, "write") /\ Unlock(o) /\ UNCHANGED barred
      BY <1>5 DEF Write, WriteKeys
    <2>2. \A p \in Operations : ~OperationAt(p, "write")'
      <3>1. \A p \in Operations \ {o} : ~OperationAt(p, "write")
        BY <2>1 DEF KeysInv, LockInv, Inside
      <3> QED
        BY <1>a, <2>1, <3>1, UnlockTables DEF OperationAt
    <2>3. actions' \subseteq (Customers \cup {Nothing}) \X ActionIds
      <3>1. Actor(o) \in Customers /\ operation[o].id \in ActionIds
        BY <1>a, <2>1 DEF TypesInv, OperationType, Underway, Resting, OperationAt, Actor
      <3>2. Entry(o) \in (Customers \cup {Nothing}) \X ActionIds
        BY <3>1 DEF Entry, EntryFor
      <3> QED
        BY <1>5, <3>2 DEF Write, WriteKeys, TablesInv
    <2>4. created' \in BOOLEAN /\ projects' \in 0..MaxProjects
      BY <1>5, ProjectsWritten DEF WriteKeys, TablesInv
    <2> QED
      BY <1>a, <2>1, <2>2, <2>3, <2>4, UnlockTables DEF TablesInv, ProjectRoom
  <1>6. ASSUME NEW i \in Invitations, ExpireInvitation(i) PROVE TablesInv' /\ ProjectRoom'
    BY <1>6, RoomKept DEF ExpireInvitation, TablesInv
  <1>7. ASSUME NEW c \in Customers, Disable(c) PROVE TablesInv' /\ ProjectRoom'
    BY <1>7, RoomKept DEF Disable, TablesInv
  <1>8. CASE UNCHANGED directory
    BY <1>8, RoomKept DEF directory, TablesInv
  <1>9. CASE DirectoryNext
    BY <1>1, <1>2, <1>3, <1>4, <1>5, <1>6, <1>7, <1>9 DEF DirectoryNext, DirectoryStep
  <1> QED
    BY <1>1, <1>4, <1>5, <1>8, <1>9 DEF KeysNext, EndKey, UseKey, EndResolve, LookUp

LEMMA TablesInvariant == KeysSpec => [](TablesInv /\ ProjectRoom)
  <1>1. KeysInv /\ TablesInv /\ ProjectRoom /\ [KeysNext]_<<directory, keys>>
        => TablesInv' /\ ProjectRoom'
    <2>1. CASE UNCHANGED <<directory, keys>>
      BY <2>1 DEF directory, TablesInv, ProjectRoom, OperationAt, Doing
    <2> QED
      BY <2>1, TablesStep
  <1> QED
    BY KeysInvariant, TablesBegin, <1>1, PTL DEF KeysSpec

LEMMA DirectoryTypes == TypesInv /\ TablesInv /\ ResolverInv => DirectoryTypeOK
  <1>1. OperationType \subseteq [at: {"idle", "workspace", "rows", "write"},
             actor: Customers \cup {Nothing}, id: ActionIds \cup {Nothing},
             body: Bodies \cup {NoBody}]
    BY DEF OperationType, Underway, Resting
  <1> QED
    BY <1>1 DEF TypesInv, TablesInv, ResolverInv, DirectoryTypeOK

-----------------------------------------------------------------------------
(* The workspace in PostgreSQL is as if it were in a local file. *)

\* An operation holds the row of its actor, who was not disabled then.
IdentityInv ==
  \A o \in Operations : ~OperationAt(o, "idle") => identity[Actor(o)] = o /\ Actor(o) \notin barred

\* What else an operation has read to write is still so, but for the clock.
Ready(o) ==
  /\ Entry(o) \notin actions
  /\ Doing(o).kind = "workspace-create" => ~created
  /\ Doing(o).kind = "member-change" => role[Doing(o).subject] # "none"
  /\ Doing(o).kind = "invite-create" => Cardinality(Pending) < MaxPending
  /\ Doing(o).kind = "invite-accept" =>
        /\ invitation[Doing(o).subject].status \in {"pending", "expired"}
        /\ invitation[Doing(o).subject].customer = Actor(o)
        /\ Cardinality(Members) < MaxMembers
  /\ Doing(o).kind = "key-rotate" /\ Doing(o).value = "grace" =>
        Cardinality(Usable \cup {Doing(o).subject}) < MaxKeys
  /\ Doing(o).kind = "key-revoke" => key[Doing(o).subject] # "unused"

ReadyInv == \A o \in Operations : OperationAt(o, "write") => Ready(o)
DrawnInv == \A k \in outlived : key[k] # "unused"
SerialInv == IdentityInv /\ ReadyInv /\ DrawnInv

DirectoryKinds == {"workspace-create", "project-create", "member-change",
                   "invite-create", "invite-revoke", "invite-accept"}

LEMMA Requested ==
  ASSUME TypesInv, NEW o \in Operations, ~OperationAt(o, "idle")
  PROVE  /\ Actor(o) \in Customers /\ operation[o].id \in ActionIds
         /\ Doing(o).kind \in DirectoryKinds \cup {"key-create", "key-rotate", "key-revoke"}
         /\ Doing(o) \in DirectoryBodies <=> Doing(o).kind \in DirectoryKinds
         /\ Doing(o).kind = "member-change" =>
               Doing(o).subject \in Customers /\ Doing(o).value \in Roles \cup {"none"}
         /\ Doing(o).kind = "invite-create" =>
               Doing(o).subject \in Customers /\ Doing(o).value \in Roles \ {"owner"}
         /\ Doing(o).kind \in {"invite-revoke", "invite-accept"} => Doing(o).subject \in Invitations
         /\ Doing(o).kind \in {"key-rotate", "key-revoke"} => Doing(o).subject \in Keys
  <1>1. operation[o] \in Underway
    BY DEF TypesInv, OperationType, OperationAt, Resting
  <1>2. Doing(o) \in Bodies /\ Actor(o) \in Customers /\ operation[o].id \in ActionIds
    BY <1>1 DEF Underway, Doing, Actor
  <1>3. CASE Doing(o) \in KeyBodies
    BY <1>2, <1>3 DEF KeyBodies, DirectoryKinds, DirectoryBodies, MemberBodies, InviteBodies,
                      AnswerBodies, CreateBodies
  <1>4. CASE Doing(o) \in DirectoryBodies
    BY <1>2, <1>4 DEF DirectoryKinds, DirectoryBodies, MemberBodies, InviteBodies,
                      AnswerBodies, CreateBodies
  <1> QED
    BY <1>2, <1>3, <1>4 DEF Bodies

LEMMA SerialBegins == KeysInit => SerialInv
  BY DEF KeysInit, DirectoryInit, SerialInv, IdentityInv, ReadyInv, DrawnInv, OperationAt, Resting

LEMMA ReadyKept ==
  ASSUME ReadyInv, KeepTables, UNCHANGED <<key, outlived>>,
         \A p \in Operations : OperationAt(p, "write")' => UNCHANGED operation[p]
  PROVE  ReadyInv'
  <1> SUFFICES ASSUME NEW o \in Operations, OperationAt(o, "write")' PROVE Ready(o)'
    BY DEF ReadyInv
  <1>1. Ready(o) /\ Doing(o)' = Doing(o) /\ Actor(o)' = Actor(o) /\ Entry(o)' = Entry(o)
    BY DEF ReadyInv, OperationAt, Doing, Actor, Entry
  <1>2. Pending' = Pending /\ Members' = Members /\ Usable' = Usable
    BY DEF KeepTables, Pending, Members, Usable
  <1> QED
    BY <1>1, <1>2 DEF Ready, KeepTables

LEMMA IdentityUnlocked ==
  ASSUME TypesInv, TablesInv, IdentityInv, NEW o \in Operations, Unlock(o), UNCHANGED barred
  PROVE  IdentityInv'
  <1> SUFFICES ASSUME NEW p \in Operations, ~OperationAt(p, "idle")'
               PROVE  identity'[Actor(p)'] = p /\ Actor(p)' \notin barred
    BY DEF IdentityInv
  <1>1. p # o /\ operation'[p] = operation[p]
    BY DEF Unlock, TypesInv, OperationAt, Resting
  <1>2. Actor(p)' = Actor(p) /\ ~OperationAt(p, "idle") /\ identity[Actor(p)] = p /\ Actor(p) \notin barred
    BY <1>1 DEF OperationAt, Actor, IdentityInv
  <1>3. Actor(p) \in Customers
    BY <1>2, Requested
  <1> QED
    BY <1>1, <1>2, <1>3 DEF Unlock

\* Who is inside is there alone.
LEMMA InsideAlone ==
  ASSUME KeysInv, NEW o \in Operations, Inside(o), NEW p \in Operations, Inside(p)
  PROVE  p = o
  BY DEF KeysInv, LockInv

LEMMA ReadyRead ==
  ASSUME KeysInv, SerialInv, NEW o \in Operations, ReadRows(o) \/ ReadKeys(o), UNCHANGED keys
  PROVE  SerialInv'
  <1>1. KeepTables /\ UNCHANGED <<identity, holder, key, outlived>> /\ OperationAt(o, "rows") /\ Proceed(o, "write")
        /\ Entry(o) \notin actions
    BY DEF ReadRows, ReadKeys, keys
  <1>2. /\ Others(o) /\ operation'[o] = [operation[o] EXCEPT !.at = "write"]
        /\ OperationAt(o, "write")' /\ UNCHANGED <<Doing(o), Actor(o)>>
    BY <1>1, ProceedOnly DEF KeysInv, OperationAt
  <1>3. operation'[o].id = operation[o].id
    BY <1>1, <1>2, Requested DEF KeysInv, TypesInv, OperationType, Underway, Resting
  <1>4. \A p \in Operations : OperationAt(p, "write")' => p = o
    BY <1>1, <1>2, InsideAlone DEF Inside, OperationAt, Others
  <1>5. Ready(o)
    <2>1. CASE ReadRows(o)
      BY <1>1, <2>1 DEF ReadRows, Acceptable, Ready, DirectoryBodies, MemberBodies, InviteBodies,
                       AnswerBodies, CreateBodies
    <2>2. CASE ReadKeys(o)
      <3>1. Doing(o).kind = "key-rotate" /\ Doing(o).value = "grace" =>
               Cardinality(Usable \cup {Doing(o).subject}) < MaxKeys
        <4> SUFFICES ASSUME Doing(o).kind = "key-rotate", Doing(o).value = "grace"
                     PROVE  Cardinality(Usable \cup {Doing(o).subject}) < MaxKeys
          OBVIOUS
        <4>1. Cardinality(Usable) < MaxKeys /\ Rotatable(Doing(o).subject)
          BY <2>2 DEF ReadKeys, Room
        <4>2. Doing(o).subject \in Keys
          BY <1>1, Requested DEF KeysInv, OperationAt
        <4>3. Doing(o).subject \in Usable
          BY <4>1, <4>2 DEF Rotatable, Usable
        <4>4. Usable \cup {Doing(o).subject} = Usable
          BY <4>3
        <4> QED
          BY <4>1, <4>4
      <3> QED
        BY <1>1, <2>2, <3>1 DEF ReadKeys, Ready
    <2> QED
      BY <2>1, <2>2
  <1>6. Ready(o)'
    <2>1. Pending' = Pending /\ Members' = Members /\ Usable' = Usable /\ Entry(o)' = Entry(o)
      BY <1>1, <1>2, <1>3 DEF KeepTables, Pending, Members, Usable, Entry
    <2> QED
      BY <1>1, <1>2, <1>5, <2>1 DEF Ready, KeepTables
  <1>7. IdentityInv'
    BY <1>1, <1>2 DEF SerialInv, IdentityInv, Others, OperationAt, Actor, KeepTables
  <1> QED
    BY <1>1, <1>4, <1>6, <1>7 DEF SerialInv, ReadyInv, DrawnInv

LEMMA NobodyWrites ==
  ASSUME KeysInv, NEW o \in Operations, OperationAt(o, "write"), Unlock(o)
  PROVE  \A p \in Operations : ~OperationAt(p, "write")'
  <1>1. \A p \in Operations \ {o} : ~OperationAt(p, "write")
    BY InsideAlone DEF Inside
  <1> QED
    BY <1>1 DEF KeysInv, TypesInv, Unlock, OperationAt, Resting

\* Fewer pending invitations and fewer usable keys, or a customer who is
\* disabled, leave an operation what it has read.
LEMMA BesideReady ==
  ASSUME KeysInv, SerialInv, UNCHANGED <<role, created, actions, operation>>,
         Usable' \subseteq Usable, Pending' \subseteq Pending,
         \A k \in Keys : key[k] # "unused" => key'[k] # "unused",
         \A i \in Invitations :
            /\ invitation'[i].customer = invitation[i].customer
            /\ invitation[i].status \in {"pending", "expired"} => invitation'[i].status \in {"pending", "expired"}
  PROVE  ReadyInv'
  <1> SUFFICES ASSUME NEW o \in Operations, OperationAt(o, "write") PROVE Ready(o)'
    BY DEF ReadyInv, OperationAt
  <1>1. Ready(o) /\ Doing(o)' = Doing(o) /\ Actor(o)' = Actor(o) /\ Entry(o)' = Entry(o) /\ Members' = Members
    BY DEF SerialInv, ReadyInv, Doing, Actor, Entry, Members
  <1>2. IsFiniteSet(Pending) /\ IsFiniteSet(Usable)
    <2>1. Pending \in SUBSET Invitations
      BY DEF Pending
    <2> QED
      BY <2>1, FS_Subset, DirectoryAssumption, UsableFinite
  <1>3. Doing(o).kind = "invite-create" => Cardinality(Pending') < MaxPending
    <2>1. Cardinality(Pending') <= Cardinality(Pending) /\ Cardinality(Pending) \in Nat
          /\ Cardinality(Pending') \in Nat
      BY <1>2, FS_Subset, FS_CardinalityType
    <2> QED
      BY <1>1, <2>1, DirectoryAssumption DEF Ready
  <1>4. ASSUME NEW k PROVE Cardinality(Usable \cup {k}) < MaxKeys => Cardinality(Usable' \cup {k}) < MaxKeys
    <2>1. IsFiniteSet(Usable \cup {k}) /\ Usable' \cup {k} \subseteq Usable \cup {k}
      BY <1>2, FS_AddElement
    <2>2. Cardinality(Usable' \cup {k}) <= Cardinality(Usable \cup {k}) /\ IsFiniteSet(Usable' \cup {k})
      BY <2>1, FS_Subset
    <2>3. Cardinality(Usable \cup {k}) \in Nat /\ Cardinality(Usable' \cup {k}) \in Nat
      BY <2>1, <2>2, FS_CardinalityType
    <2> QED
      BY <2>2, <2>3, KeyAssumption
  <1>5. Doing(o).kind = "key-rotate" /\ Doing(o).value = "grace" =>
               Cardinality(Usable' \cup {Doing(o).subject}) < MaxKeys
    <2>1. PICK k : k = Doing(o).subject
      OBVIOUS
    <2> QED
      BY <1>1, <1>4, <2>1 DEF Ready
  <1>6. /\ Doing(o).kind = "invite-accept" => Doing(o).subject \in Invitations
        /\ Doing(o).kind = "key-revoke" => Doing(o).subject \in Keys
    BY Requested DEF KeysInv, OperationAt
  <1> QED
    BY <1>1, <1>3, <1>5, <1>6 DEF Ready

LEMMA SerialStep ==
  ASSUME KeysInv, TablesInv, SerialInv, KeysNext
  PROVE  SerialInv'
  <1>a. TypesInv /\ IdentityInv /\ ReadyInv /\ DrawnInv
    BY DEF KeysInv, SerialInv
  <1>1. ASSUME NEW o \in Operations, NEW c \in Customers, NEW id \in ActionIds, NEW body \in Bodies,
               Begin(o, c, id, body), UNCHANGED keys
        PROVE  SerialInv'
    <2> DEFINE new == [at |-> "workspace", actor |-> c, id |-> id, body |-> body]
    <2>1. operation' = [operation EXCEPT ![o] = new] /\ OperationAt(o, "idle") /\ KeepTables
          /\ identity[c] = Free /\ c \notin barred /\ identity' = [identity EXCEPT ![c] = o]
      BY <1>1 DEF Begin
    <2>2. operation'[o] = new /\ \A p \in Operations : p # o => operation'[p] = operation[p]
      BY <1>a, <2>1 DEF TypesInv
    <2>3. ReadyInv'
      BY <1>1, <1>a, <2>1, <2>2, ReadyKept DEF keys, OperationAt
    <2>4. ASSUME NEW p \in Operations, ~OperationAt(p, "idle")'
          PROVE  identity'[Actor(p)'] = p /\ Actor(p)' \notin barred'
      <3>1. CASE p = o
        BY <2>1, <2>2, <3>1 DEF Actor, TablesInv, KeepTables
      <3>2. CASE p # o
        <4>1. Actor(p)' = Actor(p) /\ ~OperationAt(p, "idle")
          BY <2>2, <2>4, <3>2 DEF Actor, OperationAt
        <4>2. identity[Actor(p)] = p /\ Actor(p) \notin barred /\ Actor(p) \in Customers
          BY <1>a, <4>1, Requested DEF IdentityInv
        <4>3. Actor(p) # c
          BY <2>1, <4>2, DirectoryAssumption DEF Free
        <4> QED
          BY <2>1, <4>1, <4>2, <4>3 DEF TablesInv, KeepTables
      <3> QED
        BY <3>1, <3>2
    <2> QED
      BY <1>1, <1>a, <2>3, <2>4 DEF SerialInv, IdentityInv, DrawnInv, keys
  <1>2. ASSUME NEW o \in Operations, Unlock(o), KeepTables, UNCHANGED keys PROVE SerialInv'
    <2>1. IdentityInv'
      BY <1>2, <1>a, IdentityUnlocked DEF KeepTables
    <2>2. ReadyInv'
      BY <1>2, <1>a, ReadyKept, UnlockTables DEF keys
    <2> QED
      BY <1>2, <1>a, <2>1, <2>2 DEF SerialInv, DrawnInv, keys
  <1>3. ASSUME NEW o \in Operations, LockWorkspace(o), UNCHANGED keys PROVE SerialInv'
    <2>1. CASE Unlock(o)
      BY <1>2, <1>3, <2>1 DEF LockWorkspace
    <2>2. CASE holder' = o /\ Proceed(o, "rows") /\ UNCHANGED identity
      <3>1. Others(o) /\ OperationAt(o, "rows")' /\ UNCHANGED Actor(o) /\ ~OperationAt(o, "idle")
        BY <1>3, <1>a, <2>2, ProceedOnly DEF LockWorkspace, OperationAt
      <3>2. \A p \in Operations : OperationAt(p, "write")' => UNCHANGED operation[p]
        BY <3>1 DEF Others, OperationAt
      <3>3. KeepTables
        BY <1>3 DEF LockWorkspace
      <3>4. ReadyInv'
        BY <1>3, <1>a, <3>2, <3>3, ReadyKept DEF keys
      <3>5. IdentityInv'
        BY <1>a, <2>2, <3>1, <3>3 DEF IdentityInv, Others, OperationAt, Actor, KeepTables
      <3> QED
        BY <1>3, <1>a, <3>4, <3>5 DEF SerialInv, DrawnInv, keys
    <2> QED
      BY <1>3, <2>1, <2>2 DEF LockWorkspace
  <1>4. ASSUME NEW o \in Operations, Write(o), UNCHANGED keys PROVE SerialInv'
    <2>1. Unlock(o) /\ OperationAt(o, "write") /\ UNCHANGED barred
      BY <1>4 DEF Write
    <2>2. ReadyInv'
      BY <2>1, NobodyWrites DEF ReadyInv
    <2> QED
      BY <1>4, <1>a, <2>1, <2>2, IdentityUnlocked DEF SerialInv, DrawnInv, keys
  <1>5. ASSUME NEW o \in Operations, WriteKeys(o) PROVE SerialInv'
    <2>1. Unlock(o) /\ OperationAt(o, "write") /\ UNCHANGED <<barred, outlived>>
      BY <1>5 DEF WriteKeys
    <2>2. ReadyInv'
      BY <2>1, NobodyWrites DEF ReadyInv
    <2>3. ASSUME NEW k \in outlived PROVE key'[k] # "unused"
      BY <1>5, <1>a, <2>3 DEF WriteKeys, DrawnInv, TypesInv
    <2> QED
      BY <1>a, <2>1, <2>2, <2>3, IdentityUnlocked DEF SerialInv, DrawnInv
  <1>6. ASSUME NEW i \in Invitations, ExpireInvitation(i), UNCHANGED keys PROVE SerialInv'
    <2>1. UNCHANGED <<role, created, barred, actions, identity, operation, key, outlived>>
      BY <1>6 DEF ExpireInvitation, keys
    <2>2. \A j \in Invitations :
            /\ invitation'[j].customer = invitation[j].customer
            /\ invitation[j].status \in {"pending", "expired"} => invitation'[j].status \in {"pending", "expired"}
            /\ invitation'[j].status = "pending" => invitation[j].status = "pending"
      BY <1>6, <1>a DEF ExpireInvitation, TypesInv, Invitation
    <2>3. Usable' = Usable /\ Pending' \subseteq Pending
      BY <2>1, <2>2 DEF Usable, Pending
    <2>4. ReadyInv'
      BY <2>1, <2>2, <2>3, BesideReady
    <2> QED
      BY <1>a, <2>1, <2>4 DEF SerialInv, IdentityInv, DrawnInv, OperationAt, Actor
  <1>7. ASSUME NEW c \in Customers, Disable(c), UNCHANGED keys PROVE SerialInv'
    <2>1. UNCHANGED <<role, created, invitation, actions, identity, operation, key, outlived>>
          /\ identity[c] = Free /\ barred' = barred \cup {c}
      BY <1>7 DEF Disable, keys
    <2>2. ReadyInv'
      BY <2>1, BesideReady DEF Usable, Pending
    <2>3. \A p \in Operations : ~OperationAt(p, "idle") => Actor(p) # c
      BY <1>a, <2>1, DirectoryAssumption DEF IdentityInv, Free
    <2> QED
      BY <1>a, <2>1, <2>2, <2>3 DEF SerialInv, IdentityInv, DrawnInv, OperationAt, Actor
  <1>8. ASSUME NEW k \in Keys, EndKey(k) PROVE SerialInv'
    <2>1. UNCHANGED <<role, created, invitation, barred, actions, identity, operation>>
      BY <1>8 DEF EndKey, directory
    <2>2. /\ Usable' \subseteq Usable /\ \A j \in Keys : key[j] # "unused" => key'[j] # "unused"
          /\ \A j \in outlived' : key'[j] # "unused"
      BY <1>8, <1>a DEF EndKey, TypesInv, Usable, DrawnInv
    <2>3. ReadyInv'
      BY <2>1, <2>2, BesideReady DEF Pending
    <2> QED
      BY <1>a, <2>1, <2>2, <2>3 DEF SerialInv, IdentityInv, DrawnInv, OperationAt, Actor
  <1>9. ASSUME UNCHANGED directory, UNCHANGED <<key, outlived>> PROVE SerialInv'
    BY <1>9, <1>a, BesideReady DEF directory, Usable, Pending, SerialInv, IdentityInv, DrawnInv, OperationAt, Actor
  <1>10. CASE DirectoryNext /\ UNCHANGED keys
    BY <1>1, <1>2, <1>3, <1>4, <1>6, <1>7, <1>10, ReadyRead
       DEF DirectoryNext, DirectoryStep, Repeat, Rollback, Bodies
  <1>11. ASSUME NEW o \in Operations, ReadKeys(o) PROVE SerialInv'
    BY <1>11, ReadyRead DEF ReadKeys, keys
  <1>12. CASE \E o \in Operations, c \in Customers, id \in ActionIds, body \in KeyBodies :
                 Begin(o, c, id, body) /\ UNCHANGED keys
    BY <1>1, <1>12 DEF Bodies
  <1> QED
    BY <1>5, <1>8, <1>9, <1>10, <1>11, <1>12 DEF KeysNext, UseKey, EndResolve, LookUp

LEMMA SerialInvariant == KeysSpec => []SerialInv
  <1>1. KeysInv /\ TablesInv /\ SerialInv /\ [KeysNext]_<<directory, keys>> => SerialInv'
    <2>1. CASE UNCHANGED <<directory, keys>>
      BY <2>1 DEF directory, keys, SerialInv, IdentityInv, ReadyInv, DrawnInv, Ready, OperationAt, Doing,
         Actor, Entry, Pending, Members, Usable
    <2> QED
      BY <2>1, SerialStep
  <1> QED
    BY KeysInvariant, TablesInvariant, SerialBegins, <1>1, PTL DEF KeysSpec

(* What is seen of a step *)

LEMMA SameSeen ==
  ASSUME KeepTables, UNCHANGED <<key, outlived, resolver>>,
         \A i \in Invitations : invitation[i].status = "expired" => (Accepting(i)' <=> Accepting(i)),
         \A k \in outlived : Rotating(k)' <=> Rotating(k)
  PROVE  UNCHANGED Local!vars
  <1>1. SeenInvitation' = SeenInvitation
    BY DEF SeenInvitation, KeepTables
  <1>2. SeenKey' = SeenKey
    BY DEF SeenKey
  <1>3. Serving' = Serving
    BY DEF Serving
  <1> QED
    BY <1>1, <1>2, <1>3 DEF Local!vars, Local!people, KeepTables

\* Whoever does not write, or begin to, is not seen.
LEMMA QuietUnseen ==
  ASSUME KeepTables, UNCHANGED keys,
         \A p \in Operations : /\ OperationAt(p, "write")' <=> OperationAt(p, "write")
                               /\ OperationAt(p, "write") => UNCHANGED operation[p]
  PROVE  UNCHANGED Local!vars
  <1>1. \A i \in Invitations : Accepting(i)' <=> Accepting(i)
    BY DEF Accepting, Doing
  <1>2. \A k \in outlived : Rotating(k)' <=> Rotating(k)
    BY DEF Rotating, Doing
  <1> QED
    BY <1>1, <1>2, SameSeen DEF keys

\* What a writer relies on is seen as it was read; when it has unlocked,
\* everything is seen as it is.
LEMMA WriterSees ==
  ASSUME KeysInv, NEW o \in Operations, OperationAt(o, "write")
  PROVE  /\ \A i : Accepting(i) <=> Doing(o).kind = "invite-accept" /\ Doing(o).subject = i
         /\ \A k : Rotating(k) <=> Doing(o).kind = "key-rotate" /\ Doing(o).subject = k
         /\ Doing(o).kind # "invite-accept" => SeenInvitation = invitation
  <1>1. \A p \in Operations : OperationAt(p, "write") => p = o
    BY InsideAlone DEF Inside
  <1>2. /\ \A i : Accepting(i) <=> Doing(o).kind = "invite-accept" /\ Doing(o).subject = i
        /\ \A k : Rotating(k) <=> Doing(o).kind = "key-rotate" /\ Doing(o).subject = k
    BY <1>1 DEF Accepting, Rotating
  <1>3. Doing(o).kind # "invite-accept" => SeenInvitation = invitation
    BY <1>2 DEF SeenInvitation, KeysInv, TypesInv
  <1> QED
    BY <1>2, <1>3

Standing(k) == IF k \in outlived /\ key[k] \in {"active", "closing"} THEN "expired" ELSE key[k]

LEMMA NobodySees ==
  ASSUME TypesInv', \A p \in Operations : ~OperationAt(p, "write")'
  PROVE  /\ SeenInvitation' = invitation'
         /\ \A k : ~Rotating(k)' /\ \A i : ~Accepting(i)'
         /\ SeenKey' = [k \in Keys |-> Standing(k)']
  <1>1. (\A k : ~Rotating(k)') /\ \A i : ~Accepting(i)'
    BY DEF Accepting, Rotating
  <1>2. SeenInvitation' = invitation'
    BY <1>1 DEF SeenInvitation, TypesInv
  <1>3. SeenKey' = [k \in Keys |-> Standing(k)']
    BY <1>1 DEF SeenKey, Standing
  <1> QED
    BY <1>1, <1>2, <1>3

\* An invitation that is being accepted is seen as it was when it was read.
AsPending(row) == [status |-> "pending", role |-> row.role, customer |-> row.customer]
AsAccepted(row) == [status |-> "accepted", role |-> row.role, customer |-> row.customer]
AsExpired(row) == [status |-> "expired", role |-> row.role, customer |-> row.customer]

LEMMA StatusTaken ==
  ASSUME NEW row \in Invitation
  PROVE  /\ [row EXCEPT !.status = "pending"] = AsPending(row)
         /\ [row EXCEPT !.status = "accepted"] = AsAccepted(row)
         /\ [row EXCEPT !.status = "expired"] = AsExpired(row)
  BY DEF Invitation, AsPending, AsAccepted, AsExpired

LEMMA AcceptanceSeen ==
  ASSUME TypesInv, NEW i \in Invitations, \A j \in Invitations : Accepting(j) <=> j = i,
         invitation[i].status \in {"pending", "expired"}
  PROVE  /\ SeenInvitation = [invitation EXCEPT ![i] = AsPending(invitation[i])]
         /\ [SeenInvitation EXCEPT ![i].status = "accepted"] = [invitation EXCEPT ![i].status = "accepted"]
         /\ invitation[i].status = "expired" => [SeenInvitation EXCEPT ![i].status = "expired"] = invitation
  <1> DEFINE row == invitation[i]
  <1>1. invitation \in [Invitations -> Invitation] /\ row \in Invitation
    BY DEF TypesInv
  <1>2. /\ [row EXCEPT !.status = "pending"] = AsPending(row)
        /\ [row EXCEPT !.status = "accepted"] = AsAccepted(row)
        /\ [AsPending(row) EXCEPT !.status = "accepted"] = AsAccepted(row)
    BY <1>1 DEF Invitation, AsPending, AsAccepted
  <1>3. row.status = "pending" => row = AsPending(row)
    BY <1>1 DEF Invitation, AsPending
  <1>4. SeenInvitation[i] = AsPending(row) /\ \A j \in Invitations : j # i => SeenInvitation[j] = invitation[j]
    BY <1>2, <1>3 DEF SeenInvitation
  <1>5. SeenInvitation = [invitation EXCEPT ![i] = AsPending(row)]
    BY <1>1, <1>4 DEF SeenInvitation
  <1>6. [invitation EXCEPT ![i].status = "accepted"] = [invitation EXCEPT ![i] = AsAccepted(row)]
    BY <1>1, <1>2
  <1>7. [SeenInvitation EXCEPT ![i].status = "accepted"] = [SeenInvitation EXCEPT ![i] = AsAccepted(row)]
    BY <1>2, <1>4 DEF SeenInvitation
  <1>8. [SeenInvitation EXCEPT ![i] = AsAccepted(row)] = [invitation EXCEPT ![i] = AsAccepted(row)]
    BY <1>1, <1>5
  <1>9. ASSUME row.status = "expired" PROVE [SeenInvitation EXCEPT ![i].status = "expired"] = invitation
    <2>1. [AsPending(row) EXCEPT !.status = "expired"] = row
      BY <1>1, <1>9 DEF Invitation, AsPending
    <2>2. [SeenInvitation EXCEPT ![i].status = "expired"] = [SeenInvitation EXCEPT ![i] = row]
      BY <1>4, <2>1 DEF SeenInvitation
    <2> QED
      BY <1>1, <1>5, <2>2
  <1> QED
    BY <1>5, <1>6, <1>7, <1>8, <1>9

\* The same counting, as the instance has its own copy of it.
LEMMA SameCount == ASSUME NEW S PROVE Local!Cardinality(S) = Cardinality(S)
  BY DEF Local!Cardinality, Cardinality

LEMMA ReadsPermitted ==
  ASSUME KeysInv, SerialInv, NEW o \in Operations, OperationAt(o, "write")
  PROVE  /\ Permits(Actor(o), Doing(o)) /\ Ready(o) /\ ReadInv(o)
         /\ Actor(o) \in Customers /\ operation[o].id \in ActionIds
         /\ Actor(o) \notin barred /\ role[Actor(o)] \in Roles \cup {"none"}
  <1>1. ~OperationAt(o, "idle")
    BY DEF OperationAt
  <1>2. Actor(o) \in Customers /\ operation[o].id \in ActionIds
    BY <1>1, Requested DEF KeysInv
  <1> QED
    BY <1>1, <1>2 DEF KeysInv, WorkspaceSafe, AuthorityHolds, WriteInv, SerialInv, ReadyInv, IdentityInv, TypesInv

\* An operation on the directory commits as the local one does.
LEMMA WriteSeen ==
  ASSUME KeysInv, ProjectRoom, SerialInv, NEW o \in Operations, Write(o), UNCHANGED keys
  PROVE  Local!DirectoryAction(Actor(o)) /\ Local!Record(Actor(o), operation[o].id)
  <1> DEFINE c == Actor(o)
             body == Doing(o)
             s == body.subject
  <1>1. OperationAt(o, "write") /\ Unlock(o) /\ body \in DirectoryBodies /\ UNCHANGED barred
        /\ actions' = actions \cup {Entry(o)} /\ ~OperationAt(o, "idle")
    BY DEF Write, OperationAt
  <1>2. /\ Permits(c, body) /\ Ready(o) /\ ReadInv(o) /\ c \in Customers
        /\ c \notin barred /\ role[c] \in Roles \cup {"none"}
    BY <1>1, ReadsPermitted
  <1>3. Entry(o) = <<c, operation[o].id>>
    BY <1>1 DEF Entry, EntryFor
  <1>4. Local!Record(c, operation[o].id)
    BY <1>1, <1>2, <1>3 DEF Local!Record, Ready
  <1>5. /\ body.kind \in DirectoryKinds
        /\ body.kind = "member-change" => s \in Customers /\ body.value \in Roles \cup {"none"}
        /\ body.kind = "invite-create" => s \in Customers /\ body.value \in Roles \ {"owner"}
        /\ body.kind \in {"invite-revoke", "invite-accept"} => s \in Invitations
    BY <1>1, Requested DEF KeysInv
  <1>6. TypesInv' /\ TypesInv
    BY WriteKeeps DEF KeysInv
  <1>7. \A p \in Operations : ~OperationAt(p, "write")'
    BY <1>1, NobodyWrites
  <1>8. SeenInvitation' = invitation' /\ (\A k : ~Rotating(k)')
    BY <1>6, <1>7, NobodySees
  <1>9. (\A k : ~Rotating(k)) /\ (body.kind # "invite-accept" => SeenInvitation = invitation)
    BY <1>1, <1>5, WriterSees DEF DirectoryKinds
  <1>10. SeenKey' = SeenKey /\ Serving' = Serving
    BY <1>8, <1>9 DEF SeenKey, Serving, keys
  <1>11. CASE body.kind = "workspace-create" /\ CreateWorkspace(o)
    <2>1. Local!CreateWorkspace(c)
      BY <1>1, <1>2, <1>8, <1>9, <1>10, <1>11
         DEF Local!CreateWorkspace, Local!Acts, Local!Anybody, Local!Roles, Roles, CreateWorkspace, Ready
    <2> QED
      BY <1>4, <2>1 DEF Local!DirectoryAction
  <1>12. CASE body.kind = "project-create" /\ CreateProject(o)
    <2>1. role[c] \in Administrators /\ projects < MaxProjects
      BY <1>1, <1>2, <1>12 DEF Permits, ProjectRoom
    <2>2. Local!CreateProject(c)
      BY <1>1, <1>2, <1>8, <1>9, <1>10, <1>12, <2>1
         DEF Local!CreateProject, Local!Acts, Local!Administrators, Administrators, CreateProject
    <2> QED
      BY <1>4, <2>2 DEF Local!DirectoryAction
  <1>13. CASE body.kind = "member-change" /\ ChangeMember(o)
    <2>1. role[c] = "owner"
      BY <1>2, <1>13 DEF Permits
    <2>2. role[s] # "none" /\ (role[s] = "owner" /\ body.value # "owner" => Cardinality(Owners) > 1)
      BY <1>2, <1>13 DEF Ready, ReadInv
    <2>3. Local!Acts(c, {"owner"}) /\ Local!Owners = Owners
      BY <1>2, <2>1 DEF Local!Acts, Local!Owners, Owners
    <2>4. /\ role' = [role EXCEPT ![s] = body.value]
          /\ UNCHANGED <<created, projects, SeenInvitation, barred, SeenKey, Serving>>
      BY <1>1, <1>8, <1>9, <1>10, <1>13 DEF ChangeMember
    <2>5. Local!ChangeMember(c, s, body.value)
      BY <2>2, <2>3, <2>4, SameCount DEF Local!ChangeMember
    <2> QED
      BY <1>4, <1>5, <1>13, <2>5 DEF Local!DirectoryAction, Local!Roles, Roles
  <1>14. CASE body.kind = "invite-create" /\ Invite(o)
    <2>1. /\ role[c] \in Administrators /\ (body.value = "workspace-admin" => role[c] = "owner")
          /\ Cardinality(Pending) < MaxPending
      BY <1>2, <1>14 DEF Permits, Ready, Administrators
    <2>2. Local!Acts(c, Local!Above(body.value))
      BY <1>2, <2>1 DEF Local!Acts, Local!Above, Local!Administrators, Administrators
    <2>3. Local!Pending = Pending
      BY <1>9, <1>14 DEF Local!Pending, Pending
    <2>4. UNCHANGED <<role, created, projects, barred, SeenKey, Serving>>
      BY <1>1, <1>10, <1>14 DEF Invite
    <2>5. \E i \in Invitations :
            /\ SeenInvitation[i].status = "unused"
            /\ SeenInvitation' = [SeenInvitation EXCEPT ![i] =
                                     [status |-> "pending", role |-> body.value, customer |-> s]]
      BY <1>8, <1>9, <1>14 DEF Invite, Invited
    <2>6. Local!Invite(c, s, body.value)
      BY <2>1, <2>2, <2>3, <2>4, <2>5, SameCount DEF Local!Invite
    <2> QED
      BY <1>4, <1>5, <1>14, <2>6 DEF Local!DirectoryAction, Local!Roles, Roles
  <1>15. CASE body.kind = "invite-revoke" /\ RevokeInvitation(o)
    <2>1. /\ role[c] \in Administrators /\ invitation[s].status # "unused"
          /\ invitation[s].role = "workspace-admin" => role[c] = "owner"
      BY <1>2, <1>15 DEF Permits
    <2>2. Local!Acts(c, Local!Above(invitation[s].role))
      BY <1>2, <2>1 DEF Local!Acts, Local!Above, Local!Administrators, Administrators
    <2>3. Local!RevokeInvitation(c, s)
      BY <1>1, <1>8, <1>9, <1>10, <1>15, <2>1, <2>2 DEF Local!RevokeInvitation, RevokeInvitation
    <2> QED
      BY <1>4, <1>5, <1>15, <2>3 DEF Local!DirectoryAction
  <1>16. CASE body.kind = "invite-accept" /\ AcceptInvitation(o)
    <2>1. /\ role[c] = "none" /\ invitation[s].status \in {"pending", "expired"}
          /\ invitation[s].customer = c /\ Cardinality(Members) < MaxMembers
      BY <1>2, <1>16 DEF Ready, ReadInv
    <2>2. s \in Invitations
      BY <1>5, <1>16
    <2>3. \A i \in Invitations : Accepting(i) <=> i = s
      BY <1>1, <1>16, WriterSees
    <2>4. /\ SeenInvitation = [invitation EXCEPT ![s] = AsPending(invitation[s])]
          /\ [SeenInvitation EXCEPT ![s].status = "accepted"] = [invitation EXCEPT ![s].status = "accepted"]
      BY <1>6, <2>1, <2>2, <2>3, AcceptanceSeen
    <2>5. /\ SeenInvitation[s].status = "pending" /\ SeenInvitation[s].customer = c
          /\ SeenInvitation[s].role = invitation[s].role
      BY <1>6, <2>1, <2>2, <2>4 DEF TypesInv, AsPending
    <2>8. SeenInvitation' = [SeenInvitation EXCEPT ![s].status = "accepted"]
      BY <1>8, <1>16, <2>4 DEF AcceptInvitation
    <2>9. role' = [role EXCEPT ![c] = SeenInvitation[s].role] /\ UNCHANGED <<created, projects>>
      BY <1>16, <2>5 DEF AcceptInvitation
    <2>10. Local!Acts(c, {"none"}) /\ Local!Members = Members
      BY <1>2, <2>1 DEF Local!Acts, Local!Members, Members
    <2>11. Local!AcceptInvitation(c, s)
      BY <1>1, <1>10, <2>1, <2>5, <2>8, <2>9, <2>10, SameCount DEF Local!AcceptInvitation
    <2> QED
      BY <1>4, <2>2, <2>11 DEF Local!DirectoryAction
  <1> QED
    BY <1>5, <1>11, <1>12, <1>13, <1>14, <1>15, <1>16 DEF Write, DirectoryKinds

\* An operation on the keys commits as the local one does.
LEMMA WriteKeysSeen ==
  ASSUME KeysInv, SerialInv, NEW o \in Operations, WriteKeys(o)
  PROVE  Local!KeyAction(Actor(o)) /\ Local!Record(Nothing, operation[o].id)
  <1> DEFINE c == Actor(o)
             body == Doing(o)
             s == body.subject
  <1>1. OperationAt(o, "write") /\ Unlock(o) /\ body.kind \in {"key-create", "key-rotate", "key-revoke"}
        /\ UNCHANGED <<role, created, projects, invitation, barred, outlived, resolver>>
        /\ actions' = actions \cup {Entry(o)} /\ ~OperationAt(o, "idle")
    BY DEF WriteKeys, OperationAt
  <1>2. /\ Permits(c, body) /\ Ready(o) /\ ReadInv(o) /\ c \in Customers /\ c \notin barred
    BY <1>1, ReadsPermitted
  <1>3. Entry(o) = <<Nothing, operation[o].id>>
    BY <1>1, Requested DEF KeysInv, Entry, EntryFor, DirectoryKinds
  <1>4. Local!Record(Nothing, operation[o].id)
    BY <1>1, <1>2, <1>3 DEF Local!Record, Ready
  <1>5. role[c] \in Administrators
    BY <1>1, <1>2 DEF Permits
  <1>6. Local!Acts(c, Local!Administrators)
    BY <1>2, <1>5 DEF Local!Acts, Local!Administrators, Administrators
  <1>7. TypesInv' /\ TypesInv
    BY WriteKeysKeeps DEF KeysInv
  <1>8. \A p \in Operations : ~OperationAt(p, "write")'
    BY <1>1, NobodyWrites
  <1>9. SeenInvitation' = invitation' /\ SeenKey' = [k \in Keys |-> Standing(k)']
    BY <1>7, <1>8, NobodySees
  <1>10. /\ SeenInvitation = invitation
         /\ \A k : Rotating(k) <=> body.kind = "key-rotate" /\ s = k
    BY <1>1, WriterSees
  <1>11. UNCHANGED <<Local!people, Serving>>
    BY <1>1, <1>9, <1>10 DEF Local!people, Serving
  <1>12. CASE body.kind = "key-create"
    <2>1. PICK n \in Keys : key[n] = "unused" /\ key' = [key EXCEPT ![n] = "active"]
      BY <1>1, <1>12 DEF WriteKeys
    <2>2. SeenKey = [k \in Keys |-> Standing(k)]
      BY <1>10, <1>12 DEF SeenKey, Standing
    <2>3. Local!Usable = Usable
      BY <1>7, <2>2 DEF Local!Usable, Usable, Standing, TypesInv
    <2>4. Local!Draw(n) /\ SeenKey' = [SeenKey EXCEPT ![n] = "active"]
      BY <1>1, <1>7, <1>9, <2>1, <2>2 DEF Local!Draw, Standing, TypesInv, SerialInv, DrawnInv
    <2>5. Cardinality(Usable) < MaxKeys
      BY <1>2, <1>12 DEF ReadInv, Grows
    <2>6. Local!CreateKey(c)
      BY <1>6, <1>11, <2>3, <2>4, <2>5, SameCount DEF Local!CreateKey
    <2> QED
      BY <1>4, <2>6 DEF Local!KeyAction
  <1>13. CASE body.kind = "key-rotate"
    <2> DEFINE grace == body.value = "grace"
               end == IF grace THEN "closing" ELSE "revoked"
               seen == IF grace /\ s \in outlived THEN "expired" ELSE end
    <2>1. PICK n \in Keys : key[n] = "unused" /\ key' = [key EXCEPT ![n] = "active", ![s] = end]
      BY <1>1, <1>13 DEF WriteKeys
    <2>2. s \in Keys /\ key[s] = "active" /\ n # s /\ n \notin outlived
      BY <1>1, <1>2, <1>13, <2>1, Requested DEF KeysInv, ReadInv, SerialInv, DrawnInv
    <2>3. SeenKey = [k \in Keys |-> IF k = s THEN "active" ELSE Standing(k)]
      BY <1>10, <1>13, <2>2 DEF SeenKey, Standing
    <2>4. Local!Draw(n) /\ SeenKey[s] = "active"
      BY <2>1, <2>2, <2>3 DEF Local!Draw, Standing
    <2>5. Local!Usable = Usable \cup {s}
      BY <1>7, <2>2, <2>3 DEF Local!Usable, Usable, Standing, TypesInv
    <2>6. Cardinality(Local!Usable) < MaxKeys \/ ~grace
      BY <1>2, <1>13, <2>5 DEF Ready
    <2>7. SeenKey' = [SeenKey EXCEPT ![n] = "active", ![s] = seen]
      <3>1. \A k \in Keys : Standing(k)' = IF k = s THEN seen ELSE IF k = n THEN "active" ELSE Standing(k)
        BY <1>1, <1>7, <2>1, <2>2 DEF Standing, TypesInv
      <3> QED
        BY <1>9, <2>2, <2>3, <3>1
    <2>8. seen \in (IF grace THEN {"closing", "expired"} ELSE {"revoked"})
      OBVIOUS
    <2>9. Local!RotateKey(c, s, grace)
      BY <1>6, <1>11, <2>4, <2>6, <2>7, <2>8, SameCount DEF Local!RotateKey
    <2> QED
      BY <1>4, <2>2, <2>9 DEF Local!KeyAction
  <1>14. CASE body.kind = "key-revoke"
    <2>1. key' = [key EXCEPT ![s] = "revoked"]
      BY <1>1, <1>14 DEF WriteKeys
    <2>2. s \in Keys /\ key[s] # "unused"
      BY <1>1, <1>2, <1>14, Requested DEF KeysInv, Ready
    <2>3. SeenKey = [k \in Keys |-> Standing(k)]
      BY <1>10, <1>14 DEF SeenKey, Standing
    <2>4. SeenKey[s] # "unused" /\ SeenKey' = [SeenKey EXCEPT ![s] = "revoked"]
      BY <1>1, <1>7, <1>9, <2>1, <2>2, <2>3 DEF Standing, TypesInv
    <2>5. Local!RevokeKey(c, s)
      BY <1>6, <1>11, <2>4 DEF Local!RevokeKey
    <2> QED
      BY <1>4, <2>2, <2>5 DEF Local!KeyAction
  <1> QED
    BY <1>1, <1>12, <1>13, <1>14

(* The steps that others do not see, or see as clocks passing *)

\* An operation that has read what it needs is not seen yet.
LEMMA ReadUnseen ==
  ASSUME KeysInv, NEW o \in Operations, ReadRows(o) \/ ReadKeys(o), UNCHANGED keys
  PROVE  UNCHANGED Local!vars
  <1>1. KeepTables /\ OperationAt(o, "rows") /\ Proceed(o, "write") /\ ~OperationAt(o, "idle")
    BY DEF ReadRows, ReadKeys, OperationAt
  <1>2. Others(o) /\ UNCHANGED Doing(o)
    BY <1>1, ProceedOnly DEF KeysInv
  <1>3. \A p \in Operations : ~OperationAt(p, "write") /\ (OperationAt(p, "write")' => p = o)
    BY <1>1, <1>2, InsideAlone DEF Inside, OperationAt, Others
  <1>4. /\ \A i : ~Accepting(i) /\ (Accepting(i)' => Doing(o).kind = "invite-accept" /\ Doing(o).subject = i)
        /\ \A k : ~Rotating(k) /\ (Rotating(k)' => Doing(o).kind = "key-rotate" /\ Doing(o).subject = k)
    BY <1>2, <1>3 DEF Accepting, Rotating
  <1>5. /\ Doing(o).kind = "invite-accept" => invitation[Doing(o).subject].status = "pending"
        /\ Doing(o).kind = "key-rotate" => Doing(o).subject \notin outlived
    <2>1. CASE ReadRows(o)
      <3>1. Doing(o).kind # "key-rotate"
        BY <1>1, <2>1, Requested DEF KeysInv, ReadRows, DirectoryKinds
      <3> QED
        BY <2>1, <3>1 DEF ReadRows, Acceptable
    <2>2. CASE ReadKeys(o)
      BY <2>2 DEF ReadKeys, Rotatable
    <2> QED
      BY <2>1, <2>2
  <1>6. /\ \A i \in Invitations : invitation[i].status = "expired" => ~Accepting(i)'
        /\ \A k \in outlived : ~Rotating(k)'
    BY <1>4, <1>5
  <1> QED
    BY <1>1, <1>4, <1>6, SameSeen DEF keys

\* An operation that is rolled back when it was to write lets a clock be seen
\* that has passed meanwhile.
LEMMA RollbackSeen ==
  ASSUME KeysInv, KeysInv', SerialInv, NEW o \in Operations, Unlock(o), KeepTables, UNCHANGED keys
  PROVE  UNCHANGED Local!vars \/ (UNCHANGED actions /\ Local!Unrecorded)
  <1>1. CASE ~OperationAt(o, "write")
    <2>1. \A p \in Operations : /\ OperationAt(p, "write")' <=> OperationAt(p, "write")
                                /\ OperationAt(p, "write") => UNCHANGED operation[p]
      BY <1>1 DEF Unlock, OperationAt, Resting, KeysInv, TypesInv
    <2> QED
      BY <2>1, QuietUnseen
  <1>2. CASE OperationAt(o, "write")
    <2> DEFINE s == Doing(o).subject
    <2>1. ~OperationAt(o, "idle")
      BY <1>2 DEF OperationAt
    <2>2. SeenInvitation' = invitation /\ SeenKey' = [k \in Keys |-> Standing(k)]
      <3>1. \A p \in Operations : ~OperationAt(p, "write")'
        BY <1>2, NobodyWrites
      <3>2. SeenInvitation' = invitation' /\ SeenKey' = [k \in Keys |-> Standing(k)']
        BY <3>1, NobodySees DEF KeysInv
      <3> QED
        BY <3>2 DEF KeepTables, keys, Standing
    <2>3. /\ \A i : Accepting(i) <=> Doing(o).kind = "invite-accept" /\ s = i
          /\ \A k : Rotating(k) <=> Doing(o).kind = "key-rotate" /\ s = k
          /\ Doing(o).kind # "invite-accept" => SeenInvitation = invitation
      BY <1>2, WriterSees
    <2>4. Serving' = Serving /\ UNCHANGED <<role, created, projects, barred, actions>>
      BY DEF Serving, keys, KeepTables
    <2>5. Doing(o).kind # "key-rotate" \/ s \notin outlived => SeenKey' = SeenKey
      BY <2>2, <2>3 DEF SeenKey, Standing
    <2>6. CASE Doing(o).kind = "invite-accept"
      <3>1. s \in Invitations /\ invitation[s].status \in {"pending", "expired"}
        BY <1>2, <2>1, <2>6, ReadsPermitted, Requested DEF Ready, KeysInv
      <3>2. CASE invitation[s].status = "pending"
        <4>1. SeenInvitation = invitation
          BY <2>3, <3>2 DEF SeenInvitation, KeysInv, TypesInv
        <4> QED
          BY <2>2, <2>4, <2>5, <2>6, <4>1 DEF Local!vars, Local!people
      <3>3. CASE invitation[s].status = "expired"
        <4>1. /\ SeenInvitation = [invitation EXCEPT ![s] = AsPending(invitation[s])]
              /\ [SeenInvitation EXCEPT ![s].status = "expired"] = invitation
          BY <2>3, <2>6, <3>1, <3>3, AcceptanceSeen DEF KeysInv
        <4>2. SeenInvitation[s].status = "pending"
          BY <3>1, <4>1 DEF KeysInv, TypesInv, AsPending
        <4>3. Local!ExpireInvitation(s)
          BY <2>2, <2>4, <2>5, <2>6, <4>1, <4>2 DEF Local!ExpireInvitation
        <4> QED
          BY <2>4, <3>1, <4>3 DEF Local!Unrecorded
      <3> QED
        BY <3>1, <3>2, <3>3
    <2>7. CASE Doing(o).kind = "key-rotate" /\ s \in outlived
      <3>1. s \in Keys /\ key[s] = "active"
        BY <1>2, <2>1, <2>7, ReadsPermitted, Requested DEF ReadInv, KeysInv
      <3>2. SeenKey[s] = "active" /\ SeenKey' = [SeenKey EXCEPT ![s] = "expired"]
        BY <2>2, <2>3, <2>7, <3>1 DEF SeenKey, Standing
      <3>3. Local!EndKey(s)
        BY <2>2, <2>3, <2>4, <2>7, <3>2 DEF Local!EndKey, Local!people
      <3> QED
        BY <2>4, <3>1, <3>3 DEF Local!Unrecorded
    <2>8. CASE Doing(o).kind # "invite-accept" /\ (Doing(o).kind # "key-rotate" \/ s \notin outlived)
      BY <2>2, <2>3, <2>4, <2>5, <2>8 DEF Local!vars, Local!people
    <2> QED
      BY <2>6, <2>7, <2>8
  <1> QED
    BY <1>1, <1>2

\* An invitation that expires while it is accepted is seen to expire later.
LEMMA ExpirySeen ==
  ASSUME KeysInv, KeysInv', SerialInv, NEW i \in Invitations, ExpireInvitation(i), UNCHANGED keys
  PROVE  UNCHANGED Local!vars \/ (UNCHANGED actions /\ Local!Unrecorded)
  <1>1. /\ invitation[i].status = "pending"
        /\ invitation' = [invitation EXCEPT ![i].status = "expired"]
        /\ UNCHANGED <<role, created, projects, barred, actions, operation>>
    BY DEF ExpireInvitation
  <1>2. (\A j : Accepting(j)' <=> Accepting(j)) /\ \A k : Rotating(k)' <=> Rotating(k)
    BY <1>1 DEF Accepting, Rotating, OperationAt, Doing
  <1>3. SeenKey' = SeenKey /\ Serving' = Serving
    BY <1>2 DEF SeenKey, Serving, keys
  <1>4. invitation \in [Invitations -> Invitation] /\ invitation' \in [Invitations -> Invitation]
    BY DEF KeysInv, TypesInv
  <1>5. \A j \in Invitations : j # i => SeenInvitation'[j] = SeenInvitation[j]
    BY <1>1, <1>2, <1>4 DEF SeenInvitation
  <1>6. SeenInvitation[i] = invitation[i]
    BY <1>1 DEF SeenInvitation
  <1>7. CASE Accepting(i)
    <2>1. invitation'[i] = AsExpired(invitation[i])
      BY <1>1, <1>4, StatusTaken
    <2>2. SeenInvitation'[i] = AsPending(invitation'[i])
      BY <1>2, <1>4, <1>7, <2>1, StatusTaken DEF SeenInvitation, AsExpired
    <2>3. SeenInvitation'[i] = invitation[i]
      BY <1>1, <1>4, <2>1, <2>2 DEF AsExpired, AsPending, Invitation
    <2>4. SeenInvitation' = SeenInvitation
      BY <1>5, <1>6, <2>3 DEF SeenInvitation
    <2> QED
      BY <1>1, <1>3, <2>4 DEF Local!vars, Local!people
  <1>8. CASE ~Accepting(i)
    <2>1. SeenInvitation'[i] = invitation'[i]
      BY <1>2, <1>8 DEF SeenInvitation
    <2>2. SeenInvitation' = [SeenInvitation EXCEPT ![i].status = "expired"]
      BY <1>1, <1>4, <1>5, <1>6, <2>1 DEF SeenInvitation
    <2>3. Local!ExpireInvitation(i)
      BY <1>1, <1>3, <1>6, <2>2 DEF Local!ExpireInvitation
    <2> QED
      BY <1>1, <2>3 DEF Local!Unrecorded
  <1> QED
    BY <1>7, <1>8

\* A key that ends while it is rotated has been rotated before.
LEMMA EndSeen ==
  ASSUME KeysInv, SerialInv, NEW k \in Keys, EndKey(k)
  PROVE  UNCHANGED Local!vars \/ (UNCHANGED actions /\ Local!Unrecorded)
  <1>1. k \notin outlived /\ key[k] \in {"active", "closing"} /\ UNCHANGED directory /\ UNCHANGED resolver
    BY DEF EndKey, Usable
  <1>2. (\A i : Accepting(i)' <=> Accepting(i)) /\ \A n : Rotating(n)' <=> Rotating(n)
    BY <1>1 DEF Accepting, Rotating, OperationAt, Doing, directory
  <1>3. SeenInvitation' = SeenInvitation /\ Serving' = Serving /\ UNCHANGED <<actions, Local!people>>
    BY <1>1, <1>2 DEF SeenInvitation, Serving, directory, Local!people
  <1>4. SeenKey[k] = key[k]
    BY <1>1 DEF SeenKey
  <1>5. CASE key[k] = "closing" /\ key' = [key EXCEPT ![k] = "revoked"] /\ UNCHANGED outlived
    <2>1. ~Rotating(k)
      BY <1>5 DEF Rotating, KeysInv, WriteInv, ReadInv
    <2>2. SeenKey' = [SeenKey EXCEPT ![k] = "revoked"]
      BY <1>1, <1>2, <1>5, <2>1 DEF SeenKey, KeysInv, TypesInv
    <2>3. Local!EndKey(k)
      BY <1>3, <1>4, <1>5, <2>2 DEF Local!EndKey
    <2> QED
      BY <1>3, <2>3 DEF Local!Unrecorded
  <1>6. CASE outlived' = outlived \cup {k} /\ UNCHANGED key
    <2>1. CASE Rotating(k)
      <3>1. SeenKey' = SeenKey
        BY <1>1, <1>2, <1>6, <2>1 DEF SeenKey
      <3> QED
        BY <1>3, <3>1 DEF Local!vars, Local!people
    <2>2. CASE ~Rotating(k)
      <3>1. SeenKey' = [SeenKey EXCEPT ![k] = "expired"]
        BY <1>1, <1>2, <1>6, <2>2 DEF SeenKey
      <3>2. Local!EndKey(k)
        BY <1>1, <1>3, <1>4, <3>1 DEF Local!EndKey
      <3> QED
        BY <1>3, <3>2 DEF Local!Unrecorded
    <2> QED
      BY <2>1, <2>2
  <1> QED
    BY <1>5, <1>6 DEF EndKey

\* A request is let in when the statement that stores the use finds the key.
LEMMA UseSeen ==
  ASSUME ResolverInv, NEW v \in Resolvers, UseKey(v) \/ EndResolve(v) \/ \E k \in Keys : LookUp(v, k)
  PROVE  UNCHANGED Local!vars \/ (UNCHANGED actions /\ Local!Unrecorded)
  <1>1. UNCHANGED directory /\ UNCHANGED <<key, outlived>>
    BY DEF UseKey, EndResolve, LookUp
  <1>2. (\A i : Accepting(i)' <=> Accepting(i)) /\ \A n : Rotating(n)' <=> Rotating(n)
    BY <1>1 DEF Accepting, Rotating, OperationAt, Doing, directory
  <1>3. SeenInvitation' = SeenInvitation /\ SeenKey' = SeenKey /\ UNCHANGED <<actions, Local!people>>
    BY <1>1, <1>2 DEF SeenInvitation, SeenKey, directory, Local!people
  <1>4. resolver \in [Resolvers -> [at: {"idle", "found", "served"}, key: Keys \cup {Nothing}]]
    BY DEF ResolverInv
  <1>5. ASSUME Serving' = Serving PROVE UNCHANGED Local!vars
    BY <1>3, <1>5 DEF Local!vars, Local!people
  <1>6. CASE UseKey(v)
    <2> DEFINE k == resolver[v].key
    <2>1. resolver[v].at = "found" /\ Serving[v] = Nothing
      BY <1>6 DEF UseKey, Serving
    <2>2. CASE StillUsable(v)
      <3>1. k \in Keys /\ k \notin outlived /\ key[k] \in {"active", "closing"}
        BY <2>2 DEF StillUsable, Usable
      <3>2. SeenKey[k] = key[k]
        BY <3>1 DEF SeenKey
      <3>3. resolver'[v].at = "served" /\ resolver'[v].key = k
            /\ \A w \in Resolvers : w # v => resolver'[w] = resolver[w]
        BY <1>4, <1>6, <2>2 DEF UseKey
      <3>4. Serving' = [Serving EXCEPT ![v] = k]
        BY <3>3 DEF Serving
      <3>5. Local!Resolve(v, k)
        BY <1>3, <2>1, <3>1, <3>2, <3>4 DEF Local!Resolve
      <3> QED
        BY <1>3, <3>1, <3>5 DEF Local!Unrecorded
    <2>3. CASE ~StillUsable(v)
      <3>1. Serving' = Serving
        BY <1>4, <1>6, <2>1, <2>3 DEF UseKey, Serving, NoLookup
      <3> QED
        BY <1>5, <3>1
    <2> QED
      BY <2>2, <2>3
  <1>7. CASE EndResolve(v)
    <2>1. Serving' = [Serving EXCEPT ![v] = Nothing]
      BY <1>4, <1>7 DEF EndResolve, Serving, NoLookup
    <2>2. CASE Serving[v] = Nothing
      <3>1. Serving' = Serving
        BY <2>1, <2>2 DEF Serving
      <3> QED
        BY <1>5, <3>1
    <2>3. CASE Serving[v] # Nothing
      <3>1. Local!EndResolve(v)
        BY <1>3, <2>1, <2>3 DEF Local!EndResolve
      <3> QED
        BY <1>3, <3>1 DEF Local!Unrecorded
    <2> QED
      BY <2>2, <2>3
  <1>8. ASSUME NEW k \in Keys, LookUp(v, k) PROVE Serving' = Serving
    BY <1>4, <1>8 DEF LookUp, Serving, NoLookup
  <1> QED
    BY <1>5, <1>6, <1>7, <1>8

\* A customer whose identity is disabled has no operation under way.
LEMMA DisableSeen ==
  ASSUME NEW c \in Customers, Disable(c), UNCHANGED keys
  PROVE  UNCHANGED actions /\ Local!Unrecorded
  <1>1. UNCHANGED <<role, created, projects, invitation, actions, operation>>
        /\ c \notin barred /\ barred' = barred \cup {c}
    BY DEF Disable
  <1>2. (\A i : Accepting(i)' <=> Accepting(i)) /\ \A n : Rotating(n)' <=> Rotating(n)
    BY <1>1 DEF Accepting, Rotating, OperationAt, Doing
  <1>3. SeenInvitation' = SeenInvitation /\ SeenKey' = SeenKey /\ Serving' = Serving
    BY <1>1, <1>2 DEF SeenInvitation, SeenKey, Serving, keys
  <1> QED
    BY <1>1, <1>3 DEF Local!Unrecorded, Local!Disable

LEMMA LocalStep ==
  ASSUME KeysInv, KeysInv', ResolverInv, ProjectRoom, SerialInv, KeysNext
  PROVE  Local!Next \/ UNCHANGED Local!vars
  <1>1. ASSUME UNCHANGED Local!vars \/ (UNCHANGED actions /\ Local!Unrecorded)
        PROVE  Local!Next \/ UNCHANGED Local!vars
    BY <1>1 DEF Local!Next
  <1>2. ASSUME NEW o \in Operations, NEW c \in Customers, NEW id \in ActionIds, NEW body \in Bodies,
               Begin(o, c, id, body), UNCHANGED keys
        PROVE  UNCHANGED Local!vars
    <2>1. KeepTables /\ \A p \in Operations : /\ OperationAt(p, "write")' <=> OperationAt(p, "write")
                                              /\ OperationAt(p, "write") => UNCHANGED operation[p]
      BY <1>2 DEF Begin, OperationAt, KeysInv, TypesInv
    <2> QED
      BY <1>2, <2>1, QuietUnseen
  <1>3. ASSUME NEW o \in Operations, LockWorkspace(o), UNCHANGED keys
        PROVE  UNCHANGED Local!vars \/ (UNCHANGED actions /\ Local!Unrecorded)
    <2>1. CASE Unlock(o)
      BY <1>3, <2>1, RollbackSeen DEF LockWorkspace
    <2>2. CASE Proceed(o, "rows")
      <3>1. Others(o) /\ OperationAt(o, "rows")'
        BY <1>3, <2>2, ProceedOnly DEF LockWorkspace, OperationAt, KeysInv
      <3>2. KeepTables /\ \A p \in Operations : /\ OperationAt(p, "write")' <=> OperationAt(p, "write")
                                                /\ OperationAt(p, "write") => UNCHANGED operation[p]
        BY <1>3, <3>1 DEF LockWorkspace, OperationAt, Others
      <3> QED
        BY <1>3, <3>2, QuietUnseen
    <2> QED
      BY <1>3, <2>1, <2>2 DEF LockWorkspace
  <1>4. ASSUME NEW o \in Operations, Write(o), UNCHANGED keys PROVE Local!Next
    <2>1. Actor(o) \in Customers /\ operation[o].id \in ActionIds
      BY <1>4, ReadsPermitted DEF Write
    <2> QED
      BY <1>4, <2>1, WriteSeen DEF Local!Next
  <1>5. ASSUME NEW o \in Operations, WriteKeys(o) PROVE Local!Next
    <2>1. Actor(o) \in Customers /\ operation[o].id \in ActionIds
      BY <1>5, ReadsPermitted DEF WriteKeys
    <2> QED
      BY <1>5, <2>1, WriteKeysSeen DEF Local!Next
  <1>6. ASSUME NEW o \in Operations, Repeat(o) \/ Rollback(o), UNCHANGED keys
        PROVE  UNCHANGED Local!vars \/ (UNCHANGED actions /\ Local!Unrecorded)
    BY <1>6, RollbackSeen DEF Repeat, Rollback
  <1>7. ASSUME NEW o \in Operations, ReadKeys(o) PROVE UNCHANGED Local!vars
    BY <1>7, ReadUnseen DEF ReadKeys, keys
  <1>8. ASSUME DirectoryNext, UNCHANGED keys PROVE Local!Next \/ UNCHANGED Local!vars
    <2>1. ASSUME NEW o \in Operations, DirectoryStep(o) PROVE Local!Next \/ UNCHANGED Local!vars
      BY <1>1, <1>3, <1>4, <1>6, <1>8, <2>1, ReadUnseen DEF DirectoryStep
    <2>2. ASSUME NEW i \in Invitations, ExpireInvitation(i) PROVE Local!Next \/ UNCHANGED Local!vars
      BY <1>1, <1>8, <2>2, ExpirySeen
    <2>3. ASSUME NEW c \in Customers, Disable(c) PROVE Local!Next \/ UNCHANGED Local!vars
      BY <1>1, <1>8, <2>3, DisableSeen
    <2> QED
      BY <1>2, <1>8, <2>1, <2>2, <2>3 DEF DirectoryNext, Bodies
  <1>9. ASSUME NEW k \in Keys, EndKey(k) PROVE Local!Next \/ UNCHANGED Local!vars
    BY <1>1, <1>9, EndSeen
  <1>10. ASSUME NEW v \in Resolvers, UseKey(v) \/ EndResolve(v) \/ \E k \in Keys : LookUp(v, k)
         PROVE  Local!Next \/ UNCHANGED Local!vars
    BY <1>1, <1>10, UseSeen
  <1> QED
    BY <1>2, <1>5, <1>7, <1>8, <1>9, <1>10 DEF KeysNext, Bodies

LEMMA LocalInit == KeysInit => Local!Init
  <1> SUFFICES ASSUME KeysInit PROVE Local!Init
    OBVIOUS
  <1>1. DirectoryInit /\ outlived = {} /\ \A o \in Operations : ~OperationAt(o, "write")
    BY DEF KeysInit, DirectoryInit, OperationAt, Resting
  <1>2. (\A k : ~Rotating(k)) /\ \A i : ~Accepting(i)
    BY <1>1 DEF Accepting, Rotating
  <1>3. \A i \in Invitations : SeenInvitation[i] = invitation[i]
    BY <1>2 DEF SeenInvitation
  <1>4. Local!Pending = Pending
    BY <1>3 DEF Local!Pending, Pending
  <1>5. \A k \in Keys : SeenKey[k] = key[k]
    BY <1>1 DEF SeenKey
  <1>6. Local!Usable = Usable
    BY <1>1, <1>5 DEF Local!Usable, Usable
  <1>7. Cardinality(Local!Usable) <= MaxKeys
    BY <1>6, UsableFinite, KeyAssumption DEF KeysInit
  <1>8. Serving = [v \in Resolvers |-> Nothing]
    BY DEF KeysInit, Serving, NoLookup
  <1>9. barred = {} /\ actions = {}
    BY <1>1 DEF DirectoryInit
  <1>10. CASE NoWorkspace
    <2>1. Pending = {}
      BY <1>10 DEF NoWorkspace, Pending, NoInvitation
    <2>2. Cardinality(Local!Pending) <= MaxPending
      BY <1>4, <2>1, FS_EmptySet, DirectoryAssumption
    <2>3. ~created /\ projects = 0 /\ Local!Members = {}
      BY <1>10 DEF NoWorkspace, Local!Members
    <2> QED
      BY <1>7, <1>8, <1>9, <2>2, <2>3, SameCount DEF Local!Init
  <1>11. CASE ExistingWorkspace
    <2>1. Pending = {i \in Invitations : invitation[i] # NoInvitation}
      BY <1>11 DEF ExistingWorkspace, Pending, NoInvitation, Invited
    <2>2. Cardinality(Local!Pending) <= MaxPending
      BY <1>4, <1>11, <2>1 DEF ExistingWorkspace
    <2>3. created /\ projects = 1 /\ Local!Owners # {}
      BY <1>11 DEF ExistingWorkspace, Local!Owners
    <2> QED
      BY <1>7, <1>8, <1>9, <2>2, <2>3, SameCount DEF Local!Init
  <1> QED
    BY <1>1, <1>10, <1>11 DEF DirectoryInit

\* However operations, uses of keys and clocks overlap in PostgreSQL, they come
\* to what they would come to one after the other in a local file
\* (postgres-customer-directory.cjs and postgres-project-keys.cjs against
\* customer-directory.cjs and project-keys.cjs).
THEOREM WorkspaceSerial == KeysSpec => WorkspaceIsSerial
  <1>1. KeysInv /\ KeysInv' /\ ResolverInv /\ ProjectRoom /\ SerialInv /\ [KeysNext]_<<directory, keys>>
          => [Local!Next]_Local!vars
    <2>1. ASSUME UNCHANGED <<directory, keys>> PROVE UNCHANGED Local!vars
      BY <2>1 DEF directory, keys, Local!vars, Local!people, SeenInvitation, SeenKey, Serving,
         Accepting, Rotating, OperationAt, Doing
    <2> QED
      BY <2>1, LocalStep
  <1> QED
    BY KeysInvariant, TablesInvariant, SerialInvariant, LocalInit, <1>1, PTL
       DEF KeysSpec, WorkspaceIsSerial, Local!Spec

-----------------------------------------------------------------------------
(* PublisherRelease. *)

Idle == release.step = "idle"
WorkerLock == [by |-> "worker", alive |-> TRUE]
ReleaseLock == [by |-> "release", alive |-> TRUE]

\* Whoever works on the journal holds its lock, and the journal is in the
\* state that lets him.
OwnerInv ==
  /\ publisher.at \in {"up", "cleared"} => lock = WorkerLock /\ journal.gate # "review-required"
  /\ ~Idle => lock = ReleaseLock /\ journal.gate # "none"
  /\ publisher.at # "down" /\ publisher.id = NoRelease => journal.gate = "none"
  /\ journal.gate = "none" => journal.id = NoRelease
  /\ journal.gate = "approved" => journal.id \in Releases

NoneActiveBut(S) == \A r \in Releases \ S : releases[r].state # "active"
NoneOfThisCopy ==
  \A r \in Releases : ~(releases[r].state = "active" /\ releases[r].copy = journal.copy)

\* How far the two databases are apart at each step of a release.
PhaseInv ==
  /\ plan # NoPlan => plan.id \in Releases
  /\ Idle => release = NoRun
  /\ ~Idle => release.id \in Releases
  /\ release.step \in {"locked", "reviewed"} =>
        journal.gate = "review-required" /\ (~reclaimed => NoneOfThisCopy)
  /\ release.step \in {"reviewed", "journalled"} => NoneActiveBut({})
  /\ release.step \in {"closing", "revoking"} => NoneActiveBut({release.id})
  /\ release.step \in {"journalled", "closing"} =>
        journal.gate = "approved" /\ journal.id = release.id
  /\ release.step = "revoking" => release.keepLock \/ journal.gate = "review-required"
  /\ \A r \in Releases : releases[r].copy <= journal.copy

RecoveryInv == RecoveryTypeOK /\ OwnerInv /\ PhaseInv /\ ReleaseGoverned

GateType == [state: {"active", "review-required", "access-reviewed", "customer-active"},
             restore: 0..MaxRestores, data: 0..MaxData]
RowsType == [Releases -> [state: {"none", "active", "revoked"},
                          restore: 0..MaxRestores, copy: 0..MaxRestores]]
JournalType == [gate: {"none", "review-required", "approved"},
                id: Releases \cup {NoRelease}, copy: 0..MaxRestores]
LockType == [by: {"nobody", "worker", "release"}, alive: BOOLEAN]
PlanType == [id: Releases \cup {NoRelease}, restore: 0..MaxRestores, data: 0..MaxData]
RunType == [step: {"idle", "locked", "reviewed", "journalled", "closing", "revoking"},
            id: Releases \cup {NoRelease}, connected: BOOLEAN, keepLock: BOOLEAN]
PublisherType == [at: {"down", "bound", "up", "cleared"}, id: Releases \cup {NoRelease}]

LEMMA RecoveryTypes ==
  RecoveryTypeOK <=> /\ gate \in GateType /\ releases \in RowsType /\ journal \in JournalType
                     /\ lock \in LockType /\ plan \in PlanType /\ release \in RunType
                     /\ publisher \in PublisherType /\ reclaimed \in BOOLEAN
  BY DEF RecoveryTypeOK, GateType, RowsType, JournalType, LockType, PlanType, RunType, PublisherType

LEMMA RecoveryConstants ==
  /\ NoPlan \in PlanType /\ NoRun \in RunType /\ Unlocked \in LockType
  /\ WorkerLock \in LockType /\ ReleaseLock \in LockType
  /\ [at |-> "down", id |-> NoRelease] \in PublisherType
  BY ReleaseAssumption DEF NoPlan, PlanType, NoRun, RunType, Unlocked, WorkerLock, ReleaseLock,
     LockType, PublisherType

\* The end of a release run, and the end of its process.
LEMMA LeaveTypes ==
  ASSUME RecoveryTypeOK, NEW keepLock \in BOOLEAN, Leave(keepLock)
  PROVE  lock' \in LockType /\ plan' \in PlanType /\ release' \in RunType
  <1>1. [lock EXCEPT !.alive = FALSE] \in LockType
    BY RecoveryTypes DEF LockType
  <1> QED
    BY <1>1, RecoveryConstants DEF Leave

LEMMA RecoveryBegins == RecoveryInit => RecoveryInv
  <1> SUFFICES ASSUME RecoveryInit PROVE RecoveryInv
    OBVIOUS
  <1>1. RecoveryTypeOK
    <2>1. gate \in GateType /\ releases \in RowsType /\ journal \in JournalType
      BY ReleaseAssumption DEF RecoveryInit, GateType, RowsType, JournalType, NoRow
    <2> QED
      BY <2>1, RecoveryTypes, RecoveryConstants DEF RecoveryInit
  <1>2. OwnerInv /\ PhaseInv
    BY ReleaseAssumption DEF RecoveryInit, OwnerInv, PhaseInv, Idle, NoRow, NoRun, NoneOfThisCopy
  <1>3. ReleaseGoverned
    BY DEF RecoveryInit, ReleaseGoverned, PublishesUnderRelease, ReleaseSettles, NoRow
  <1> QED
    BY <1>1, <1>2, <1>3 DEF RecoveryInv

LEMMA ActivatedRow ==
  ASSUME RecoveryTypeOK, release.id \in Releases
  PROVE  /\ Activated \in [Releases -> [state: {"none", "active", "revoked"},
                                        restore: 0..MaxRestores, copy: 0..MaxRestores]]
         /\ Activated[release.id].state = "active" /\ Activated[release.id].copy = journal.copy
         /\ Activated[release.id] # NoRow
         /\ \A r \in Releases : r # release.id => Activated[r] = releases[r]
  BY DEF RecoveryTypeOK, Activated, NoRow

LEMMA RevokedRow ==
  ASSUME RecoveryTypeOK, NEW q \in Releases
  PROVE  /\ Revoked(q) \in [Releases -> [state: {"none", "active", "revoked"},
                                         restore: 0..MaxRestores, copy: 0..MaxRestores]]
         /\ Revoked(q)[q].state # "active"
         /\ \A r \in Releases : /\ Revoked(q)[r].copy = releases[r].copy
                                /\ Revoked(q)[r] = NoRow <=> releases[r] = NoRow
                                /\ Revoked(q)[r].state = "active" => releases[r].state = "active"
         /\ \A r \in Releases : r # q => Revoked(q)[r] = releases[r]
  BY DEF RecoveryTypeOK, Revoked, NoRow

LEMMA InvalidateRestoreKeeps ==
  ASSUME RecoveryInv, InvalidateRestore
  PROVE  RecoveryInv'
  <1> USE DEF RecoveryInv
  <1>1. RecoveryTypeOK'
    <2>a. gate.restore \in 0..MaxRestores /\ gate.data \in 0..MaxData
      BY RecoveryTypes DEF GateType
    <2>b. gate.restore + 1 \in 0..MaxRestores
      BY <2>a, ReleaseAssumption DEF InvalidateRestore
    <2>c. gate' = [state |-> "review-required", restore |-> gate.restore + 1, data |-> gate.data]
      BY RecoveryTypes DEF InvalidateRestore, GateType
    <2>1. gate' \in GateType
      BY <2>a, <2>b, <2>c DEF GateType
    <2>2. releases' \in RowsType
      BY RecoveryTypes DEF InvalidateRestore, RowsType, NoRow
    <2> QED
      BY <2>1, <2>2 DEF InvalidateRestore, RecoveryTypeOK,
         GateType, RowsType, JournalType, LockType, PlanType, RunType, PublisherType
  <1>2. OwnerInv'
    BY ReleaseAssumption DEF InvalidateRestore, Offline, RecoveryTypeOK, PhaseInv, OwnerInv, Idle, WorkerLock, ReleaseLock, NoRun, NoPlan, Unlocked, NoRow
  <1>3. PhaseInv'
    BY ReleaseAssumption
       DEF InvalidateRestore, Offline, RecoveryTypeOK, PhaseInv, OwnerInv, NoneActiveBut, NoneOfThisCopy,
           ReleaseGoverned, ReleaseSettles, Idle, WorkerLock, ReleaseLock, NoRun, NoPlan, Unlocked, NoRow
  <1>4. PublishesUnderRelease'
    BY ReleaseAssumption
       DEF InvalidateRestore, Offline, RecoveryTypeOK, PhaseInv, OwnerInv, ReleaseGoverned, PublishesUnderRelease, Idle, WorkerLock, ReleaseLock, NoRun, NoPlan, Unlocked, NoRow
  <1>5. ReleaseSettles'
    <2>1. \A r \in Releases : /\ releases'[r].state # "active"
                              /\ releases[r] # NoRow => releases'[r] # NoRow
      BY RecoveryTypes DEF InvalidateRestore, RowsType, NoRow
    <2> QED
      BY <2>1 DEF InvalidateRestore, OwnerInv, ReleaseGoverned, ReleaseSettles
  <1> QED
    BY <1>1, <1>2, <1>3, <1>4, <1>5 DEF ReleaseGoverned

LEMMA RestoreJournalKeeps ==
  ASSUME RecoveryInv, RestoreJournal
  PROVE  RecoveryInv'
  <1> USE DEF RecoveryInv
  <1>1. RecoveryTypeOK'
    <2>a. journal.copy \in 0..MaxRestores /\ journal.id \in Releases \cup {NoRelease}
      BY RecoveryTypes DEF JournalType
    <2>b. journal.copy + 1 \in 0..MaxRestores
      BY <2>a, ReleaseAssumption DEF RestoreJournal
    <2>c. journal' = [gate |-> "review-required", id |-> journal.id, copy |-> journal.copy + 1]
      BY RecoveryTypes DEF RestoreJournal, JournalType
    <2>1. journal' \in JournalType
      BY <2>a, <2>b, <2>c DEF JournalType
    <2>2. lock' \in LockType /\ reclaimed' \in BOOLEAN
      BY RecoveryConstants DEF RestoreJournal
    <2> QED
      BY <2>1, <2>2 DEF RestoreJournal, RecoveryTypeOK,
         GateType, RowsType, JournalType, LockType, PlanType, RunType, PublisherType
  <1>2. OwnerInv'
    BY ReleaseAssumption DEF RestoreJournal, Offline, RecoveryTypeOK, PhaseInv, OwnerInv, Idle, WorkerLock, ReleaseLock, NoRun, NoPlan, Unlocked, NoRow
  <1>3. PhaseInv'
    BY ReleaseAssumption
       DEF RestoreJournal, Offline, RecoveryTypeOK, PhaseInv, OwnerInv, NoneActiveBut, NoneOfThisCopy,
           ReleaseGoverned, ReleaseSettles, Idle, WorkerLock, ReleaseLock, NoRun, NoPlan, Unlocked, NoRow
  <1>4. PublishesUnderRelease'
    BY ReleaseAssumption
       DEF RestoreJournal, Offline, RecoveryTypeOK, PhaseInv, OwnerInv, ReleaseGoverned, PublishesUnderRelease, Idle, WorkerLock, ReleaseLock, NoRun, NoPlan, Unlocked, NoRow
  <1>5. ReleaseSettles'
    BY ReleaseAssumption
       DEF RestoreJournal, Offline, RecoveryTypeOK, PhaseInv, OwnerInv, NoneActiveBut, NoneOfThisCopy,
           ReleaseGoverned, ReleaseSettles, Idle, WorkerLock, ReleaseLock, NoRun, NoPlan, Unlocked, NoRow
  <1> QED
    BY <1>1, <1>2, <1>3, <1>4, <1>5 DEF ReleaseGoverned

LEMMA ApplyAccessReviewKeeps ==
  ASSUME RecoveryInv, ApplyAccessReview
  PROVE  RecoveryInv'
  <1> USE DEF RecoveryInv
  <1>1. RecoveryTypeOK'
    BY ReleaseAssumption DEF ApplyAccessReview, RecoveryTypeOK, PhaseInv, Idle, WorkerLock, ReleaseLock, NoRun, NoPlan, Unlocked, NoRow
  <1>2. OwnerInv'
    BY ReleaseAssumption DEF ApplyAccessReview, RecoveryTypeOK, PhaseInv, OwnerInv, Idle, WorkerLock, ReleaseLock, NoRun, NoPlan, Unlocked, NoRow
  <1>3. PhaseInv'
    BY ReleaseAssumption
       DEF ApplyAccessReview, RecoveryTypeOK, PhaseInv, OwnerInv, NoneActiveBut, NoneOfThisCopy,
           ReleaseGoverned, ReleaseSettles, Idle, WorkerLock, ReleaseLock, NoRun, NoPlan, Unlocked, NoRow
  <1>4. PublishesUnderRelease'
    BY ReleaseAssumption
       DEF ApplyAccessReview, RecoveryTypeOK, PhaseInv, OwnerInv, ReleaseGoverned, PublishesUnderRelease, Idle, WorkerLock, ReleaseLock, NoRun, NoPlan, Unlocked, NoRow
  <1>5. ReleaseSettles'
    BY ReleaseAssumption
       DEF ApplyAccessReview, RecoveryTypeOK, PhaseInv, OwnerInv, NoneActiveBut, NoneOfThisCopy,
           ReleaseGoverned, ReleaseSettles, Idle, WorkerLock, ReleaseLock, NoRun, NoPlan, Unlocked, NoRow
  <1> QED
    BY <1>1, <1>2, <1>3, <1>4, <1>5 DEF ReleaseGoverned

LEMMA ActivateCustomerAccessKeeps ==
  ASSUME RecoveryInv, ActivateCustomerAccess
  PROVE  RecoveryInv'
  <1> USE DEF RecoveryInv
  <1>1. RecoveryTypeOK'
    BY ReleaseAssumption DEF ActivateCustomerAccess, RecoveryTypeOK, PhaseInv, Idle, WorkerLock, ReleaseLock, NoRun, NoPlan, Unlocked, NoRow
  <1>2. OwnerInv'
    BY ReleaseAssumption DEF ActivateCustomerAccess, RecoveryTypeOK, PhaseInv, OwnerInv, Idle, WorkerLock, ReleaseLock, NoRun, NoPlan, Unlocked, NoRow
  <1>3. PhaseInv'
    BY ReleaseAssumption
       DEF ActivateCustomerAccess, RecoveryTypeOK, PhaseInv, OwnerInv, NoneActiveBut, NoneOfThisCopy,
           ReleaseGoverned, ReleaseSettles, Idle, WorkerLock, ReleaseLock, NoRun, NoPlan, Unlocked, NoRow
  <1>4. PublishesUnderRelease'
    BY ReleaseAssumption
       DEF ActivateCustomerAccess, RecoveryTypeOK, PhaseInv, OwnerInv, ReleaseGoverned, PublishesUnderRelease, Idle, WorkerLock, ReleaseLock, NoRun, NoPlan, Unlocked, NoRow
  <1>5. ReleaseSettles'
    BY ReleaseAssumption
       DEF ActivateCustomerAccess, RecoveryTypeOK, PhaseInv, OwnerInv, NoneActiveBut, NoneOfThisCopy,
           ReleaseGoverned, ReleaseSettles, Idle, WorkerLock, ReleaseLock, NoRun, NoPlan, Unlocked, NoRow
  <1> QED
    BY <1>1, <1>2, <1>3, <1>4, <1>5 DEF ReleaseGoverned

LEMMA ChangeRecordsKeeps ==
  ASSUME RecoveryInv, ChangeRecords
  PROVE  RecoveryInv'
  <1> USE DEF RecoveryInv
  <1>1. RecoveryTypeOK'
    BY ReleaseAssumption DEF ChangeRecords, RecoveryTypeOK, PhaseInv, Idle, WorkerLock, ReleaseLock, NoRun, NoPlan, Unlocked, NoRow
  <1>2. OwnerInv'
    BY ReleaseAssumption DEF ChangeRecords, RecoveryTypeOK, PhaseInv, OwnerInv, Idle, WorkerLock, ReleaseLock, NoRun, NoPlan, Unlocked, NoRow
  <1>3. PhaseInv'
    BY ReleaseAssumption
       DEF ChangeRecords, RecoveryTypeOK, PhaseInv, OwnerInv, NoneActiveBut, NoneOfThisCopy,
           ReleaseGoverned, ReleaseSettles, Idle, WorkerLock, ReleaseLock, NoRun, NoPlan, Unlocked, NoRow
  <1>4. PublishesUnderRelease'
    BY ReleaseAssumption
       DEF ChangeRecords, RecoveryTypeOK, PhaseInv, OwnerInv, ReleaseGoverned, PublishesUnderRelease, Idle, WorkerLock, ReleaseLock, NoRun, NoPlan, Unlocked, NoRow
  <1>5. ReleaseSettles'
    BY ReleaseAssumption
       DEF ChangeRecords, RecoveryTypeOK, PhaseInv, OwnerInv, NoneActiveBut, NoneOfThisCopy,
           ReleaseGoverned, ReleaseSettles, Idle, WorkerLock, ReleaseLock, NoRun, NoPlan, Unlocked, NoRow
  <1> QED
    BY <1>1, <1>2, <1>3, <1>4, <1>5 DEF ReleaseGoverned

LEMMA PreparePublisherReleaseKeeps ==
  ASSUME RecoveryInv, NEW r \in Releases, PreparePublisherRelease(r)
  PROVE  RecoveryInv'
  <1> USE DEF RecoveryInv
  <1>1. RecoveryTypeOK'
    BY ReleaseAssumption DEF PreparePublisherRelease, RecoveryTypeOK, PhaseInv, Idle, WorkerLock, ReleaseLock, NoRun, NoPlan, Unlocked, NoRow
  <1>2. OwnerInv'
    BY ReleaseAssumption DEF PreparePublisherRelease, RecoveryTypeOK, PhaseInv, OwnerInv, Idle, WorkerLock, ReleaseLock, NoRun, NoPlan, Unlocked, NoRow
  <1>3. PhaseInv'
    BY ReleaseAssumption
       DEF PreparePublisherRelease, RecoveryTypeOK, PhaseInv, OwnerInv, NoneActiveBut, NoneOfThisCopy,
           ReleaseGoverned, ReleaseSettles, Idle, WorkerLock, ReleaseLock, NoRun, NoPlan, Unlocked, NoRow
  <1>4. PublishesUnderRelease'
    BY ReleaseAssumption
       DEF PreparePublisherRelease, RecoveryTypeOK, PhaseInv, OwnerInv, ReleaseGoverned, PublishesUnderRelease, Idle, WorkerLock, ReleaseLock, NoRun, NoPlan, Unlocked, NoRow
  <1>5. ReleaseSettles'
    BY ReleaseAssumption
       DEF PreparePublisherRelease, RecoveryTypeOK, PhaseInv, OwnerInv, NoneActiveBut, NoneOfThisCopy,
           ReleaseGoverned, ReleaseSettles, Idle, WorkerLock, ReleaseLock, NoRun, NoPlan, Unlocked, NoRow
  <1> QED
    BY <1>1, <1>2, <1>3, <1>4, <1>5 DEF ReleaseGoverned

LEMMA ForgetPlanKeeps ==
  ASSUME RecoveryInv, ForgetPlan
  PROVE  RecoveryInv'
  <1> USE DEF RecoveryInv
  <1>1. RecoveryTypeOK'
    BY ReleaseAssumption DEF ForgetPlan, RecoveryTypeOK, PhaseInv, Idle, WorkerLock, ReleaseLock, NoRun, NoPlan, Unlocked, NoRow
  <1>2. OwnerInv'
    BY ReleaseAssumption DEF ForgetPlan, RecoveryTypeOK, PhaseInv, OwnerInv, Idle, WorkerLock, ReleaseLock, NoRun, NoPlan, Unlocked, NoRow
  <1>3. PhaseInv'
    BY ReleaseAssumption
       DEF ForgetPlan, RecoveryTypeOK, PhaseInv, OwnerInv, NoneActiveBut, NoneOfThisCopy,
           ReleaseGoverned, ReleaseSettles, Idle, WorkerLock, ReleaseLock, NoRun, NoPlan, Unlocked, NoRow
  <1>4. PublishesUnderRelease'
    BY ReleaseAssumption
       DEF ForgetPlan, RecoveryTypeOK, PhaseInv, OwnerInv, ReleaseGoverned, PublishesUnderRelease, Idle, WorkerLock, ReleaseLock, NoRun, NoPlan, Unlocked, NoRow
  <1>5. ReleaseSettles'
    BY ReleaseAssumption
       DEF ForgetPlan, RecoveryTypeOK, PhaseInv, OwnerInv, NoneActiveBut, NoneOfThisCopy,
           ReleaseGoverned, ReleaseSettles, Idle, WorkerLock, ReleaseLock, NoRun, NoPlan, Unlocked, NoRow
  <1> QED
    BY <1>1, <1>2, <1>3, <1>4, <1>5 DEF ReleaseGoverned

LEMMA TakeReleaseLockKeeps ==
  ASSUME RecoveryInv, TakeReleaseLock
  PROVE  RecoveryInv'
  <1> USE DEF RecoveryInv
  <1>1. RecoveryTypeOK'
    BY ReleaseAssumption DEF TakeReleaseLock, RecoveryTypeOK, PhaseInv, Idle, WorkerLock, ReleaseLock, NoRun, NoPlan, Unlocked, NoRow
  <1>2. OwnerInv'
    BY ReleaseAssumption DEF TakeReleaseLock, RecoveryTypeOK, PhaseInv, OwnerInv, Idle, WorkerLock, ReleaseLock, NoRun, NoPlan, Unlocked, NoRow
  <1>3. PhaseInv'
    BY ReleaseAssumption
       DEF TakeReleaseLock, RecoveryTypeOK, PhaseInv, OwnerInv, NoneActiveBut, NoneOfThisCopy,
           ReleaseGoverned, ReleaseSettles, Idle, WorkerLock, ReleaseLock, NoRun, NoPlan, Unlocked, NoRow
  <1>4. PublishesUnderRelease'
    BY ReleaseAssumption
       DEF TakeReleaseLock, RecoveryTypeOK, PhaseInv, OwnerInv, ReleaseGoverned, PublishesUnderRelease, Idle, WorkerLock, ReleaseLock, NoRun, NoPlan, Unlocked, NoRow
  <1>5. ReleaseSettles'
    BY ReleaseAssumption
       DEF TakeReleaseLock, RecoveryTypeOK, PhaseInv, OwnerInv, NoneActiveBut, NoneOfThisCopy,
           ReleaseGoverned, ReleaseSettles, Idle, WorkerLock, ReleaseLock, NoRun, NoPlan, Unlocked, NoRow
  <1> QED
    BY <1>1, <1>2, <1>3, <1>4, <1>5 DEF ReleaseGoverned

LEMMA ReviewUnderLockKeeps ==
  ASSUME RecoveryInv, ReviewUnderLock
  PROVE  RecoveryInv'
  <1> USE DEF RecoveryInv
  <1>1. RecoveryTypeOK'
    BY ReleaseAssumption DEF ReviewUnderLock, RecoveryTypeOK, PhaseInv, Idle, WorkerLock, ReleaseLock, NoRun, NoPlan, Unlocked, NoRow
  <1>2. OwnerInv'
    BY ReleaseAssumption DEF ReviewUnderLock, RecoveryTypeOK, PhaseInv, OwnerInv, Idle, WorkerLock, ReleaseLock, NoRun, NoPlan, Unlocked, NoRow
  <1>3. PhaseInv'
    BY ReleaseAssumption
       DEF ReviewUnderLock, RecoveryTypeOK, PhaseInv, OwnerInv, NoneActiveBut, NoneOfThisCopy,
           ReleaseGoverned, ReleaseSettles, Idle, WorkerLock, ReleaseLock, NoRun, NoPlan, Unlocked, NoRow
  <1>4. PublishesUnderRelease'
    BY ReleaseAssumption
       DEF ReviewUnderLock, RecoveryTypeOK, PhaseInv, OwnerInv, ReleaseGoverned, PublishesUnderRelease, Idle, WorkerLock, ReleaseLock, NoRun, NoPlan, Unlocked, NoRow
  <1>5. ReleaseSettles'
    BY ReleaseAssumption
       DEF ReviewUnderLock, RecoveryTypeOK, PhaseInv, OwnerInv, NoneActiveBut, NoneOfThisCopy,
           ReleaseGoverned, ReleaseSettles, Idle, WorkerLock, ReleaseLock, NoRun, NoPlan, Unlocked, NoRow
  <1> QED
    BY <1>1, <1>2, <1>3, <1>4, <1>5 DEF ReleaseGoverned

LEMMA RefuseReleaseKeeps ==
  ASSUME RecoveryInv, RefuseRelease
  PROVE  RecoveryInv'
  <1> USE DEF RecoveryInv
  <1>1. RecoveryTypeOK'
    <2>1. lock' \in LockType /\ plan' \in PlanType /\ release' \in RunType
      BY LeaveTypes DEF RefuseRelease
    <2> QED
      BY <2>1 DEF RefuseRelease, RecoveryTypeOK,
         GateType, RowsType, JournalType, LockType, PlanType, RunType, PublisherType
  <1>2. OwnerInv'
    BY ReleaseAssumption DEF RefuseRelease, Leave, RecoveryTypeOK, PhaseInv, OwnerInv, Idle, WorkerLock, ReleaseLock, NoRun, NoPlan, Unlocked, NoRow
  <1>3. PhaseInv'
    BY ReleaseAssumption
       DEF RefuseRelease, Leave, RecoveryTypeOK, PhaseInv, OwnerInv, NoneActiveBut, NoneOfThisCopy,
           ReleaseGoverned, ReleaseSettles, Idle, WorkerLock, ReleaseLock, NoRun, NoPlan, Unlocked, NoRow
  <1>4. PublishesUnderRelease'
    BY ReleaseAssumption
       DEF RefuseRelease, Leave, RecoveryTypeOK, PhaseInv, OwnerInv, ReleaseGoverned, PublishesUnderRelease, Idle, WorkerLock, ReleaseLock, NoRun, NoPlan, Unlocked, NoRow
  <1>5. ReleaseSettles'
    BY ReleaseAssumption
       DEF RefuseRelease, Leave, RecoveryTypeOK, PhaseInv, OwnerInv, NoneActiveBut, NoneOfThisCopy,
           ReleaseGoverned, ReleaseSettles, Idle, WorkerLock, ReleaseLock, NoRun, NoPlan, Unlocked, NoRow
  <1> QED
    BY <1>1, <1>2, <1>3, <1>4, <1>5 DEF ReleaseGoverned

LEMMA CommitJournalKeeps ==
  ASSUME RecoveryInv, CommitJournal
  PROVE  RecoveryInv'
  <1> USE DEF RecoveryInv
  <1>1. RecoveryTypeOK'
    <2>1. journal' \in JournalType
      BY DEF CommitJournal, RecoveryTypeOK, PhaseInv, Idle, JournalType
    <2>2. release' \in RunType
      BY DEF CommitJournal, RecoveryTypeOK, RunType
    <2> QED
      BY <2>1, <2>2 DEF CommitJournal, RecoveryTypeOK, JournalType, RunType
  <1>2. OwnerInv'
    BY ReleaseAssumption DEF CommitJournal, RecoveryTypeOK, PhaseInv, OwnerInv, Idle, WorkerLock, ReleaseLock, NoRun, NoPlan, Unlocked, NoRow
  <1>3. PhaseInv'
    BY ReleaseAssumption
       DEF CommitJournal, RecoveryTypeOK, PhaseInv, OwnerInv, NoneActiveBut, NoneOfThisCopy,
           ReleaseGoverned, ReleaseSettles, Idle, WorkerLock, ReleaseLock, NoRun, NoPlan, Unlocked, NoRow
  <1>4. PublishesUnderRelease'
    BY ReleaseAssumption
       DEF CommitJournal, RecoveryTypeOK, PhaseInv, OwnerInv, ReleaseGoverned, PublishesUnderRelease, Idle, WorkerLock, ReleaseLock, NoRun, NoPlan, Unlocked, NoRow
  <1>5. ReleaseSettles'
    BY ReleaseAssumption
       DEF CommitJournal, RecoveryTypeOK, PhaseInv, OwnerInv, NoneActiveBut, NoneOfThisCopy,
           ReleaseGoverned, ReleaseSettles, Idle, WorkerLock, ReleaseLock, NoRun, NoPlan, Unlocked, NoRow
  <1> QED
    BY <1>1, <1>2, <1>3, <1>4, <1>5 DEF ReleaseGoverned

LEMMA CommitReleaseKeeps ==
  ASSUME RecoveryInv, CommitRelease
  PROVE  RecoveryInv'
  <1> USE DEF RecoveryInv
  <1>1. RecoveryTypeOK'
    BY ActivatedRow, ReleaseAssumption DEF CommitRelease, Leave, RecoveryTypeOK, PhaseInv, Idle, WorkerLock, ReleaseLock, NoRun, NoPlan, Unlocked, NoRow
  <1>2. OwnerInv'
    BY ActivatedRow, ReleaseAssumption DEF CommitRelease, Leave, RecoveryTypeOK, PhaseInv, OwnerInv, Idle, WorkerLock, ReleaseLock, NoRun, NoPlan, Unlocked, NoRow
  <1>3. PhaseInv'
    BY ActivatedRow, ReleaseAssumption
       DEF CommitRelease, Leave, RecoveryTypeOK, PhaseInv, OwnerInv, NoneActiveBut, NoneOfThisCopy,
           ReleaseGoverned, ReleaseSettles, Idle, WorkerLock, ReleaseLock, NoRun, NoPlan, Unlocked, NoRow
  <1>4. PublishesUnderRelease'
    BY ActivatedRow, ReleaseAssumption
       DEF CommitRelease, Leave, RecoveryTypeOK, PhaseInv, OwnerInv, ReleaseGoverned, PublishesUnderRelease, Idle, WorkerLock, ReleaseLock, NoRun, NoPlan, Unlocked, NoRow
  <1>5. ReleaseSettles'
    BY ActivatedRow, ReleaseAssumption
       DEF CommitRelease, Leave, RecoveryTypeOK, PhaseInv, OwnerInv, NoneActiveBut, NoneOfThisCopy,
           ReleaseGoverned, ReleaseSettles, Idle, WorkerLock, ReleaseLock, NoRun, NoPlan, Unlocked, NoRow
  <1> QED
    BY <1>1, <1>2, <1>3, <1>4, <1>5 DEF ReleaseGoverned

LEMMA LoseCommitKeeps ==
  ASSUME RecoveryInv, LoseCommit
  PROVE  RecoveryInv'
  <1> USE DEF RecoveryInv
  <1>1. RecoveryTypeOK'
    <2>1. releases' \in RowsType
      BY ActivatedRow, RecoveryTypes DEF LoseCommit, PhaseInv, Idle, RowsType
    <2>2. release' \in RunType
      BY RecoveryTypes DEF LoseCommit, RunType
    <2> QED
      BY <2>1, <2>2 DEF LoseCommit, RecoveryTypeOK,
         GateType, RowsType, JournalType, LockType, PlanType, RunType, PublisherType
  <1>2. OwnerInv'
    BY ActivatedRow, ReleaseAssumption DEF LoseCommit, RecoveryTypeOK, PhaseInv, OwnerInv, Idle, WorkerLock, ReleaseLock, NoRun, NoPlan, Unlocked, NoRow
  <1>3. PhaseInv'
    BY ActivatedRow, ReleaseAssumption
       DEF LoseCommit, RecoveryTypeOK, PhaseInv, OwnerInv, NoneActiveBut, NoneOfThisCopy,
           ReleaseGoverned, ReleaseSettles, Idle, WorkerLock, ReleaseLock, NoRun, NoPlan, Unlocked, NoRow
  <1>4. PublishesUnderRelease'
    BY ActivatedRow, ReleaseAssumption
       DEF LoseCommit, RecoveryTypeOK, PhaseInv, OwnerInv, ReleaseGoverned, PublishesUnderRelease, Idle, WorkerLock, ReleaseLock, NoRun, NoPlan, Unlocked, NoRow
  <1>5. ReleaseSettles'
    BY ActivatedRow, ReleaseAssumption
       DEF LoseCommit, RecoveryTypeOK, PhaseInv, OwnerInv, NoneActiveBut, NoneOfThisCopy,
           ReleaseGoverned, ReleaseSettles, Idle, WorkerLock, ReleaseLock, NoRun, NoPlan, Unlocked, NoRow
  <1> QED
    BY <1>1, <1>2, <1>3, <1>4, <1>5 DEF ReleaseGoverned

LEMMA CloseJournalKeeps ==
  ASSUME RecoveryInv, CloseJournal
  PROVE  RecoveryInv'
  <1> USE DEF RecoveryInv
  <1> DEFINE closed == [journal EXCEPT !.gate = "review-required", !.id = NoRelease]
  <1>a. \/ journal' = closed /\ release' = [release EXCEPT !.step = "revoking"]
        \/ journal' = journal /\ release' = [release EXCEPT !.step = "revoking", !.keepLock = TRUE]
    BY DEF CloseJournal
  <1>b. closed \in JournalType /\ closed.gate = "review-required" /\ closed.copy = journal.copy
    BY RecoveryTypes DEF JournalType
  <1> HIDE DEF closed
  <1>c. /\ release' \in RunType /\ release'.step = "revoking" /\ release'.id = release.id
        /\ release'.keepLock \/ journal' = closed
    <2>1. CASE journal' = closed /\ release' = [release EXCEPT !.step = "revoking"]
      BY <2>1, RecoveryTypes DEF RunType
    <2>2. CASE release' = [release EXCEPT !.step = "revoking", !.keepLock = TRUE]
      BY <2>2, RecoveryTypes DEF RunType
    <2> QED
      BY <1>a, <2>1, <2>2
  <1>1. RecoveryTypeOK'
    <2>1. journal' \in JournalType
      BY <1>a, <1>b, RecoveryTypes
    <2> QED
      BY <2>1, <1>c DEF CloseJournal, RecoveryTypeOK,
         GateType, RowsType, JournalType, LockType, PlanType, RunType, PublisherType
  <1>2. OwnerInv'
    BY <1>a, <1>b, <1>c DEF CloseJournal, OwnerInv, Idle, WorkerLock, ReleaseLock
  <1>3. PhaseInv'
    BY <1>a, <1>b, <1>c DEF CloseJournal, PhaseInv, Idle, NoneActiveBut
  <1>4. PublishesUnderRelease'
    BY <1>a, <1>b, <1>c DEF CloseJournal, OwnerInv, Idle, ReleaseLock, WorkerLock, PublishesUnderRelease
  <1>5. ReleaseSettles'
    BY <1>c DEF CloseJournal, ReleaseSettles, NoRun
  <1> QED
    BY <1>1, <1>2, <1>3, <1>4, <1>5 DEF ReleaseGoverned

LEMMA RevokeUncertainKeeps ==
  ASSUME RecoveryInv, RevokeUncertain
  PROVE  RecoveryInv'
  <1> USE DEF RecoveryInv
  <1>1. RecoveryTypeOK'
    <2>a. release.id \in Releases
      BY DEF RevokeUncertain, PhaseInv, Idle
    <2>b. releases' = releases \/ releases' = Revoked(release.id)
      BY DEF RevokeUncertain
    <2>1. releases' \in RowsType
      BY <2>a, <2>b, RevokedRow, RecoveryTypes DEF RowsType
    <2>2. release.keepLock \in BOOLEAN
      BY RecoveryTypes DEF RunType
    <2>3. Leave(TRUE) \/ Leave(release.keepLock)
      BY DEF RevokeUncertain
    <2>4. lock' \in LockType /\ plan' \in PlanType /\ release' \in RunType
      BY <2>2, <2>3, LeaveTypes
    <2> QED
      BY <2>1, <2>4 DEF RevokeUncertain, RecoveryTypeOK,
         GateType, RowsType, JournalType, LockType, PlanType, RunType, PublisherType
  <1>2. OwnerInv'
    BY RevokedRow, ReleaseAssumption DEF RevokeUncertain, Leave, RecoveryTypeOK, PhaseInv, OwnerInv, Idle, WorkerLock, ReleaseLock, NoRun, NoPlan, Unlocked, NoRow
  <1>3. PhaseInv'
    BY RevokedRow, ReleaseAssumption
       DEF RevokeUncertain, Leave, RecoveryTypeOK, PhaseInv, OwnerInv, NoneActiveBut, NoneOfThisCopy,
           ReleaseGoverned, ReleaseSettles, Idle, WorkerLock, ReleaseLock, NoRun, NoPlan, Unlocked, NoRow
  <1>4. PublishesUnderRelease'
    BY RevokedRow, ReleaseAssumption
       DEF RevokeUncertain, Leave, RecoveryTypeOK, PhaseInv, OwnerInv, ReleaseGoverned, PublishesUnderRelease, Idle, WorkerLock, ReleaseLock, NoRun, NoPlan, Unlocked, NoRow
  <1>5. ReleaseSettles'
    BY RevokedRow, ReleaseAssumption
       DEF RevokeUncertain, Leave, RecoveryTypeOK, PhaseInv, OwnerInv, NoneActiveBut, NoneOfThisCopy,
           ReleaseGoverned, ReleaseSettles, Idle, WorkerLock, ReleaseLock, NoRun, NoPlan, Unlocked, NoRow
  <1> QED
    BY <1>1, <1>2, <1>3, <1>4, <1>5 DEF ReleaseGoverned

LEMMA ReleaseDiesKeeps ==
  ASSUME RecoveryInv, ReleaseDies
  PROVE  RecoveryInv'
  <1> USE DEF RecoveryInv
  <1>1. RecoveryTypeOK'
    <2>1. releases' \in RowsType
      BY ActivatedRow, RecoveryTypes DEF ReleaseDies, PhaseInv, Idle, RowsType
    <2>2. lock' \in LockType /\ plan' \in PlanType /\ release' \in RunType
      BY LeaveTypes DEF ReleaseDies
    <2> QED
      BY <2>1, <2>2 DEF ReleaseDies, RecoveryTypeOK,
         GateType, RowsType, JournalType, LockType, PlanType, RunType, PublisherType
  <1>2. OwnerInv'
    BY ActivatedRow, ReleaseAssumption DEF ReleaseDies, Leave, RecoveryTypeOK, PhaseInv, OwnerInv, Idle, WorkerLock, ReleaseLock, NoRun, NoPlan, Unlocked, NoRow
  <1>3. PhaseInv'
    BY ActivatedRow, ReleaseAssumption
       DEF ReleaseDies, Leave, RecoveryTypeOK, PhaseInv, OwnerInv, NoneActiveBut, NoneOfThisCopy,
           ReleaseGoverned, ReleaseSettles, Idle, WorkerLock, ReleaseLock, NoRun, NoPlan, Unlocked, NoRow
  <1>4. PublishesUnderRelease'
    BY ActivatedRow, ReleaseAssumption
       DEF ReleaseDies, Leave, RecoveryTypeOK, PhaseInv, OwnerInv, ReleaseGoverned, PublishesUnderRelease, Idle, WorkerLock, ReleaseLock, NoRun, NoPlan, Unlocked, NoRow
  <1>5. ReleaseSettles'
    BY ActivatedRow, ReleaseAssumption
       DEF ReleaseDies, Leave, RecoveryTypeOK, PhaseInv, OwnerInv, NoneActiveBut, NoneOfThisCopy,
           ReleaseGoverned, ReleaseSettles, Idle, WorkerLock, ReleaseLock, NoRun, NoPlan, Unlocked, NoRow
  <1> QED
    BY <1>1, <1>2, <1>3, <1>4, <1>5 DEF ReleaseGoverned

LEMMA RevokePublisherReleaseKeeps ==
  ASSUME RecoveryInv, NEW r \in Releases, RevokePublisherRelease(r)
  PROVE  RecoveryInv'
  <1> USE DEF RecoveryInv
  <1>1. RecoveryTypeOK'
    BY RevokedRow, ReleaseAssumption DEF RevokePublisherRelease, TablesFree, RecoveryTypeOK, PhaseInv, Idle, WorkerLock, ReleaseLock, NoRun, NoPlan, Unlocked, NoRow
  <1>2. OwnerInv'
    BY RevokedRow, ReleaseAssumption DEF RevokePublisherRelease, TablesFree, RecoveryTypeOK, PhaseInv, OwnerInv, Idle, WorkerLock, ReleaseLock, NoRun, NoPlan, Unlocked, NoRow
  <1>3. PhaseInv'
    BY RevokedRow, ReleaseAssumption
       DEF RevokePublisherRelease, TablesFree, RecoveryTypeOK, PhaseInv, OwnerInv, NoneActiveBut, NoneOfThisCopy,
           ReleaseGoverned, ReleaseSettles, Idle, WorkerLock, ReleaseLock, NoRun, NoPlan, Unlocked, NoRow
  <1>4. PublishesUnderRelease'
    BY RevokedRow, ReleaseAssumption
       DEF RevokePublisherRelease, TablesFree, RecoveryTypeOK, PhaseInv, OwnerInv, ReleaseGoverned, PublishesUnderRelease, Idle, WorkerLock, ReleaseLock, NoRun, NoPlan, Unlocked, NoRow
  <1>5. ReleaseSettles'
    <2>1. \A q \in Releases : /\ releases'[q].copy = releases[q].copy
                              /\ releases'[q] = NoRow <=> releases[q] = NoRow
                              /\ releases'[q].state = "active" => releases[q].state = "active"
      BY RevokedRow DEF RevokePublisherRelease
    <2> QED
      BY <2>1 DEF RevokePublisherRelease, OwnerInv, ReleaseGoverned, ReleaseSettles
  <1> QED
    BY <1>1, <1>2, <1>3, <1>4, <1>5 DEF ReleaseGoverned

LEMMA RecoverLockKeeps ==
  ASSUME RecoveryInv, RecoverLock
  PROVE  RecoveryInv'
  <1> USE DEF RecoveryInv
  <1>1. RecoveryTypeOK'
    BY ReleaseAssumption DEF RecoverLock, RecoveryTypeOK, PhaseInv, Idle, WorkerLock, ReleaseLock, NoRun, NoPlan, Unlocked, NoRow
  <1>2. OwnerInv'
    BY ReleaseAssumption DEF RecoverLock, RecoveryTypeOK, PhaseInv, OwnerInv, Idle, WorkerLock, ReleaseLock, NoRun, NoPlan, Unlocked, NoRow
  <1>3. PhaseInv'
    BY ReleaseAssumption
       DEF RecoverLock, RecoveryTypeOK, PhaseInv, OwnerInv, NoneActiveBut, NoneOfThisCopy,
           ReleaseGoverned, ReleaseSettles, Idle, WorkerLock, ReleaseLock, NoRun, NoPlan, Unlocked, NoRow
  <1>4. PublishesUnderRelease'
    BY ReleaseAssumption
       DEF RecoverLock, RecoveryTypeOK, PhaseInv, OwnerInv, ReleaseGoverned, PublishesUnderRelease, Idle, WorkerLock, ReleaseLock, NoRun, NoPlan, Unlocked, NoRow
  <1>5. ReleaseSettles'
    BY ReleaseAssumption
       DEF RecoverLock, RecoveryTypeOK, PhaseInv, OwnerInv, NoneActiveBut, NoneOfThisCopy,
           ReleaseGoverned, ReleaseSettles, Idle, WorkerLock, ReleaseLock, NoRun, NoPlan, Unlocked, NoRow
  <1> QED
    BY <1>1, <1>2, <1>3, <1>4, <1>5 DEF ReleaseGoverned

LEMMA LoadWorkerBindingKeeps ==
  ASSUME RecoveryInv, LoadWorkerBinding
  PROVE  RecoveryInv'
  <1> USE DEF RecoveryInv
  <1>1. RecoveryTypeOK'
    BY ReleaseAssumption DEF LoadWorkerBinding, RecoveryTypeOK, PhaseInv, Idle, WorkerLock, ReleaseLock, NoRun, NoPlan, Unlocked, NoRow
  <1>2. OwnerInv'
    BY ReleaseAssumption DEF LoadWorkerBinding, RecoveryTypeOK, PhaseInv, OwnerInv, Idle, WorkerLock, ReleaseLock, NoRun, NoPlan, Unlocked, NoRow
  <1>3. PhaseInv'
    BY ReleaseAssumption
       DEF LoadWorkerBinding, RecoveryTypeOK, PhaseInv, OwnerInv, NoneActiveBut, NoneOfThisCopy,
           ReleaseGoverned, ReleaseSettles, Idle, WorkerLock, ReleaseLock, NoRun, NoPlan, Unlocked, NoRow
  <1>4. PublishesUnderRelease'
    BY ReleaseAssumption
       DEF LoadWorkerBinding, RecoveryTypeOK, PhaseInv, OwnerInv, ReleaseGoverned, PublishesUnderRelease, Idle, WorkerLock, ReleaseLock, NoRun, NoPlan, Unlocked, NoRow
  <1>5. ReleaseSettles'
    BY ReleaseAssumption
       DEF LoadWorkerBinding, RecoveryTypeOK, PhaseInv, OwnerInv, NoneActiveBut, NoneOfThisCopy,
           ReleaseGoverned, ReleaseSettles, Idle, WorkerLock, ReleaseLock, NoRun, NoPlan, Unlocked, NoRow
  <1> QED
    BY <1>1, <1>2, <1>3, <1>4, <1>5 DEF ReleaseGoverned

LEMMA StartWorkerKeeps ==
  ASSUME RecoveryInv, StartWorker
  PROVE  RecoveryInv'
  <1> USE DEF RecoveryInv
  <1>1. RecoveryTypeOK'
    <2>1. publisher' \in PublisherType
      BY RecoveryTypes DEF StartWorker, PublisherType
    <2>2. lock' \in LockType
      BY RecoveryTypes, RecoveryConstants DEF StartWorker, WorkerLock
    <2> QED
      BY <2>1, <2>2 DEF StartWorker, RecoveryTypeOK,
         GateType, RowsType, JournalType, LockType, PlanType, RunType, PublisherType
  <1>2. OwnerInv'
    BY ReleaseAssumption DEF StartWorker, RecoveryTypeOK, PhaseInv, OwnerInv, Idle, WorkerLock, ReleaseLock, NoRun, NoPlan, Unlocked, NoRow
  <1>3. PhaseInv'
    BY ReleaseAssumption
       DEF StartWorker, RecoveryTypeOK, PhaseInv, OwnerInv, NoneActiveBut, NoneOfThisCopy,
           ReleaseGoverned, ReleaseSettles, Idle, WorkerLock, ReleaseLock, NoRun, NoPlan, Unlocked, NoRow
  <1>4. PublishesUnderRelease'
    BY ReleaseAssumption
       DEF StartWorker, RecoveryTypeOK, PhaseInv, OwnerInv, ReleaseGoverned, PublishesUnderRelease, Idle, WorkerLock, ReleaseLock, NoRun, NoPlan, Unlocked, NoRow
  <1>5. ReleaseSettles'
    BY ReleaseAssumption
       DEF StartWorker, RecoveryTypeOK, PhaseInv, OwnerInv, NoneActiveBut, NoneOfThisCopy,
           ReleaseGoverned, ReleaseSettles, Idle, WorkerLock, ReleaseLock, NoRun, NoPlan, Unlocked, NoRow
  <1> QED
    BY <1>1, <1>2, <1>3, <1>4, <1>5 DEF ReleaseGoverned

LEMMA CheckPublisherAccessKeeps ==
  ASSUME RecoveryInv, CheckPublisherAccess
  PROVE  RecoveryInv'
  <1> USE DEF RecoveryInv
  <1>1. RecoveryTypeOK'
    BY ReleaseAssumption DEF CheckPublisherAccess, Permitted, RecoveryTypeOK, PhaseInv, Idle, WorkerLock, ReleaseLock, NoRun, NoPlan, Unlocked, NoRow
  <1>2. OwnerInv'
    BY ReleaseAssumption DEF CheckPublisherAccess, Permitted, RecoveryTypeOK, PhaseInv, OwnerInv, Idle, WorkerLock, ReleaseLock, NoRun, NoPlan, Unlocked, NoRow
  <1>3. PhaseInv'
    BY ReleaseAssumption
       DEF CheckPublisherAccess, Permitted, RecoveryTypeOK, PhaseInv, OwnerInv, NoneActiveBut, NoneOfThisCopy,
           ReleaseGoverned, ReleaseSettles, Idle, WorkerLock, ReleaseLock, NoRun, NoPlan, Unlocked, NoRow
  <1>4. PublishesUnderRelease'
    BY ReleaseAssumption
       DEF CheckPublisherAccess, Permitted, RecoveryTypeOK, PhaseInv, OwnerInv, ReleaseGoverned, PublishesUnderRelease, Idle, WorkerLock, ReleaseLock, NoRun, NoPlan, Unlocked, NoRow
  <1>5. ReleaseSettles'
    BY ReleaseAssumption
       DEF CheckPublisherAccess, Permitted, RecoveryTypeOK, PhaseInv, OwnerInv, NoneActiveBut, NoneOfThisCopy,
           ReleaseGoverned, ReleaseSettles, Idle, WorkerLock, ReleaseLock, NoRun, NoPlan, Unlocked, NoRow
  <1> QED
    BY <1>1, <1>2, <1>3, <1>4, <1>5 DEF ReleaseGoverned

LEMMA TickKeeps ==
  ASSUME RecoveryInv, Tick
  PROVE  RecoveryInv'
  <1> USE DEF RecoveryInv
  <1>1. RecoveryTypeOK'
    BY ReleaseAssumption DEF Tick, RecoveryTypeOK, PhaseInv, Idle, WorkerLock, ReleaseLock, NoRun, NoPlan, Unlocked, NoRow
  <1>2. OwnerInv'
    BY ReleaseAssumption DEF Tick, RecoveryTypeOK, PhaseInv, OwnerInv, Idle, WorkerLock, ReleaseLock, NoRun, NoPlan, Unlocked, NoRow
  <1>3. PhaseInv'
    BY ReleaseAssumption
       DEF Tick, RecoveryTypeOK, PhaseInv, OwnerInv, NoneActiveBut, NoneOfThisCopy,
           ReleaseGoverned, ReleaseSettles, Idle, WorkerLock, ReleaseLock, NoRun, NoPlan, Unlocked, NoRow
  <1>4. PublishesUnderRelease'
    BY ReleaseAssumption
       DEF Tick, RecoveryTypeOK, PhaseInv, OwnerInv, ReleaseGoverned, PublishesUnderRelease, Idle, WorkerLock, ReleaseLock, NoRun, NoPlan, Unlocked, NoRow
  <1>5. ReleaseSettles'
    BY ReleaseAssumption
       DEF Tick, RecoveryTypeOK, PhaseInv, OwnerInv, NoneActiveBut, NoneOfThisCopy,
           ReleaseGoverned, ReleaseSettles, Idle, WorkerLock, ReleaseLock, NoRun, NoPlan, Unlocked, NoRow
  <1> QED
    BY <1>1, <1>2, <1>3, <1>4, <1>5 DEF ReleaseGoverned

LEMMA StopWorkerKeeps ==
  ASSUME RecoveryInv, StopWorker
  PROVE  RecoveryInv'
  <1> USE DEF RecoveryInv
  <1>1. RecoveryTypeOK'
    <2>1. [lock EXCEPT !.alive = FALSE] \in LockType
      BY RecoveryTypes DEF LockType
    <2>2. lock' \in LockType /\ publisher' \in PublisherType
      BY <2>1, RecoveryConstants DEF StopWorker
    <2> QED
      BY <2>2 DEF StopWorker, RecoveryTypeOK,
         GateType, RowsType, JournalType, LockType, PlanType, RunType, PublisherType
  <1>2. OwnerInv'
    BY ReleaseAssumption DEF StopWorker, RecoveryTypeOK, PhaseInv, OwnerInv, Idle, WorkerLock, ReleaseLock, NoRun, NoPlan, Unlocked, NoRow
  <1>3. PhaseInv'
    BY ReleaseAssumption
       DEF StopWorker, RecoveryTypeOK, PhaseInv, OwnerInv, NoneActiveBut, NoneOfThisCopy,
           ReleaseGoverned, ReleaseSettles, Idle, WorkerLock, ReleaseLock, NoRun, NoPlan, Unlocked, NoRow
  <1>4. PublishesUnderRelease'
    BY ReleaseAssumption
       DEF StopWorker, RecoveryTypeOK, PhaseInv, OwnerInv, ReleaseGoverned, PublishesUnderRelease, Idle, WorkerLock, ReleaseLock, NoRun, NoPlan, Unlocked, NoRow
  <1>5. ReleaseSettles'
    BY ReleaseAssumption
       DEF StopWorker, RecoveryTypeOK, PhaseInv, OwnerInv, NoneActiveBut, NoneOfThisCopy,
           ReleaseGoverned, ReleaseSettles, Idle, WorkerLock, ReleaseLock, NoRun, NoPlan, Unlocked, NoRow
  <1> QED
    BY <1>1, <1>2, <1>3, <1>4, <1>5 DEF ReleaseGoverned

LEMMA RecoveryStep ==
  ASSUME RecoveryInv, RecoveryNext
  PROVE  RecoveryInv'
  <1>1. CASE InvalidateRestore
    BY <1>1, InvalidateRestoreKeeps
  <1>2. CASE RestoreJournal
    BY <1>2, RestoreJournalKeeps
  <1>3. CASE ApplyAccessReview
    BY <1>3, ApplyAccessReviewKeeps
  <1>4. CASE ActivateCustomerAccess
    BY <1>4, ActivateCustomerAccessKeeps
  <1>5. CASE ChangeRecords
    BY <1>5, ChangeRecordsKeeps
  <1>6. ASSUME NEW r \in Releases, PreparePublisherRelease(r) PROVE RecoveryInv'
    BY <1>6, PreparePublisherReleaseKeeps
  <1>7. CASE ForgetPlan
    BY <1>7, ForgetPlanKeeps
  <1>8. CASE TakeReleaseLock
    BY <1>8, TakeReleaseLockKeeps
  <1>9. CASE ReviewUnderLock
    BY <1>9, ReviewUnderLockKeeps
  <1>10. CASE RefuseRelease
    BY <1>10, RefuseReleaseKeeps
  <1>11. CASE CommitJournal
    BY <1>11, CommitJournalKeeps
  <1>12. CASE CommitRelease
    BY <1>12, CommitReleaseKeeps
  <1>13. CASE LoseCommit
    BY <1>13, LoseCommitKeeps
  <1>14. CASE CloseJournal
    BY <1>14, CloseJournalKeeps
  <1>15. CASE RevokeUncertain
    BY <1>15, RevokeUncertainKeeps
  <1>16. CASE ReleaseDies
    BY <1>16, ReleaseDiesKeeps
  <1>17. ASSUME NEW r \in Releases, RevokePublisherRelease(r) PROVE RecoveryInv'
    BY <1>17, RevokePublisherReleaseKeeps
  <1>18. CASE RecoverLock
    BY <1>18, RecoverLockKeeps
  <1>19. CASE LoadWorkerBinding
    BY <1>19, LoadWorkerBindingKeeps
  <1>20. CASE StartWorker
    BY <1>20, StartWorkerKeeps
  <1>21. CASE CheckPublisherAccess
    BY <1>21, CheckPublisherAccessKeeps
  <1>22. CASE Tick
    BY <1>22, TickKeeps
  <1>23. CASE StopWorker
    BY <1>23, StopWorkerKeeps
  <1> QED
    BY <1>1, <1>2, <1>3, <1>4, <1>5, <1>6, <1>7, <1>8, <1>9, <1>10, <1>11,
       <1>12, <1>13, <1>14, <1>15, <1>16, <1>17, <1>18, <1>19, <1>20, <1>21, <1>22, <1>23 DEF RecoveryNext

LEMMA RecoveryInvariant == RecoverySpec => []RecoveryInv
  <1>1. RecoveryInv /\ UNCHANGED recovery => RecoveryInv'
    BY DEF recovery, RecoveryInv, RecoveryTypeOK, OwnerInv, PhaseInv, Idle, NoneActiveBut, NoneOfThisCopy,
           ReleaseGoverned, PublishesUnderRelease, ReleaseSettles
  <1> QED
    BY <1>1, RecoveryBegins, RecoveryStep, PTL DEF RecoverySpec

\* A restored publisher works only under a release that both databases hold,
\* and none is left half done by a run that gave its lock back, wherever the
\* commits fail, processes die and restores happen
\* (publisher-recovery-release.cjs, worker-launch-binding.cjs).
THEOREM ReleasesGoverned == RecoverySpec => []ReleaseGoverned
  BY RecoveryInvariant, PTL DEF RecoveryInv

-----------------------------------------------------------------------------
(* All the parts together. *)

\* The services, each from its own beginning and by its own steps: whatever one
\* of them promises, it promises beside the others.
LEMMA PartsRun ==
  Spec => /\ ReplaySpec /\ KeysSpec /\ IndexerSpec /\ IngressSpec /\ RelayerSpec
          /\ RegistrySpec /\ AuthoritySpec /\ RecoverySpec /\ DeliverySpec /\ BackupSpec
  <1>1. Init => /\ ReplayInit /\ KeysInit /\ IndexerInit /\ IngressInit /\ RelayerInit
                /\ RegistryInit /\ AuthorityInit /\ RecoveryInit /\ DeliveryInit /\ BackupInit
    BY DEF Init
  <1> DEFINE Vars == <<part, replay, directory, keys, indexer, ingress, relayer,
                       registry, authority, recovery, delivery, backups>>
  <1>2. Next => Next /\ UNCHANGED part
    BY DEF Next
  <1> DEFINE Other(p) ==
               /\ p # "replay" => UNCHANGED replay
               /\ p \notin {"directory", "keys"} => UNCHANGED <<directory, keys>>
               /\ p # "indexer" => UNCHANGED indexer
               /\ p # "ingress" => UNCHANGED ingress
               /\ p # "relayer" => UNCHANGED relayer
               /\ p # "registry" => UNCHANGED registry
               /\ p # "authority" => UNCHANGED authority
               /\ p # "recovery" => UNCHANGED recovery
               /\ p # "delivery" => UNCHANGED delivery
               /\ p # "backups" => UNCHANGED backups
  <1>3. Next => Other(part)
    <2>1. ASSUME Next, part = "replay"
          PROVE  UNCHANGED <<directory, keys, indexer, ingress, relayer, registry, authority, recovery, delivery, backups>>
      BY <2>1 DEF Next
    <2>2. ASSUME Next, part = "directory"
          PROVE  UNCHANGED <<replay, keys, indexer, ingress, relayer, registry, authority, recovery, delivery, backups>>
      BY <2>2 DEF Next
    <2>3. ASSUME Next, part = "keys"
          PROVE  UNCHANGED <<replay, indexer, ingress, relayer, registry, authority, recovery, delivery, backups>>
      BY <2>3 DEF Next
    <2>4. ASSUME Next, part = "indexer"
          PROVE  UNCHANGED <<replay, directory, keys, ingress, relayer, registry, authority, recovery, delivery, backups>>
      BY <2>4 DEF Next
    <2>5. ASSUME Next, part = "ingress"
          PROVE  UNCHANGED <<replay, directory, keys, indexer, relayer, registry, authority, recovery, delivery, backups>>
      BY <2>5 DEF Next
    <2>6. ASSUME Next, part = "relayer"
          PROVE  UNCHANGED <<replay, directory, keys, indexer, ingress, registry, authority, recovery, delivery, backups>>
      BY <2>6 DEF Next
    <2>7. ASSUME Next, part = "registry"
          PROVE  UNCHANGED <<replay, directory, keys, indexer, ingress, relayer, authority, recovery, delivery, backups>>
      BY <2>7 DEF Next
    <2>8. ASSUME Next, part = "authority"
          PROVE  UNCHANGED <<replay, directory, keys, indexer, ingress, relayer, registry, recovery, delivery, backups>>
      BY <2>8 DEF Next
    <2>9. ASSUME Next, part = "recovery"
          PROVE  UNCHANGED <<replay, directory, keys, indexer, ingress, relayer, registry, authority, delivery, backups>>
      BY <2>9 DEF Next
    <2>10. ASSUME Next, part = "delivery"
          PROVE  UNCHANGED <<replay, directory, keys, indexer, ingress, relayer, registry, authority, recovery, backups>>
      BY <2>10 DEF Next
    <2>11. ASSUME Next, part = "backups"
          PROVE  UNCHANGED <<replay, directory, keys, indexer, ingress, relayer, registry, authority, recovery, delivery>>
      BY <2>11 DEF Next
    <2>12. Next => part \in Parts
      BY DEF Next, Parts
    <2> QED
      BY <2>1, <2>2, <2>3, <2>4, <2>5, <2>6, <2>7, <2>8, <2>9, <2>10, <2>11, <2>12 DEF Parts
  <1>4. Next => /\ part = "replay" => ReplayNext
                /\ part = "directory" => DirectoryNext /\ UNCHANGED keys
                /\ part = "keys" => KeysNext
                /\ part = "indexer" => IndexerNext
                /\ part = "ingress" => IngressNext
                /\ part = "relayer" => RelayerNext
                /\ part = "registry" => RegistryNext
                /\ part = "authority" => AuthorityNext
                /\ part = "recovery" => RecoveryNext
                /\ part = "delivery" => DeliveryNext
                /\ part = "backups" => BackupNext
    BY DEF Next
  <1>5. DirectoryNext /\ UNCHANGED keys => KeysNext
    BY DEF KeysNext
  <1>6. Next => /\ [ReplayNext]_replay /\ [KeysNext]_<<directory, keys>> /\ [IndexerNext]_indexer
                /\ [IngressNext]_ingress /\ [RelayerNext]_relayer /\ [RegistryNext]_registry
                /\ [AuthorityNext]_authority /\ [RecoveryNext]_recovery
                /\ [DeliveryNext]_delivery /\ [BackupNext]_backups
    BY <1>3, <1>4, <1>5, Zenon
  <1>7. UNCHANGED Vars =>
                /\ UNCHANGED replay /\ UNCHANGED <<directory, keys>> /\ UNCHANGED indexer
                /\ UNCHANGED ingress /\ UNCHANGED relayer /\ UNCHANGED registry
                /\ UNCHANGED authority /\ UNCHANGED recovery
                /\ UNCHANGED delivery /\ UNCHANGED backups
    OBVIOUS
  <1>8. [Next]_Vars =>
                /\ [ReplayNext]_replay /\ [KeysNext]_<<directory, keys>> /\ [IndexerNext]_indexer
                /\ [IngressNext]_ingress /\ [RelayerNext]_relayer /\ [RegistryNext]_registry
                /\ [AuthorityNext]_authority /\ [RecoveryNext]_recovery
                /\ [DeliveryNext]_delivery /\ [BackupNext]_backups
    BY <1>6, <1>7, Zenon
  <1> QED
    BY <1>1, <1>8, PTL DEF Spec, ReplaySpec, KeysSpec, IndexerSpec, IngressSpec, RelayerSpec,
       RegistrySpec, AuthoritySpec, RecoverySpec, DeliverySpec, BackupSpec

\* What a contract verified or anchored, and what a backup keeps, stays right
\* in every behaviour of the composition that the run `services` checks.
THEOREM RecordsStayRight == Spec => []RecordedRightly
  <1>1. VerifiedInForce /\ AnchorsStayAuthorised /\ BackupsSound => RecordedRightly
    BY DEF RecordedRightly
  <1> QED
    BY <1>1, PartsRun, VerifiedWhileInForce, AuthorityOutlasts, BackupsStaySound, PTL

\* An accepted record or receipt outlives the process, is delivered in its turn
\* or anchored under the batch it was told, and what is paid for it keeps to
\* the budget, in every behaviour of the composition that `services` checks.
THEOREM OutboundStaysSafe == Spec => []OutboundSafe
  <1>1. DeliveriesKept /\ ReceiptsKept /\ IncludedWasAnchored /\ BudgetHolds => OutboundSafe
    BY DEF OutboundSafe
  <1> QED
    BY <1>1, PartsRun, DeliveriesAreKept, ReceiptsStayKept, BudgetStaysWithin, PTL
\* Every part that moves keeps its types, whatever the sizes of the sets and
\* the bounds are; the index does as long as a sync under way never sees a
\* block undone that it has settled.
THEOREM ServicesTyped == ASSUME StaysSettled PROVE Spec => []ServicesTypeOK
  <1>1. Spec => [](part \in Parts)
    <2>1. Init => part \in Parts
      BY DEF Init
    <2> DEFINE Vars == <<part, replay, directory, keys, indexer, ingress, relayer,
                         registry, authority, recovery, delivery, backups>>
    <2>2. part \in Parts /\ [Next]_Vars => (part \in Parts)'
      BY DEF Next
    <2> QED
      BY <2>1, <2>2, PTL DEF Spec
  <1>2. ReplaySpec => []ReplayTypeOK
    <2>1. ReplayInv => ReplayTypeOK
      BY DEF ReplayInv
    <2> QED
      BY <2>1, ReplayInvariant, PTL
  <1>3. KeysSpec => []DirectoryTypeOK
    <2>1. KeysInv => TypesInv
      BY DEF KeysInv
    <2> QED
      BY <2>1, DirectoryTypes, KeysInvariant, TablesInvariant, PTL
  <1>4. RegistrySpec => []RegistryTypeOK
    <2>1. RegistryInv => RegistryTypeOK
      BY DEF RegistryInv
    <2> QED
      BY <2>1, RegistryInvariant, PTL
  <1>5. AuthoritySpec => []AuthorityTypeOK
    <2>1. AuthorityInv => AuthorityTypeOK
      BY DEF AuthorityInv
    <2> QED
      BY <2>1, AuthorityInvariant, PTL
  <1>6. RecoverySpec => []RecoveryTypeOK
    <2>1. RecoveryInv => RecoveryTypeOK
      BY DEF RecoveryInv
    <2> QED
      BY <2>1, RecoveryInvariant, PTL
  <1>7. /\ part \in Parts
        /\ ReplayTypeOK /\ DirectoryTypeOK /\ IndexerTypeOK /\ IngressTypeOK
        /\ RelayerTypeOK /\ RegistryTypeOK /\ AuthorityTypeOK /\ RecoveryTypeOK
        /\ DeliveryTypeOK /\ BackupTypeOK
        => ServicesTypeOK
    BY Zenon DEF Parts, ServicesTypeOK
  <1> QED
    BY <1>1, <1>2, <1>3, <1>4, <1>5, <1>6, <1>7, PartsRun, IndexTyped, ReceiptsStayKept,
       BudgetStaysWithin, DeliveryTypes, BackupsTyped, PTL

=============================================================================
