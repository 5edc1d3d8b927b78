---------------------------- MODULE ProjectKeys ----------------------------
(***************************************************************************)
(* The API keys of the workspace's project                                 *)
(* (services/governance/postgres-project-keys.cjs).  Creating, rotating    *)
(* and revoking a key are operations of CustomerDirectory: they lock the   *)
(* administrator's identity and the workspace before anything is read      *)
(* (authorizeKeys).  Serving a request with a key takes no lock.           *)
(***************************************************************************)
EXTENDS CustomerDirectory

CONSTANTS
    Keys,       \* keys that may be drawn
    Resolvers,  \* requests that present a key at the same time
    MaxKeys     \* usable keys of a project (100)

ASSUME KeyAssumption == MaxKeys \in Nat /\ IsFiniteSet(Keys) /\ Nothing \notin Keys

VARIABLES
    key,        \* [Keys -> how the row of governance_project_keys stands with revocation]
    outlived,   \* keys whose lifetime is over
    resolver    \* [Resolvers -> the key that was looked up, and the answer]

keys == <<key, outlived, resolver>>

\* closing: rotated, and usable until its grace is over.
KeyStates == {"unused", "active", "closing", "revoked"}
Usable == {k \in Keys \ outlived : key[k] \in {"active", "closing"}}
Over == {k \in Keys : key[k] = "revoked"} \cup outlived

KeyBodies == [kind: {"key-create"}, subject: {Nothing}, value: {"none"}]
    \cup [kind: {"key-rotate"}, subject: Keys, value: {"none", "grace"}]
    \cup [kind: {"key-revoke"}, subject: Keys, value: {"none"}]

NoLookup == [at |-> "idle", key |-> Nothing]

\* The bodies of the directory's operations and of the keys'.
Bodies == DirectoryBodies \cup KeyBodies

DirectoryTypeOK ==
    /\ role \in [Customers -> Roles \cup {"none"}]
    /\ created \in BOOLEAN /\ projects \in 0..MaxProjects
    /\ invitation \in [Invitations -> Invitation]
    /\ barred \subseteq Customers
    /\ actions \subseteq (Customers \cup {Nothing}) \X ActionIds
    /\ identity \in [Customers -> Operations \cup {Free}]
    /\ holder \in Operations \cup {Free}
    /\ operation \in [Operations ->
         [at: {"idle", "workspace", "rows", "write"},
          actor: Customers \cup {Nothing}, id: ActionIds \cup {Nothing}, body: Bodies \cup {NoBody}]]
    /\ key \in [Keys -> KeyStates] /\ outlived \subseteq Keys
    /\ resolver \in [Resolvers -> [at: {"idle", "found", "served"}, key: Keys \cup {Nothing}]]

KeysInit ==
    /\ DirectoryInit
    /\ key \in [Keys -> {"unused", "active"}]
    /\ outlived = {}
    /\ Cardinality(Usable) <= IF created THEN MaxKeys ELSE 0
    /\ resolver = [v \in Resolvers |-> NoLookup]

\* Seeded fault: a revoked key may be rotated, which sets its end anew.
RotatableRevoked(k) == key[k] \in {"active", "closing", "revoked"} /\ k \notin outlived

\* Not revoked, not even at a later time, and not expired.
Rotatable(k) == key[k] = "active" /\ k \notin outlived

\* A rotation without grace replaces a usable key.
Room(o) ==
    \/ Cardinality(Usable) < MaxKeys
    \/ Doing(o).kind = "key-rotate" /\ Doing(o).value = "none"

ReadKeys(o) ==
    /\ OperationAt(o, "rows") /\ Entry(o) \notin actions
    /\ \/ Doing(o).kind = "key-create" /\ Room(o)
       \/ Doing(o).kind = "key-rotate" /\ Rotatable(Doing(o).subject) /\ Room(o)
       \/ Doing(o).kind = "key-revoke" /\ key[Doing(o).subject] # "unused"
    /\ Proceed(o, "write")
    /\ KeepTables /\ UNCHANGED <<identity, holder, key, outlived, resolver>>

\* The new key with the action's entry; the secret is in the answer alone.
WriteKeys(o) ==
    LET k == Doing(o).subject
        end == IF Doing(o).value = "grace" THEN "closing" ELSE "revoked"
    IN  /\ OperationAt(o, "write")
        /\ \/ /\ Doing(o).kind = "key-create"
              /\ \E n \in Keys : key[n] = "unused" /\ key' = [key EXCEPT ![n] = "active"]
           \/ /\ Doing(o).kind = "key-rotate"
              /\ \E n \in Keys : key[n] = "unused" /\ key' = [key EXCEPT ![n] = "active", ![k] = end]
           \/ /\ Doing(o).kind = "key-revoke"
              /\ key' = [key EXCEPT ![k] = "revoked"]
        /\ actions' = actions \cup {Entry(o)}
        /\ Unlock(o)
        /\ UNCHANGED <<role, created, projects, invitation, barred, outlived, resolver>>

\* The grace of a rotated key or the lifetime of any key is over.
EndKey(k) ==
    /\ k \in Usable
    /\ \/ key[k] = "closing" /\ key' = [key EXCEPT ![k] = "revoked"] /\ UNCHANGED outlived
       \/ outlived' = outlived \cup {k} /\ UNCHANGED key
    /\ UNCHANGED directory /\ UNCHANGED resolver

LookUp(v, k) ==
    /\ resolver[v] = NoLookup /\ key[k] # "unused"
    /\ resolver' = [resolver EXCEPT ![v] = [at |-> "found", key |-> k]]
    /\ UNCHANGED directory /\ UNCHANGED <<key, outlived>>

\* The statement that stores the use finds the row only if it is usable now.
StillUsable(v) == resolver[v].key \in Usable

UseKey(v) ==
    /\ resolver[v].at = "found"
    /\ resolver' = [resolver EXCEPT ![v] =
                      IF StillUsable(v) THEN [@ EXCEPT !.at = "served"] ELSE NoLookup]
    /\ UNCHANGED directory /\ UNCHANGED <<key, outlived>>

EndResolve(v) ==
    /\ resolver[v].at = "served"
    /\ resolver' = [resolver EXCEPT ![v] = NoLookup]
    /\ UNCHANGED directory /\ UNCHANGED <<key, outlived>>

KeysNext ==
    \/ DirectoryNext /\ UNCHANGED keys
    \/ \E o \in Operations :
          \/ ReadKeys(o) \/ WriteKeys(o)
          \/ \E c \in Customers, id \in ActionIds, body \in KeyBodies :
                Begin(o, c, id, body) /\ UNCHANGED keys
    \/ \E k \in Keys : EndKey(k)
    \/ \E v \in Resolvers : UseKey(v) \/ EndResolve(v) \/ \E k \in Keys : LookUp(v, k)

KeysSpec == KeysInit /\ [][KeysNext]_<<directory, keys>>

-----------------------------------------------------------------------------
\* A project never has more usable keys than its limit, however creations and
\* rotations overlap; a rotation at the limit swaps one key for another
\* (create of postgres-project-keys.cjs).
KeysBounded == Cardinality(Usable) <= MaxKeys

\* A workspace keeps an owner, its operations commit with the authority they
\* read, and its project keeps to its number of keys.
WorkspaceSafe == OwnerRemains /\ AuthorityHolds /\ KeysBounded

\* A key that was revoked or has expired serves nobody any more and no later
\* operation brings it back, whatever was looked up or begun before (resolve,
\* create and revoke).
KeyEndsForGood ==
    [][/\ Over \subseteq Over'
       /\ \A v \in Resolvers : resolver'[v].at = "served" /\ resolver[v].at # "served"
                                  => resolver[v].key \in Usable]_keys

-----------------------------------------------------------------------------
(* What others see of the operations: each as if it were alone *)

\* A clock that passes an end while an operation already relies on what it
\* read before is seen after the operation.
Accepting(i) == \E o \in Operations :
    OperationAt(o, "write") /\ Doing(o).kind = "invite-accept" /\ Doing(o).subject = i
Rotating(k) == \E o \in Operations :
    OperationAt(o, "write") /\ Doing(o).kind = "key-rotate" /\ Doing(o).subject = k

SeenInvitation == [i \in Invitations |->
    IF invitation[i].status = "expired" /\ Accepting(i)
    THEN [invitation[i] EXCEPT !.status = "pending"] ELSE invitation[i]]

SeenKey == [k \in Keys |->
    IF k \in outlived /\ key[k] \in {"active", "closing"} /\ ~Rotating(k)
    THEN "expired" ELSE key[k]]

Serving == [v \in Resolvers |-> IF resolver[v].at = "served" THEN resolver[v].key ELSE Nothing]

Local == INSTANCE LocalWorkspace
           WITH invitation <- SeenInvitation, key <- SeenKey, serving <- Serving

\* However operations, uses of keys and clocks overlap in PostgreSQL, they come
\* to what they would come to one after the other in a local file.
WorkspaceIsSerial == Local!Spec
=============================================================================
