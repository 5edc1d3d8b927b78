--------------------------- MODULE LocalWorkspace ---------------------------
(***************************************************************************)
(* One workspace with its project's keys in a local SQLite file: each      *)
(* operation is one synchronous transaction under BEGIN IMMEDIATE          *)
(* (services/governance/customer-directory.cjs, project-keys.cjs), so that *)
(* nothing happens between what it reads and what it writes.  The          *)
(* directory and the keys in PostgreSQL, where operations overlap, are     *)
(* shown to implement it.                                                  *)
(***************************************************************************)
EXTENDS Integers, FiniteSets

CONSTANTS Customers, Invitations, ActionIds, Keys, Resolvers, Nothing,
          MaxMembers, MaxPending, MaxProjects, MaxKeys

VARIABLES
    role,       \* [Customers -> role in the workspace, or "none"]
    created,    \* the workspace exists
    projects,   \* how many it has
    invitation, \* [Invitations -> its row: status, role, customer]
    barred,     \* customers whose identity is disabled
    actions,    \* the recorded actions: whose, and their ids
    key,        \* [Keys -> how its row stands]
    serving     \* [Resolvers -> the key a request was let in with, or Nothing]

people == <<role, created, projects, invitation, barred>>
vars == <<people, actions, key, serving>>

Roles == {"owner", "workspace-admin", "viewer"}
Administrators == {"owner", "workspace-admin"}

Owners == {c \in Customers : role[c] = "owner"}
Members == {c \in Customers : role[c] # "none"}
Pending == {i \in Invitations : invitation[i].status = "pending"}
Usable == {k \in Keys : key[k] \in {"active", "closing"}}

Init ==
    /\ created => Owners # {} /\ projects = 1
    /\ ~created => Members = {} /\ projects = 0
    /\ Cardinality(Pending) <= MaxPending /\ Cardinality(Usable) <= MaxKeys
    /\ barred = {} /\ actions = {}
    /\ serving = [v \in Resolvers |-> Nothing]

\* A customer who is not disabled and has one of the roles.
Acts(c, ranks) == c \notin barred /\ role[c] \in ranks
Anybody == Roles \cup {"none"}

\* The entry of a new action.
Record(whose, id) == <<whose, id>> \notin actions /\ actions' = actions \cup {<<whose, id>>}

\* Who may name an administrator, or take the name back.
Above(r) == IF r = "workspace-admin" THEN {"owner"} ELSE Administrators

-----------------------------------------------------------------------------
(* The operations of the directory *)

CreateWorkspace(c) ==
    /\ Acts(c, Anybody)
    /\ ~created /\ created' = TRUE /\ projects' = 1
    /\ role' = [role EXCEPT ![c] = "owner"]
    /\ UNCHANGED <<invitation, barred, key, serving>>

CreateProject(c) ==
    /\ Acts(c, Administrators)
    /\ projects < MaxProjects /\ projects' = projects + 1
    /\ UNCHANGED <<role, created, invitation, barred, key, serving>>

ChangeMember(c, m, r) ==
    /\ Acts(c, {"owner"})
    /\ role[m] # "none"
    /\ role[m] = "owner" /\ r # "owner" => Cardinality(Owners) > 1
    /\ role' = [role EXCEPT ![m] = r]
    /\ UNCHANGED <<created, projects, invitation, barred, key, serving>>

Invite(c, m, r) ==
    /\ Acts(c, Above(r))
    /\ Cardinality(Pending) < MaxPending
    /\ \E i \in Invitations :
          /\ invitation[i].status = "unused"
          /\ invitation' = [invitation EXCEPT ![i] = [status |-> "pending", role |-> r, customer |-> m]]
    /\ UNCHANGED <<role, created, projects, barred, key, serving>>

RevokeInvitation(c, i) ==
    /\ Acts(c, Above(invitation[i].role))
    /\ invitation[i].status # "unused"
    /\ invitation' = [invitation EXCEPT ![i].status = IF @ = "accepted" THEN @ ELSE "revoked"]
    /\ UNCHANGED <<role, created, projects, barred, key, serving>>

AcceptInvitation(c, i) ==
    /\ Acts(c, {"none"})
    /\ invitation[i].status = "pending" /\ invitation[i].customer = c
    /\ Cardinality(Members) < MaxMembers
    /\ role' = [role EXCEPT ![c] = invitation[i].role]
    /\ invitation' = [invitation EXCEPT ![i].status = "accepted"]
    /\ UNCHANGED <<created, projects, barred, key, serving>>

\* The clock passes expires.
ExpireInvitation(i) ==
    /\ invitation[i].status = "pending"
    /\ invitation' = [invitation EXCEPT ![i].status = "expired"]
    /\ UNCHANGED <<role, created, projects, barred, key, serving>>

Disable(c) ==
    /\ c \notin barred /\ barred' = barred \cup {c}
    /\ UNCHANGED <<role, created, projects, invitation, key, serving>>

-----------------------------------------------------------------------------
(* The operations on the keys, whose action ids are the project's *)

Draw(n) == key[n] = "unused"

CreateKey(c) ==
    /\ Acts(c, Administrators)
    /\ Cardinality(Usable) < MaxKeys
    /\ \E n \in Keys : Draw(n) /\ key' = [key EXCEPT ![n] = "active"]
    /\ UNCHANGED <<people, serving>>

\* With a grace the old key closes then, unless its lifetime ends first.
RotateKey(c, k, grace) ==
    /\ Acts(c, Administrators)
    /\ key[k] = "active"
    /\ Cardinality(Usable) < MaxKeys \/ ~grace
    /\ \E n \in Keys, end \in (IF grace THEN {"closing", "expired"} ELSE {"revoked"}) :
          Draw(n) /\ key' = [key EXCEPT ![n] = "active", ![k] = end]
    /\ UNCHANGED <<people, serving>>

RevokeKey(c, k) ==
    /\ Acts(c, Administrators)
    /\ key[k] # "unused" /\ key' = [key EXCEPT ![k] = "revoked"]
    /\ UNCHANGED <<people, serving>>

\* The clock passes expires_at, or the end of a rotated key's grace.
EndKey(k) ==
    /\ key[k] \in {"active", "closing"}
    /\ \/ key' = [key EXCEPT ![k] = "expired"]
       \/ key[k] = "closing" /\ key' = [key EXCEPT ![k] = "revoked"]
    /\ UNCHANGED <<people, serving>>

Resolve(v, k) ==
    /\ serving[v] = Nothing /\ key[k] \in {"active", "closing"}
    /\ serving' = [serving EXCEPT ![v] = k]
    /\ UNCHANGED <<people, key>>

EndResolve(v) ==
    /\ serving[v] # Nothing /\ serving' = [serving EXCEPT ![v] = Nothing]
    /\ UNCHANGED <<people, key>>

-----------------------------------------------------------------------------
DirectoryAction(c) ==
    \/ CreateWorkspace(c)
    \/ CreateProject(c)
    \/ \E m \in Customers, r \in Roles \cup {"none"} : ChangeMember(c, m, r)
    \/ \E m \in Customers, r \in Roles \ {"owner"} : Invite(c, m, r)
    \/ \E i \in Invitations : RevokeInvitation(c, i) \/ AcceptInvitation(c, i)

KeyAction(c) ==
    \/ CreateKey(c)
    \/ \E k \in Keys, grace \in BOOLEAN : RotateKey(c, k, grace)
    \/ \E k \in Keys : RevokeKey(c, k)

Unrecorded ==
    \/ \E i \in Invitations : ExpireInvitation(i)
    \/ \E c \in Customers : Disable(c)
    \/ \E k \in Keys : EndKey(k)
    \/ \E v \in Resolvers : EndResolve(v) \/ \E k \in Keys : Resolve(v, k)

\* The ids of the directory's actions are the customer's, those of the keys'
\* the project's.
Next ==
    \/ UNCHANGED actions /\ Unrecorded
    \/ \E c \in Customers, id \in ActionIds :
          \/ Record(c, id) /\ DirectoryAction(c)
          \/ Record(Nothing, id) /\ KeyAction(c)

Spec == Init /\ [][Next]_vars
=============================================================================
