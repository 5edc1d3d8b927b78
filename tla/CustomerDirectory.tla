------------------------- MODULE CustomerDirectory -------------------------
(***************************************************************************)
(* One workspace of the customer directory: its members and invitations,   *)
(* and the operations that several processes run on it at the same time    *)
(* (services/governance/postgres-customer-directory.cjs).  An operation    *)
(* locks the actor's identity, then the workspace, then reads the actor's  *)
(* authority, the recorded actions and the rows it depends on, writes      *)
(* and commits.  Each of these is a step, so that what was read could be   *)
(* stale when it is used.                                                  *)
(***************************************************************************)
EXTENDS Integers, FiniteSets, FiniteSetsExt

CONSTANTS
    Customers,    \* verified identities
    Invitations,  \* invitations that may be drawn
    Operations,   \* requests served at the same time
    ActionIds,    \* idempotency ids a client uses
    Nothing,      \* no subject, no holder
    MaxMembers,   \* members of a workspace (100)
    MaxPending,   \* pending invitations (100)
    MaxProjects,  \* projects of a workspace (100)
    MaxActions    \* bound: operations that commit

ASSUME DirectoryAssumption ==
    /\ MaxMembers \in Nat /\ MaxPending \in Nat /\ MaxProjects \in Nat \ {0}
    /\ IsFiniteSet(Invitations)
    /\ Nothing \notin Customers \cup Invitations \cup Operations

VARIABLES
    role,       \* [Customers -> role in the workspace, or "none"]
    created,    \* the workspace exists
    projects,   \* how many it has
    invitation, \* [Invitations -> Invitation]
    barred,     \* customers whose identity is disabled
    actions,    \* the recorded actions: whose, and their ids
    identity,   \* [Customers -> operation that holds the identity row]
    holder,     \* operation that holds the workspace row
    operation   \* [Operations -> Operation]: a transaction, at its next statement

directory == <<role, created, projects, invitation, barred, actions,
               identity, holder, operation>>

\* viewer: governance-admin, reviewer or reader, who manage nothing here.
Roles == {"owner", "workspace-admin", "viewer"}
Administrators == {"owner", "workspace-admin"}

\* What the client asks for: a role for a customer, an invitation, or a key.
NoBody == [kind |-> "none", subject |-> Nothing, value |-> "none"]
MemberBodies == [kind: {"member-change"}, subject: Customers, value: Roles \cup {"none"}]
InviteBodies == [kind: {"invite-create"}, subject: Customers, value: Roles \ {"owner"}]
AnswerBodies == [kind: {"invite-revoke", "invite-accept"}, subject: Invitations, value: {"none"}]
CreateBodies == [kind: {"workspace-create", "project-create"}, subject: {Nothing}, value: {"none"}]
DirectoryBodies == MemberBodies \cup InviteBodies \cup AnswerBodies \cup CreateBodies

Invitation == [status: {"unused", "pending", "accepted", "revoked", "expired"},
               role: Roles \cup {"none"}, customer: Customers \cup {Nothing}]

Free == Nothing
Resting == [at |-> "idle", actor |-> Nothing, id |-> Nothing, body |-> NoBody]

NoInvitation == [status |-> "unused", role |-> "none", customer |-> Nothing]
Invited(c, r) == [status |-> "pending", role |-> r, customer |-> c]

NoWorkspace ==
    /\ created = FALSE /\ projects = 0
    /\ role = [c \in Customers |-> "none"]
    /\ invitation = [i \in Invitations |-> NoInvitation]

\* A workspace with members of every kind and invitations for others.
ExistingWorkspace ==
    /\ created = TRUE /\ projects = 1
    /\ role \in {f \in [Customers -> Roles \cup {"none"}] : \E c \in Customers : f[c] = "owner"}
    /\ invitation \in [Invitations -> {NoInvitation} \cup
          {Invited(c, r) : c \in {d \in Customers : role[d] = "none"}, r \in Roles \ {"owner"}}]
    /\ Cardinality({i \in Invitations : invitation[i] # NoInvitation}) <= MaxPending

DirectoryInit ==
    /\ NoWorkspace \/ ExistingWorkspace
    /\ barred = {}
    /\ actions = {}
    /\ identity = [c \in Customers |-> Free]
    /\ holder = Free
    /\ operation = [o \in Operations |-> Resting]

\* A customer's ids are its own in governance_customer_actions; the ids of
\* governance_key_actions are the project's, whoever uses them.
EntryFor(actor, id, body) == <<IF body \in DirectoryBodies THEN actor ELSE Nothing, id>>

Doing(o) == operation[o].body
Actor(o) == operation[o].actor
OperationAt(o, stage) == operation[o].at = stage
Proceed(o, stage) == operation' = [operation EXCEPT ![o].at = stage]

\* COMMIT or ROLLBACK: the locks are given up.
Unlock(o) ==
    /\ identity' = [c \in Customers |-> IF identity[c] = o THEN Free ELSE identity[c]]
    /\ holder' = IF holder = o THEN Free ELSE holder
    /\ operation' = [operation EXCEPT ![o] = Resting]

KeepTables == UNCHANGED <<role, created, projects, invitation, barred, actions>>

-----------------------------------------------------------------------------
(* The transaction up to the actor's authority, the same for every operation *)

\* The identity row is locked first; a disabled customer is refused.
Begin(o, actor, id, body) ==
    /\ OperationAt(o, "idle")
    /\ identity[actor] = Free /\ actor \notin barred
    /\ EntryFor(actor, id, body) \in actions \/ Cardinality(actions) < MaxActions
    /\ identity' = [identity EXCEPT ![actor] = o]
    /\ operation' = [operation EXCEPT ![o] =
                        [at |-> "workspace", actor |-> actor, id |-> id, body |-> body]]
    /\ KeepTables /\ UNCHANGED holder

\* Seeded fault: the workspace row is read without FOR UPDATE.
LockFree(o) == TRUE

LockGranted(o) == holder = Free

\* What the actor's role allows; an invitation stands for itself, and a
\* workspace is anybody's to create.
Permits(actor, body) ==
    CASE body.kind \in {"workspace-create", "invite-accept"} -> TRUE
      [] body.kind = "member-change" -> role[actor] = "owner"
      [] body.kind = "invite-create" /\ body.value = "workspace-admin" -> role[actor] = "owner"
      [] body.kind = "invite-revoke" ->
            /\ role[actor] \in Administrators
            /\ invitation[body.subject].status # "unused"
            /\ invitation[body.subject].role = "workspace-admin" => role[actor] = "owner"
      [] OTHER -> role[actor] \in Administrators

\* The workspace row is locked before the membership is read; the operation
\* that creates the workspace locks the row it inserts.
LockWorkspace(o) ==
    /\ OperationAt(o, "workspace") /\ LockGranted(o)
    /\ IF Permits(Actor(o), Doing(o))
       THEN holder' = o /\ Proceed(o, "rows") /\ UNCHANGED identity
       ELSE Unlock(o)
    /\ KeepTables

Entry(o) == EntryFor(Actor(o), operation[o].id, Doing(o))

\* The client repeats an action, and learns its result, or uses its id for
\* another, and is refused: nothing is done.
Repeat(o) ==
    /\ OperationAt(o, "rows") /\ Entry(o) \in actions
    /\ Unlock(o)
    /\ KeepTables

\* A refusal, a lock or statement timeout, a lost connection: ROLLBACK.
Rollback(o) ==
    /\ ~OperationAt(o, "idle")
    /\ Unlock(o)
    /\ KeepTables

-----------------------------------------------------------------------------
(* The operations on the directory *)

Owners == {c \in Customers : role[c] = "owner"}
Members == {c \in Customers : role[c] # "none"}
Pending == {i \in Invitations : invitation[i].status = "pending"}

\* The conditions an operation reads before it writes.
Acceptable(o) ==
    LET actor == Actor(o)
        subject == Doing(o).subject
    IN  CASE Doing(o).kind = "workspace-create" -> ~created
          [] Doing(o).kind = "project-create" -> projects < MaxProjects
          [] Doing(o).kind = "member-change" ->
                /\ role[subject] # "none"
                /\ role[subject] = "owner" /\ Doing(o).value # "owner" => Cardinality(Owners) > 1
          [] Doing(o).kind = "invite-create" -> Cardinality(Pending) < MaxPending
          [] Doing(o).kind = "invite-revoke" -> TRUE
          [] Doing(o).kind = "invite-accept" ->
                /\ invitation[subject].status = "pending"
                /\ invitation[subject].customer = actor
                /\ role[actor] = "none" /\ Cardinality(Members) < MaxMembers
          [] OTHER -> FALSE

ReadRows(o) ==
    /\ OperationAt(o, "rows") /\ Entry(o) \notin actions
    /\ Doing(o) \in DirectoryBodies /\ Acceptable(o)
    /\ Proceed(o, "write")
    /\ KeepTables /\ UNCHANGED <<identity, holder>>

CreateWorkspace(o) ==
    /\ created' = TRUE /\ projects' = 1
    /\ role' = [role EXCEPT ![Actor(o)] = "owner"]
    /\ UNCHANGED invitation

CreateProject(o) ==
    /\ projects' = projects + 1
    /\ UNCHANGED <<created, role, invitation>>

ChangeMember(o) ==
    /\ role' = [role EXCEPT ![Doing(o).subject] = Doing(o).value]
    /\ UNCHANGED <<created, projects, invitation>>

Invite(o) ==
    /\ \E i \in Invitations :
          /\ invitation[i].status = "unused"
          /\ invitation' = [invitation EXCEPT ![i] = Invited(Doing(o).subject, Doing(o).value)]
    /\ UNCHANGED <<created, projects, role>>

RevokeInvitation(o) ==
    /\ invitation' = [invitation EXCEPT ![Doing(o).subject].status =
                        IF @ = "accepted" THEN @ ELSE "revoked"]
    /\ UNCHANGED <<created, projects, role>>

AcceptInvitation(o) ==
    /\ role' = [role EXCEPT ![Actor(o)] = invitation[Doing(o).subject].role]
    /\ invitation' = [invitation EXCEPT ![Doing(o).subject].status = "accepted"]
    /\ UNCHANGED <<created, projects>>

\* The rows and the action's entry commit together.
Write(o) ==
    /\ OperationAt(o, "write") /\ Doing(o) \in DirectoryBodies
    /\ CASE Doing(o).kind = "workspace-create" -> CreateWorkspace(o)
         [] Doing(o).kind = "project-create" -> CreateProject(o)
         [] Doing(o).kind = "member-change" -> ChangeMember(o)
         [] Doing(o).kind = "invite-create" -> Invite(o)
         [] Doing(o).kind = "invite-revoke" -> RevokeInvitation(o)
         [] Doing(o).kind = "invite-accept" -> AcceptInvitation(o)
    /\ actions' = actions \cup {Entry(o)}
    /\ Unlock(o)
    /\ UNCHANGED barred

-----------------------------------------------------------------------------
ExpireInvitation(i) ==
    /\ invitation[i].status = "pending"
    /\ invitation' = [invitation EXCEPT ![i].status = "expired"]
    /\ UNCHANGED <<role, created, projects, barred, actions, identity, holder, operation>>

\* Waits for the identity row like any operation of the customer.
Disable(c) ==
    /\ c \notin barred /\ identity[c] = Free
    /\ barred' = barred \cup {c}
    /\ UNCHANGED <<role, created, projects, invitation, actions, identity, holder, operation>>

DirectoryStep(o) ==
    \/ LockWorkspace(o)
    \/ Repeat(o) \/ Rollback(o) \/ ReadRows(o) \/ Write(o)

DirectoryNext ==
    \/ \E o \in Operations :
          \/ DirectoryStep(o)
          \/ \E c \in Customers, id \in ActionIds, body \in DirectoryBodies : Begin(o, c, id, body)
    \/ \E i \in Invitations : ExpireInvitation(i)
    \/ \E c \in Customers : Disable(c)

DirectorySpec == DirectoryInit /\ [][DirectoryNext]_directory

-----------------------------------------------------------------------------
\* A workspace never loses its last owner, although two owners may remove
\* each other, or leave, at the same time (changeMember).
OwnerRemains == created => Owners # {}

\* The authority an operation has read is still the actor's when it commits:
\* nobody is removed, demoted or refused an invitation in between (authorize).
AuthorityHolds ==
    \A o \in Operations : OperationAt(o, "rows") \/ OperationAt(o, "write") => Permits(Actor(o), Doing(o))
=============================================================================
