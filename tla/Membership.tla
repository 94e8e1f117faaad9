----------------------------- MODULE Membership -----------------------------
(***************************************************************************)
(* The memberships of one project and the concurrent requests that change  *)
(* them.  A request locks, in this order and until its transaction ends:   *)
(* its actor's membership FOR SHARE, the membership it changes FOR UPDATE, *)
(* and, when the OWNER role is involved, the advisory lock of the          *)
(* project's owners.  Requests on each other's rows may therefore wait in  *)
(* a circle; PostgreSQL then aborts one of them.                           *)
(***************************************************************************)
EXTENDS Integers, FiniteSets

CONSTANTS
  Users,       \* active users of the project's organization
  Founder,     \* the user who created the project
  Sessions,    \* concurrent requests
  Roles,       \* the roles requests ask for
  Changes,     \* what an UpdateMembership request may carry: role, status or both
  MaxRequests  \* bound on the number of requests

AllRoles    == {"OWNER", "ADMIN", "MEMBER", "VIEWER"}
AllStatuses == {"ACTIVE", "INVITED", "SUSPENDED", "REMOVED"}

ASSUME UsersAssumption == Founder \in Users /\ Roles \subseteq AllRoles
ASSUME BoundAssumption == MaxRequests \in Nat
ASSUME ChangesAssumption ==
  \A c \in Changes :
    /\ c = [f \in DOMAIN c |-> c[f]]
    /\ DOMAIN c # {} /\ DOMAIN c \subseteq {"role", "status"}
    /\ "role" \in DOMAIN c => c["role"] \in Roles
    /\ "status" \in DOMAIN c => c["status"] \in AllStatuses

VARIABLES
  rows,  \* project_members: a record for each user who has a membership
  tx,    \* the request each session has in flight
  begun  \* the number of requests so far

vars == <<rows, tx, begun>>

Members == DOMAIN rows

Idle == [phase |-> "idle"]

-----------------------------------------------------------------------------
(* The rules of internal/domain *)

CanManageMembers(role) == role \in {"OWNER", "ADMIN"}

CanManageMembership(actorRole, targetRole, nextRole) ==
  \/ actorRole = "OWNER"
  \/ actorRole = "ADMIN" /\ targetRole # "OWNER" /\ nextRole # "OWNER"

CanTransitionMembership(from, to) ==
  \/ from = to
  \/ from = "INVITED"   /\ to \in {"ACTIVE", "REMOVED"}
  \/ from = "ACTIVE"    /\ to \in {"SUSPENDED", "REMOVED"}
  \/ from = "SUSPENDED" /\ to \in {"ACTIVE", "REMOVED"}
  \/ from = "REMOVED"   /\ to = "INVITED"

IsActive(u) == u \in Members /\ rows[u].status = "ACTIVE"

ActiveOwners == {u \in Members : rows[u].status = "ACTIVE" /\ rows[u].role = "OWNER"}

-----------------------------------------------------------------------------
(* Locks, held from the phase that takes them to the end of the request *)

\* Faulty: the actor's row is read without a lock.
SharesNothing(s, u) == FALSE

HoldsShare(s, u) ==
  tx[s].phase \notin {"idle", "authorizing"} /\ tx[s].actor = u

HoldsUpdate(s, u) ==
  /\ tx[s].phase \in {"locking", "counting", "writing"}
  /\ tx[s].kind = "update" /\ tx[s].target = u

HoldsOwners(s) == tx[s].phase \in {"counting", "writing"} /\ tx[s].owners

\* Faulty: the owners' lock is not waited for.
BlockedByRow(s, r) ==
  /\ r # s
  /\ CASE tx[s].phase = "authorizing" -> HoldsUpdate(r, tx[s].actor)
       [] tx[s].phase = "loading"     -> HoldsShare(r, tx[s].target) \/ HoldsUpdate(r, tx[s].target)
       [] OTHER                       -> FALSE

\* What request s is waiting for is held by another request.
BlockedBy(s, r) ==
  /\ r # s
  /\ CASE tx[s].phase = "authorizing" -> HoldsUpdate(r, tx[s].actor)
       [] tx[s].phase = "loading"     -> HoldsShare(r, tx[s].target) \/ HoldsUpdate(r, tx[s].target)
       [] tx[s].phase = "locking"     -> HoldsOwners(r)
       [] OTHER                       -> FALSE

Runnable(s) == \A r \in Sessions : ~BlockedBy(s, r)

\* A set of requests each of which waits for another of the set.
Circle(S) == S # {} /\ \A s \in S : \E r \in S : BlockedBy(s, r)

Deadlocked(s) == \E S \in SUBSET Sessions : s \in S /\ Circle(S)

-----------------------------------------------------------------------------
(* Requests.  The role in a request is the actor's, read by Authorize. *)

End(s) == tx' = [tx EXCEPT ![s] = Idle]

\* A request on a role that is to be OWNER, or was, takes the owners' lock.
Enter(s, owners, role) ==
  tx' = [tx EXCEPT ![s].phase = IF owners THEN "locking" ELSE "writing",
                   ![s].owners = owners, ![s].role = role]

Begin(s, request) ==
  /\ tx[s] = Idle
  /\ begun < MaxRequests
  /\ begun' = begun + 1
  /\ tx' = [tx EXCEPT ![s] = request]
  /\ UNCHANGED rows

\* RemoveMembership is an update of the status to REMOVED.
BeginUpdate(s, u, m, change, expected) ==
  /\ m \in Members /\ expected \in 1..rows[m].version
  /\ Begin(s, [phase |-> "authorizing", kind |-> "update", actor |-> u, target |-> m,
               change |-> change, expected |-> expected, role |-> "VIEWER", owners |-> FALSE])

BeginCreate(s, u, m, role, status) ==
  /\ status \in {"INVITED", "ACTIVE"}
  /\ Begin(s, [phase |-> "authorizing", kind |-> "create", actor |-> u, target |-> m,
               change |-> [role |-> role, status |-> status], expected |-> 0,
               role |-> "VIEWER", owners |-> FALSE])

\* requireMembershipManager; a creation goes on as if it changed a MEMBER.
Authorize(s) ==
  LET x    == tx[s]
      role == rows[x.actor].role
  IN  /\ x.phase = "authorizing"
      /\ Runnable(s)
      /\ IF ~IsActive(x.actor) \/ ~CanManageMembers(role) THEN End(s)
         ELSE IF x.kind = "update" THEN tx' = [tx EXCEPT ![s].phase = "loading", ![s].role = role]
         ELSE IF CanManageMembership(role, "MEMBER", x.change["role"])
           THEN Enter(s, x.change["role"] = "OWNER", role)
         ELSE End(s)
      /\ UNCHANGED <<rows, begun>>

\* The values the request asks for, and those of the row for what it leaves out.
Wanted(x, field) ==
  IF field \in DOMAIN x.change THEN x.change[field]
  ELSE IF field = "role" THEN rows[x.target].role ELSE rows[x.target].status

LoadTarget(s) ==
  LET x       == tx[s]
      current == rows[x.target]
      allowed == /\ CanTransitionMembership(current.status, Wanted(x, "status"))
                 /\ CanManageMembership(x.role, current.role, Wanted(x, "role"))
  IN  /\ x.phase = "loading"
      /\ Runnable(s)
      /\ IF allowed THEN Enter(s, "OWNER" \in {current.role, Wanted(x, "role")}, x.role) ELSE End(s)
      /\ UNCHANGED <<rows, begun>>

LockOwnerInvariant(s) ==
  /\ tx[s].phase = "locking"
  /\ Runnable(s)
  /\ tx' = [tx EXCEPT ![s].phase = "counting"]
  /\ UNCHANGED <<rows, begun>>

\* The update would take an active owner away.
LosesOwner(x) ==
  /\ x.kind = "update"
  /\ x.target \in ActiveOwners
  /\ Wanted(x, "role") # "OWNER" \/ Wanted(x, "status") # "ACTIVE"

\* Faulty: a refused request does not roll its transaction back.
CountAndHang(s) ==
  /\ tx[s].phase = "counting"
  /\ ~(LosesOwner(tx[s]) /\ Cardinality(ActiveOwners) <= 1)
  /\ tx' = [tx EXCEPT ![s].phase = "writing"]
  /\ UNCHANGED <<rows, begun>>

CountActiveOwners(s) ==
  /\ tx[s].phase = "counting"
  /\ IF LosesOwner(tx[s]) /\ Cardinality(ActiveOwners) <= 1
       THEN End(s) ELSE tx' = [tx EXCEPT ![s].phase = "writing"]
  /\ UNCHANGED <<rows, begun>>

\* joined_at is set by the first activation and cleared by an invitation.
JoinedAfter(joined, status) == status = "ACTIVE" \/ (joined /\ status # "INVITED")

\* The update names the version the client read.
UpdateMembership(s) ==
  LET x   == tx[s]
      row == rows[x.target]
  IN  /\ x.phase = "writing" /\ x.kind = "update"
      /\ rows' = IF row.version = x.expected
                   THEN [rows EXCEPT ![x.target] =
                           [role    |-> Wanted(x, "role"),
                            status  |-> Wanted(x, "status"),
                            version |-> row.version + 1,
                            joined  |-> JoinedAfter(row.joined, Wanted(x, "status"))]]
                   ELSE rows
      /\ End(s)
      /\ UNCHANGED begun

\* A user has one membership in a project, whatever its status.
CreateMembership(s) ==
  LET x == tx[s]
  IN  /\ x.phase = "writing" /\ x.kind = "create"
      /\ rows' = IF x.target \in Members THEN rows
                 ELSE [u \in Members \cup {x.target} |->
                         IF u = x.target
                           THEN [role |-> x.change["role"], status |-> x.change["status"],
                                 version |-> 1, joined |-> x.change["status"] = "ACTIVE"]
                           ELSE rows[u]]
      /\ End(s)
      /\ UNCHANGED begun

\* A deadlock victim, a cancelled request or a lost connection.
Abort(s) ==
  /\ tx[s] # Idle
  /\ End(s)
  /\ UNCHANGED <<rows, begun>>

-----------------------------------------------------------------------------
Init ==
  /\ rows = [u \in {Founder} |->
               [role |-> "OWNER", status |-> "ACTIVE", version |-> 1, joined |-> TRUE]]
  /\ tx = [s \in Sessions |-> Idle]
  /\ begun = 0

Proceed(s) ==
  \/ Authorize(s)
  \/ LoadTarget(s)
  \/ LockOwnerInvariant(s)
  \/ CountActiveOwners(s)
  \/ UpdateMembership(s)
  \/ CreateMembership(s)

Next ==
  \/ \E s \in Sessions, u, m \in Users, c \in Changes, v \in 1..MaxRequests : BeginUpdate(s, u, m, c, v)
  \/ \E s \in Sessions, u, m \in Users, r \in Roles, x \in AllStatuses : BeginCreate(s, u, m, r, x)
  \/ \E s \in Sessions : Proceed(s)
  \/ \E s \in Sessions : Abort(s)

Spec == Init /\ [][Next]_vars

\* PostgreSQL aborts a transaction of every deadlock, and runs the others on.
Fairness ==
  \A s \in Sessions : WF_vars(Proceed(s)) /\ WF_vars(Deadlocked(s) /\ Abort(s))

FairSpec == Spec /\ Fairness

-----------------------------------------------------------------------------
(* Properties *)

IsRow(r) ==
  /\ r = [role |-> r.role, status |-> r.status, version |-> r.version, joined |-> r.joined]
  /\ r.role \in AllRoles /\ r.status \in AllStatuses
  /\ r.version \in Nat \ {0} /\ r.joined \in BOOLEAN

IsRequest(x) ==
  /\ x.phase \in {"authorizing", "loading", "locking", "counting", "writing"}
  /\ x.kind \in {"update", "create"}
  /\ x.actor \in Users /\ x.target \in Users
  /\ x.role \in AllRoles /\ x.owners \in BOOLEAN /\ x.expected \in Nat
  /\ x.kind = "update" => x.change \in Changes /\ x.target \in Members
  /\ x.kind = "create" => x.change["role"] \in Roles /\ x.change["status"] \in AllStatuses

\* Every variable keeps the shape its declaration describes.
TypeOK ==
  /\ Members \subseteq Users
  /\ \A u \in Members : IsRow(rows[u])
  /\ DOMAIN tx = Sessions
  /\ \A s \in Sessions : tx[s] = Idle \/ IsRequest(tx[s])

\* However demotions, suspensions and removals overlap, the project keeps an
\* active owner.
OwnerRemains == ActiveOwners # {}

Touches(m) ==
  IF m \in Members THEN rows'[m] # rows[m] ELSE m \in DOMAIN rows'

OwnerTouched(m) ==
  rows'[m].role = "OWNER" \/ (m \in Members /\ rows[m].role = "OWNER")

\* At the moment a membership changes, the member who asked for it still is an
\* active manager, and an owner if an owner is made, changed or unmade: no
\* request acts on authority that was withdrawn since it was checked.
ChangesAreAuthorized ==
  [][\A m \in Users :
       Touches(m) =>
         \E s \in Sessions :
           /\ tx[s] # Idle /\ tx'[s] = Idle /\ tx[s].target = m
           /\ IsActive(tx[s].actor)
           /\ CanManageMembers(rows[tx[s].actor].role)
           /\ OwnerTouched(m) => rows[tx[s].actor].role = "OWNER"]_vars

\* Every request ends, deadlocks included.
RequestsEnd == \A s \in Sessions : tx[s] # Idle ~> tx[s] = Idle

=============================================================================
