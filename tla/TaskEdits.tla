------------------------------ MODULE TaskEdits ------------------------------
(***************************************************************************)
(* One task of a project: its row, the rows joined to it (tags, assignees),*)
(* its log of task operations, and the transactions that edit, undo, redo  *)
(* and delete it while members of the project are suspended and reinstated.*)
(*                                                                         *)
(* Transactions run at READ COMMITTED.  An edit or a replay first reads    *)
(* the task with SELECT ... FOR UPDATE OF t.  When the row changed between *)
(* the snapshot of that statement and its lock, PostgreSQL re-reads the    *)
(* locked row only: the sub-selects for tags and assignees keep the values *)
(* of the snapshot.  The snapshot and the lock are therefore two steps.    *)
(* Everything an edit does after the lock happens under the row lock and   *)
(* the membership locks it takes, and is one step; a replay checks the     *)
(* membership of re-added assignees without a lock, so that check and the  *)
(* commit are two steps.                                                   *)
(***************************************************************************)
EXTENDS Integers

CONSTANTS
  Users,       \* people with a membership in the project
  Editors,     \* the users whose role is OWNER, ADMIN or MEMBER, not VIEWER
  Suspendable, \* the users a manager suspends and reinstates
  Sessions,    \* concurrent requests
  Statuses,    \* the task statuses in use
  Columns,     \* other fields stored in the row: title, description, priority
  Projected,   \* the columns the description channel overwrites: description
  Joined,      \* fields stored in rows of their own: tags
  Values,      \* the values of Columns and Joined
  Creations,   \* the tasks a CreateTask request may carry
  Edits,       \* the partial tasks an UpdateTask request may carry
  MaxVersion,  \* bound on the task's version
  MaxClock     \* bound on the number of undo transactions started

Fields == {"status", "assigneeIds"} \cup Columns \cup Joined

JoinedFields == {"assigneeIds"} \cup Joined

FieldValues(f) ==
  IF f = "status" THEN Statuses ELSE IF f = "assigneeIds" THEN SUBSET Users ELSE Values

\* A value for some of the fields: an edit, or one side of an operation.
IsPartialTask(e) ==
  /\ e = [f \in DOMAIN e |-> e[f]]
  /\ DOMAIN e \subseteq Fields
  /\ \A f \in DOMAIN e : e[f] \in FieldValues(f)

ASSUME UsersAssumption == Editors \subseteq Users /\ Suspendable \subseteq Users

ASSUME FieldsAssumption ==
  /\ Statuses \subseteq {"TODO", "IN_PROGRESS", "BLOCKED", "DONE"}
  /\ Projected \subseteq Columns
  /\ Columns \cap JoinedFields = {}
  /\ "status" \notin Columns \cup Joined

ASSUME RequestsAssumption ==
  /\ Creations # {}
  /\ \A t \in Creations : IsPartialTask(t) /\ DOMAIN t = Fields
  /\ \A e \in Edits : IsPartialTask(e) /\ DOMAIN e # {}

ASSUME BoundsAssumption == MaxVersion \in Nat /\ MaxClock \in Nat

VARIABLES
  life,         \* "absent", "live" or "deleted"
  version,      \* tasks.version, the entity tag clients send in If-Match
  stored,       \* the row and its joined rows
  active,       \* the users whose membership is ACTIVE
  ops,          \* the rows of task_operations
  tx,           \* the transaction each session has in flight
  clock,        \* stands for now(), which is the start time of a transaction
  eventVersion, \* aggregate_version of the last task event appended
  writtenAt,    \* history: the version that last wrote each field
  resurrected   \* history: assignees a replay inserted while not ACTIVE

taskVars    == <<life, version, stored, ops>>
historyVars == <<eventVersion, writtenAt, resurrected>>
vars        == <<taskVars, active, tx, clock, historyVars>>

-----------------------------------------------------------------------------
(* Reading the task *)

\* The task as a statement with a fresh snapshot returns it: assignments of
\* members who are not ACTIVE are stored but not shown.
View ==
  [f \in Fields |-> IF f = "assigneeIds" THEN stored[f] \cap active ELSE stored[f]]

\* The task as getTaskForUpdate returns it: the row is the locked, latest
\* one, the joined fields are those of the statement's snapshot.
LockedView(seen) ==
  [f \in Fields |-> IF f \in JoinedFields THEN seen[f] ELSE stored[f]]

Snapshot == [f \in JoinedFields |-> View[f]]

Overlay(task, partial) ==
  [f \in Fields |-> IF f \in DOMAIN partial THEN partial[f] ELSE task[f]]

Part(task, fields) == [f \in fields |-> task[f]]

\* Faulty: a finished task may not be reopened.
FinalDone(from, to) ==
  \/ from = to
  \/ from = "TODO"        /\ to \in {"IN_PROGRESS", "BLOCKED"}
  \/ from = "IN_PROGRESS" /\ to \in {"TODO", "BLOCKED", "DONE"}
  \/ from = "BLOCKED"     /\ to \in {"TODO", "IN_PROGRESS"}

CanTransition(from, to) ==
  \/ from = to
  \/ from = "TODO"        /\ to \in {"IN_PROGRESS", "BLOCKED"}
  \/ from = "IN_PROGRESS" /\ to \in {"TODO", "BLOCKED", "DONE"}
  \/ from = "BLOCKED"     /\ to \in {"TODO", "IN_PROGRESS"}
  \/ from = "DONE"        /\ to = "IN_PROGRESS"

\* Faulty: an undo or redo does not count as a newer action.
OperationsRecordedAfter(v) == {o \in ops : o.resulting > v}

\* The operations whose last action is newer than a version.
TaskOperationsAfter(v) == {o \in ops : o.last > v}

\* An actor's most recent operation in a state: of the undone ones the one
\* undone last by the start time of its transaction, of the active ones the
\* one with the highest resulting version.
Recency(o) == IF o.state = "UNDONE" THEN o.actedAt ELSE o.resulting

IsLatest(o, actor, state) ==
  /\ o \in ops /\ o.actor = actor /\ o.state = state
  /\ \A p \in ops :
       p.actor = actor /\ p.state = state => Recency(p) <= Recency(o)

-----------------------------------------------------------------------------
(* Transactions *)

Idle == [phase |-> "idle"]

\* Faulty: GetTaskForUpdate without FOR UPDATE.
NeverLocked == FALSE

RowLocked == \E s \in Sessions : tx[s].phase = "locked"

\* requireMember holds the actor's membership row FOR SHARE to the end.
MembershipShared(m) == \E s \in Sessions : tx[s] # Idle /\ tx[s].actor = m

\* Faulty: any membership row counts, in whatever status.
HaveMembership(ids) == ids \subseteq Users

AreProjectMembers(ids) == ids \subseteq active

CanWrite(u) == u \in active \cap Editors

End(s) == tx' = [tx EXCEPT ![s] = Idle]

\* What every accepted task mutation does: the version guard of the UPDATE
\* holds under the row lock, the version goes up by one, and one task event
\* carries the new version.
Write(partial) ==
  /\ version < MaxVersion
  /\ version' = version + 1
  /\ eventVersion' = version + 1
  /\ stored' = Overlay(stored, partial)
  /\ writtenAt' = [f \in Fields |->
                     IF f \in DOMAIN partial THEN version + 1 ELSE writtenAt[f]]

CreateTask(u, task) ==
  /\ life = "absent"
  /\ CanWrite(u)
  /\ AreProjectMembers(task["assigneeIds"])
  /\ life' = "live"
  /\ version' = 1
  /\ eventVersion' = 1
  /\ stored' = task
  /\ writtenAt' = [f \in Fields |-> 1]
  /\ UNCHANGED <<active, ops, tx, clock, resurrected>>

\* A client edits the task it read at an earlier or the current version.
BeginUpdate(s, u, edit, expected) ==
  /\ life = "live"
  /\ tx[s] = Idle
  /\ CanWrite(u)
  /\ expected \in 1..version
  /\ tx' = [tx EXCEPT ![s] = [phase |-> "reading", kind |-> "update", actor |-> u,
                              expected |-> expected, edit |-> edit, seen |-> Snapshot]]
  /\ UNCHANGED <<taskVars, active, clock, historyVars>>

\* Why an edit that holds the row lock is accepted: nobody acted on one of
\* its fields after the version it was based on, the status transition is
\* allowed, and the assignees it would leave are active members.
UpdateAccepted(t) ==
  LET current == LockedView(t.seen)
      next    == Overlay(current, t.edit)
  IN  /\ t.expected <= version
      /\ t.expected < version =>
           \A o \in TaskOperationsAfter(t.expected) : o.fields \cap DOMAIN t.edit = {}
      /\ CanTransition(current["status"], next["status"])
      /\ AreProjectMembers(next["assigneeIds"])

InvalidateRedo(actor) ==
  {IF o.actor = actor /\ o.state = "UNDONE" THEN [o EXCEPT !.state = "INVALIDATED"] ELSE o
     : o \in ops}

NewOperation(t) ==
  [actor     |-> t.actor,
   fields    |-> DOMAIN t.edit,
   before    |-> Part(LockedView(t.seen), DOMAIN t.edit),
   after     |-> t.edit,
   resulting |-> version + 1,
   last      |-> version + 1,
   state     |-> "ACTIVE",
   actedAt   |-> 0]

UpdateTask(s) ==
  LET t == tx[s]
  IN  /\ t.phase = "reading" /\ t.kind = "update"
      /\ life = "live" /\ ~RowLocked
      /\ UpdateAccepted(t)
      /\ Write(t.edit)
      /\ ops' = InvalidateRedo(t.actor) \cup {NewOperation(t)}
      /\ resurrected' = IF "assigneeIds" \in DOMAIN t.edit THEN {} ELSE resurrected
      /\ End(s)
      /\ UNCHANGED <<life, active, clock>>

\* VERSION_CONFLICT, INVALID_STATUS_TRANSITION, ASSIGNEE_NOT_PROJECT_MEMBER
\* or NOT_FOUND: the transaction rolls back.
RejectUpdate(s) ==
  /\ tx[s].phase = "reading" /\ tx[s].kind = "update"
  /\ ~RowLocked
  /\ life = "deleted" \/ ~UpdateAccepted(tx[s])
  /\ End(s)
  /\ UNCHANGED <<taskVars, active, clock, historyVars>>

-----------------------------------------------------------------------------
(* Undo and redo *)

FromState(kind)   == IF kind = "undo" THEN "ACTIVE" ELSE "UNDONE"
\* Faulty: a redone operation gets a state of its own.
ToRedone(kind)    == IF kind = "undo" THEN "UNDONE" ELSE "REDONE"
ToState(kind)     == IF kind = "undo" THEN "UNDONE" ELSE "ACTIVE"
Expected(kind, o) == IF kind = "undo" THEN o.after ELSE o.before
\* Faulty: a redo writes what an undo writes.
TargetBefore(kind, o) == o.before
Target(kind, o)   == IF kind = "undo" THEN o.before ELSE o.after

\* now() is fixed when the transaction starts; only an undo's is compared.
BeginReplay(s, u, kind) ==
  /\ life = "live"
  /\ tx[s] = Idle
  /\ CanWrite(u)
  /\ clock' = IF kind = "undo" THEN clock + 1 ELSE clock
  /\ clock' <= MaxClock
  /\ tx' = [tx EXCEPT ![s] = [phase |-> "reading", kind |-> kind, actor |-> u,
                              startedAt |-> clock', seen |-> Snapshot]]
  /\ UNCHANGED <<taskVars, active, historyVars>>

\* The assignees a partial task would add to the stored ones.
Added(partial) ==
  IF "assigneeIds" \in DOMAIN partial
    THEN partial["assigneeIds"] \ stored["assigneeIds"] ELSE {}

\* The operation a replay may act on once it holds the row lock: the actor's
\* latest in the source state, when every changed field shows the value the
\* operation left there and the assignees it re-adds are active.
Replayable(t, o) ==
  /\ IsLatest(o, t.actor, FromState(t.kind))
  /\ \A f \in o.fields : LockedView(t.seen)[f] = Expected(t.kind, o)[f]
  /\ Added(Target(t.kind, o)) \subseteq active

LockReplay(s) ==
  LET t == tx[s]
  IN  /\ t.phase = "reading" /\ t.kind \in {"undo", "redo"}
      /\ life = "live" /\ ~RowLocked
      /\ \E o \in ops :
           /\ Replayable(t, o)
           /\ tx' = [tx EXCEPT ![s] = [phase |-> "locked", kind |-> t.kind, actor |-> t.actor,
                                       startedAt |-> t.startedAt, op |-> o]]
      /\ UNCHANGED <<taskVars, active, clock, historyVars>>

\* UNDO_NOT_AVAILABLE, REDO_NOT_AVAILABLE, OPERATION_CONFLICT,
\* ASSIGNEE_NOT_PROJECT_MEMBER or NOT_FOUND.
RejectReplay(s) ==
  /\ tx[s].phase = "reading" /\ tx[s].kind \in {"undo", "redo"}
  /\ ~RowLocked
  /\ life = "deleted" \/ ~\E o \in ops : Replayable(tx[s], o)
  /\ End(s)
  /\ UNCHANGED <<taskVars, active, clock, historyVars>>

\* Faulty: last_action_version stays at the operation's own version.
ActedInPlace(t) ==
  [t.op EXCEPT !.state = ToState(t.kind), !.actedAt = t.startedAt]

\* SetTaskOperationState.
Acted(t) ==
  [t.op EXCEPT !.state = ToState(t.kind), !.last = version + 1, !.actedAt = t.startedAt]

\* The assignee rows are inserted (their foreign key asks for a membership
\* row, in whatever status), the operation changes state, and all commits.
CommitReplay(s) ==
  LET t      == tx[s]
      target == Target(t.kind, t.op)
  IN  /\ t.phase = "locked"
      /\ Write(target)
      /\ ops' = (ops \ {t.op}) \cup {Acted(t)}
      /\ resurrected' = IF "assigneeIds" \in DOMAIN target
                          THEN (resurrected \cap target["assigneeIds"])
                                 \cup (Added(target) \ active)
                          ELSE resurrected
      /\ End(s)
      /\ UNCHANGED <<life, active, clock>>

-----------------------------------------------------------------------------
(* Other transactions on the task's rows *)

\* A transaction may roll back at any point: a deadlock victim, a dropped
\* connection, a cancelled request.
Abort(s) ==
  /\ tx[s] # Idle
  /\ End(s)
  /\ UNCHANGED <<taskVars, active, clock, historyVars>>

\* Faulty: the deletion event repeats the version of the deleted row.
LastVersion == version

DeletedVersion == version + 1

\* DeleteTask needs the exact version.  The operations, tags and assignees
\* go with the row; the event carries the version after the last one.
DeleteTask(u, expected) ==
  /\ life = "live" /\ ~RowLocked
  /\ CanWrite(u)
  /\ expected = version
  /\ life' = "deleted"
  /\ ops' = {}
  /\ stored' = [stored EXCEPT !["assigneeIds"] = {}]
  /\ eventVersion' = DeletedVersion
  /\ resurrected' = {}
  /\ UNCHANGED <<version, active, tx, clock, writtenAt>>

\* A manager suspends or removes a member.  The member's assignments go and
\* the version of a task that loses one goes up, without a task operation
\* and without a task event.
SuspendMember(m) ==
  /\ m \in active
  /\ ~MembershipShared(m)
  /\ active' = active \ {m}
  /\ IF life = "live" /\ m \in stored["assigneeIds"]
       THEN /\ ~RowLocked
            /\ version < MaxVersion
            /\ stored' = [stored EXCEPT !["assigneeIds"] = @ \ {m}]
            /\ version' = version + 1
            /\ resurrected' = resurrected \ {m}
       ELSE UNCHANGED <<stored, version, resurrected>>
  /\ UNCHANGED <<life, ops, tx, clock, eventVersion, writtenAt>>

\* The member becomes ACTIVE again; no assignment is restored.
ReinstateMember(m) ==
  /\ m \notin active
  /\ active' = active \cup {m}
  /\ UNCHANGED <<taskVars, tx, clock, historyVars>>

\* The description channel (and the compactor) overwrite the searchable text
\* without a version, an operation or an event.
ProjectDescription(f, text) ==
  /\ life = "live" /\ ~RowLocked
  /\ stored' = [stored EXCEPT ![f] = text]
  /\ UNCHANGED <<life, version, ops, active, tx, clock, historyVars>>

-----------------------------------------------------------------------------
Init ==
  /\ life = "absent"
  /\ version = 0
  /\ stored = CHOOSE t \in Creations : TRUE
  /\ active = Users
  /\ ops = {}
  /\ tx = [s \in Sessions |-> Idle]
  /\ clock = 0
  /\ eventVersion = 0
  /\ writtenAt = [f \in Fields |-> 0]
  /\ resurrected = {}

Next ==
  \/ \E u \in Editors, t \in Creations : CreateTask(u, t)
  \/ \E s \in Sessions, u \in Editors, e \in Edits, v \in 1..MaxVersion : BeginUpdate(s, u, e, v)
  \/ \E s \in Sessions : UpdateTask(s)
  \/ \E s \in Sessions : RejectUpdate(s)
  \/ \E s \in Sessions, u \in Editors, k \in {"undo", "redo"} : BeginReplay(s, u, k)
  \/ \E s \in Sessions : LockReplay(s)
  \/ \E s \in Sessions : RejectReplay(s)
  \/ \E s \in Sessions : CommitReplay(s)
  \/ \E s \in Sessions : Abort(s)
  \/ \E u \in Editors, v \in 1..MaxVersion : DeleteTask(u, v)
  \/ \E m \in Suspendable : SuspendMember(m)
  \/ \E m \in Suspendable : ReinstateMember(m)
  \/ \E f \in Projected, x \in Values : ProjectDescription(f, x)

Spec == Init /\ [][Next]_vars

-----------------------------------------------------------------------------
(* Type invariant *)

IsOperation(o) ==
  /\ o = [actor |-> o.actor, fields |-> o.fields, before |-> o.before, after |-> o.after,
          resulting |-> o.resulting, last |-> o.last, state |-> o.state, actedAt |-> o.actedAt]
  /\ o.actor \in Users
  /\ o.fields \subseteq Fields
  /\ IsPartialTask(o.before) /\ DOMAIN o.before = o.fields
  /\ IsPartialTask(o.after) /\ DOMAIN o.after = o.fields
  /\ o.resulting \in Nat /\ o.last \in Nat /\ o.actedAt \in Nat
  /\ o.state \in {"ACTIVE", "UNDONE", "INVALIDATED"}

IsUpdateTx(t) ==
  /\ t.phase = "reading" /\ t.kind = "update"
  /\ t = [phase |-> "reading", kind |-> "update", actor |-> t.actor,
          expected |-> t.expected, edit |-> t.edit, seen |-> t.seen]
  /\ t.actor \in Users /\ t.expected \in Nat /\ t.edit \in Edits
  /\ IsPartialTask(t.seen) /\ DOMAIN t.seen = JoinedFields

IsReplayTx(t) ==
  /\ t.phase = "reading" /\ t.kind \in {"undo", "redo"}
  /\ t = [phase |-> "reading", kind |-> t.kind, actor |-> t.actor,
          startedAt |-> t.startedAt, seen |-> t.seen]
  /\ t.actor \in Users /\ t.startedAt \in Nat
  /\ IsPartialTask(t.seen) /\ DOMAIN t.seen = JoinedFields

IsLockedTx(t) ==
  /\ t.phase = "locked" /\ t.kind \in {"undo", "redo"}
  /\ t = [phase |-> "locked", kind |-> t.kind, actor |-> t.actor,
          startedAt |-> t.startedAt, op |-> t.op]
  /\ t.actor \in Users /\ t.startedAt \in Nat
  /\ IsOperation(t.op)

\* Every variable keeps the shape its declaration describes.
TypeOK ==
  /\ life \in {"absent", "live", "deleted"}
  /\ version \in Nat
  /\ IsPartialTask(stored) /\ DOMAIN stored = Fields
  /\ active \subseteq Users
  /\ \A o \in ops : IsOperation(o)
  /\ DOMAIN tx = Sessions /\ tx = [s \in Sessions |-> tx[s]]
  /\ \A s \in Sessions :
       tx[s] = Idle \/ IsUpdateTx(tx[s]) \/ IsReplayTx(tx[s]) \/ IsLockedTx(tx[s])
  /\ clock \in Nat
  /\ eventVersion \in Nat
  /\ writtenAt \in [Fields -> Nat]
  /\ resurrected \subseteq Users

-----------------------------------------------------------------------------
(* Safety *)

\* The operation log accounts for every field: the version that last wrote a
\* field is not newer than the last action of some operation on that field.
\* It is what a stale edit is compared with, so a write the log missed would
\* be overwritten silently; undo and redo must therefore move last_action_version.
LogCoversWrites ==
  life = "live" =>
    \A f \in Fields :
      writtenAt[f] > 1 => \E o \in ops : f \in o.fields /\ o.last >= writtenAt[f]

\* While nobody has written a field since an operation acted on it, the task
\* shows the value that operation left there: the after-state of an active
\* operation, the before-state of an undone one.  So a replay refused with
\* OPERATION_CONFLICT really was preceded by another write of the field.
UntouchedOperationShows ==
  life = "live" =>
    \A o \in ops :
      \A f \in o.fields \ (Projected \cup {"assigneeIds"}) :
        /\ o.state = "ACTIVE" /\ writtenAt[f] = o.last => stored[f] = o.after[f]
        /\ o.state = "UNDONE" /\ writtenAt[f] = o.last => stored[f] = o.before[f]

\* A replay that holds the row lock keeps finding, in the columns of the row,
\* the values its operation left, until it commits: no writer of the row gets
\* between the comparison and the inverse write.
ReplayMatchesColumns ==
  \A s \in Sessions :
    tx[s].phase = "locked" =>
      \A f \in tx[s].op.fields \ JoinedFields :
        stored[f] = Expected(tx[s].kind, tx[s].op)[f]

\* A member who is not ACTIVE holds no assignment, whatever edits, undos and
\* suspensions overlap, except one a replay inserted from a membership check
\* that had gone stale.
AssigneesAreActive ==
  \A m \in stored["assigneeIds"] : life = "live" => m \in active \cup resurrected

\* The transaction of session s commits as an edit.
UpdateCommits(s) ==
  /\ tx[s] # Idle /\ tx[s].kind = "update"
  /\ tx'[s] = Idle /\ version' # version

\* An accepted edit overwrites nothing that was written after the version it
\* was based on: the fields it names were last written, by edit, undo or
\* redo, at or before that version.  Disjoint stale edits merge.
NoStaleOverwrite ==
  [][\A s \in Sessions :
       UpdateCommits(s) =>
         \A f \in DOMAIN tx[s].edit : writtenAt[f] <= tx[s].expected]_vars

\* The status of a task only moves along the workflow, whichever handler
\* writes it: undo and redo do not call the transition policy, and still
\* never take a step the policy forbids.
StatusFollowsWorkflow ==
  [][life = "live" /\ life' = "live" =>
       CanTransition(stored["status"], stored'["status"])]_vars

\* Task events carry strictly increasing versions, the deletion included:
\* clients drop an event whose version is below the one they hold.
EventVersionsRise ==
  [][UNCHANGED <<eventVersion, life>> \/ eventVersion' > eventVersion]_vars

-----------------------------------------------------------------------------
(* The parts of the inductive invariant the proofs rest on *)

\* Nothing runs ahead of the task: no write, no operation, no event.
WithinVersion ==
  /\ \A f \in Fields : writtenAt[f] <= version
  /\ \A o \in ops : o.resulting <= o.last /\ o.last <= version
  /\ life # "deleted" => eventVersion <= version
  /\ life = "absent" => version = 0 /\ ops = {}

\* An edit is based on a version that has existed.
UpdatesAreBased ==
  \A s \in Sessions : IsUpdateTx(tx[s]) => tx[s].expected >= 1

\* One replay at a time holds the row lock, on an operation of the live task.
ReplaysHoldRow ==
  /\ \A s \in Sessions :
       tx[s].phase = "locked" =>
         /\ life = "live"
         /\ tx[s].op.resulting <= tx[s].op.last /\ tx[s].op.last <= version
  /\ \A r, s \in Sessions : tx[r].phase = "locked" /\ tx[s].phase = "locked" => r = s

\* An operation on the status took a step of the workflow.
StepsInWorkflow(o) ==
  "status" \in o.fields => CanTransition(o.before["status"], o.after["status"])

OperationsFollowWorkflow ==
  /\ \A o \in ops : StepsInWorkflow(o)
  /\ \A s \in Sessions : tx[s].phase = "locked" => StepsInWorkflow(tx[s].op)

LogInv ==
  /\ TypeOK
  /\ WithinVersion
  /\ UpdatesAreBased
  /\ ReplaysHoldRow
  /\ OperationsFollowWorkflow
  /\ LogCoversWrites
  /\ ReplayMatchesColumns
  /\ AssigneesAreActive

=============================================================================
