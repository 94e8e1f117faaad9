-------------------------- MODULE TaskEditsProofs ---------------------------
(***************************************************************************)
(* Proofs about TaskEdits, for every set of users, fields, values, requests*)
(* and sessions and for every bound on versions.                           *)
(***************************************************************************)
EXTENDS TaskEdits, TLAPS

TxOK(t) == t = Idle \/ IsUpdateTx(t) \/ IsReplayTx(t) \/ IsLockedTx(t)

IsTask(t) == IsPartialTask(t) /\ DOMAIN t = Fields

-----------------------------------------------------------------------------
(* Values and partial tasks *)

\* The assignees of a task are a set of users.
LEMMA AssigneeValues ==
  "assigneeIds" \in JoinedFields /\ FieldValues("assigneeIds") = SUBSET Users
BY DEF JoinedFields, FieldValues

\* The description is a column with a plain value.
LEMMA ProjectedValues ==
  ASSUME NEW f \in Projected
  PROVE  f \in Fields /\ f \notin JoinedFields /\ f # "status" /\ FieldValues(f) = Values
BY FieldsAssumption DEF Fields, FieldValues, JoinedFields

\* The status is a column of the row.
LEMMA StatusIsColumn == "status" \in Fields /\ "status" \notin JoinedFields
BY FieldsAssumption DEF Fields, JoinedFields

LEMMA JoinedAreFields == JoinedFields \subseteq Fields
BY DEF Fields, JoinedFields

\* A task overwritten by a partial task is a task.
LEMMA OverlayIsTask ==
  ASSUME NEW task, IsTask(task), NEW partial, IsPartialTask(partial)
  PROVE  IsTask(Overlay(task, partial))
BY DEF IsTask, IsPartialTask, Overlay

\* Some fields of a task are a partial task.
LEMMA PartIsPartialTask ==
  ASSUME NEW task, IsTask(task), NEW D, D \subseteq Fields
  PROVE  IsPartialTask(Part(task, D)) /\ DOMAIN Part(task, D) = D
BY DEF IsTask, IsPartialTask, Part

\* What a statement reads is a task, and so is what a locked read returns.
LEMMA ViewIsTask ==
  ASSUME IsTask(stored)
  PROVE  IsTask(View)
<1>1. ASSUME NEW f \in Fields PROVE View[f] \in FieldValues(f)
  <2>1. CASE f = "assigneeIds"
    BY <2>1, AssigneeValues DEF View, IsTask, IsPartialTask
  <2>2. CASE f # "assigneeIds"
    BY <2>2 DEF View, IsTask, IsPartialTask
  <2>3. QED BY <2>1, <2>2
<1>2. QED BY <1>1 DEF View, IsTask, IsPartialTask

LEMMA SnapshotIsPartialTask ==
  ASSUME IsTask(stored)
  PROVE  IsPartialTask(Snapshot) /\ DOMAIN Snapshot = JoinedFields
BY ViewIsTask, JoinedAreFields DEF Snapshot, IsTask, IsPartialTask

LEMMA LockedViewIsTask ==
  ASSUME IsTask(stored), NEW seen, IsPartialTask(seen), DOMAIN seen = JoinedFields
  PROVE  IsTask(LockedView(seen))
BY JoinedAreFields DEF LockedView, IsTask, IsPartialTask

-----------------------------------------------------------------------------
(* Type correctness *)

\* The parts of TypeOK that an accepted mutation establishes.
LEMMA WriteType ==
  ASSUME TypeOK, NEW partial, IsPartialTask(partial), Write(partial)
  PROVE  /\ version' \in Nat /\ eventVersion' \in Nat
         /\ IsTask(stored)' /\ writtenAt' \in [Fields -> Nat]
<1>1. IsTask(Overlay(stored, partial))
  BY OverlayIsTask DEF TypeOK, IsTask
<1>2. stored' = Overlay(stored, partial)
  BY DEF Write
<1>3. IsTask(stored)'
  BY <1>1, <1>2 DEF IsTask, IsPartialTask
<1>4. QED BY <1>3 DEF Write, TypeOK

\* A step of one session keeps the transactions of all of them well formed.
LEMMA TxType ==
  ASSUME TypeOK, NEW s \in Sessions, NEW t, TxOK(t), tx' = [tx EXCEPT ![s] = t]
  PROVE  /\ DOMAIN tx' = Sessions /\ tx' = [r \in Sessions |-> tx'[r]]
         /\ \A r \in Sessions : TxOK(tx'[r])
<1>1. ASSUME NEW r \in Sessions PROVE TxOK(tx'[r])
  <2>1. CASE r = s
    <3>1. tx'[r] = t
      BY <2>1 DEF TypeOK
    <3>2. QED BY <3>1
  <2>2. CASE r # s
    <3>1. tx'[r] = tx[r]
      BY <2>2 DEF TypeOK
    <3>2. TxOK(tx[r])
      BY DEF TypeOK, TxOK
    <3>3. QED BY <3>1, <3>2
  <2>3. QED BY <2>1, <2>2
<1>2. QED BY <1>1 DEF TypeOK

LEMMA InitType == Init => TypeOK
<1> SUFFICES ASSUME Init PROVE TypeOK
  OBVIOUS
<1>2. PICK t \in Creations : TRUE
  BY RequestsAssumption
<1>3. stored \in Creations
  BY <1>2, Zenon DEF Init
<1>4. IsPartialTask(stored) /\ DOMAIN stored = Fields
  BY <1>3, RequestsAssumption
<1>5. DOMAIN tx = Sessions /\ tx = [s \in Sessions |-> tx[s]] /\ \A s \in Sessions : tx[s] = Idle
  BY DEF Init
<1>6. QED BY <1>4, <1>5 DEF Init, TypeOK

\* The operation an accepted edit appends, and the ones it invalidates.
LEMMA UpdateOperationsType ==
  ASSUME TypeOK, NEW t, IsUpdateTx(t)
  PROVE  \A o \in InvalidateRedo(t.actor) \cup {NewOperation(t)} : IsOperation(o)
<1>1. IsPartialTask(t.edit)
  BY RequestsAssumption DEF IsUpdateTx
<1>2. IsTask(LockedView(t.seen))
  BY LockedViewIsTask DEF TypeOK, IsUpdateTx, IsTask
<1>3. /\ IsPartialTask(Part(LockedView(t.seen), DOMAIN t.edit))
      /\ DOMAIN Part(LockedView(t.seen), DOMAIN t.edit) = DOMAIN t.edit
  BY <1>1, <1>2, PartIsPartialTask DEF IsPartialTask
<1>4. IsOperation(NewOperation(t))
  BY <1>1, <1>3 DEF NewOperation, IsOperation, IsUpdateTx, TypeOK, IsPartialTask
<1>5. ASSUME NEW o \in ops PROVE IsOperation([o EXCEPT !.state = "INVALIDATED"])
  BY DEF TypeOK, IsOperation
<1>6. ASSUME NEW p \in InvalidateRedo(t.actor) PROVE IsOperation(p)
  <2>1. PICK o \in ops :
          p = IF o.actor = t.actor /\ o.state = "UNDONE"
                THEN [o EXCEPT !.state = "INVALIDATED"] ELSE o
    BY <1>6 DEF InvalidateRedo
  <2>2. IsOperation(o)
    BY DEF TypeOK
  <2>3. QED BY <2>1, <2>2, <1>5
<1>7. QED BY <1>4, <1>6

\* The operation a replay acted on.
LEMMA ActedType ==
  ASSUME TypeOK, NEW t, IsLockedTx(t)
  PROVE  IsOperation(Acted(t))
<1> DEFINE o == t.op
<1>1. IsOperation(o) /\ t.startedAt \in Nat
  BY DEF IsLockedTx
<1>2. /\ o.actor \in Users /\ o.fields \subseteq Fields /\ o.resulting \in Nat
      /\ IsPartialTask(o.before) /\ DOMAIN o.before = o.fields
      /\ IsPartialTask(o.after) /\ DOMAIN o.after = o.fields
  BY <1>1 DEF IsOperation
<1>3. Acted(t) = [actor |-> o.actor, fields |-> o.fields, before |-> o.before,
                  after |-> o.after, resulting |-> o.resulting, last |-> version + 1,
                  state |-> ToState(t.kind), actedAt |-> t.startedAt]
  <2>1. PICK r : r = [actor |-> o.actor, fields |-> o.fields, before |-> o.before,
                      after |-> o.after, resulting |-> o.resulting, last |-> o.last,
                      state |-> o.state, actedAt |-> o.actedAt]
    OBVIOUS
  <2>2. o = r
    BY <1>1, <2>1 DEF IsOperation
  <2>3. Acted(t) = [r EXCEPT !.state = ToState(t.kind), !.last = version + 1,
                             !.actedAt = t.startedAt]
    BY <2>2 DEF Acted
  <2> HIDE DEF o
  <2>4. QED BY <2>1, <2>3
<1>4. version + 1 \in Nat /\ ToState(t.kind) \in {"ACTIVE", "UNDONE", "INVALIDATED"}
  BY DEF TypeOK, ToState
<1>5. t.startedAt \in Nat
  BY <1>1
<1> HIDE DEF o
<1>6. QED BY <1>2, <1>3, <1>4, <1>5 DEF IsOperation

LEMMA TargetType ==
  ASSUME NEW kind, NEW o, IsOperation(o)
  PROVE  /\ IsPartialTask(Target(kind, o)) /\ DOMAIN Target(kind, o) = o.fields
         /\ IsPartialTask(Expected(kind, o)) /\ DOMAIN Expected(kind, o) = o.fields
BY DEF Target, Expected, IsOperation

\* The transactions the first step of an edit or a replay starts.
LEMMA BeginsType ==
  ASSUME TypeOK, NEW s \in Sessions
  PROVE  /\ \A u \in Editors, e \in Edits, v \in 1..MaxVersion :
              BeginUpdate(s, u, e, v) => TypeOK'
         /\ \A u \in Editors, k \in {"undo", "redo"} : BeginReplay(s, u, k) => TypeOK'
<1>1. ASSUME NEW u \in Editors, NEW e \in Edits, NEW v \in 1..MaxVersion, BeginUpdate(s, u, e, v)
      PROVE  TypeOK'
  <2> DEFINE t == [phase |-> "reading", kind |-> "update", actor |-> u,
                   expected |-> v, edit |-> e, seen |-> Snapshot]
  <2>1. IsUpdateTx(t)
    BY SnapshotIsPartialTask, UsersAssumption, BoundsAssumption DEF IsUpdateTx, TypeOK, IsTask
  <2>2. tx' = [tx EXCEPT ![s] = t]
    BY <1>1 DEF BeginUpdate
  <2>3. /\ DOMAIN tx' = Sessions /\ tx' = [r \in Sessions |-> tx'[r]]
        /\ \A r \in Sessions : TxOK(tx'[r])
    BY <2>1, <2>2, TxType DEF TxOK
  <2>4. QED BY <1>1, <2>3 DEF BeginUpdate, taskVars, historyVars, TypeOK, TxOK
<1>2. ASSUME NEW u \in Editors, NEW k \in {"undo", "redo"}, BeginReplay(s, u, k)
      PROVE  TypeOK'
  <2> DEFINE t == [phase |-> "reading", kind |-> k, actor |-> u,
                   startedAt |-> clock', seen |-> Snapshot]
  <2>1. clock' \in Nat
    BY <1>2 DEF BeginReplay, TypeOK
  <2>2. IsReplayTx(t)
    BY <2>1, SnapshotIsPartialTask, UsersAssumption DEF IsReplayTx, TypeOK, IsTask
  <2>3. tx' = [tx EXCEPT ![s] = t]
    BY <1>2 DEF BeginReplay
  <2>4. /\ DOMAIN tx' = Sessions /\ tx' = [r \in Sessions |-> tx'[r]]
        /\ \A r \in Sessions : TxOK(tx'[r])
    BY <2>2, <2>3, TxType DEF TxOK
  <2>5. QED BY <1>2, <2>1, <2>4 DEF BeginReplay, taskVars, historyVars, TypeOK, TxOK
<1>3. QED BY <1>1, <1>2

\* Every action keeps the type invariant.
LEMMA NextType == TypeOK /\ [Next]_vars => TypeOK'
<1> SUFFICES ASSUME TypeOK, [Next]_vars PROVE TypeOK'
  OBVIOUS
<1> USE DEF taskVars, historyVars
<1>2. ASSUME NEW u \in Editors, NEW t \in Creations, CreateTask(u, t) PROVE TypeOK'
  <2>1. IsPartialTask(stored') /\ DOMAIN stored' = Fields
    BY <1>2, RequestsAssumption DEF CreateTask
  <2>2. QED BY <1>2, <2>1 DEF CreateTask, TypeOK
<1>3. ASSUME NEW s \in Sessions, End(s), UNCHANGED <<taskVars, active, clock, historyVars>>
      PROVE  TypeOK'
  <2>1. /\ DOMAIN tx' = Sessions /\ tx' = [r \in Sessions |-> tx'[r]]
        /\ \A r \in Sessions : TxOK(tx'[r])
    BY <1>3, TxType DEF End, TxOK
  <2>2. QED BY <1>3, <2>1 DEF TypeOK, TxOK
<1>4. ASSUME NEW s \in Sessions, UpdateTask(s) PROVE TypeOK'
  <2>1. IsUpdateTx(tx[s])
    BY <1>4 DEF UpdateTask, TypeOK, Idle, IsReplayTx, IsLockedTx
  <2>2. IsPartialTask(tx[s].edit)
    BY <2>1, RequestsAssumption DEF IsUpdateTx
  <2>3. /\ version' \in Nat /\ eventVersion' \in Nat
        /\ IsTask(stored)' /\ writtenAt' \in [Fields -> Nat]
    BY <1>4, <2>2, WriteType DEF UpdateTask
  <2>4. \A o \in ops' : IsOperation(o)
    BY <1>4, <2>1, UpdateOperationsType DEF UpdateTask
  <2>5. /\ DOMAIN tx' = Sessions /\ tx' = [r \in Sessions |-> tx'[r]]
        /\ \A r \in Sessions : TxOK(tx'[r])
    BY <1>4, TxType DEF UpdateTask, End, TxOK
  <2>6. resurrected' \subseteq Users
    BY <1>4 DEF UpdateTask, TypeOK
  <2>7. UNCHANGED <<life, active, clock>>
    BY <1>4 DEF UpdateTask
  <2>8. QED BY <2>3, <2>4, <2>5, <2>6, <2>7 DEF TypeOK, TxOK, IsTask
<1>5. ASSUME NEW s \in Sessions, LockReplay(s) PROVE TypeOK'
  <2>1. IsReplayTx(tx[s])
    BY <1>5 DEF LockReplay, TypeOK, Idle, IsUpdateTx, IsLockedTx
  <2>2. PICK o \in ops :
          tx' = [tx EXCEPT ![s] = [phase |-> "locked", kind |-> tx[s].kind, actor |-> tx[s].actor,
                                   startedAt |-> tx[s].startedAt, op |-> o]]
    BY <1>5 DEF LockReplay
  <2> DEFINE t == [phase |-> "locked", kind |-> tx[s].kind, actor |-> tx[s].actor,
                   startedAt |-> tx[s].startedAt, op |-> o]
  <2>3. IsLockedTx(t)
    BY <2>1 DEF IsReplayTx, IsLockedTx, TypeOK
  <2>4. /\ DOMAIN tx' = Sessions /\ tx' = [r \in Sessions |-> tx'[r]]
        /\ \A r \in Sessions : TxOK(tx'[r])
    BY <2>2, <2>3, TxType DEF TxOK
  <2>5. QED BY <1>5, <2>4 DEF LockReplay, TypeOK, TxOK
<1>6. ASSUME NEW s \in Sessions, CommitReplay(s) PROVE TypeOK'
  <2>1. IsLockedTx(tx[s])
    BY <1>6 DEF CommitReplay, TypeOK, Idle, IsUpdateTx, IsReplayTx
  <2> DEFINE target == Target(tx[s].kind, tx[s].op)
  <2>2. IsPartialTask(target)
    BY <2>1, TargetType DEF IsLockedTx
  <2>3. /\ version' \in Nat /\ eventVersion' \in Nat
        /\ IsTask(stored)' /\ writtenAt' \in [Fields -> Nat]
    BY <1>6, <2>2, WriteType DEF CommitReplay
  <2>4. \A o \in ops' : IsOperation(o)
    BY <1>6, <2>1, ActedType DEF CommitReplay, TypeOK
  <2>5. /\ DOMAIN tx' = Sessions /\ tx' = [r \in Sessions |-> tx'[r]]
        /\ \A r \in Sessions : TxOK(tx'[r])
    BY <1>6, TxType DEF CommitReplay, End, TxOK
  <2>6. resurrected' \subseteq Users
    <3>1. "assigneeIds" \in DOMAIN target => target["assigneeIds"] \subseteq Users
      BY <2>2, AssigneeValues DEF IsPartialTask
    <3>2. "assigneeIds" \in DOMAIN target => Added(target) \subseteq Users
      BY <3>1 DEF Added
    <3>3. QED BY <1>6, <3>1, <3>2 DEF CommitReplay, TypeOK
  <2>7. UNCHANGED <<life, active, clock>>
    BY <1>6 DEF CommitReplay
  <2>8. QED BY <2>3, <2>4, <2>5, <2>6, <2>7 DEF TypeOK, TxOK, IsTask
<1>7. ASSUME NEW u \in Editors, NEW v \in 1..MaxVersion, DeleteTask(u, v) PROVE TypeOK'
  <2>1. IsPartialTask(stored') /\ DOMAIN stored' = Fields
    BY <1>7, AssigneeValues, JoinedAreFields DEF DeleteTask, TypeOK, IsPartialTask
  <2>2. QED BY <1>7, <2>1 DEF DeleteTask, DeletedVersion, TypeOK
<1>8. ASSUME NEW m \in Suspendable, SuspendMember(m) PROVE TypeOK'
  <2>1. IsPartialTask(stored') /\ DOMAIN stored' = Fields
    BY <1>8, AssigneeValues, JoinedAreFields DEF SuspendMember, TypeOK, IsPartialTask
  <2>2. QED BY <1>8, <2>1 DEF SuspendMember, TypeOK
<1>9. ASSUME NEW m \in Suspendable, ReinstateMember(m) PROVE TypeOK'
  BY <1>9, UsersAssumption DEF ReinstateMember, TypeOK
<1>10. ASSUME NEW f \in Projected, NEW x \in Values, ProjectDescription(f, x) PROVE TypeOK'
  <2>1. IsPartialTask(stored') /\ DOMAIN stored' = Fields
    BY <1>10, ProjectedValues DEF ProjectDescription, TypeOK, IsPartialTask
  <2>2. QED BY <1>10, <2>1 DEF ProjectDescription, TypeOK
<1>11. CASE UNCHANGED vars
  BY <1>11 DEF vars, TypeOK
<1>12. QED
  BY <1>2, <1>3, <1>4, <1>5, <1>6, <1>7, <1>8, <1>9, <1>10, <1>11, BeginsType
     DEF Next, RejectUpdate, RejectReplay, Abort

\* Every variable keeps the shape its declaration describes.
THEOREM TypeCorrect == Spec => []TypeOK
<1>1. QED BY InitType, NextType, PTL DEF Spec

-----------------------------------------------------------------------------
(* The operation log, the replays and the assignments *)

\* Fields of a transaction's record, by its shape.
LEMMA PhaseOfTx ==
  ASSUME NEW t, TxOK(t)
  PROVE  /\ t.phase = "locked" => IsLockedTx(t)
         /\ t.phase = "reading" /\ t.kind = "update" => IsUpdateTx(t)
         /\ t # Idle /\ t.kind = "update" => IsUpdateTx(t)
         /\ t.phase = "reading" /\ t.kind \in {"undo", "redo"} => IsReplayTx(t)
         /\ IsUpdateTx(t) => t.phase # "locked"
BY DEF TxOK, Idle, IsUpdateTx, IsReplayTx, IsLockedTx

\* The workflow may be walked backwards: what an operation did, an undo may undo.
LEMMA WorkflowIsSymmetric ==
  ASSUME NEW a, NEW b, CanTransition(a, b)
  PROVE  CanTransition(b, a)
BY DEF CanTransition

\* When the transaction of s ends, the others are as they were.
LEMMA EndKeepsOthers ==
  ASSUME TypeOK, NEW s \in Sessions, End(s)
  PROVE  \A r \in Sessions :
           /\ tx'[r].phase = "locked" => tx'[r] = tx[r] /\ r # s
           /\ IsUpdateTx(tx'[r]) => tx'[r] = tx[r]
<1> SUFFICES ASSUME NEW r \in Sessions
             PROVE  /\ tx'[r].phase = "locked" => tx'[r] = tx[r] /\ r # s
                    /\ IsUpdateTx(tx'[r]) => tx'[r] = tx[r]
  OBVIOUS
<1>1. CASE r = s
  <2>1. tx'[r] = Idle
    BY <1>1 DEF End, TypeOK
  <2>2. QED BY <2>1 DEF Idle, IsUpdateTx
<1>2. CASE r # s
  BY <1>2 DEF End, TypeOK
<1>3. QED BY <1>1, <1>2

LEMMA InitLogInv == Init => LogInv
<1> SUFFICES ASSUME Init PROVE LogInv
  OBVIOUS
<1>1. TypeOK
  BY InitType
<1>2. \A s \in Sessions : tx[s].phase # "locked" /\ ~IsUpdateTx(tx[s])
  BY DEF Init, Idle, IsUpdateTx
<1>3. QED
  BY <1>1, <1>2 DEF Init, LogInv, WithinVersion, UpdatesAreBased, ReplaysHoldRow,
       OperationsFollowWorkflow, LogCoversWrites, ReplayMatchesColumns, AssigneesAreActive

\* Steps that only end a transaction.
LEMMA EndLogInv ==
  ASSUME LogInv, TypeOK', NEW s \in Sessions, End(s),
         UNCHANGED <<taskVars, active, clock, historyVars>>
  PROVE  LogInv'
<1> USE DEF taskVars, historyVars, LogInv
<1>1. \A r \in Sessions :
        /\ tx'[r].phase = "locked" => tx'[r] = tx[r]
        /\ IsUpdateTx(tx'[r]) => tx'[r] = tx[r]
  BY EndKeepsOthers
<1>2. WithinVersion'
  BY DEF WithinVersion
<1>3. UpdatesAreBased'
  BY <1>1 DEF UpdatesAreBased
<1>4. ReplaysHoldRow'
  BY <1>1 DEF ReplaysHoldRow
<1>5. OperationsFollowWorkflow'
  BY <1>1 DEF OperationsFollowWorkflow
<1>6. LogCoversWrites'
  BY DEF LogCoversWrites
<1>7. ReplayMatchesColumns'
  BY <1>1 DEF ReplayMatchesColumns
<1>8. AssigneesAreActive'
  BY DEF AssigneesAreActive
<1>9. QED BY <1>2, <1>3, <1>4, <1>5, <1>6, <1>7, <1>8

LEMMA CreateLogInv ==
  ASSUME LogInv, TypeOK', NEW u \in Editors, NEW t \in Creations, CreateTask(u, t)
  PROVE  LogInv'
<1> USE DEF LogInv
<1>1. \A s \in Sessions : tx[s].phase # "locked"
  BY DEF CreateTask, ReplaysHoldRow
<1>2. WithinVersion'
  BY DEF CreateTask, WithinVersion
<1>3. UpdatesAreBased'
  BY DEF CreateTask, UpdatesAreBased
<1>4. ReplaysHoldRow' /\ OperationsFollowWorkflow' /\ ReplayMatchesColumns'
  BY <1>1 DEF CreateTask, ReplaysHoldRow, OperationsFollowWorkflow, ReplayMatchesColumns
<1>5. LogCoversWrites'
  BY DEF CreateTask, LogCoversWrites
<1>6. AssigneesAreActive'
  BY DEF CreateTask, AssigneesAreActive, AreProjectMembers
<1>7. QED BY <1>2, <1>3, <1>4, <1>5, <1>6

LEMMA BeginsLogInv ==
  ASSUME LogInv, TypeOK', NEW s \in Sessions
  PROVE  /\ \A u \in Editors, e \in Edits, v \in 1..MaxVersion :
              BeginUpdate(s, u, e, v) => LogInv'
         /\ \A u \in Editors, k \in {"undo", "redo"} : BeginReplay(s, u, k) => LogInv'
<1> USE DEF LogInv, taskVars, historyVars
<1>1. ASSUME NEW t, t.phase = "reading", IsUpdateTx(t) => t.expected >= 1,
             tx' = [tx EXCEPT ![s] = t], UNCHANGED <<taskVars, active, historyVars>>
      PROVE  LogInv'
  <2>1. \A r \in Sessions : tx'[r] = IF r = s THEN t ELSE tx[r]
    BY <1>1 DEF TypeOK
  <2>2. \A r \in Sessions : tx'[r].phase = "locked" => tx'[r] = tx[r]
    BY <2>1, <1>1
  <2>3. WithinVersion' /\ LogCoversWrites' /\ AssigneesAreActive'
    BY <1>1 DEF WithinVersion, LogCoversWrites, AssigneesAreActive
  <2>4. UpdatesAreBased'
    BY <1>1, <2>1 DEF UpdatesAreBased
  <2>5. ReplaysHoldRow'
    BY <1>1, <2>2 DEF ReplaysHoldRow
  <2>6. OperationsFollowWorkflow'
    BY <1>1, <2>2 DEF OperationsFollowWorkflow
  <2>7. ReplayMatchesColumns'
    BY <1>1, <2>2 DEF ReplayMatchesColumns
  <2>8. QED BY <2>3, <2>4, <2>5, <2>6, <2>7
<1>2. ASSUME NEW u \in Editors, NEW e \in Edits, NEW v \in 1..MaxVersion, BeginUpdate(s, u, e, v)
      PROVE  LogInv'
  <2> DEFINE t == [phase |-> "reading", kind |-> "update", actor |-> u,
                   expected |-> v, edit |-> e, seen |-> Snapshot]
  <2>1. t.phase = "reading" /\ t.expected >= 1
    BY BoundsAssumption
  <2>2. tx' = [tx EXCEPT ![s] = t] /\ UNCHANGED <<taskVars, active, historyVars>>
    BY <1>2 DEF BeginUpdate
  <2> HIDE DEF t
  <2>3. QED BY <2>1, <2>2, <1>1
<1>3. ASSUME NEW u \in Editors, NEW k \in {"undo", "redo"}, BeginReplay(s, u, k)
      PROVE  LogInv'
  <2> DEFINE t == [phase |-> "reading", kind |-> k, actor |-> u,
                   startedAt |-> clock', seen |-> Snapshot]
  <2>1. t.phase = "reading" /\ ~IsUpdateTx(t)
    BY DEF IsUpdateTx
  <2>2. tx' = [tx EXCEPT ![s] = t] /\ UNCHANGED <<taskVars, active, historyVars>>
    BY <1>3 DEF BeginReplay
  <2> HIDE DEF t
  <2>3. QED BY <2>1, <2>2, <1>1
<1>4. QED BY <1>2, <1>3

\* Taking the row lock: nobody else holds it, the operation is one of the
\* log, and its fields show what it left there.
LEMMA LockLogInv ==
  ASSUME LogInv, TypeOK', NEW s \in Sessions, LockReplay(s)
  PROVE  LogInv'
<1> USE DEF LogInv, taskVars, historyVars
<1>1. PICK o \in ops :
        /\ Replayable(tx[s], o)
        /\ tx' = [tx EXCEPT ![s] = [phase |-> "locked", kind |-> tx[s].kind, actor |-> tx[s].actor,
                                    startedAt |-> tx[s].startedAt, op |-> o]]
  BY DEF LockReplay
<1> DEFINE t == [phase |-> "locked", kind |-> tx[s].kind, actor |-> tx[s].actor,
                 startedAt |-> tx[s].startedAt, op |-> o]
<1>2. /\ life = "live" /\ \A r \in Sessions : tx[r].phase # "locked"
      /\ UNCHANGED <<taskVars, active, clock, historyVars>>
  BY DEF LockReplay, RowLocked
<1>3. tx'[s] = t /\ \A r \in Sessions : r # s => tx'[r] = tx[r]
  BY <1>1 DEF TypeOK
<1>4. t.phase = "locked" /\ t.op = o /\ t.kind = tx[s].kind /\ ~IsUpdateTx(t)
  BY DEF IsUpdateTx
<1>5. \A f \in o.fields \ JoinedFields : stored[f] = Expected(t.kind, o)[f]
  <2>1. ASSUME NEW f \in o.fields \ JoinedFields
        PROVE  stored[f] = Expected(t.kind, o)[f]
    <3>1. f \in Fields
      BY DEF TypeOK, IsOperation
    <3>2. LockedView(tx[s].seen)[f] = stored[f]
      BY <3>1 DEF LockedView
    <3>3. LockedView(tx[s].seen)[f] = Expected(t.kind, o)[f]
      BY <1>1, <1>4 DEF Replayable
    <3>4. QED BY <3>2, <3>3
  <2>2. QED BY <2>1
<1> HIDE DEF t
<1>6. WithinVersion' /\ LogCoversWrites' /\ AssigneesAreActive'
  BY <1>2 DEF WithinVersion, LogCoversWrites, AssigneesAreActive
<1>7. UpdatesAreBased'
  BY <1>3, <1>4 DEF UpdatesAreBased
<1>8. ReplaysHoldRow'
  BY <1>2, <1>3, <1>4 DEF ReplaysHoldRow, WithinVersion
<1>9. OperationsFollowWorkflow'
  BY <1>2, <1>3, <1>4 DEF OperationsFollowWorkflow
<1>10. ReplayMatchesColumns'
  BY <1>2, <1>3, <1>4, <1>5 DEF ReplayMatchesColumns
<1>11. QED BY <1>6, <1>7, <1>8, <1>9, <1>10

\* An accepted edit.
LEMMA UpdateLogInv ==
  ASSUME LogInv, TypeOK', NEW s \in Sessions, UpdateTask(s)
  PROVE  LogInv'
<1> USE DEF LogInv
<1> DEFINE t == tx[s]
           new == NewOperation(t)
<1>1. IsUpdateTx(t) /\ IsPartialTask(t.edit) /\ DOMAIN t.edit \subseteq Fields
  BY PhaseOfTx, RequestsAssumption DEF UpdateTask, TypeOK, TxOK, IsUpdateTx, IsPartialTask
<1>2. \A r \in Sessions : tx'[r].phase # "locked"
  BY EndKeepsOthers DEF UpdateTask, RowLocked
<1>3. \A r \in Sessions : IsUpdateTx(tx'[r]) => tx'[r] = tx[r]
  BY EndKeepsOthers DEF UpdateTask
<1>4. /\ version' = version + 1 /\ eventVersion' = version + 1
      /\ stored' = Overlay(stored, t.edit)
      /\ writtenAt' = [f \in Fields |->
                         IF f \in DOMAIN t.edit THEN version + 1 ELSE writtenAt[f]]
      /\ ops' = InvalidateRedo(t.actor) \cup {new}
      /\ life = "live" /\ UNCHANGED <<life, active>>
  BY DEF UpdateTask, Write
<1>5. /\ new.fields = DOMAIN t.edit /\ new.resulting = version + 1
      /\ new.last = version + 1 /\ new.after = t.edit
      /\ new.before = Part(LockedView(t.seen), DOMAIN t.edit)
  BY DEF NewOperation
<1>6. ASSUME NEW o \in ops
      PROVE  \E p \in ops' : p.fields = o.fields /\ p.last = o.last
  <2>1. CASE o.actor = t.actor /\ o.state = "UNDONE"
    <3>1. [o EXCEPT !.state = "INVALIDATED"] \in ops'
      BY <2>1, <1>4 DEF InvalidateRedo
    <3>2. /\ [o EXCEPT !.state = "INVALIDATED"].fields = o.fields
          /\ [o EXCEPT !.state = "INVALIDATED"].last = o.last
      BY DEF TypeOK, IsOperation
    <3>3. QED BY <3>1, <3>2
  <2>2. CASE ~(o.actor = t.actor /\ o.state = "UNDONE")
    BY <2>2, <1>4 DEF InvalidateRedo
  <2>3. QED BY <2>1, <2>2
<1>7. ASSUME NEW p \in ops', p # new
      PROVE  \E o \in ops : /\ p.fields = o.fields /\ p.last = o.last
                            /\ p.resulting = o.resulting
                            /\ p.before = o.before /\ p.after = o.after
  <2>1. PICK o \in ops :
          p = IF o.actor = t.actor /\ o.state = "UNDONE"
                THEN [o EXCEPT !.state = "INVALIDATED"] ELSE o
    BY <1>4, <1>7 DEF InvalidateRedo
  <2>2. QED BY <2>1 DEF TypeOK, IsOperation
<1>8. new \in ops'
  BY <1>4
<1> HIDE DEF new
<1>9. WithinVersion'
  <2>1. \A f \in Fields : writtenAt'[f] <= version'
    BY <1>4 DEF WithinVersion, TypeOK
  <2>2. ASSUME NEW p \in ops' PROVE p.resulting <= p.last /\ p.last <= version'
    <3>1. CASE p = new
      BY <3>1, <1>4, <1>5 DEF TypeOK
    <3>2. CASE p # new
      BY <3>2, <1>4, <1>7 DEF WithinVersion, TypeOK, IsOperation
    <3>3. QED BY <3>1, <3>2
  <2>3. QED BY <2>1, <2>2, <1>4 DEF WithinVersion, TypeOK
<1>10. UpdatesAreBased'
  BY <1>3 DEF UpdatesAreBased
<1>11. ReplaysHoldRow' /\ ReplayMatchesColumns'
  BY <1>2 DEF ReplaysHoldRow, ReplayMatchesColumns
<1>12. StepsInWorkflow(new)
  <2>1. SUFFICES ASSUME "status" \in DOMAIN t.edit
                 PROVE  CanTransition(new.before["status"], new.after["status"])
    BY <1>5 DEF StepsInWorkflow
  <2>2. new.before["status"] = LockedView(t.seen)["status"]
    BY <2>1, <1>5 DEF Part
  <2>3. Overlay(LockedView(t.seen), t.edit)["status"] = new.after["status"]
    BY <2>1, <1>5, StatusIsColumn DEF Overlay
  <2>4. QED BY <2>2, <2>3 DEF UpdateTask, UpdateAccepted
<1>13. OperationsFollowWorkflow'
  BY <1>2, <1>7, <1>12 DEF OperationsFollowWorkflow, StepsInWorkflow
<1>14. LogCoversWrites'
  <2>1. ASSUME NEW f \in Fields, writtenAt'[f] > 1
        PROVE  \E p \in ops' : f \in p.fields /\ p.last >= writtenAt'[f]
    <3>1. CASE f \in DOMAIN t.edit
      BY <3>1, <1>4, <1>5, <1>8 DEF TypeOK
    <3>2. CASE f \notin DOMAIN t.edit
      <4>1. writtenAt'[f] = writtenAt[f]
        BY <3>2, <1>4
      <4>2. PICK o \in ops : f \in o.fields /\ o.last >= writtenAt[f]
        BY <2>1, <4>1, <1>4 DEF LogCoversWrites
      <4>3. QED BY <4>1, <4>2, <1>6
    <3>3. QED BY <3>1, <3>2
  <2>2. QED BY <2>1 DEF LogCoversWrites
<1>15. AssigneesAreActive'
  <2>1. CASE "assigneeIds" \in DOMAIN t.edit
    <3>1. stored'["assigneeIds"] = t.edit["assigneeIds"]
      BY <2>1, <1>1, <1>4 DEF Overlay
    <3>2. Overlay(LockedView(t.seen), t.edit)["assigneeIds"] = t.edit["assigneeIds"]
      BY <2>1, <1>1 DEF Overlay
    <3>3. t.edit["assigneeIds"] \subseteq active
      BY <3>2 DEF UpdateTask, UpdateAccepted, AreProjectMembers
    <3>4. QED BY <3>1, <3>3, <1>4 DEF AssigneesAreActive
  <2>2. CASE "assigneeIds" \notin DOMAIN t.edit
    <3>1. stored'["assigneeIds"] = stored["assigneeIds"]
      BY <2>2, <1>4, AssigneeValues, JoinedAreFields DEF Overlay
    <3>2. resurrected' = resurrected
      BY <2>2 DEF UpdateTask
    <3>3. QED BY <3>1, <3>2, <1>4 DEF AssigneesAreActive
  <2>3. QED BY <2>1, <2>2
<1>16. QED BY <1>9, <1>10, <1>11, <1>13, <1>14, <1>15

\* What a committing replay finds and does.  The fields it writes are the
\* operation's, and the ones stored in the row show the expected values.
LEMMA CommitFacts ==
  ASSUME LogInv, NEW s \in Sessions, CommitReplay(s)
  PROVE  LET t      == tx[s]
             target == Target(t.kind, t.op)
         IN  /\ IsLockedTx(t) /\ IsOperation(t.op) /\ StepsInWorkflow(t.op)
             /\ DOMAIN target = t.op.fields /\ t.op.fields \subseteq Fields
             /\ life = "live" /\ UNCHANGED <<life, active>>
             /\ t.op.resulting <= t.op.last /\ t.op.last <= version
             /\ version' = version + 1 /\ eventVersion' = version + 1
             /\ stored' = Overlay(stored, target)
             /\ writtenAt' = [f \in Fields |->
                                IF f \in t.op.fields THEN version + 1 ELSE writtenAt[f]]
             /\ ops' = (ops \ {t.op}) \cup {Acted(t)}
             /\ \A f \in t.op.fields \ JoinedFields : stored[f] = Expected(t.kind, t.op)[f]
             /\ \A r \in Sessions : tx'[r].phase # "locked"
             /\ \A r \in Sessions : IsUpdateTx(tx'[r]) => tx'[r] = tx[r]
<1> USE DEF LogInv
<1> DEFINE t == tx[s]
           target == Target(t.kind, t.op)
<1>1. t.phase = "locked" /\ IsLockedTx(t)
  BY PhaseOfTx DEF CommitReplay, TypeOK, TxOK
<1>2. /\ IsOperation(t.op) /\ DOMAIN target = t.op.fields /\ t.op.fields \subseteq Fields
  BY <1>1, TargetType DEF IsLockedTx, IsOperation
<1>3. StepsInWorkflow(t.op)
  BY <1>1 DEF OperationsFollowWorkflow
<1>4. life = "live" /\ t.op.resulting <= t.op.last /\ t.op.last <= version
  BY <1>1 DEF ReplaysHoldRow
<1>5. \A f \in t.op.fields \ JoinedFields : stored[f] = Expected(t.kind, t.op)[f]
  BY <1>1 DEF ReplayMatchesColumns
<1>6. End(s) /\ Write(target) /\ UNCHANGED <<life, active>>
      /\ ops' = (ops \ {t.op}) \cup {Acted(t)}
  BY DEF CommitReplay
<1>7. /\ version' = version + 1 /\ eventVersion' = version + 1
      /\ stored' = Overlay(stored, target)
      /\ writtenAt' = [f \in Fields |->
                         IF f \in t.op.fields THEN version + 1 ELSE writtenAt[f]]
  BY <1>2, <1>6 DEF Write
<1>8. \A r \in Sessions : tx'[r].phase # "locked"
  BY <1>1, <1>6, EndKeepsOthers DEF ReplaysHoldRow
<1>9. \A r \in Sessions : IsUpdateTx(tx'[r]) => tx'[r] = tx[r]
  BY <1>6, EndKeepsOthers
<1>10. QED BY <1>1, <1>2, <1>3, <1>4, <1>5, <1>6, <1>7, <1>8, <1>9

\* A committing replay.
LEMMA CommitLogInv ==
  ASSUME LogInv, TypeOK', NEW s \in Sessions, CommitReplay(s)
  PROVE  LogInv'
<1> USE DEF LogInv
<1> DEFINE t == tx[s]
           o == t.op
           target == Target(t.kind, o)
           new == Acted(t)
<1>1. /\ IsOperation(o) /\ StepsInWorkflow(o)
      /\ DOMAIN target = o.fields /\ o.fields \subseteq Fields
      /\ life = "live" /\ UNCHANGED <<life, active>>
      /\ o.resulting <= o.last /\ o.last <= version
      /\ version' = version + 1 /\ eventVersion' = version + 1
      /\ stored' = Overlay(stored, target)
      /\ writtenAt' = [f \in Fields |-> IF f \in o.fields THEN version + 1 ELSE writtenAt[f]]
      /\ ops' = (ops \ {o}) \cup {new}
      /\ \A r \in Sessions : tx'[r].phase # "locked"
      /\ \A r \in Sessions : IsUpdateTx(tx'[r]) => tx'[r] = tx[r]
  BY CommitFacts
<1>2. /\ new.fields = o.fields /\ new.last = version + 1 /\ new.resulting = o.resulting
      /\ new.before = o.before /\ new.after = o.after
  BY <1>1 DEF Acted, IsOperation
<1>3. o.resulting \in Nat /\ o.last \in Nat
  BY <1>1 DEF IsOperation
<1> HIDE DEF new
<1>4. WithinVersion'
  <2>1. \A f \in Fields : writtenAt'[f] <= version'
    BY <1>1 DEF WithinVersion, TypeOK
  <2>2. ASSUME NEW p \in ops' PROVE p.resulting <= p.last /\ p.last <= version'
    <3>1. CASE p = new
      BY <3>1, <1>1, <1>2, <1>3 DEF TypeOK
    <3>2. CASE p \in ops
      BY <3>2, <1>1 DEF WithinVersion, TypeOK, IsOperation
    <3>3. QED BY <3>1, <3>2, <1>1
  <2>3. QED BY <2>1, <2>2, <1>1 DEF WithinVersion, TypeOK
<1>5. UpdatesAreBased'
  BY <1>1 DEF UpdatesAreBased
<1>6. ReplaysHoldRow' /\ ReplayMatchesColumns'
  BY <1>1 DEF ReplaysHoldRow, ReplayMatchesColumns
<1>7. OperationsFollowWorkflow'
  BY <1>1, <1>2 DEF OperationsFollowWorkflow, StepsInWorkflow
<1>8. LogCoversWrites'
  <2>1. ASSUME NEW f \in Fields, writtenAt'[f] > 1
        PROVE  \E p \in ops' : f \in p.fields /\ p.last >= writtenAt'[f]
    <3>1. CASE f \in o.fields
      BY <3>1, <1>1, <1>2 DEF TypeOK
    <3>2. CASE f \notin o.fields
      <4>1. writtenAt'[f] = writtenAt[f]
        BY <3>2, <1>1
      <4>2. PICK p \in ops : f \in p.fields /\ p.last >= writtenAt[f]
        BY <2>1, <4>1, <1>1 DEF LogCoversWrites
      <4>3. p \in ops'
        BY <3>2, <4>2, <1>1
      <4>4. QED BY <4>1, <4>2, <4>3
    <3>3. QED BY <3>1, <3>2
  <2>2. QED BY <2>1 DEF LogCoversWrites
<1>9. AssigneesAreActive'
  <2>1. CASE "assigneeIds" \in o.fields
    <3>1. stored'["assigneeIds"] = target["assigneeIds"]
      BY <2>1, <1>1 DEF Overlay
    <3>2. resurrected' = (resurrected \cap target["assigneeIds"]) \cup (Added(target) \ active)
      BY <2>1, <1>1 DEF CommitReplay
    <3>3. Added(target) = target["assigneeIds"] \ stored["assigneeIds"]
      BY <2>1, <1>1 DEF Added
    <3>4. QED BY <3>1, <3>2, <3>3, <1>1 DEF AssigneesAreActive
  <2>2. CASE "assigneeIds" \notin o.fields
    <3>1. stored'["assigneeIds"] = stored["assigneeIds"]
      BY <2>2, <1>1, AssigneeValues, JoinedAreFields DEF Overlay
    <3>2. resurrected' = resurrected
      BY <2>2, <1>1 DEF CommitReplay
    <3>3. QED BY <3>1, <3>2, <1>1 DEF AssigneesAreActive
  <2>3. QED BY <2>1, <2>2
<1>10. QED BY <1>4, <1>5, <1>6, <1>7, <1>8, <1>9

\* Deletion, suspension, reinstatement and the description channel.  Those
\* that touch a column wait for the row lock.
LEMMA OthersLogInv ==
  ASSUME LogInv, TypeOK'
  PROVE  /\ \A u \in Editors, v \in 1..MaxVersion : DeleteTask(u, v) => LogInv'
         /\ \A m \in Suspendable : SuspendMember(m) => LogInv'
         /\ \A m \in Suspendable : ReinstateMember(m) => LogInv'
         /\ \A f \in Projected, x \in Values : ProjectDescription(f, x) => LogInv'
<1> USE DEF LogInv, taskVars, historyVars
<1>1. ASSUME NEW u \in Editors, NEW v \in 1..MaxVersion, DeleteTask(u, v) PROVE LogInv'
  <2>1. \A s \in Sessions : tx[s].phase # "locked"
    BY <1>1 DEF DeleteTask, RowLocked
  <2>2. WithinVersion'
    BY <1>1 DEF DeleteTask, WithinVersion
  <2>3. UpdatesAreBased' /\ LogCoversWrites' /\ AssigneesAreActive'
    BY <1>1 DEF DeleteTask, UpdatesAreBased, LogCoversWrites, AssigneesAreActive
  <2>4. ReplaysHoldRow' /\ OperationsFollowWorkflow' /\ ReplayMatchesColumns'
    BY <1>1, <2>1 DEF DeleteTask, ReplaysHoldRow, OperationsFollowWorkflow, ReplayMatchesColumns
  <2>5. QED BY <2>2, <2>3, <2>4
<1>2. ASSUME NEW m \in Suspendable, SuspendMember(m) PROVE LogInv'
  <2>1. CASE life = "live" /\ m \in stored["assigneeIds"]
    <3>1. /\ version' = version + 1 /\ resurrected' = resurrected \ {m} /\ active' = active \ {m}
          /\ stored' = [stored EXCEPT !["assigneeIds"] = @ \ {m}]
          /\ \A s \in Sessions : tx[s].phase # "locked"
          /\ UNCHANGED <<life, ops, tx, clock, eventVersion, writtenAt>>
      BY <1>2, <2>1 DEF SuspendMember, RowLocked
    <3>2. WithinVersion'
      BY <2>1, <3>1 DEF WithinVersion, TypeOK, IsOperation
    <3>3. UpdatesAreBased' /\ LogCoversWrites'
      BY <3>1 DEF UpdatesAreBased, LogCoversWrites
    <3>4. ReplaysHoldRow' /\ OperationsFollowWorkflow' /\ ReplayMatchesColumns'
      BY <3>1 DEF ReplaysHoldRow, OperationsFollowWorkflow, ReplayMatchesColumns
    <3>5. stored'["assigneeIds"] = stored["assigneeIds"] \ {m}
      BY <3>1, AssigneeValues, JoinedAreFields DEF TypeOK
    <3>6. AssigneesAreActive'
      BY <2>1, <3>1, <3>5 DEF AssigneesAreActive
    <3>7. QED BY <3>2, <3>3, <3>4, <3>6
  <2>2. CASE ~(life = "live" /\ m \in stored["assigneeIds"])
    <3>1. /\ UNCHANGED <<stored, version, resurrected, life, ops, tx, clock, eventVersion, writtenAt>>
          /\ active' = active \ {m}
      BY <1>2, <2>2 DEF SuspendMember
    <3>2. WithinVersion' /\ UpdatesAreBased' /\ LogCoversWrites'
      BY <3>1 DEF WithinVersion, UpdatesAreBased, LogCoversWrites
    <3>3. ReplaysHoldRow' /\ OperationsFollowWorkflow' /\ ReplayMatchesColumns'
      BY <3>1 DEF ReplaysHoldRow, OperationsFollowWorkflow, ReplayMatchesColumns
    <3>4. AssigneesAreActive'
      BY <2>2, <3>1 DEF AssigneesAreActive
    <3>5. QED BY <3>2, <3>3, <3>4
  <2>3. QED BY <2>1, <2>2
<1>3. ASSUME NEW m \in Suspendable, ReinstateMember(m) PROVE LogInv'
  <2>1. active' = active \cup {m} /\ UNCHANGED <<taskVars, tx, clock, historyVars>>
    BY <1>3 DEF ReinstateMember
  <2>2. WithinVersion' /\ UpdatesAreBased' /\ LogCoversWrites' /\ AssigneesAreActive'
    BY <2>1 DEF WithinVersion, UpdatesAreBased, LogCoversWrites, AssigneesAreActive
  <2>3. ReplaysHoldRow' /\ OperationsFollowWorkflow' /\ ReplayMatchesColumns'
    BY <2>1 DEF ReplaysHoldRow, OperationsFollowWorkflow, ReplayMatchesColumns
  <2>4. QED BY <2>2, <2>3
<1>4. ASSUME NEW f \in Projected, NEW x \in Values, ProjectDescription(f, x) PROVE LogInv'
  <2>1. /\ stored' = [stored EXCEPT ![f] = x]
        /\ \A s \in Sessions : tx[s].phase # "locked"
        /\ UNCHANGED <<life, version, ops, active, tx, clock, historyVars>>
    BY <1>4 DEF ProjectDescription, RowLocked
  <2>2. stored'["assigneeIds"] = stored["assigneeIds"]
    BY <2>1, ProjectedValues, AssigneeValues, JoinedAreFields DEF TypeOK
  <2>3. WithinVersion' /\ UpdatesAreBased' /\ LogCoversWrites' /\ AssigneesAreActive'
    BY <2>1, <2>2 DEF WithinVersion, UpdatesAreBased, LogCoversWrites, AssigneesAreActive
  <2>4. ReplaysHoldRow' /\ OperationsFollowWorkflow' /\ ReplayMatchesColumns'
    BY <2>1 DEF ReplaysHoldRow, OperationsFollowWorkflow, ReplayMatchesColumns
  <2>5. QED BY <2>3, <2>4
<1>5. QED BY <1>1, <1>2, <1>3, <1>4

LEMMA NextLogInv == LogInv /\ [Next]_vars => LogInv'
<1> SUFFICES ASSUME LogInv, [Next]_vars PROVE LogInv'
  OBVIOUS
<1>1. TypeOK'
  BY NextType DEF LogInv
<1>2. CASE Next
  BY <1>1, <1>2, CreateLogInv, BeginsLogInv, UpdateLogInv, EndLogInv, LockLogInv,
     CommitLogInv, OthersLogInv
     DEF Next, RejectUpdate, RejectReplay, Abort
<1>3. CASE UNCHANGED vars
  BY <1>3 DEF vars, taskVars, historyVars, LogInv, TypeOK, WithinVersion, UpdatesAreBased,
     ReplaysHoldRow, OperationsFollowWorkflow, LogCoversWrites, ReplayMatchesColumns,
     AssigneesAreActive
<1>4. QED BY <1>2, <1>3

LEMMA LogInvariant == Spec => []LogInv
BY InitLogInv, NextLogInv, PTL DEF Spec

\* The operation log accounts for the last write of every field, so that a
\* stale edit compared with the log is compared with every write.
THEOREM LogCovers == Spec => []LogCoversWrites
BY LogInvariant, PTL DEF LogInv

\* From its comparison to its inverse write, a replay's columns stand still.
THEOREM ReplaysMatch == Spec => []ReplayMatchesColumns
BY LogInvariant, PTL DEF LogInv

\* Only a stale membership check of a replay assigns a member who is not ACTIVE.
THEOREM AssigneesActive == Spec => []AssigneesAreActive
BY LogInvariant, PTL DEF LogInv

\* An operation that a write of one of its fields did not come from was last
\* acted on before that write.
LEMMA OlderThanWrite ==
  ASSUME LogInv, TypeOK', version' = version + 1, NEW D,
         writtenAt' = [f \in Fields |-> IF f \in D THEN version + 1 ELSE writtenAt[f]],
         NEW o \in ops, NEW f \in Fields, writtenAt'[f] = o.last
  PROVE  f \notin D /\ writtenAt[f] = o.last
<1>1. o.last \in Nat /\ o.last <= version /\ version \in Nat
  BY DEF LogInv, WithinVersion, TypeOK, IsOperation
<1>2. QED BY <1>1

\* An edit leaves its own operation showing, and takes no other's fields
\* without leaving it behind.
LEMMA UpdateShows ==
  ASSUME LogInv, UntouchedOperationShows, TypeOK', NEW s \in Sessions, UpdateTask(s)
  PROVE  UntouchedOperationShows'
<1> DEFINE t == tx[s]
           new == NewOperation(t)
<1>1. IsUpdateTx(t) /\ IsPartialTask(t.edit) /\ DOMAIN t.edit \subseteq Fields
  BY PhaseOfTx, RequestsAssumption DEF UpdateTask, LogInv, TypeOK, TxOK, IsUpdateTx, IsPartialTask
<1>2. /\ version' = version + 1 /\ stored' = Overlay(stored, t.edit)
      /\ writtenAt' = [f \in Fields |->
                         IF f \in DOMAIN t.edit THEN version + 1 ELSE writtenAt[f]]
      /\ ops' = InvalidateRedo(t.actor) \cup {new} /\ life = "live"
  BY DEF UpdateTask, Write
<1>3. new.fields = DOMAIN t.edit /\ new.after = t.edit /\ new.state = "ACTIVE"
  BY DEF NewOperation
<1> HIDE DEF new
<1>4. ASSUME NEW p \in ops', p # new, NEW f \in p.fields \ (Projected \cup {"assigneeIds"}),
             writtenAt'[f] = p.last
      PROVE  /\ p.state = "ACTIVE" => stored'[f] = p.after[f]
             /\ p.state = "UNDONE" => stored'[f] = p.before[f]
  <2>1. PICK o \in ops :
          p = IF o.actor = t.actor /\ o.state = "UNDONE"
                THEN [o EXCEPT !.state = "INVALIDATED"] ELSE o
    BY <1>2, <1>4 DEF InvalidateRedo
  <2>2. IsOperation(o)
    BY DEF LogInv, TypeOK
  <2>3. /\ p.fields = o.fields /\ p.last = o.last
        /\ p = o \/ p.state = "INVALIDATED"
    BY <2>1, <2>2 DEF IsOperation
  <2>4. f \in Fields /\ f \in o.fields
    BY <1>4, <2>2, <2>3 DEF IsOperation
  <2>5. f \notin DOMAIN t.edit /\ writtenAt[f] = o.last
    BY <1>2, <1>4, <2>3, <2>4, OlderThanWrite
  <2>6. stored'[f] = stored[f]
    BY <1>2, <2>4, <2>5 DEF Overlay
  <2>7. /\ o.state = "ACTIVE" => stored[f] = o.after[f]
        /\ o.state = "UNDONE" => stored[f] = o.before[f]
    BY <1>2, <1>4, <2>4, <2>5 DEF UntouchedOperationShows
  <2>8. QED BY <2>3, <2>6, <2>7
<1>5. \A f \in new.fields : stored'[f] = new.after[f]
  BY <1>1, <1>2, <1>3 DEF Overlay
<1>6. QED BY <1>3, <1>4, <1>5 DEF UntouchedOperationShows

\* An undo leaves the before-state of its operation, a redo the after-state.
LEMMA CommitShows ==
  ASSUME LogInv, UntouchedOperationShows, TypeOK', NEW s \in Sessions, CommitReplay(s)
  PROVE  UntouchedOperationShows'
<1> DEFINE t == tx[s]
           o == t.op
           target == Target(t.kind, o)
           new == Acted(t)
<1>1. /\ IsLockedTx(t) /\ IsOperation(o) /\ DOMAIN target = o.fields /\ o.fields \subseteq Fields
      /\ life = "live" /\ version' = version + 1 /\ stored' = Overlay(stored, target)
      /\ writtenAt' = [f \in Fields |-> IF f \in o.fields THEN version + 1 ELSE writtenAt[f]]
      /\ ops' = (ops \ {o}) \cup {new}
  BY CommitFacts
<1>2. /\ new.fields = o.fields /\ new.before = o.before /\ new.after = o.after
      /\ new.state = IF t.kind = "undo" THEN "UNDONE" ELSE "ACTIVE"
  BY <1>1 DEF Acted, IsOperation, ToState
<1>3. \A f \in o.fields : stored'[f] = target[f]
  BY <1>1 DEF Overlay
<1>4. target = IF t.kind = "undo" THEN o.before ELSE o.after
  BY DEF Target
<1> HIDE DEF new, target
<1>5. ASSUME NEW p \in ops, NEW f \in p.fields \ (Projected \cup {"assigneeIds"}),
             writtenAt'[f] = p.last
      PROVE  /\ p.state = "ACTIVE" => stored'[f] = p.after[f]
             /\ p.state = "UNDONE" => stored'[f] = p.before[f]
  <2>1. f \in Fields
    BY <1>5 DEF LogInv, TypeOK, IsOperation
  <2>2. f \notin o.fields /\ writtenAt[f] = p.last
    BY <1>1, <1>5, <2>1, OlderThanWrite
  <2>3. stored'[f] = stored[f]
    BY <1>1, <2>1, <2>2 DEF Overlay
  <2>4. QED BY <1>1, <1>5, <2>2, <2>3 DEF UntouchedOperationShows
<1>6. QED BY <1>1, <1>2, <1>3, <1>4, <1>5 DEF UntouchedOperationShows

\* The other transactions write the assignees or the description only.
LEMMA OthersShow ==
  ASSUME LogInv, UntouchedOperationShows
  PROVE  /\ \A m \in Suspendable : SuspendMember(m) => UntouchedOperationShows'
         /\ \A f \in Projected, x \in Values : ProjectDescription(f, x) => UntouchedOperationShows'
<1>1. ASSUME NEW m \in Suspendable, SuspendMember(m) PROVE UntouchedOperationShows'
  <2>1. /\ UNCHANGED <<life, ops, writtenAt>>
        /\ stored' = stored \/ stored' = [stored EXCEPT !["assigneeIds"] = stored["assigneeIds"] \ {m}]
    BY <1>1 DEF SuspendMember
  <2>2. \A f \in Fields \ {"assigneeIds"} : stored'[f] = stored[f]
    BY <2>1 DEF LogInv, TypeOK
  <2>3. QED BY <2>1, <2>2 DEF UntouchedOperationShows, LogInv, TypeOK, IsOperation
<1>2. ASSUME NEW g \in Projected, NEW x \in Values, ProjectDescription(g, x)
      PROVE  UntouchedOperationShows'
  <2>1. /\ UNCHANGED <<life, ops, writtenAt>> /\ stored' = [stored EXCEPT ![g] = x]
    BY <1>2 DEF ProjectDescription, historyVars
  <2>2. \A f \in Fields \ Projected : stored'[f] = stored[f]
    BY <2>1 DEF LogInv, TypeOK
  <2>3. QED BY <2>1, <2>2 DEF UntouchedOperationShows, LogInv, TypeOK, IsOperation
<1>3. QED BY <1>1, <1>2

\* A replay is refused with OPERATION_CONFLICT only after another write of one
\* of its fields: as long as nobody writes a field, the operation that acted on
\* it last shows there, and undo and redo find what they compare with.
THEOREM OperationsShow == Spec => []UntouchedOperationShows
<1>1. Init => UntouchedOperationShows
  BY DEF Init, UntouchedOperationShows
<1>2. LogInv /\ UntouchedOperationShows /\ [Next]_vars => UntouchedOperationShows'
  <2> SUFFICES ASSUME LogInv, UntouchedOperationShows, [Next]_vars PROVE UntouchedOperationShows'
    OBVIOUS
  <2>1. TypeOK'
    BY NextType DEF LogInv
  <2>2. CASE UNCHANGED <<life, ops, stored, writtenAt>>
    BY <2>2 DEF UntouchedOperationShows
  <2>3. CASE \E u \in Editors, t \in Creations : CreateTask(u, t)
    BY <2>3 DEF CreateTask, UntouchedOperationShows, LogInv, WithinVersion
  <2>4. CASE \E s \in Sessions : UpdateTask(s)
    BY <2>1, <2>4, UpdateShows
  <2>5. CASE \E s \in Sessions : CommitReplay(s)
    BY <2>1, <2>5, CommitShows
  <2>6. CASE \E u \in Editors, v \in 1..MaxVersion : DeleteTask(u, v)
    BY <2>6 DEF DeleteTask, UntouchedOperationShows
  <2>7. CASE \/ \E m \in Suspendable : SuspendMember(m)
             \/ \E f \in Projected, x \in Values : ProjectDescription(f, x)
    BY <2>7, OthersShow
  <2>8. QED
    BY <2>2, <2>3, <2>4, <2>5, <2>6, <2>7
       DEF Next, vars, taskVars, historyVars, BeginUpdate, RejectUpdate, BeginReplay, LockReplay,
           RejectReplay, Abort, ReinstateMember
<1>3. QED BY <1>1, <1>2, LogInvariant, PTL DEF Spec

\* Only the edit itself both ends an edit's transaction and moves the version.
LEMMA CommitIsUpdate ==
  ASSUME LogInv, [Next]_vars, NEW s \in Sessions, UpdateCommits(s)
  PROVE  UpdateTask(s)
<1> USE DEF LogInv, taskVars, historyVars
<1>1. IsUpdateTx(tx[s]) /\ tx[s] # Idle /\ tx'[s] = Idle /\ version' # version
  BY PhaseOfTx DEF UpdateCommits, TypeOK, TxOK
<1>2. ASSUME NEW r \in Sessions, CommitReplay(r) PROVE FALSE
  <2>1. r # s
    BY <1>1, <1>2, PhaseOfTx DEF CommitReplay, TypeOK, TxOK
  <2>2. QED BY <1>1, <1>2, <2>1 DEF CommitReplay, End, TypeOK
<1>3. ASSUME NEW r \in Sessions, UpdateTask(r) PROVE r = s
  BY <1>1, <1>3 DEF UpdateTask, End, TypeOK
<1>4. QED
  BY <1>1, <1>2, <1>3
     DEF Next, vars, CreateTask, BeginUpdate, RejectUpdate, BeginReplay, LockReplay, RejectReplay,
         Abort, DeleteTask, SuspendMember, ReinstateMember, ProjectDescription

\* No accepted edit overwrites a field written after the version it was based
\* on: had one been, the log would hold an operation on that field with a
\* newer last action, and the edit would have been refused.
THEOREM NoStaleOverwrites == Spec => NoStaleOverwrite
<1>1. ASSUME LogInv, [Next]_vars, NEW s \in Sessions, UpdateCommits(s), NEW f \in DOMAIN tx[s].edit
      PROVE  writtenAt[f] <= tx[s].expected
  <2> USE DEF LogInv
  <2>1. UpdateTask(s)
    BY <1>1, CommitIsUpdate
  <2>2. /\ IsUpdateTx(tx[s]) /\ tx[s].expected \in Nat /\ tx[s].expected >= 1
        /\ f \in Fields /\ life = "live" /\ UpdateAccepted(tx[s])
    BY <1>1, <2>1, PhaseOfTx, RequestsAssumption
       DEF UpdateTask, TypeOK, TxOK, IsUpdateTx, UpdatesAreBased, IsPartialTask
  <2>3. CASE tx[s].expected = version
    BY <1>1, <2>2, <2>3 DEF WithinVersion
  <2>4. CASE tx[s].expected < version
    <3>1. SUFFICES ASSUME writtenAt[f] > tx[s].expected PROVE FALSE
      BY <1>1, <2>2 DEF TypeOK
    <3>2. writtenAt[f] \in Nat /\ writtenAt[f] > 1
      BY <1>1, <2>2, <3>1 DEF TypeOK
    <3>3. PICK o \in ops : f \in o.fields /\ o.last >= writtenAt[f]
      BY <1>1, <2>2, <3>2 DEF LogCoversWrites
    <3>4. o.last > tx[s].expected
      BY <1>1, <2>2, <3>1, <3>2, <3>3 DEF TypeOK, IsOperation
    <3>5. o.fields \cap DOMAIN tx[s].edit = {}
      BY <2>2, <2>4, <3>4 DEF UpdateAccepted, TaskOperationsAfter
    <3>6. QED BY <1>1, <3>3, <3>5
  <2>5. QED BY <1>1, <2>2, <2>3, <2>4 DEF UpdateAccepted, TypeOK
<1>2. LogInv /\ [Next]_vars =>
        [\A s \in Sessions :
           UpdateCommits(s) =>
             \A f \in DOMAIN tx[s].edit : writtenAt[f] <= tx[s].expected]_vars
  BY <1>1
<1>3. QED BY <1>2, LogInvariant, PTL DEF Spec, NoStaleOverwrite

\* Every change of the status is a step of the workflow.  An undo or redo
\* takes the step of its operation, or that step backwards, from the value the
\* operation left; the workflow is symmetric.
THEOREM StatusSteps == Spec => StatusFollowsWorkflow
<1>1. ASSUME LogInv, [Next]_vars, life = "live", life' = "live"
      PROVE  CanTransition(stored["status"], stored'["status"])
  <2> USE DEF LogInv, taskVars, historyVars
  <2>1. CASE stored'["status"] = stored["status"]
    BY <2>1 DEF CanTransition
  <2>2. ASSUME NEW s \in Sessions, UpdateTask(s)
        PROVE  CanTransition(stored["status"], stored'["status"])
    <3>1. LockedView(tx[s].seen)["status"] = stored["status"]
      BY StatusIsColumn DEF LockedView
    <3>2. Overlay(LockedView(tx[s].seen), tx[s].edit)["status"] = stored'["status"]
      BY <2>2, <3>1, StatusIsColumn DEF UpdateTask, Write, Overlay
    <3>3. QED BY <2>2, <3>1, <3>2 DEF UpdateTask, UpdateAccepted
  <2>3. ASSUME NEW s \in Sessions, CommitReplay(s)
        PROVE  CanTransition(stored["status"], stored'["status"])
    <3> DEFINE o == tx[s].op
    <3>1. /\ StepsInWorkflow(o) /\ DOMAIN Target(tx[s].kind, o) = o.fields
          /\ stored' = Overlay(stored, Target(tx[s].kind, o))
          /\ \A f \in o.fields \ JoinedFields : stored[f] = Expected(tx[s].kind, o)[f]
      BY <1>1, <2>3, CommitFacts
    <3>2. CASE "status" \in o.fields
      <4>1. /\ stored["status"] = Expected(tx[s].kind, o)["status"]
            /\ stored'["status"] = Target(tx[s].kind, o)["status"]
            /\ CanTransition(o.before["status"], o.after["status"])
        BY <3>1, <3>2, StatusIsColumn DEF Overlay, StepsInWorkflow
      <4>2. CanTransition(o.after["status"], o.before["status"])
        BY <4>1, WorkflowIsSymmetric
      <4>3. QED BY <4>1, <4>2 DEF Expected, Target
    <3>3. CASE "status" \notin o.fields
      BY <3>1, <3>3, StatusIsColumn DEF Overlay, CanTransition
    <3>4. QED BY <3>2, <3>3
  <2>4. ASSUME NEW f \in Projected, NEW x \in Values, ProjectDescription(f, x)
        PROVE  stored'["status"] = stored["status"]
    BY <1>1, <2>4, ProjectedValues, StatusIsColumn DEF ProjectDescription, TypeOK
  <2>5. ASSUME NEW m \in Suspendable, SuspendMember(m)
        PROVE  stored'["status"] = stored["status"]
    BY <1>1, <2>5, StatusIsColumn DEF SuspendMember, TypeOK
  <2>6. QED
    BY <1>1, <2>1, <2>2, <2>3, <2>4, <2>5
       DEF Next, vars, CreateTask, BeginUpdate, RejectUpdate, BeginReplay, LockReplay,
           RejectReplay, Abort, DeleteTask, ReinstateMember
<1>2. LogInv /\ [Next]_vars =>
        [life = "live" /\ life' = "live" =>
           CanTransition(stored["status"], stored'["status"])]_vars
  BY <1>1
<1>3. QED BY <1>2, LogInvariant, PTL DEF Spec, StatusFollowsWorkflow

\* Versions in the task's events only rise.
THEOREM EventsRise == Spec => EventVersionsRise
<1>1. ASSUME LogInv, [Next]_vars
      PROVE  UNCHANGED <<eventVersion, life>> \/ eventVersion' > eventVersion
  <2> USE DEF LogInv, taskVars, historyVars, WithinVersion, TypeOK
  <2>1. ASSUME NEW s \in Sessions, CommitReplay(s) PROVE eventVersion' > eventVersion
    BY <1>1, <2>1, CommitFacts
  <2>2. ASSUME NEW s \in Sessions, UpdateTask(s) PROVE eventVersion' > eventVersion
    BY <1>1, <2>2 DEF UpdateTask, Write
  <2>3. ASSUME NEW u \in Editors, NEW v \in 1..MaxVersion, DeleteTask(u, v)
        PROVE  eventVersion' > eventVersion
    BY <1>1, <2>3 DEF DeleteTask, DeletedVersion
  <2>4. ASSUME NEW u \in Editors, NEW t \in Creations, CreateTask(u, t)
        PROVE  eventVersion' > eventVersion
    BY <1>1, <2>4 DEF CreateTask
  <2>5. QED
    BY <1>1, <2>1, <2>2, <2>3, <2>4
       DEF Next, vars, BeginUpdate, RejectUpdate, BeginReplay, LockReplay, RejectReplay, Abort,
           SuspendMember, ReinstateMember, ProjectDescription
<1>2. LogInv /\ [Next]_vars =>
        [UNCHANGED <<eventVersion, life>> \/ eventVersion' > eventVersion]_vars
  BY <1>1
<1>3. QED BY <1>2, LogInvariant, PTL DEF Spec, EventVersionsRise

=============================================================================
