----------------------------- MODULE TaskCache -----------------------------
(***************************************************************************)
(* The query cache of the web application: the entry of a task's detail    *)
(* panel and the list of the project's tasks, written by requests, by      *)
(* optimistic edits and their roll-back, and by the events of the stream   *)
(* (apps/web/features/tasks/query-cache.ts, task-detail-panel.tsx,         *)
(* task-board.tsx, task-list.tsx, workspace-shell.tsx, and applyEvent of   *)
(* apps/web/features/realtime/use-project-events.ts).                      *)
(*                                                                         *)
(* Answers arrive in any order.  A task is its version and a count of its  *)
(* dependency changes, which leave the version alone.  The list is one     *)
(* page: rows[t] holds the rows of task t, in no order.                    *)
(***************************************************************************)
EXTENDS Naturals, Sequences, FiniteSets

CONSTANTS
  Tasks,            \* tasks of the project
  MaxEvents,        \* changes of the project
  MaxOwn,           \* mutations of this user
  MaxReads          \* reads the user causes, and bootstraps read again

ASSUME CacheAssumption ==
  /\ IsFiniteSet(Tasks)
  /\ MaxEvents \in Nat /\ MaxOwn \in Nat /\ MaxReads \in Nat

VARIABLES
  \* the server: its tasks and the project's events
  server, log,
  \* the cache, and the requests that fill it
  detail, rows, total, detailFetch, listFetch,
  \* mutations under way, by kind; the last event applied
  slot, cursor,
  own, reads,
  \* history: the tasks an answer that was overtaken, a refetch that was given
  \* up or a jump of the cursor has left behind
  detailBehind, listBehind

serverVars == <<server, log>>
cacheVars == <<detail, rows, total>>
fetchVars == <<detailFetch, listFetch>>
behindVars == <<detailBehind, listBehind>>
vars == <<serverVars, cacheVars, fetchVars, slot, cursor, own, reads, behindVars>>

\* update of the panel, updateStatus of the board, undo and redo, addDependency,
\* removeDependency, deleteTask and createTask; each control is disabled while
\* its own is pending, but a row of the board can be dragged meanwhile.
Moves == {"move", "drag"}
Kinds == Moves \cup {"edit", "replay", "link", "unlink", "delete", "create"}

Absent == [kind |-> "absent"]
Entry(version, deps, sync) == [kind |-> "task", version |-> version, deps |-> deps, sync |-> sync]
Marked(entry, sync) == [entry EXCEPT !.sync = sync]

Free == [phase |-> "free"]
Idle == [phase |-> "idle"]
Asked == [phase |-> "asked"]

Shown(t) == Entry(server[t].version, server[t].deps, "synced")

-----------------------------------------------------------------------------
(* What an answer says may have been overtaken by the events applied since *)

AppliedSince(at) == {log[i].task : i \in (at + 1)..cursor}

\* The tasks are behind, or up to date again.
Judge(behind, ts, stale) == (behind \ ts) \cup stale

-----------------------------------------------------------------------------
(* The server *)

Commit(t, kind, task) ==
  /\ Len(log) < MaxEvents
  /\ server' = [server EXCEPT ![t] = task]
  /\ log' = Append(log, [task |-> t, kind |-> kind, version |-> task.version, deps |-> task.deps])

Live(t) == server[t].life = "live"

Updated(t) == [server[t] EXCEPT !.version = @ + 1]
Linked(t) == [server[t] EXCEPT !.deps = @ + 1]
Deleted(t) == [Updated(t) EXCEPT !.life = "deleted"]
Created == [version |-> 1, deps |-> 0, life |-> "live"]

OthersChange(t) ==
  /\ \/ Live(t) /\ (Commit(t, "updated", Updated(t)) \/ Commit(t, "dependency", Linked(t))
                      \/ Commit(t, "deleted", Deleted(t)))
     \/ server[t].life = "unborn" /\ Commit(t, "created", Created)
  /\ UNCHANGED <<cacheVars, fetchVars, slot, cursor, own, reads, behindVars>>

Answered(kind, status, entry, at) ==
  slot' = [slot EXCEPT ![kind] = [@ EXCEPT !.phase = status, !.entry = entry, !.at = at]]

\* An edit from an older version is merged or refused; a deletion is refused.
Accepts(m) ==
  CASE m.kind = "create" -> server[m.task].life = "unborn"
    [] m.kind = "delete" -> Live(m.task) /\ m.expected = server[m.task].version
    [] OTHER -> Live(m.task)

Result(m) ==
  CASE m.kind = "create" -> Created
    [] m.kind = "delete" -> Deleted(m.task)
    [] m.kind \in {"link", "unlink"} -> Linked(m.task)
    [] OTHER -> Updated(m.task)

EventKind(m) ==
  CASE m.kind = "create" -> "created" [] m.kind = "delete" -> "deleted"
    [] m.kind \in {"link", "unlink"} -> "dependency" [] OTHER -> "updated"

Serve(kind) ==
  /\ slot[kind].phase = "sent"
  /\ LET m == slot[kind]
     IN  /\ Accepts(m)
         /\ Commit(m.task, EventKind(m), Result(m))
         /\ Answered(kind, "ok", Entry(Result(m).version, Result(m).deps, "synced"), Len(log) + 1)
  /\ UNCHANGED <<cacheVars, fetchVars, cursor, own, reads, behindVars>>

\* A conflict, another refusal, or no connection; only the panel tells them apart.
Refuse(kind) ==
  /\ slot[kind].phase = "sent"
  /\ \E status \in IF kind = "edit" THEN {"conflict", "error"} ELSE {"error"} :
       Answered(kind, status, Absent, 0)
  /\ UNCHANGED <<serverVars, cacheVars, fetchVars, cursor, own, reads, behindVars>>

-----------------------------------------------------------------------------
(* Reads *)

\* A query that is invalidated asks again, and gives up what it had asked; one
\* without data goes on with its request.
Invalidated(fetch, cached) == IF cached THEN Asked ELSE fetch

OpenTask(t) ==
  /\ reads < MaxReads /\ reads' = reads + 1
  /\ detailFetch[t] = Idle
  /\ detailFetch' = [detailFetch EXCEPT ![t] = Asked]
  /\ UNCHANGED <<serverVars, cacheVars, listFetch, slot, cursor, own, behindVars>>

ReloadList ==
  /\ reads < MaxReads /\ reads' = reads + 1
  /\ listFetch = Idle
  /\ listFetch' = Asked
  /\ UNCHANGED <<serverVars, cacheVars, detailFetch, slot, cursor, own, behindVars>>

ServeDetail(t) ==
  /\ detailFetch[t] = Asked
  /\ detailFetch' = [detailFetch EXCEPT ![t] =
       IF Live(t) THEN [phase |-> "read", at |-> Len(log), entry |-> Shown(t)] ELSE Idle]
  /\ UNCHANGED <<serverVars, cacheVars, listFetch, slot, cursor, own, reads, behindVars>>

ServeList ==
  /\ listFetch = Asked
  /\ listFetch' = [phase |-> "read", at |-> Len(log),
                   rows |-> [t \in Tasks |-> IF Live(t) THEN <<Shown(t)>> ELSE <<>>]]
  /\ UNCHANGED <<serverVars, cacheVars, detailFetch, slot, cursor, own, reads, behindVars>>

DetailArrives(t) ==
  /\ detailFetch[t].phase = "read"
  /\ detail' = [detail EXCEPT ![t] = detailFetch[t].entry]
  /\ detailBehind' = Judge(detailBehind, {t}, {t} \cap AppliedSince(detailFetch[t].at))
  /\ detailFetch' = [detailFetch EXCEPT ![t] = Idle]
  /\ UNCHANGED <<serverVars, rows, total, listFetch, slot, cursor, own, reads, listBehind>>

CountOf(rs) == Cardinality({t \in Tasks : rs[t] # <<>>})

ListArrives ==
  /\ listFetch.phase = "read"
  /\ rows' = listFetch.rows
  /\ total' = CountOf(listFetch.rows)
  /\ listBehind' = AppliedSince(listFetch.at)
  /\ listFetch' = Idle
  /\ UNCHANGED <<serverVars, detail, detailFetch, slot, cursor, own, reads, detailBehind>>

-----------------------------------------------------------------------------
(* Writes of the cache: query-cache.ts *)

Everywhere(t, entry) == [rows EXCEPT ![t] = [i \in DOMAIN @ |-> entry]]

PatchTask(t, entry) ==
  /\ detail' = [detail EXCEPT ![t] = entry]
  /\ rows' = Everywhere(t, entry)
  /\ UNCHANGED total

\* Faulty: a task that is in the list gets a second row.
PrependAlways(t, entry) ==
  /\ rows' = [rows EXCEPT ![t] = <<entry>> \o @]
  /\ total' = total + 1

\* A task that is in the list is replaced, another is put in front.
Prepend(t, entry) ==
  IF rows[t] # <<>> THEN rows' = Everywhere(t, entry) /\ UNCHANGED total
  ELSE rows' = [rows EXCEPT ![t] = <<entry>>] /\ total' = total + 1

PrependTask(t, entry) ==
  /\ detail' = [detail EXCEPT ![t] = entry]
  /\ Prepend(t, entry)

RemoveTask(t) ==
  /\ detail' = [detail EXCEPT ![t] = Absent]
  /\ rows' = [rows EXCEPT ![t] = <<>>]
  /\ total' = IF rows[t] # <<>> THEN total - 1 ELSE total

\* What is written to both entries leaves them behind, or the rows there are not.
Behind(t, stale) ==
  /\ detailBehind' = Judge(detailBehind, {t}, stale)
  /\ listBehind' = Judge(listBehind, IF rows[t] # <<>> THEN {t} ELSE {}, stale)

-----------------------------------------------------------------------------
(* Mutations *)

Begin(kind, t, expected, previous, stale) ==
  /\ own < MaxOwn /\ own' = own + 1
  /\ slot[kind] = Free
  /\ slot' = [slot EXCEPT ![kind] =
       [phase |-> "sent", kind |-> kind, task |-> t, expected |-> expected, previous |-> previous,
        since |-> cursor, stale |-> stale, entry |-> Absent, at |-> 0]]

\* A refetch that is given up is not asked for again.
CancelDetail(t) ==
  /\ detailFetch' = [detailFetch EXCEPT ![t] = Idle]
  /\ detailBehind' = IF detailFetch[t] = Idle THEN detailBehind ELSE detailBehind \cup {t}

\* The panel patches what it shows and marks it as pending.
BeginEdit(t) ==
  /\ detail[t] # Absent
  /\ Begin("edit", t, detail[t].version, detail[t], t \in detailBehind \/ detailFetch[t] # Idle)
  /\ CancelDetail(t)
  /\ PatchTask(t, Marked(detail[t], "pending"))
  /\ listBehind' = IF t \in detailBehind' THEN listBehind \cup {t} ELSE listBehind
  /\ UNCHANGED <<serverVars, listFetch, cursor, reads>>

BeginLink(t) ==
  /\ detail[t] # Absent
  /\ Begin("link", t, 0, detail[t], t \in detailBehind \/ detailFetch[t] # Idle)
  /\ CancelDetail(t)
  /\ PatchTask(t, Marked(detail[t], "pending"))
  /\ listBehind' = IF t \in detailBehind' THEN listBehind \cup {t} ELSE listBehind
  /\ UNCHANGED <<serverVars, listFetch, cursor, reads>>

\* The selects of the board are disabled while a move is pending; dragging is not.
MoveSlot == IF slot["move"] = Free THEN "move" ELSE "drag"

\* The board patches the row that was moved, which may itself be pending.
BeginMove(t) ==
  /\ rows[t] # <<>>
  /\ LET row == rows[t][1]
     IN  /\ Begin(MoveSlot, t, row.version, row, t \in listBehind \/ listFetch # Idle)
         /\ PatchTask(t, Marked(row, "pending"))
  /\ listFetch' = Idle
  /\ listBehind' = IF listFetch = Idle THEN listBehind ELSE Tasks
  /\ detailBehind' = IF t \in listBehind' THEN detailBehind \cup {t} ELSE detailBehind
  /\ UNCHANGED <<serverVars, detailFetch, cursor, reads>>

\* A dependency is removed on the screen when the server has removed it.
BeginUnlink(t) ==
  /\ detail[t] # Absent
  /\ Begin("unlink", t, 0, Absent, FALSE)
  /\ UNCHANGED <<serverVars, cacheVars, fetchVars, cursor, reads, behindVars>>

BeginReplay(t) ==
  /\ detail[t] # Absent
  /\ Begin("replay", t, 0, Absent, FALSE)
  /\ UNCHANGED <<serverVars, cacheVars, fetchVars, cursor, reads, behindVars>>

BeginDelete(t) ==
  /\ detail[t] # Absent
  /\ Begin("delete", t, detail[t].version, Absent, FALSE)
  /\ UNCHANGED <<serverVars, cacheVars, fetchVars, cursor, reads, behindVars>>

BeginCreate(t) ==
  /\ server[t].life = "unborn"
  /\ Begin("create", t, 0, Absent, FALSE)
  /\ UNCHANGED <<serverVars, cacheVars, fetchVars, cursor, reads, behindVars>>

Ended(kind) == slot' = [slot EXCEPT ![kind] = Free]

\* The saved task replaces what is cached, whatever has been applied since.
Saved(kind) ==
  /\ kind \in Moves \cup {"edit", "replay"} /\ slot[kind].phase = "ok"
  /\ LET m == slot[kind]
     IN  /\ PatchTask(m.task, m.entry)
         /\ Behind(m.task, {m.task} \cap AppliedSince(m.at))
  /\ listFetch' = IF kind \in Moves THEN Invalidated(listFetch, TRUE) ELSE listFetch
  /\ Ended(kind)
  /\ UNCHANGED <<serverVars, detailFetch, cursor, own, reads>>

LinkSaved(kind) ==
  /\ kind \in {"link", "unlink"} /\ slot[kind].phase = "ok"
  /\ LET t == slot[kind].task IN
       detailFetch' = [detailFetch EXCEPT ![t] = Invalidated(@, detail[t] # Absent)]
  /\ Ended(kind)
  /\ UNCHANGED <<serverVars, cacheVars, listFetch, cursor, own, reads, behindVars>>

CreateSaved ==
  /\ slot["create"].phase = "ok"
  /\ LET m == slot["create"]
         stale == {m.task} \cap AppliedSince(m.at)
     IN  /\ PrependTask(m.task, m.entry)
         /\ detailBehind' = Judge(detailBehind, {m.task}, stale)
         /\ listBehind' = Judge(listBehind, {m.task}, stale)
  /\ Ended("create")
  /\ UNCHANGED <<serverVars, fetchVars, cursor, own, reads>>

DeleteSaved ==
  /\ slot["delete"].phase = "ok"
  /\ LET t == slot["delete"].task
     IN  /\ RemoveTask(t)
         /\ detailFetch' = [detailFetch EXCEPT ![t] = Idle]
         /\ Behind(t, {})
  /\ Ended("delete")
  /\ UNCHANGED <<serverVars, listFetch, cursor, own, reads>>

\* What was there before is restored: the panel marks it, addDependency and the
\* board do not.
Restored(m) ==
  IF m.kind = "edit" THEN Marked(m.previous, IF m.phase = "conflict" THEN "conflict" ELSE "failed")
  ELSE m.previous

RollBack(kind) ==
  /\ kind \in Moves \cup {"edit", "link"} /\ slot[kind].phase \in {"conflict", "error"}
  /\ LET m == slot[kind]
         stale == \/ m.stale \/ m.task \in AppliedSince(m.since)
                  \/ m.previous.sync = "pending"
     IN  /\ PatchTask(m.task, Restored(m))
         /\ detailBehind' = IF stale THEN detailBehind \cup {m.task} ELSE detailBehind
         /\ listBehind' = IF stale THEN listBehind \cup {m.task} ELSE listBehind
  /\ Ended(kind)
  /\ UNCHANGED <<serverVars, fetchVars, cursor, own, reads>>

\* The others say what is wrong and leave the cache alone.
GiveUp(kind) ==
  /\ kind \in {"replay", "unlink", "create"} /\ slot[kind].phase \in {"conflict", "error"}
  /\ Ended(kind)
  /\ UNCHANGED <<serverVars, cacheVars, fetchVars, cursor, own, reads, behindVars>>

DeleteRefused ==
  /\ slot["delete"].phase \in {"conflict", "error"}
  /\ Ended("delete")
  /\ UNCHANGED <<serverVars, cacheVars, fetchVars, cursor, own, reads, behindVars>>

-----------------------------------------------------------------------------
(* Events: applyEvent *)

Next_ == log[cursor + 1]

\* An event older than the entry of the detail is ignored, also for the list.
NotOlder(e) == detail[e.task] = Absent \/ e.version >= detail[e.task].version

\* Faulty: only the entry of the detail is brought up to date.
RowsLeft(t, entry) == IF rows[t] # <<>> THEN UNCHANGED <<rows, total>> ELSE Prepend(t, entry)

\* The rows of the task are replaced, or it is put in front.
RowsApplied(t, entry) == Prepend(t, entry)

ApplyTaskEvent ==
  /\ cursor < Len(log) /\ Next_.kind \in {"created", "updated"}
  /\ LET e == Next_
         entry == Entry(e.version, e.deps, "synced")
     IN  IF NotOlder(e) THEN
           /\ detail' = [detail EXCEPT ![e.task] = entry]
           /\ RowsApplied(e.task, entry)
           /\ detailBehind' = detailBehind \ {e.task}
           /\ listBehind' = listBehind \ {e.task}
         ELSE UNCHANGED <<cacheVars, behindVars>>
  /\ cursor' = cursor + 1
  /\ UNCHANGED <<serverVars, fetchVars, slot, own, reads>>

ApplyDeleted ==
  /\ cursor < Len(log) /\ Next_.kind = "deleted"
  /\ detail' = [detail EXCEPT ![Next_.task] = Absent]
  /\ detailFetch' = [detailFetch EXCEPT ![Next_.task] = Idle]
  /\ listFetch' = Invalidated(listFetch, TRUE)
  /\ detailBehind' = detailBehind \ {Next_.task}
  /\ cursor' = cursor + 1
  /\ UNCHANGED <<serverVars, rows, total, slot, own, reads, listBehind>>

ApplyDependencyEvent ==
  /\ cursor < Len(log) /\ Next_.kind = "dependency"
  /\ LET t == Next_.task IN
       detailFetch' = [detailFetch EXCEPT ![t] = Invalidated(@, detail[t] # Absent)]
  /\ listFetch' = Invalidated(listFetch, TRUE)
  /\ cursor' = cursor + 1
  /\ UNCHANGED <<serverVars, cacheVars, slot, own, reads, behindVars>>

\* A change of the members refreshes the tasks.
MembershipChanges ==
  /\ reads < MaxReads /\ reads' = reads + 1
  /\ detailFetch' = [t \in Tasks |-> Invalidated(detailFetch[t], detail[t] # Absent)]
  /\ listFetch' = Invalidated(listFetch, TRUE)
  /\ UNCHANGED <<serverVars, cacheVars, slot, cursor, own, behindVars>>

\* The bootstrap names the last event of the project.
streamCursor == Len(log)

\* It is read again, and the cursor starts from it: what it passes over is not
\* applied.
BootstrapAgain ==
  /\ reads < MaxReads /\ reads' = reads + 1
  /\ cursor' = streamCursor
  /\ LET passed == {log[i].task : i \in (cursor + 1)..Len(log)}
     IN  /\ detailBehind' = detailBehind \cup passed
         /\ listBehind' = listBehind \cup passed
  /\ UNCHANGED <<serverVars, cacheVars, fetchVars, slot, own>>

-----------------------------------------------------------------------------
Unborn == [version |-> 0, deps |-> 0, life |-> "unborn"]

\* Some tasks exist and are listed; the panel has been open on some of them.
Init ==
  /\ server \in [Tasks -> {Created, Unborn}]
  /\ log = <<>> /\ cursor = 0
  /\ rows = [t \in Tasks |-> IF Live(t) THEN <<Shown(t)>> ELSE <<>>]
  /\ total = CountOf(rows)
  /\ \E opened \in SUBSET {t \in Tasks : Live(t)} :
       detail = [t \in Tasks |-> IF t \in opened THEN Shown(t) ELSE Absent]
  /\ detailFetch = [t \in Tasks |-> Idle] /\ listFetch = Idle
  /\ slot = [k \in Kinds |-> Free]
  /\ own = 0 /\ reads = 0
  /\ detailBehind = {} /\ listBehind = {}

UserStep ==
  \/ \E t \in Tasks :
       \/ BeginEdit(t) \/ BeginLink(t) \/ BeginUnlink(t) \/ BeginMove(t)
       \/ BeginReplay(t) \/ BeginDelete(t) \/ BeginCreate(t)
       \/ OpenTask(t)
  \/ ReloadList \/ BootstrapAgain

ServerStep ==
  \/ \E t \in Tasks : OthersChange(t) \/ ServeDetail(t)
  \/ \E k \in Kinds : Serve(k) \/ Refuse(k)
  \/ ServeList \/ MembershipChanges

AnswerStep ==
  \/ \E t \in Tasks : DetailArrives(t)
  \/ ListArrives
  \/ \E k \in Kinds : Saved(k) \/ LinkSaved(k) \/ RollBack(k) \/ GiveUp(k)
  \/ CreateSaved \/ DeleteSaved \/ DeleteRefused

StreamStep == ApplyTaskEvent \/ ApplyDeleted \/ ApplyDependencyEvent

Next == UserStep \/ ServerStep \/ AnswerStep \/ StreamStep

Spec == Init /\ [][Next]_vars

-----------------------------------------------------------------------------
(* Properties *)

Quiet ==
  /\ cursor = Len(log)
  /\ listFetch = Idle /\ \A t \in Tasks : detailFetch[t] = Idle
  /\ \A k \in Kinds : slot[k] = Free

UpToDate(t, entry) ==
  /\ Live(t) /\ entry.version = server[t].version /\ entry.deps = server[t].deps
  /\ entry.sync # "pending"

\* When every event has been applied and nothing is under way, the panel and the
\* list show what the server has, and nothing is left pending, but for the tasks
\* that an overtaken answer, a refetch given up by an edit, the restoring of a
\* pending entry or a jump of the cursor has left behind.
CacheConverges ==
  Quiet => \A t \in Tasks :
    /\ t \notin detailBehind /\ detail[t] # Absent => UpToDate(t, detail[t])
    /\ t \notin listBehind =>
         /\ rows[t] # <<>> <=> Live(t)
         /\ \A i \in DOMAIN rows[t] : UpToDate(t, rows[t][i])

\* query-cache.ts:27: the event of a task that was created and the response
\* never make two rows; the total counts the rows.
ListAddsUp ==
  /\ \A t \in Tasks : Len(rows[t]) <= 1
  /\ total = CountOf(rows)

=============================================================================
