---------------------------- MODULE Description ----------------------------
(***************************************************************************)
(* The collaborative description of a task: the editing sessions of the    *)
(* browsers (apps/web/features/tasks/collaborative-description.tsx), the   *)
(* socket handler and its room (internal/transport/httpapi/                *)
(* description_ws.go), the stored document (internal/platform/database/    *)
(* postgres.go) and the worker that compacts it                            *)
(* (workers/description-compactor/index.mjs).                              *)
(*                                                                         *)
(* A Yjs document is a set of updates, and merging is union.  The updates  *)
(* of one session build on each other: one whose predecessors are missing  *)
(* is kept but not shown.  An update that puts the task's plain text into  *)
(* an empty document is the base of its session.  A socket keeps the order *)
(* of its frames in each direction and loses them when it drops.           *)
(***************************************************************************)
EXTENDS Naturals, Sequences, FiniteSets

CONSTANTS
  Clients,          \* browsers with the task open
  MaxEdits,         \* edits
  MaxFaults,        \* sockets dropped, publications, acknowledgements and requests failed
  MaxReadOnly,      \* joins that find no place among the editors
  MaxCompactions    \* compactions

ASSUME DescriptionAssumption ==
  /\ MaxEdits \in Nat /\ MaxFaults \in Nat
  /\ MaxReadOnly \in Nat /\ MaxCompactions \in Nat
  /\ {"nobody", "compactor"} \cap Clients = {}

VARIABLES
  \* task_description_documents, task_description_updates, tasks.description
  initialized, snapshot, rows, nextId, projection,
  \* the holder of the document's row, the messages saved, the compactor
  lock, committed, compactor,
  \* the handler of each client's socket: its phase, what it has read, its place
  handler, editor,
  \* frames under way to the client and to the server
  queue, wire,
  \* the editing session of each client
  doc, pending, wasInit, ready, readOnly, connection, session, sent,
  edits, faults, viewers, compactions,
  \* history: updates acknowledged; the clients that a torn read or a failed
  \* publication left behind, and those whose pending edits were given up
  acked, missed, givenUp

stored == <<initialized, snapshot, rows, nextId, projection, lock, committed>>
sockets == <<handler, editor, queue, wire>>
screen == <<ready, readOnly, connection>>
local == <<doc, pending, wasInit, session, sent>>
bounds == <<edits, faults, viewers, compactions>>
ghosts == <<acked, missed, givenUp>>
vars == <<stored, compactor, sockets, screen, local, bounds, ghosts>>

Nobody == "nobody"
Worker == "compactor"
Closed == [phase |-> "closed"]
Idle == [phase |-> "idle"]

-----------------------------------------------------------------------------
(* Documents *)

\* The n-th update of a session; a base puts the plain text into the document.
Update(by, n, base) == [by |-> by, n |-> n, base |-> base]

\* What is shown of a document: the updates that miss no predecessor.
Visible(us) == {u \in us : \A m \in 1..(u.n - 1) : \E v \in us : v.by = u.by /\ v.n = m}

Rows == UNION {r.us : r \in rows}
Stored == snapshot \cup Rows

Me(c) == <<c, session[c]>>
MyNext(c, base) == Update(Me(c), 1 + Cardinality({u \in doc[c] : u.by = Me(c)}), base)

-----------------------------------------------------------------------------
(* The stored document: PersistTaskDescriptionUpdate *)

\* The mutation's key makes a frame that is sent again answer as the first did.
Saved(frame) == frame.id \in committed

\* The snapshot is written only once.
Initialize(frame) ==
  /\ lock = Nobody
  /\ initialized' = TRUE
  /\ snapshot' = frame.us
  /\ projection' = frame.text
  /\ committed' = committed \cup {frame.id}
  /\ UNCHANGED <<rows, nextId, lock>>

\* Faulty: the document's row is not locked.
AppendUnlocked(c) == UNCHANGED lock

\* An append locks the document's row until it commits.
LockRow(c) == lock = Nobody /\ lock' = c

\* Its row takes a number before it can be seen.
BeginAppend(c) ==
  /\ LockRow(c)
  /\ nextId' = nextId + 1
  /\ UNCHANGED <<initialized, snapshot, rows, projection, committed>>

Unlocked(c) == IF lock = c THEN Nobody ELSE lock

CommitAppend(c, id, frame) ==
  /\ rows' = rows \cup {[id |-> id, us |-> frame.us]}
  /\ projection' = frame.text
  /\ committed' = committed \cup {frame.id}
  /\ lock' = Unlocked(c)
  /\ UNCHANGED <<initialized, snapshot, nextId>>

AbortAppend(c) ==
  /\ lock' = Unlocked(c)
  /\ UNCHANGED <<initialized, snapshot, rows, nextId, projection, committed>>

-----------------------------------------------------------------------------
(* The room and the handler of a socket: descriptionWebSocket *)

Room == {c \in Clients : handler[c].phase # "closed"}

Send(q, c, frame) == [q EXCEPT ![c] = Append(@, frame)]

Ack(frame) == [kind |-> "ack", id |-> frame.id]
Error(what) == [kind |-> "error", error |-> what]

\* Whether there is a place for another editor is settled when it joins.
Join(c) ==
  /\ handler[c] = Closed
  /\ \E place \in BOOLEAN :
       /\ place \/ viewers < MaxReadOnly
       /\ editor' = [editor EXCEPT ![c] = place]
       /\ viewers' = IF place THEN viewers ELSE viewers + 1
  /\ handler' = [handler EXCEPT ![c] = [phase |-> "joined"]]
  /\ connection' = [connection EXCEPT ![c] = "connecting"]
  /\ UNCHANGED <<stored, compactor, queue, wire, ready, readOnly, local,
                 edits, faults, compactions, ghosts>>

\* The document and its updates are read in two statements.
ReadSnapshot(c) ==
  /\ handler[c].phase = "joined"
  /\ handler' = [handler EXCEPT ![c] =
       [phase |-> "reading", initialized |-> initialized, snapshot |-> snapshot]]
  /\ UNCHANGED <<stored, compactor, editor, queue, wire, screen, local, bounds, ghosts>>

ReadUpdates(c) ==
  /\ handler[c].phase = "reading"
  /\ queue' = Send(queue, c,
       [kind |-> "bootstrap", initialized |-> handler[c].initialized,
        us |-> handler[c].snapshot, updates |-> Rows, readOnly |-> ~editor[c]])
  /\ missed' = IF handler[c].initialized /\ handler[c].snapshot # snapshot
               THEN missed \cup {c} ELSE missed \ {c}
  /\ handler' = [handler EXCEPT ![c] = Idle]
  /\ UNCHANGED <<stored, compactor, editor, wire, screen, local, bounds, acked, givenUp>>

Taken(c) == wire' = [wire EXCEPT ![c] = Tail(@)]

Refuse(c) ==
  /\ handler[c] = Idle /\ wire[c] # <<>>
  /\ LET frame == Head(wire[c])
     IN  \/ /\ ~editor[c]
            /\ queue' = Send(queue, c, Error("limit"))
            /\ UNCHANGED faults
         \/ /\ editor[c] /\ ~Saved(frame) /\ frame.kind = "init" /\ initialized /\ lock = Nobody
            /\ queue' = Send(queue, c, Error("initialized"))
            /\ UNCHANGED faults
         \/ /\ editor[c] /\ faults < MaxFaults
            /\ faults' = faults + 1
            /\ queue' = Send(queue, c, Error("failed"))
  /\ Taken(c)
  /\ UNCHANGED <<stored, compactor, handler, editor, screen, local, edits, viewers, compactions, ghosts>>

Accept(c) ==
  /\ handler[c] = Idle /\ wire[c] # <<>> /\ editor[c]
  /\ LET frame == Head(wire[c])
         done == [phase |-> "done", frame |-> frame]
     IN  \/ Saved(frame) /\ UNCHANGED stored /\ handler' = [handler EXCEPT ![c] = done]
         \/ /\ ~Saved(frame) /\ frame.kind = "init" /\ ~initialized
            /\ Initialize(frame) /\ handler' = [handler EXCEPT ![c] = done]
         \/ /\ ~Saved(frame) /\ frame.kind = "update"
            /\ BeginAppend(c)
            /\ handler' = [handler EXCEPT ![c] =
                 [phase |-> "appending", frame |-> frame, id |-> nextId]]
  /\ Taken(c)
  /\ UNCHANGED <<compactor, editor, queue, screen, local, bounds, ghosts>>

Append_(c) ==
  /\ handler[c].phase = "appending"
  /\ CommitAppend(c, handler[c].id, handler[c].frame)
  /\ handler' = [handler EXCEPT ![c] = [phase |-> "done", frame |-> handler[c].frame]]
  /\ UNCHANGED <<compactor, editor, queue, wire, screen, local, bounds, ghosts>>

Broadcast(c, frame) ==
  [d \in Clients |->
     IF d = c THEN Append(queue[c], Ack(frame))
     ELSE IF d \in Room THEN Append(queue[d], [kind |-> "update", us |-> frame.us])
     ELSE queue[d]]

\* The author is answered and the others of the room hear of the update; either
\* may fail, without the socket being closed.
Publish(c) ==
  /\ handler[c].phase = "done"
  /\ LET frame == handler[c].frame
     IN  \/ /\ queue' = Broadcast(c, frame)
            /\ acked' = acked \cup frame.us
            /\ UNCHANGED <<faults, missed>>
         \/ /\ faults < MaxFaults /\ faults' = faults + 1
            /\ \/ /\ queue' = Send(queue, c, Ack(frame))
                  /\ acked' = acked \cup frame.us
                  /\ missed' = missed \cup (Room \ {c})
               \/ /\ queue' = [Broadcast(c, frame) EXCEPT ![c] = queue[c]]
                  /\ UNCHANGED <<acked, missed>>
  /\ handler' = [handler EXCEPT ![c] = Idle]
  /\ UNCHANGED <<stored, compactor, editor, wire, screen, local, edits, viewers, compactions, givenUp>>

\* The socket drops.  Its handler finishes what it has begun before it leaves
\* the room, or its transaction is rolled back.
Hangup(c) ==
  /\ handler' = [handler EXCEPT ![c] = Closed]
  /\ wire' = [wire EXCEPT ![c] = <<>>]
  /\ \/ /\ handler[c].phase = "appending"
        /\ CommitAppend(c, handler[c].id, handler[c].frame)
        /\ queue' = [Broadcast(c, handler[c].frame) EXCEPT ![c] = <<>>]
     \/ /\ handler[c].phase = "appending"
        /\ AbortAppend(c)
        /\ queue' = [queue EXCEPT ![c] = <<>>]
     \/ /\ handler[c].phase = "done"
        /\ queue' = [Broadcast(c, handler[c].frame) EXCEPT ![c] = <<>>]
        /\ UNCHANGED stored
     \/ /\ handler[c].phase \notin {"appending", "done"}
        /\ queue' = [queue EXCEPT ![c] = <<>>]
        /\ UNCHANGED stored
  /\ UNCHANGED editor

Drop(c) ==
  /\ faults < MaxFaults /\ faults' = faults + 1
  /\ handler[c] # Closed
  /\ Hangup(c)
  /\ connection' = [connection EXCEPT ![c] = "offline"]
  /\ UNCHANGED <<compactor, ready, readOnly, local, edits, viewers, compactions, ghosts>>

-----------------------------------------------------------------------------
(* The compactor *)

LockDocument == lock = Nobody /\ lock' = Worker

BeginCompaction ==
  /\ compactions < MaxCompactions /\ compactions' = compactions + 1
  /\ compactor = Idle /\ initialized /\ rows # {}
  /\ LockDocument
  /\ compactor' = [phase |-> "locked", snapshot |-> snapshot]
  /\ UNCHANGED <<initialized, snapshot, rows, nextId, projection, committed, sockets, screen, local,
                 edits, faults, viewers, ghosts>>

mergeDescription(us, updates) == us \cup updates

ReadRows ==
  /\ compactor.phase = "locked"
  /\ compactor' = [phase |-> "merged", us |-> mergeDescription(compactor.snapshot, Rows),
                   last |-> CHOOSE i \in {r.id : r \in rows} : \A r \in rows : r.id <= i]
  /\ UNCHANGED <<stored, sockets, screen, local, bounds, ghosts>>

\* Faulty: the searchable text is left to the next edit.
SnapshotOnly(us) == snapshot' = us /\ UNCHANGED projection

WriteMerged(us) == snapshot' = us /\ projection' = Visible(us)

CommitCompaction ==
  /\ compactor.phase = "merged"
  /\ WriteMerged(compactor.us)
  /\ rows' = {r \in rows : r.id > compactor.last}
  /\ lock' = Unlocked(Worker)
  /\ compactor' = Idle
  /\ UNCHANGED <<initialized, nextId, committed, sockets, screen, local, bounds, ghosts>>

\* The worker stops, or its transaction fails.
AbortCompaction ==
  /\ faults < MaxFaults /\ faults' = faults + 1
  /\ compactor # Idle
  /\ AbortAppend(Worker)
  /\ compactor' = Idle
  /\ UNCHANGED <<sockets, screen, local, edits, viewers, compactions, ghosts>>

-----------------------------------------------------------------------------
(* The editing session *)

Open(c) == handler[c] # Closed

Frame(c, kind, us, text) == [kind |-> kind, id |-> <<c, sent[c] + 1>>, us |-> us, text |-> text]

\* A change of the document is kept until it is acknowledged.
SendUpdate(c, kind, us, text) ==
  LET frame == Frame(c, kind, us, text)
  IN  /\ sent' = [sent EXCEPT ![c] = @ + 1]
      /\ pending' = [pending EXCEPT ![c] = Append(@, frame)]
      /\ wire' = IF Open(c) THEN Send(wire, c, frame) ELSE wire

\* What is typed is one transaction of the document.
Typed(c) == MyNext(c, FALSE)

MayType(c) == ready[c] /\ ~readOnly[c]

\* Undo and redo are transactions too, and ask only for something of this
\* session to take back.
MayUndo(c) == \E u \in doc[c] : u.by = Me(c) /\ ~u.base

Edit(c) ==
  /\ edits < MaxEdits /\ edits' = edits + 1
  /\ MayType(c) \/ MayUndo(c)
  /\ doc' = [doc EXCEPT ![c] = @ \cup {Typed(c)}]
  /\ SendUpdate(c, IF wasInit[c] THEN "update" ELSE "init", {Typed(c)}, Visible(doc[c] \cup {Typed(c)}))
  /\ connection' = [connection EXCEPT ![c] = IF Open(c) THEN "saving" ELSE "offline"]
  /\ UNCHANGED <<stored, compactor, handler, editor, queue, ready, readOnly, wasInit, session,
                 faults, viewers, compactions, ghosts>>

Received(c) == queue' = [queue EXCEPT ![c] = Tail(@)]
Settled(c, frames) == IF frames = <<>> THEN "synced" ELSE "saving"

Resend(c) == wire' = [wire EXCEPT ![c] = @ \o pending[c]]

\* The document is merged with what is stored, or initialized with the plain text.
OnBootstrap(c) ==
  /\ queue[c] # <<>> /\ Head(queue[c]).kind = "bootstrap"
  /\ LET f == Head(queue[c])
         base == IF f.initialized \/ Visible(doc[c]) # {} THEN {} ELSE {MyNext(c, TRUE)}
         merged == doc[c] \cup f.us \cup base \cup f.updates
     IN  /\ doc' = [doc EXCEPT ![c] = merged]
         /\ wasInit' = [wasInit EXCEPT ![c] = f.initialized]
         /\ readOnly' = [readOnly EXCEPT ![c] = f.readOnly]
         /\ ready' = [ready EXCEPT ![c] = f.initialized \/ f.readOnly]
         /\ IF f.initialized THEN Resend(c) /\ UNCHANGED <<pending, sent>>
            ELSE SendUpdate(c, "init", merged, Visible(merged))
         /\ connection' = [connection EXCEPT ![c] = Settled(c, pending'[c])]
  /\ Received(c)
  /\ UNCHANGED <<stored, compactor, handler, editor, session, bounds, ghosts>>

OnUpdate(c) ==
  /\ queue[c] # <<>> /\ Head(queue[c]).kind = "update"
  /\ doc' = [doc EXCEPT ![c] = @ \cup Head(queue[c]).us]
  /\ ready' = [ready EXCEPT ![c] = TRUE]
  /\ connection' = [connection EXCEPT ![c] = Settled(c, pending[c])]
  /\ Received(c)
  /\ UNCHANGED <<stored, compactor, handler, editor, wire, readOnly, pending, wasInit, session, sent,
                 bounds, ghosts>>

\* Faulty: one acknowledgement settles everything.
NothingLeft(c, id) == <<>>

\* What is pending is a map by message, in the order it was filled.
Without(frames, i) == SubSeq(frames, 1, i - 1) \o SubSeq(frames, i + 1, Len(frames))

Unacknowledged(c, id) ==
  IF \E i \in 1..Len(pending[c]) : pending[c][i].id = id
    THEN Without(pending[c], CHOOSE i \in 1..Len(pending[c]) : pending[c][i].id = id)
    ELSE pending[c]

OnAck(c) ==
  /\ queue[c] # <<>> /\ Head(queue[c]).kind = "ack"
  /\ LET left == Unacknowledged(c, Head(queue[c]).id)
     IN  /\ pending' = [pending EXCEPT ![c] = left]
         /\ connection' = [connection EXCEPT ![c] = Settled(c, left)]
  /\ wasInit' = [wasInit EXCEPT ![c] = TRUE]
  /\ ready' = [ready EXCEPT ![c] = TRUE]
  /\ Received(c)
  /\ UNCHANGED <<stored, compactor, handler, editor, wire, readOnly, doc, session, sent, bounds, ghosts>>

\* The session is destroyed, with its socket and its document.
Destroy(c) ==
  /\ Hangup(c)
  /\ doc' = [doc EXCEPT ![c] = {}]
  /\ pending' = [pending EXCEPT ![c] = <<>>]
  /\ givenUp' = givenUp \ {c}

\* Another session initialized the document: a new one starts from nothing.
OnInitializationRace(c) ==
  /\ queue[c] # <<>> /\ Head(queue[c]) = Error("initialized")
  /\ Destroy(c)
  /\ session' = [session EXCEPT ![c] = @ + 1]
  /\ wasInit' = [wasInit EXCEPT ![c] = FALSE]
  /\ ready' = [ready EXCEPT ![c] = FALSE]
  /\ readOnly' = [readOnly EXCEPT ![c] = FALSE]
  /\ connection' = [connection EXCEPT ![c] = "connecting"]
  /\ UNCHANGED <<compactor, sent, bounds, acked, missed>>

\* Without a place what is pending is given up, and stays on the screen.
OnNoPlace(c) ==
  /\ queue[c] # <<>> /\ Head(queue[c]) = Error("limit")
  /\ pending' = [pending EXCEPT ![c] = <<>>]
  /\ givenUp' = IF pending[c] = <<>> THEN givenUp ELSE givenUp \cup {c}
  /\ readOnly' = [readOnly EXCEPT ![c] = TRUE]
  /\ ready' = [ready EXCEPT ![c] = TRUE]
  /\ connection' = [connection EXCEPT ![c] = "synced"]
  /\ Received(c)
  /\ UNCHANGED <<stored, compactor, handler, editor, wire, doc, wasInit, session, sent, bounds, acked, missed>>

\* What failed stays pending until the next connection.
OnFailure(c) ==
  /\ queue[c] # <<>> /\ Head(queue[c]) = Error("failed")
  /\ connection' = [connection EXCEPT ![c] = "offline"]
  /\ Received(c)
  /\ UNCHANGED <<stored, compactor, handler, editor, wire, ready, readOnly, local, bounds, ghosts>>

-----------------------------------------------------------------------------
DocumentInit ==
  /\ initialized = FALSE /\ snapshot = {} /\ rows = {} /\ nextId = 1 /\ projection = {}
  /\ lock = Nobody /\ committed = {} /\ compactor = Idle

RoomInit ==
  /\ handler = [c \in Clients |-> Closed] /\ editor = [c \in Clients |-> FALSE]
  /\ queue = [c \in Clients |-> <<>>] /\ wire = [c \in Clients |-> <<>>]

SessionInit ==
  /\ doc = [c \in Clients |-> {}] /\ pending = [c \in Clients |-> <<>>]
  /\ wasInit = [c \in Clients |-> FALSE] /\ ready = [c \in Clients |-> FALSE]
  /\ readOnly = [c \in Clients |-> FALSE]
  /\ connection = [c \in Clients |-> "connecting"]
  /\ session = [c \in Clients |-> 1] /\ sent = [c \in Clients |-> 0]

Init ==
  /\ DocumentInit /\ RoomInit /\ SessionInit
  /\ edits = 0 /\ faults = 0 /\ viewers = 0 /\ compactions = 0
  /\ acked = {} /\ missed = {} /\ givenUp = {}

HandlerStep(c) ==
  \/ Join(c) \/ ReadSnapshot(c) \/ ReadUpdates(c)
  \/ Refuse(c) \/ Accept(c) \/ Append_(c) \/ Publish(c)

SessionStep(c) ==
  \/ Edit(c) \/ Drop(c)
  \/ OnBootstrap(c) \/ OnUpdate(c) \/ OnAck(c)
  \/ OnInitializationRace(c) \/ OnNoPlace(c) \/ OnFailure(c)

WorkerStep == BeginCompaction \/ ReadRows \/ CommitCompaction \/ AbortCompaction

Next == (\E c \in Clients : HandlerStep(c) \/ SessionStep(c)) \/ WorkerStep

Spec == Init /\ [][Next]_vars

-----------------------------------------------------------------------------
(* Properties *)

\* docs/collaboration.md:46: an update that was acknowledged stays in the stored
\* document, whatever is appended and compacted around it.
AcknowledgedIsKept == acked \subseteq Stored

\* Whoever opens the task first, its plain text is put into the document once;
\* and once the updates are compacted the searchable text is the document's.
DocumentIsOne ==
  /\ Cardinality({u \in Stored : u.base}) <= 1
  /\ initialized /\ rows = {} => projection = Visible(snapshot)

Settled_(c) ==
  /\ handler[c] = Idle /\ queue[c] = <<>> /\ wire[c] = <<>> /\ pending[c] = <<>>

\* A session that says it is synced has nothing that is not stored, unless it
\* gave up what was pending for want of a place; and when all is quiet it shows
\* the stored document, unless it missed a publication or its bootstrap was torn
\* by a compaction.
SessionsConverge ==
  \A c \in Clients :
    /\ connection[c] = "synced" /\ c \notin givenUp => doc[c] \subseteq Stored
    /\ (\A d \in Clients : handler[d] \in {Idle, Closed}) /\ Settled_(c)
         /\ c \notin missed \cup givenUp => doc[c] = Stored

=============================================================================
