---------------------------- MODULE OfflineQueue ----------------------------
(***************************************************************************)
(* The offline queue of the web application: task edits that cannot be     *)
(* sent are kept in IndexedDB, coalesced, and sent when the device is      *)
(* online again (apps/web/lib/api/offline-workspace-api.ts over            *)
(* http-workspace-api.ts, apps/web/lib/offline/store.ts and                *)
(* apps/web/components/pwa/runtime.tsx).  The server is the idempotent     *)
(* mutation of internal/app/service.go.                                    *)
(*                                                                         *)
(* A call of the user interface and the synchronisation are processes of   *)
(* one page, and an await is where they interleave: each keeps what it     *)
(* read of the queue before.  An edit is a number, given to one field.  A  *)
(* cached task is its version.                                             *)
(***************************************************************************)
EXTENDS Naturals, FiniteSets

CONSTANTS
  Tasks, Fields,
  MaxEdits,    \* edits, deletions and departures of the user
  MaxOthers,   \* edits of other users
  MaxFaults    \* failures of the network

ASSUME QueueAssumption ==
  /\ MaxEdits \in Nat /\ MaxOthers \in Nat /\ MaxFaults \in Nat
  /\ IsFiniteSet(Tasks)

VARIABLES
  online, faults,
  \* the server: tasks, the responses of idempotency_keys, edits of others
  server, saved, others,
  \* the device
  queue, cache, snapshot, signedIn,
  \* the call of the user interface and the synchronisation
  call, sync,
  \* their requests, and those they gave up that may still arrive
  wire, late,
  \* idempotency keys, edits so far, identities taken
  keys, edits, taken,
  \* history: what the user was told of an edit, the edits whose call met no
  \* synchronisation, and how often the server applied each
  fate, quiet, applied

networkVars == <<online, faults, wire, late>>
serverVars == <<server, saved, others, applied>>
deviceVars == <<queue, cache, snapshot, signedIn>>
countVars == <<keys, edits, taken>>
historyVars == <<fate, quiet>>
vars == <<networkVars, serverVars, deviceVars, call, sync, countVars, historyVars>>

Edits == 1..MaxEdits
Keys == 1..(2 * MaxEdits + Cardinality(Tasks))
Kinds == {"create", "update", "delete"}
Callers == {"call", "sync"}
None == [kind |-> "none"]
NotCached == [version |-> 0, cached |-> FALSE]
Cached(v) == [version |-> v, cached |-> TRUE]
Shown(t) == cache[t].cached

\* What is written to the device's store stays there when the page goes.
Remember(t, v) == cache' = [cache EXCEPT ![t] = Cached(v)]

\* What an input leaves out is 0.
NoInput == [f \in Fields |-> 0]
Overlay(base, input) == [f \in Fields |-> IF input[f] # 0 THEN input[f] ELSE base[f]]
EditsOf(input) == {input[f] : f \in Fields} \ {0}

-----------------------------------------------------------------------------
(* The queue *)

Operations == {queue[t][k] : t \in Tasks, k \in Kinds} \ {None}
Having(status) == {o \in Operations : o.status = status}
Pending == Having("pending")
Blocked == Operations \ Pending

TaskHasOutbox(t) == \E k \in Kinds : queue[t][k] # None

Operation(t, k, key, input, expected) ==
  [kind |-> k, task |-> t, key |-> key, input |-> input, expected |-> expected, status |-> "pending"]

Put(q, o) == [q EXCEPT ![o.task][o.kind] = o]
Delete(q, t, k) == [q EXCEPT ![t][k] = None]

EmptyQueue == [t \in Tasks |-> [k \in Kinds |-> None]]

Counts(q) ==
  [s \in {"pending", "failed", "conflict"} |->
     Cardinality({tk \in Tasks \X Kinds : q[tk[1]][tk[2]] # None /\ q[tk[1]][tk[2]].status = s})]

SnapshotOf(q, running) == [counts |-> Counts(q), syncing |-> running]

\* Nothing is counted for a user who has signed out.
RefreshSnapshot(q, running) == SnapshotOf(IF signedIn THEN q ELSE EmptyQueue, running)

-----------------------------------------------------------------------------
(* The banner *)

Syncing == sync # None

RetryOffered == online /\ snapshot.counts["pending"] > 0 /\ ~snapshot.syncing

DiscardOffered == online /\ snapshot.counts["failed"] + snapshot.counts["conflict"] > 0

-----------------------------------------------------------------------------
(* The network and the server *)

NoAnswer == [status |-> "none", version |-> 0]

Send(who, o, expected) ==
  wire' = [wire EXCEPT ![who] =
             [request |-> [o EXCEPT !.expected = expected], answer |-> NoAnswer]]

\* Faulty: an edit is only refused when its base is ahead of the task.
OverlapsNothing(t, input, version) == FALSE

\* The version a field was last written at by an operation.
Overlaps(t, input, version) ==
  \E f \in Fields : input[f] # 0 /\ server[t].touched[f] > version

\* Whether a request is carried out.
Verdict(r) ==
  LET s == server[r.task]
  IN  IF r.kind # "create" /\ s.life # "live" THEN "failed"
      ELSE IF \/ r.kind = "create" /\ s.version # 0
              \/ r.kind = "update" /\ (r.expected > s.version \/ Overlaps(r.task, r.input, r.expected))
              \/ r.kind = "delete" /\ r.expected # s.version
        THEN "conflict" ELSE "ok"

Touch(s, input) == [f \in Fields |-> IF input[f] # 0 THEN s.version + 1 ELSE s.touched[f]]

\* The task it leaves then.
Changed(s, r) ==
  IF r.kind = "create" THEN [s EXCEPT !.version = 1, !.life = "live"]
  ELSE IF r.kind = "delete" THEN [s EXCEPT !.version = @ + 1, !.life = "deleted"]
  ELSE [s EXCEPT !.version = @ + 1, !.touched = Touch(s, r.input), !.mine = Overlay(@, r.input)]

Mutation(r) ==
  [status |-> Verdict(r),
   task   |-> IF Verdict(r) = "ok" THEN Changed(server[r.task], r) ELSE server[r.task]]

\* runMutation: a known key is answered from the saved response, and refused
\* for another request.
Applies(r) == saved[r.key] = None /\ Mutation(r).status = "ok"

AnswerTo(r) ==
  IF r.kind # "create" /\ r.expected < 1 THEN [status |-> "failed", version |-> 0]
  ELSE IF saved[r.key] = None
    THEN [status |-> Mutation(r).status, version |-> Mutation(r).task.version]
  ELSE IF saved[r.key].request = r THEN [status |-> "ok", version |-> saved[r.key].version]
  ELSE [status |-> "failed", version |-> 0]

Process(r) ==
  IF (r.kind = "create" \/ r.expected >= 1) /\ Applies(r) THEN
    /\ server' = [server EXCEPT ![r.task] = Mutation(r).task]
    /\ saved' = [saved EXCEPT ![r.key] =
                   [kind |-> "saved", request |-> r, version |-> Mutation(r).task.version]]
    /\ applied' = [e \in Edits |-> IF e \in EditsOf(r.input) THEN applied[e] + 1 ELSE applied[e]]
    /\ UNCHANGED others
  ELSE UNCHANGED serverVars

Serve(who) ==
  /\ wire[who] # None /\ wire[who].answer = NoAnswer
  /\ Process(wire[who].request)
  /\ wire' = [wire EXCEPT ![who].answer = AnswerTo(wire[who].request)]
  /\ UNCHANGED <<online, faults, late, deviceVars, call, sync, countVars, historyVars>>

ServeLate(r) ==
  /\ r \in late
  /\ Process(r)
  /\ late' = late \ {r}
  /\ UNCHANGED <<online, faults, wire, deviceVars, call, sync, countVars, historyVars>>

OthersUpdate(t, f) ==
  /\ server[t].life = "live" /\ others < MaxOthers
  /\ others' = others + 1
  /\ server' = [server EXCEPT ![t] =
                  [server[t] EXCEPT !.version = @ + 1, !.touched[f] = server[t].version + 1]]
  /\ UNCHANGED <<saved, applied, networkVars, deviceVars, call, sync, countVars, historyVars>>

GoOffline ==
  /\ online /\ faults < MaxFaults
  /\ online' = FALSE /\ faults' = faults + 1
  /\ UNCHANGED <<wire, late, serverVars, deviceVars, call, sync, countVars, historyVars>>

Ok(who) == wire[who] # None /\ wire[who].answer.status = "ok"

Refused(who) ==
  wire[who] # None /\ wire[who].answer.status \in {"conflict", "failed"}

Answered(who) == wire' = [wire EXCEPT ![who] = None] /\ UNCHANGED <<online, faults, late>>

\* isNetworkFailure: the request fails, or the device is offline when an error
\* comes back.  A request the server has not seen may be lost or still under way.
NetworkFailure(who) ==
  /\ wire[who] # None
  /\ \/ /\ ~online /\ wire[who].answer.status # "ok"
        /\ UNCHANGED faults
     \/ /\ faults < MaxFaults /\ faults' = faults + 1
  /\ \/ UNCHANGED late
     \/ /\ wire[who].answer = NoAnswer
        /\ late' = late \cup {wire[who].request}
  /\ wire' = [wire EXCEPT ![who] = None]
  /\ UNCHANGED online

-----------------------------------------------------------------------------
(* Calls of the user interface *)

Input(f, e) == [NoInput EXCEPT ![f] = e]

\* A call tries the server with a key of its own, or goes to the queue at once;
\* it keeps what it has read of the queue.
Begin(o, direct) ==
  /\ signedIn /\ call = None
  /\ keys' = IF direct \/ o.kind = "create" THEN keys + 1 ELSE keys
  /\ LET sent == [o EXCEPT !.key = keys + 1]
     IN  /\ call' = [kind |-> o.kind, task |-> o.task, operation |-> sent, read |-> queue[o.task],
                     phase |-> IF direct THEN "sending" ELSE "queueing", quiet |-> ~Syncing]
         /\ IF direct THEN Send("call", sent, o.expected) ELSE UNCHANGED wire
  /\ UNCHANGED <<online, faults, late, serverVars, deviceVars, sync, historyVars>>

\* createTask takes its identity and its key before it tries the server.
BeginCreate(t) ==
  /\ t \notin taken /\ taken' = taken \cup {t}
  /\ Begin(Operation(t, "create", 0, NoInput, 0), online)
  /\ UNCHANGED edits

\* The base of an edit is the version of the task shown.
BeginUpdate(t, f) ==
  /\ Shown(t)
  /\ edits < MaxEdits /\ edits' = edits + 1
  /\ Begin(Operation(t, "update", 0, Input(f, edits + 1), cache[t].version), online /\ ~TaskHasOutbox(t))
  /\ UNCHANGED taken

BeginDelete(t) ==
  /\ Shown(t)
  /\ edits < MaxEdits /\ edits' = edits + 1
  /\ Begin(Operation(t, "delete", 0, NoInput, cache[t].version),
           online /\ queue[t]["create"] = None /\ queue[t]["update"] = None)
  /\ UNCHANGED taken

\* What the user is told of the edits of a call, and of those it replaces.
Tell(es, word) == [e \in Edits |-> IF e \in es THEN word ELSE fate[e]]

CallSucceeds ==
  /\ call # None /\ call.phase = "sending" /\ Ok("call")
  /\ LET t == call.task IN
       cache' = [cache EXCEPT ![t] = IF call.kind = "delete" THEN NotCached
                                     ELSE Cached(wire["call"].answer.version)]
  /\ fate' = Tell(EditsOf(call.operation.input), "accepted")
  /\ quiet' = IF call.quiet THEN quiet \cup EditsOf(call.operation.input) ELSE quiet
  /\ call' = None
  /\ Answered("call")
  /\ UNCHANGED <<serverVars, queue, snapshot, signedIn, sync, countVars>>

\* An error of the server is shown.
CallRefused ==
  /\ call # None /\ call.phase = "sending" /\ Refused("call") /\ online
  /\ fate' = Tell(EditsOf(call.operation.input), "refused")
  /\ call' = None
  /\ Answered("call")
  /\ UNCHANGED <<serverVars, deviceVars, sync, countVars, quiet>>

CallFailsOver ==
  /\ call # None /\ call.phase = "sending"
  /\ NetworkFailure("call")
  /\ call' = [call EXCEPT !.phase = "queueing"]
  /\ UNCHANGED <<serverVars, deviceVars, sync, countVars, historyVars>>

Queueing(kind) == call # None /\ call.phase = "queueing" /\ call.kind = kind

QueueCreate ==
  /\ Queueing("create")
  /\ queue' = Put(queue, call.operation)
  /\ Remember(call.task, 0)
  /\ snapshot' = RefreshSnapshot(queue', snapshot.syncing)
  /\ call' = None
  /\ UNCHANGED <<serverVars, signedIn, sync, networkVars, countVars, historyVars>>

\* Faulty: the input of the queued operation is not carried over.
NewInputOnly(queued, o) == [queued EXCEPT !.input = o.input, !.status = "pending"]

\* A queued update takes the input in and keeps its key and its base.
Coalesced(queued, o) ==
  [queued EXCEPT !.input = Overlay(@, o.input), !.status = "pending"]

QueueUpdate ==
  /\ Queueing("update") /\ Shown(call.task)
  /\ LET queued == call.read["update"]
         new    == EditsOf(call.operation.input)
     IN  /\ queue' = Put(queue, IF queued # None THEN Coalesced(queued, call.operation)
                                ELSE [call.operation EXCEPT !.key = keys + 1])
         /\ keys' = IF queued = None THEN keys + 1 ELSE keys
         /\ fate' = [e \in Edits |->
              IF e \in new THEN "accepted"
              ELSE IF queued # None /\ \E f \in Fields : queued.input[f] = e /\ call.operation.input[f] # 0
                THEN "replaced"
              ELSE fate[e]]
         /\ quiet' = IF call.quiet THEN quiet \cup new ELSE quiet
  /\ snapshot' = RefreshSnapshot(queue', snapshot.syncing)
  /\ call' = None
  /\ UNCHANGED <<cache, serverVars, signedIn, sync, networkVars, edits, taken>>

\* A task that is not cached cannot be edited without the server.
CacheMiss ==
  /\ Queueing("update") /\ ~Shown(call.task)
  /\ fate' = Tell(EditsOf(call.operation.input), "refused")
  /\ call' = None
  /\ UNCHANGED <<serverVars, deviceVars, sync, networkVars, countVars, quiet>>

\* The deletion of a task the server has not seen takes it out of the queue.
QueueDelete ==
  /\ Queueing("delete")
  /\ LET t         == call.task
         create    == call.read["create"] # None
         update    == call.read["update"] # None
         unqueued  == IF update THEN Delete(queue, t, "update") ELSE queue
         forgotten == Delete(unqueued, t, "create")
     IN  /\ queue' = IF create THEN forgotten
                     ELSE Put(unqueued, [call.operation EXCEPT !.key = keys + 1])
         /\ keys' = IF create THEN keys ELSE keys + 1
         /\ fate' = IF update /\ queue[t]["update"] # None
                      THEN Tell(EditsOf(queue[t]["update"].input), "dropped") ELSE fate
         /\ cache' = [cache EXCEPT ![t] = NotCached]
  /\ snapshot' = RefreshSnapshot(queue', snapshot.syncing)
  /\ call' = None
  /\ UNCHANGED <<serverVars, signedIn, sync, networkVars, edits, taken, quiet>>

\* A task read of the server, or brought by an event, is cached, whatever has
\* happened since it was read.
RememberTask(t, v) ==
  /\ online /\ signedIn /\ v \in 1..server[t].version /\ v # cache[t].version
  /\ v = server[t].version => server[t].life = "live"
  /\ Remember(t, v)
  /\ UNCHANGED <<networkVars, serverVars, queue, snapshot, signedIn, call, sync, countVars, historyVars>>

ForgetTask(t) ==
  /\ online /\ signedIn /\ Shown(t) /\ server[t].life = "deleted"
  /\ cache' = [cache EXCEPT ![t] = NotCached]
  /\ UNCHANGED <<networkVars, serverVars, queue, snapshot, signedIn, call, sync, countVars, historyVars>>

DiscardBlockedChanges ==
  /\ DiscardOffered /\ signedIn
  /\ queue' = [t \in Tasks |-> [k \in Kinds |-> IF queue[t][k] \in Blocked THEN None ELSE queue[t][k]]]
  /\ cache' = [t \in Tasks |-> IF \E o \in Blocked : o.task = t THEN NotCached ELSE cache[t]]
  /\ fate' = Tell(UNION {EditsOf(o.input) : o \in Blocked}, "dropped")
  /\ snapshot' = RefreshSnapshot(queue', FALSE)
  /\ UNCHANGED <<networkVars, serverVars, signedIn, call, sync, countVars, quiet>>

\* Signing out clears what the device keeps of the user; a synchronisation goes on.
LogOut ==
  /\ signedIn /\ call = None
  /\ edits < MaxEdits /\ edits' = edits + 1
  /\ signedIn' = FALSE
  /\ queue' = EmptyQueue
  /\ cache' = [t \in Tasks |-> NotCached]
  /\ fate' = Tell(UNION {EditsOf(o.input) : o \in Operations}, "dropped")
  /\ snapshot' = SnapshotOf(EmptyQueue, FALSE)
  /\ UNCHANGED <<networkVars, serverVars, call, sync, keys, taken, quiet>>

LogIn ==
  /\ ~signedIn /\ online
  /\ signedIn' = TRUE
  /\ snapshot' = SnapshotOf(queue, FALSE)
  /\ UNCHANGED <<networkVars, serverVars, queue, cache, call, sync, countVars, historyVars>>

-----------------------------------------------------------------------------
(* The synchronisation *)

\* Operations are sent by the time of their creation, which the keys follow.
First(batch) == CHOOSE o \in batch : \A p \in batch : o.key <= p.key

\* performSync reads the pending operations; one synchronisation runs at a time.
PerformSync == [kind |-> "sync", batch |-> Pending, versions |-> [t \in Tasks |-> 0]]

MaySync == signedIn /\ Pending # {}

Starts ==
  /\ MaySync /\ ~Syncing
  /\ sync' = PerformSync
  /\ snapshot' = [snapshot EXCEPT !.syncing = TRUE]
  /\ call' = IF call = None THEN None ELSE [call EXCEPT !.quiet = FALSE]

Retry ==
  /\ RetryOffered /\ Starts
  /\ UNCHANGED <<networkVars, serverVars, queue, cache, signedIn, countVars, historyVars>>

\* The page synchronises when the device comes online.
GoOnline ==
  /\ ~online
  /\ online' = TRUE
  /\ Starts \/ (~(MaySync /\ ~Syncing) /\ UNCHANGED <<sync, snapshot, call>>)
  /\ UNCHANGED <<faults, wire, late, serverVars, queue, cache, signedIn, countVars, historyVars>>

\* The page is loaded again, or closed and opened: its processes are gone, and
\* what the device keeps is read back and sent when there is a network.
Reload ==
  /\ faults < MaxFaults /\ faults' = faults + 1
  /\ wire' = [who \in Callers |-> None]
  /\ LET asked == {wire[who].request : who \in {w \in Callers :
                                          wire[w] # None /\ wire[w].answer = NoAnswer}}
     IN  \E arriving \in SUBSET asked : late' = late \cup arriving
  /\ call' = None
  /\ sync' = IF online /\ MaySync THEN PerformSync ELSE None
  /\ snapshot' = RefreshSnapshot(queue, online /\ MaySync)
  /\ UNCHANGED <<online, serverVars, queue, cache, signedIn, countVars, historyVars>>

\* Faulty: the base is brought up to the cached version when it is sent.
RebasedVersion(o) == IF Shown(o.task) THEN cache[o.task].version ELSE o.expected

\* The version an earlier operation of the batch has left, or the base.
ExpectedVersion(o) ==
  IF sync.versions[o.task] # 0 THEN sync.versions[o.task] ELSE o.expected

SendNext ==
  /\ Syncing /\ wire["sync"] = None /\ sync.batch # {}
  /\ LET o == First(sync.batch) IN Send("sync", o, ExpectedVersion(o))
  /\ UNCHANGED <<online, faults, late, serverVars, deviceVars, call, sync, countVars, historyVars>>

SyncApplied ==
  /\ Syncing /\ Ok("sync")
  /\ LET o == First(sync.batch)
         version == wire["sync"].answer.version
     IN  /\ queue' = Delete(queue, o.task, o.kind)
         /\ cache' = [cache EXCEPT ![o.task] = IF o.kind = "delete" THEN NotCached ELSE Cached(version)]
         /\ sync' = [sync EXCEPT !.batch = @ \ {o},
                       !.versions[o.task] = IF o.kind = "delete" THEN @ ELSE version]
  /\ Answered("sync")
  /\ UNCHANGED <<serverVars, snapshot, signedIn, call, countVars, historyVars>>

\* Faulty: an operation the server refuses is tried again.
Retried(o, status) == o

Settled(o, status) == [o EXCEPT !.status = status]

SyncRefused ==
  /\ Syncing /\ Refused("sync") /\ online
  /\ LET o == First(sync.batch)
     IN  /\ queue' = Put(queue, Settled(o, wire["sync"].answer.status))
         /\ sync' = [sync EXCEPT !.batch = @ \ {o}]
  /\ Answered("sync")
  /\ UNCHANGED <<serverVars, cache, snapshot, signedIn, call, countVars, historyVars>>

\* Faulty: the synchronisation goes on with the next operation.
Skipped == [sync EXCEPT !.batch = @ \ {First(@)}]

\* The operations behind the one that failed stay queued.
Stopped == None

SyncBreaks ==
  /\ Syncing /\ NetworkFailure("sync")
  /\ sync' = Stopped
  /\ snapshot' = RefreshSnapshot(queue, FALSE)
  /\ UNCHANGED <<serverVars, queue, cache, signedIn, call, countVars, historyVars>>

EndSync ==
  /\ Syncing /\ sync.batch = {} /\ wire["sync"] = None
  /\ sync' = None
  /\ snapshot' = RefreshSnapshot(queue, FALSE)
  /\ UNCHANGED <<networkVars, serverVars, queue, cache, signedIn, call, countVars, historyVars>>

-----------------------------------------------------------------------------
Unborn == [version |-> 0, life |-> "unborn", touched |-> NoInput, mine |-> NoInput]
Existing == [Unborn EXCEPT !.version = 1, !.life = "live"]

\* Some tasks exist, and the device has seen them.
Init ==
  /\ taken \in SUBSET Tasks
  /\ server = [t \in Tasks |-> IF t \in taken THEN Existing ELSE Unborn]
  /\ cache = [t \in Tasks |-> IF t \in taken THEN Cached(1) ELSE NotCached]
  /\ saved = [k \in Keys |-> None]
  /\ others = 0 /\ online \in BOOLEAN /\ faults = 0 /\ signedIn = TRUE
  /\ queue = EmptyQueue
  /\ snapshot = SnapshotOf(EmptyQueue, FALSE)
  /\ call = None /\ sync = None
  /\ wire = [w \in Callers |-> None] /\ late = {}
  /\ keys = 0 /\ edits = 0
  /\ fate = [e \in Edits |-> "none"] /\ quiet = {} /\ applied = [e \in Edits |-> 0]

CallStep ==
  \/ CallSucceeds \/ CallRefused \/ CallFailsOver
  \/ QueueCreate \/ QueueUpdate \/ CacheMiss \/ QueueDelete

SyncStep == SendNext \/ SyncApplied \/ SyncRefused \/ SyncBreaks \/ EndSync

UserStep ==
  \/ \E t \in Tasks :
       BeginCreate(t) \/ BeginDelete(t) \/ \E f \in Fields : BeginUpdate(t, f)
  \/ DiscardBlockedChanges \/ LogOut \/ LogIn

WorldStep ==
  \/ GoOffline \/ GoOnline \/ Reload
  \/ \E w \in Callers : Serve(w)
  \/ \E r \in late : ServeLate(r)
  \/ \E t \in Tasks :
       \/ ForgetTask(t)
       \/ \E v \in 1..(MaxEdits + MaxOthers + 2) : RememberTask(t, v)
       \/ \E f \in Fields : OthersUpdate(t, f)

Next == UserStep \/ CallStep \/ Retry \/ SyncStep \/ WorldStep

Spec == Init /\ [][Next]_vars

\* Requests are answered or fail, promises go on, the device comes online
\* again, and the user takes up the banner's offer to retry.
Fairness ==
  /\ WF_vars(CallStep) /\ WF_vars(SyncStep) /\ WF_vars(Retry) /\ WF_vars(GoOnline)
  /\ \A w \in Callers : WF_vars(Serve(w))

FairSpec == Spec /\ Fairness

-----------------------------------------------------------------------------
(* Properties *)

TypeOK ==
  LET Input_ == [Fields -> 0..MaxEdits]
      Op == [kind : Kinds, task : Tasks, key : Keys, input : Input_, expected : Nat,
             status : {"pending", "failed", "conflict"}]
  IN  /\ queue \in [Tasks -> [Kinds -> {None} \cup Op]]
      /\ \A t \in Tasks, k \in Kinds : queue[t][k] # None => queue[t][k].kind = k /\ queue[t][k].task = t
      /\ cache \in [Tasks -> {NotCached} \cup {Cached(v) : v \in 0..(MaxEdits + MaxOthers + 2)}]
      /\ keys \in 0..Cardinality(Keys) /\ edits \in 0..MaxEdits
      /\ fate \in [Edits -> {"none", "accepted", "refused", "replaced", "dropped"}]

QueuedEdits == UNION {EditsOf(o.input) : o \in Operations}

Survives(e) == fate[e] = "accepted" => applied[e] > 0 \/ e \in QueuedEdits

\* An edit that was accepted while nothing was being synchronised reaches the
\* server or stays in the queue, unless the user replaces or discards it.
QuietEditsSurvive == \A e \in quiet : Survives(e)

\* Sent again after an answer was lost, with the same key or another one, an
\* edit is applied once.
AppliedAtMostOnce == \A e \in Edits : applied[e] <= 1

\* No request brings an older edit of the user back over a newer one.
EditsDoNotRollBack ==
  [][\A t \in Tasks, f \in Fields :
       server'[t].mine[f] >= server[t].mine[f]]_vars

\* No edit or deletion is on its way while the creation of its task still waits.
SentInOrder ==
  wire["sync"] # None =>
    LET o == wire["sync"].request IN
      o.kind # "create" => queue[o.task]["create"] = None \/ queue[o.task]["create"].status # "pending"

\* Once the user stops, nothing stays pending: it is applied, or shown as failed
\* or conflicting.
QueueDrains == <>[](signedIn => Pending = {})

=============================================================================
