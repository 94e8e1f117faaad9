--------------------------- MODULE TaskCacheProofs ---------------------------
(***************************************************************************)
(* Proofs about the query cache: when everything is quiet, the panel and   *)
(* the list show what the server has, and a task has one row.              *)
(*                                                                         *)
(* An entry of the cache is right, or marked as pending for a mutation     *)
(* that is under way, or behind an event that is still to be applied.      *)
(***************************************************************************)
EXTENDS TaskCache, FiniteSetTheorems, SequenceTheorems, TLAPS

Entries == [kind : {"task"}, version : Nat, deps : Nat,
            sync : {"synced", "pending", "failed", "conflict"}]
Records == [version : Nat, deps : Nat, life : {"unborn", "live", "deleted"}]
Events == [task : Tasks, kind : {"created", "updated", "dependency", "deleted"},
           version : Nat, deps : Nat]

\* The mutations that write the cache before they are answered.
Optimistic == Moves \cup {"edit", "link"}

\* What can be cached of a task is no newer than the server's.
Known(t) == {x \in Entries : x.version <= server[t].version}
RowsOf(t) == {<<>>} \cup {<<x>> : x \in Known(t)}

\* No event about the task comes after the n-th.
Still(t, n) == \A i \in (n + 1)..Len(log) : log[i].task # t

Matches(t, x) ==
  Live(t) /\ x.version = server[t].version /\ x.deps = server[t].deps

-----------------------------------------------------------------------------
ServerHolds ==
  /\ server \in [Tasks -> Records] /\ \A t \in Tasks : server[t].life = "unborn" => server[t].version = 0
  /\ log \in Seq(Events) /\ cursor \in 0..Len(log)
  /\ \A i \in 1..Len(log) :
       LET e == log[i] IN
         /\ e.version <= server[e.task].version
         /\ Still(e.task, i) =>
              /\ e.version = server[e.task].version /\ e.deps = server[e.task].deps
              /\ e.kind # "deleted" => Live(e.task)

\* A mutation that is not yet saved, and will replace what it wrote.
Unsettled(t) ==
  \E k \in Optimistic :
    slot[k] # Free /\ slot[k].task = t /\ (k = "link" => slot[k].phase # "ok")

Right(t, x) == Live(t) /\ IF x.sync = "pending" THEN Unsettled(t) ELSE Matches(t, x)

DetailHolds(t) ==
  /\ detail[t] \in Known(t) \cup {Absent}
  /\ t \notin detailBehind /\ detail[t] # Absent /\ Still(t, cursor) =>
       Live(t) /\ (detailFetch[t] = Idle => Right(t, detail[t]))

ListHolds(t) ==
  /\ rows[t] \in RowsOf(t)
  /\ t \notin listBehind /\ listFetch = Idle /\ Still(t, cursor) =>
       /\ rows[t] # <<>> <=> Live(t)
       /\ rows[t] # <<>> => Right(t, rows[t][1])

CacheHolds ==
  /\ detail = [t \in Tasks |-> detail[t]] /\ rows = [t \in Tasks |-> rows[t]]
  /\ total = CountOf(rows)
  /\ detailBehind \subseteq Tasks /\ listBehind \subseteq Tasks
  /\ \A t \in Tasks : DetailHolds(t) /\ ListHolds(t)

\* An answer is right if no event came since.
DetailRead(t, f) ==
  /\ f = [phase |-> "read", at |-> f.at, entry |-> f.entry]
  /\ f.at \in 0..Len(log) /\ f.entry \in Known(t) /\ f.entry.sync = "synced"
  /\ Still(t, f.at) => Matches(t, f.entry)

ListRead(f) ==
  /\ f = [phase |-> "read", at |-> f.at, rows |-> [t \in Tasks |-> f.rows[t]]]
  /\ f.at \in 0..Len(log)
  /\ \A t \in Tasks :
       /\ f.rows[t] \in RowsOf(t)
       /\ Still(t, f.at) =>
            /\ f.rows[t] # <<>> <=> Live(t)
            /\ f.rows[t] # <<>> => f.rows[t][1].sync = "synced" /\ Matches(t, f.rows[t][1])

FetchesHold ==
  /\ detailFetch = [t \in Tasks |-> detailFetch[t]]
  /\ \A t \in Tasks : detailFetch[t] \notin {Idle, Asked} => DetailRead(t, detailFetch[t])
  /\ listFetch \notin {Idle, Asked} => ListRead(listFetch)

Requests == [phase : {"sent", "ok", "conflict", "error"}, kind : Kinds, task : Tasks,
             expected : Nat, previous : Entries \cup {Absent}, since : Nat, stale : BOOLEAN,
             entry : Entries \cup {Absent}, at : Nat]

\* What a roll-back restores, and what was answered, are right if no event came since.
SlotHolds(k, m) ==
  /\ m \in Requests /\ m.kind = k /\ m.since <= cursor
  /\ k \in Optimistic =>
       /\ m.previous \in Known(m.task)
       /\ ~m.stale /\ m.previous.sync # "pending" /\ Still(m.task, m.since) =>
            Matches(m.task, m.previous)
  /\ m.phase = "ok" =>
       /\ m.at \in 1..Len(log) /\ log[m.at].task = m.task
       /\ m.entry \in Known(m.task) /\ m.entry.sync = "synced"
       /\ k = "delete" => server[m.task].life = "deleted"
       /\ k # "delete" /\ Still(m.task, m.at) => Matches(m.task, m.entry)

SlotsHold ==
  /\ slot = [k \in Kinds |-> slot[k]]
  /\ \A k \in Kinds : slot[k] # Free => SlotHolds(k, slot[k])

IInv == ServerHolds /\ CacheHolds /\ FetchesHold /\ SlotsHold


-----------------------------------------------------------------------------
(* Rows and their number *)

LEMMA OneRow == \A x : <<x>> # <<>> /\ <<x>>[1] = x
  OBVIOUS

LEMMA RowsReplaced ==
  ASSUME NEW row, NEW x, row \in {<<>>} \cup {<<y>> : y \in Entries}
  PROVE  [i \in DOMAIN row |-> x] = IF row = <<>> THEN <<>> ELSE <<x>>
  <1>1. CASE row = <<>>
    BY <1>1
  <1>2. ASSUME NEW y \in Entries, row = <<y>>
        PROVE  [i \in DOMAIN row |-> x] = <<x>>
    BY <1>2
  <1> QED
    BY <1>1, <1>2, OneRow

Listed(r) == {t \in Tasks : r[t] # <<>>}

LEMMA CountIsNumber ==
  ASSUME NEW r
  PROVE  IsFiniteSet(Listed(r)) /\ CountOf(r) = Cardinality(Listed(r)) /\ CountOf(r) \in Nat
  <1>1. IsFiniteSet(Listed(r))
    BY FS_Subset, CacheAssumption DEF Listed
  <1> QED
    BY <1>1, FS_CardinalityType DEF CountOf, Listed

LEMMA CountStays ==
  ASSUME NEW r, NEW s, \A t \in Tasks : r[t] # <<>> <=> s[t] # <<>>
  PROVE  CountOf(s) = CountOf(r)
  <1>1. {t \in Tasks : s[t] # <<>>} = {t \in Tasks : r[t] # <<>>}
    OBVIOUS
  <1> QED
    BY <1>1 DEF CountOf

LEMMA CountRises ==
  ASSUME NEW r, NEW s, NEW t \in Tasks, r[t] = <<>>, s[t] # <<>>,
         \A u \in Tasks \ {t} : r[u] # <<>> <=> s[u] # <<>>
  PROVE  CountOf(s) = CountOf(r) + 1 /\ CountOf(r) = CountOf(s) - 1
  <1>1. Listed(s) = Listed(r) \cup {t} /\ t \notin Listed(r)
    BY DEF Listed
  <1> QED
    BY <1>1, CountIsNumber, FS_AddElement

-----------------------------------------------------------------------------
(* What stays as it was *)

SameProject == server' = server /\ log' = log

\* An event of another task may have been applied.
LEMMA DetailStays ==
  ASSUME IInv, SameProject, NEW t \in Tasks,
         cursor' = cursor \/ (cursor' = cursor + 1 /\ Next_.task # t),
         detail'[t] = detail[t],
         t \notin detailBehind' =>
           t \notin detailBehind /\ (detailFetch'[t] = Idle => detailFetch[t] = Idle),
         Unsettled(t) => Unsettled(t)'
  PROVE  DetailHolds(t)'
  <1>1. Still(t, cursor)' => Still(t, cursor)
    BY LenProperties DEF IInv, ServerHolds, SameProject, Next_, Still
  <1> QED
    BY <1>1 DEF IInv, CacheHolds, DetailHolds, SameProject, Known, Right, Matches, Live

LEMMA ListStays ==
  ASSUME IInv, SameProject, NEW t \in Tasks,
         cursor' = cursor \/ (cursor' = cursor + 1 /\ Next_.task # t),
         rows'[t] = rows[t],
         t \notin listBehind' => t \notin listBehind /\ (listFetch' = Idle => listFetch = Idle),
         Unsettled(t) => Unsettled(t)'
  PROVE  ListHolds(t)'
  <1>1. Still(t, cursor)' => Still(t, cursor)
    BY LenProperties DEF IInv, ServerHolds, SameProject, Next_, Still
  <1> QED
    BY <1>1 DEF IInv, CacheHolds, ListHolds, SameProject, RowsOf, Known, Right, Matches, Live

LEMMA ServerStays ==
  ASSUME ServerHolds, SameProject, cursor' \in 0..Len(log)
  PROVE  ServerHolds'
  BY DEF ServerHolds, SameProject, Still, Live

LEMMA SlotStays ==
  ASSUME NEW k \in Kinds, NEW m, SlotHolds(k, m), SameProject, cursor \in Nat, cursor' \in Nat,
         cursor' >= cursor
  PROVE  SlotHolds(k, m)'
  BY DEF SlotHolds, SameProject, Requests, Known, Still, Matches, Live

LEMMA FetchesStay ==
  ASSUME FetchesHold, SameProject, detailFetch' = [t \in Tasks |-> detailFetch'[t]],
         \A t \in Tasks : detailFetch'[t] \in {detailFetch[t], Idle, Asked},
         listFetch' \in {listFetch, Idle, Asked}
  PROVE  FetchesHold'
  BY DEF FetchesHold, DetailRead, ListRead, SameProject, RowsOf, Known, Still, Matches, Live

LEMMA StillSince ==
  ASSUME NEW t, NEW n \in Nat, t \notin AppliedSince(n), log \in Seq(Events), cursor \in Nat,
         Still(t, cursor)
  PROVE  Still(t, n)
  BY DEF Still, AppliedSince

-----------------------------------------------------------------------------
(* A change of the project: what was right of its task is behind its event *)

EventKinds == {"created", "updated", "dependency", "deleted"}
LifeAfter(kind) == IF kind = "deleted" THEN "deleted" ELSE "live"

LEMMA CommitGrows ==
  ASSUME ServerHolds, NEW t \in Tasks, NEW kind \in EventKinds, NEW task \in Records,
         task.version >= server[t].version, task.life = LifeAfter(kind),
         Commit(t, kind, task), cursor' = cursor
  PROVE  /\ ServerHolds'
         /\ Len(log') = Len(log) + 1 /\ \A i \in 1..Len(log) : log'[i] = log[i]
         /\ log'[Len(log) + 1].task = t /\ server'[t] = task
         /\ \A u \in Tasks \ {t} : server'[u] = server[u]
         /\ \A n \in 0..Len(log) : \A u \in Tasks : Still(u, n)' => u # t /\ Still(u, n)
         /\ Still(t, Len(log) + 1)'
         /\ \A u \in Tasks : server[u].version <= server'[u].version
  <1> DEFINE e == [task |-> t, kind |-> kind, version |-> task.version, deps |-> task.deps]
  <1>1. log \in Seq(Events) /\ e \in Events /\ log' = Append(log, e) /\ Len(log) \in Nat
    BY LenProperties DEF ServerHolds, Commit, Events, EventKinds, Records
  <1>2. /\ log' \in Seq(Events) /\ Len(log') = Len(log) + 1
        /\ \A i \in 1..Len(log) : log'[i] = log[i]
        /\ log'[Len(log) + 1] = e
    BY <1>1, AppendProperties
  <1>3. server' = [server EXCEPT ![t] = task] /\ server \in [Tasks -> Records]
    BY DEF Commit, ServerHolds
  <1>4. \A u \in Tasks : server[u].version <= server'[u].version
    BY <1>3 DEF Records
  <1>5. \A n \in 0..Len(log) : \A u \in Tasks : Still(u, n)' => u # t /\ Still(u, n)
    BY <1>1, <1>2 DEF Still
  <1>6. Still(t, Len(log) + 1)'
    BY <1>1, <1>2 DEF Still
  <1>7. ServerHolds'
    <2>1. server' \in [Tasks -> Records] /\ log' \in Seq(Events) /\ cursor' \in 0..Len(log')
      BY <1>1, <1>2, <1>3 DEF ServerHolds
    <2>4. \A u \in Tasks : server'[u].life = "unborn" => server'[u].version = 0
      BY <1>3 DEF ServerHolds, LifeAfter
    <2>2. ASSUME NEW i \in 1..Len(log'), NEW u \in Tasks, u = log'[i].task
          PROVE  /\ log'[i].version <= server'[u].version
                 /\ Still(u, i)' =>
                      /\ log'[i].version = server'[u].version
                      /\ log'[i].deps = server'[u].deps
                      /\ log'[i].kind # "deleted" => Live(u)'
      <3>1. CASE i = Len(log) + 1
        <4>1. log'[i] = e /\ u = t
          BY <1>2, <2>2, <3>1
        <4> QED
          BY <1>3, <4>1 DEF Live, Records, LifeAfter
      <3>2. CASE i \in 1..Len(log)
        <4>1. log'[i] = log[i] /\ log[i] \in Events /\ u = log[i].task
          BY <1>1, <1>2, <2>2, <3>2, ElementOfSeq
        <4>2. /\ log[i].version <= server[u].version
              /\ Still(u, i) =>
                   /\ log[i].version = server[u].version /\ log[i].deps = server[u].deps
                   /\ log[i].kind # "deleted" => Live(u)
          BY <3>2, <4>1 DEF ServerHolds
        <4>3. log[i].version <= server'[u].version
          BY <1>3, <1>4, <4>1, <4>2 DEF Events, Records
        <4>4. Still(u, i)' => u # t /\ Still(u, i)
          BY <1>1, <1>5, <3>2
        <4>5. u # t => server'[u] = server[u]
          BY <1>3
        <4> QED
          BY <4>1, <4>2, <4>3, <4>4, <4>5 DEF Live
      <3> QED
        BY <1>1, <1>2, <3>1, <3>2
    <2>3. ASSUME NEW i \in 1..Len(log')
          PROVE  log'[i].task \in Tasks
      <3>1. log'[i] \in Events
        BY <2>1, ElementOfSeq
      <3> QED
        BY <3>1 DEF Events
    <2> QED
      BY <2>1, <2>2, <2>3, <2>4 DEF ServerHolds
  <1> QED
    BY <1>2, <1>3, <1>4, <1>5, <1>6, <1>7

\* A request that is being served was the only thing that held a pending entry
\* together, or still does.
LEMMA CommitKeeps ==
  ASSUME IInv, NEW t \in Tasks, NEW kind \in EventKinds, NEW task \in Records,
         task.version >= server[t].version, task.life = LifeAfter(kind),
         Commit(t, kind, task), UNCHANGED <<cacheVars, fetchVars, cursor, behindVars>>,
         \A u \in Tasks \ {t} : Unsettled(u) => Unsettled(u)'
  PROVE  ServerHolds' /\ CacheHolds' /\ FetchesHold'
  <1>1. /\ ServerHolds'
        /\ Len(log') = Len(log) + 1
        /\ \A u \in Tasks \ {t} : server'[u] = server[u]
        /\ \A n \in 0..Len(log) : \A u \in Tasks : Still(u, n)' => u # t /\ Still(u, n)
        /\ \A u \in Tasks : server[u].version <= server'[u].version
    BY CommitGrows DEF IInv
  <1>2. /\ server \in [Tasks -> Records] /\ server' \in [Tasks -> Records]
        /\ cursor \in 0..Len(log) /\ Len(log) \in Nat
    BY <1>1, LenProperties DEF IInv, ServerHolds
  <1>3. \A u \in Tasks : Known(u) \subseteq Known(u)' /\ RowsOf(u) \subseteq RowsOf(u)'
    <2>1. \A u \in Tasks : Known(u) \subseteq Known(u)'
      BY <1>1, <1>2 DEF Known, Entries, Records
    <2> QED
      BY <2>1 DEF RowsOf
  <1>4. \A u \in Tasks : Still(u, cursor)' => u # t /\ Still(u, cursor)
    BY <1>1, <1>2 DEF Still
  <1>5. \A u \in Tasks \ {t} : \A x : Right(u, x) => Right(u, x)'
    BY <1>1 DEF Right, Matches, Live
  <1>6. CacheHolds'
    <2>1. \A u \in Tasks : DetailHolds(u)'
      BY <1>1, <1>3, <1>4, <1>5 DEF IInv, CacheHolds, DetailHolds, Live, cacheVars, fetchVars, behindVars
    <2>2. \A u \in Tasks : ListHolds(u)'
      BY <1>1, <1>3, <1>4, <1>5 DEF IInv, CacheHolds, ListHolds, Live, cacheVars, fetchVars, behindVars
    <2> QED
      BY <2>1, <2>2 DEF IInv, CacheHolds, cacheVars, behindVars, CountOf
  <1>7. FetchesHold'
    <2>1. \A u \in Tasks \ {t} : \A x : Matches(u, x) => Matches(u, x)'
      BY <1>1 DEF Matches, Live
    <2>2. \A u \in Tasks : \A f : DetailRead(u, f) => DetailRead(u, f)'
      BY <1>1, <1>2, <1>3, <2>1 DEF DetailRead, Still
    <2>3. \A f : ListRead(f) => ListRead(f)'
      BY <1>1, <1>2, <1>3, <2>1 DEF ListRead, Still, Live
    <2> QED
      BY <2>2, <2>3 DEF IInv, FetchesHold, fetchVars
  <1> QED
    BY <1>1, <1>6, <1>7

LEMMA SlotsOutlive ==
  ASSUME IInv, NEW t \in Tasks, NEW kind \in EventKinds, NEW task \in Records,
         task.version >= server[t].version, task.life = LifeAfter(kind),
         Commit(t, kind, task), cursor' = cursor, server[t].life # "deleted",
         NEW k \in Kinds, NEW m, SlotHolds(k, m)
  PROVE  SlotHolds(k, m)'
  <1>1. /\ Len(log') = Len(log) + 1 /\ \A i \in 1..Len(log) : log'[i] = log[i]
        /\ \A u \in Tasks \ {t} : server'[u] = server[u]
        /\ \A n \in 0..Len(log) : \A u \in Tasks : Still(u, n)' => u # t /\ Still(u, n)
        /\ \A u \in Tasks : server[u].version <= server'[u].version
    BY CommitGrows DEF IInv
  <1>2. /\ server \in [Tasks -> Records] /\ server' \in [Tasks -> Records]
        /\ cursor \in 0..Len(log) /\ Len(log) \in Nat
    BY CommitGrows, LenProperties DEF IInv, ServerHolds
  <1>3. \A u \in Tasks : Known(u) \subseteq Known(u)'
    BY <1>1, <1>2 DEF Known, Entries, Records
  <1>4. \A u \in Tasks \ {t} : \A x : Matches(u, x) => Matches(u, x)'
    BY <1>1 DEF Matches, Live
  <1>5. m \in Requests /\ m.task \in Tasks /\ m.since \in 0..Len(log)
    BY <1>2 DEF SlotHolds, Requests
  <1>6. \A n \in 0..Len(log) : Still(m.task, n)' => m.task # t /\ Still(m.task, n)
    BY <1>1, <1>5
  <1>7. \A x : \A n \in 0..Len(log) :
           Still(m.task, n)' /\ (Still(m.task, n) => Matches(m.task, x)) => Matches(m.task, x)'
    BY <1>4, <1>5, <1>6
  <1>8. m \in Requests /\ m.kind = k /\ m.since <= cursor'
    BY <1>5 DEF SlotHolds
  <1>9. k \in Optimistic =>
          /\ m.previous \in Known(m.task)'
          /\ ~m.stale /\ m.previous.sync # "pending" /\ Still(m.task, m.since)' =>
               Matches(m.task, m.previous)'
    BY <1>3, <1>5, <1>7 DEF SlotHolds
  <1>10. ASSUME m.phase = "ok"
         PROVE  /\ m.at \in 1..Len(log') /\ log'[m.at].task = m.task
                /\ m.entry \in Known(m.task)' /\ m.entry.sync = "synced"
                /\ k = "delete" => server'[m.task].life = "deleted"
                /\ k # "delete" /\ Still(m.task, m.at)' => Matches(m.task, m.entry)'
    <2>1. m.at \in 1..Len(log) /\ m.at \in 0..Len(log)
      BY <1>2, <1>10 DEF SlotHolds
    <2>2. m.at \in 1..Len(log') /\ log'[m.at].task = m.task
      BY <1>1, <1>2, <1>10, <2>1 DEF SlotHolds
    <2>3. m.entry \in Known(m.task)' /\ m.entry.sync = "synced"
      BY <1>3, <1>5, <1>10 DEF SlotHolds
    <2>4. k = "delete" => server'[m.task].life = "deleted"
      BY <1>1, <1>5, <1>10 DEF SlotHolds
    <2>5. k # "delete" /\ Still(m.task, m.at)' => Matches(m.task, m.entry)'
      BY <1>7, <1>10, <2>1 DEF SlotHolds
    <2> QED
      BY <2>2, <2>3, <2>4, <2>5
  <1> QED
    BY <1>8, <1>9, <1>10 DEF SlotHolds

LEMMA TasksChange ==
  ASSUME IInv, NEW t \in Tasks
  PROVE  /\ Live(t) => \A task \in {Updated(t), Linked(t), Deleted(t)} :
                         task \in Records /\ task.version >= server[t].version
         /\ Live(t) => /\ Updated(t).life = "live" /\ Linked(t).life = "live"
                       /\ Deleted(t).life = "deleted"
         /\ server[t].life = "unborn" => Created.version >= server[t].version
         /\ Created \in Records /\ Created.life = "live"
  <1>1. server[t] \in Records /\ (server[t].life = "unborn" => server[t].version = 0)
    BY DEF IInv, ServerHolds
  <1>2. Updated(t) \in Records /\ Updated(t).version = server[t].version + 1
        /\ Updated(t).life = server[t].life
    BY <1>1 DEF Records, Updated
  <1>3. Linked(t) \in Records /\ Linked(t).version = server[t].version
        /\ Linked(t).life = server[t].life
    BY <1>1 DEF Records, Linked
  <1>4. Deleted(t) \in Records /\ Deleted(t).version = server[t].version + 1
        /\ Deleted(t).life = "deleted"
    BY <1>1, <1>2 DEF Records, Deleted
  <1>5. Created \in Records /\ Created.version = 1 /\ Created.life = "live"
    BY DEF Records, Created
  <1> QED
    BY <1>1, <1>2, <1>3, <1>4, <1>5 DEF Live, Records

LEMMA OthersChangeStep ==
  ASSUME IInv, NEW t \in Tasks, OthersChange(t)
  PROVE  IInv'
  <1>1. \A k \in Kinds : slot'[k] = slot[k]
    BY DEF OthersChange
  <1>2. \A u \in Tasks : Unsettled(u) => Unsettled(u)'
    BY DEF OthersChange, Unsettled
  <1>3. ASSUME NEW kind \in EventKinds, NEW task \in Records, task.version >= server[t].version,
               task.life = LifeAfter(kind), server[t].life # "deleted",
               Commit(t, kind, task)
        PROVE  IInv'
    <2>1. ServerHolds' /\ CacheHolds' /\ FetchesHold'
      BY <1>2, <1>3, CommitKeeps DEF OthersChange
    <2>2. ASSUME NEW k \in Kinds, slot'[k] # Free
          PROVE  SlotHolds(k, slot[k])'
      <3> DEFINE m == slot[k]
      <3>1. SlotHolds(k, m)
        BY <1>1, <2>2 DEF IInv, SlotsHold
      <3>2. PICK n : n = m
        OBVIOUS
      <3>3. SlotHolds(k, n)'
        BY <1>3, <3>1, <3>2, SlotsOutlive DEF OthersChange
      <3> QED
        BY <1>1, <3>2, <3>3 DEF OthersChange
    <2> QED
      BY <2>1, <2>2 DEF IInv, SlotsHold, OthersChange
  <1> QED
    BY <1>3, TasksChange DEF OthersChange, EventKinds, LifeAfter, Live

-----------------------------------------------------------------------------
(* The mutations under way *)

LEMMA SlotTaken ==
  ASSUME IInv, NEW k \in Kinds, slot[k].phase # "free"
  PROVE  /\ slot[k] # Free /\ SlotHolds(k, slot[k]) /\ slot[k] \in Requests
         /\ slot[k].task \in Tasks /\ slot[k].kind = k
  BY DEF IInv, SlotsHold, SlotHolds, Free, Requests

LEMMA SlotChanges ==
  ASSUME SlotsHold, NEW k \in Kinds, NEW m, slot' = [slot EXCEPT ![k] = m],
         m # Free => SlotHolds(k, m)',
         \A j \in Kinds \ {k} : \A o : SlotHolds(j, o) => SlotHolds(j, o)'
  PROVE  SlotsHold'
  <1>1. slot' = [j \in Kinds |-> slot'[j]] /\ slot'[k] = m
        /\ \A j \in Kinds \ {k} : slot'[j] = slot[j]
    BY DEF SlotsHold
  <1>2. ASSUME NEW j \in Kinds, slot'[j] # Free
        PROVE  SlotHolds(j, slot[j])'
    <2>1. PICK o : o = slot'[j]
      OBVIOUS
    <2>2. SlotHolds(j, o)'
      BY <1>1, <1>2, <2>1 DEF SlotsHold
    <2> QED
      BY <2>1, <2>2
  <1> QED
    BY <1>1, <1>2 DEF SlotsHold

LEMMA RefuseStep ==
  ASSUME IInv, NEW k \in Kinds, Refuse(k)
  PROVE  IInv'
  <1>0. PICK m : m = slot[k]
    OBVIOUS
  <1>1. m # Free /\ SlotHolds(k, m) /\ m \in Requests /\ m.phase = "sent"
    BY <1>0, SlotTaken DEF Refuse
  <1>2. PICK status \in {"conflict", "error"} : Answered(k, status, Absent, 0)
    BY DEF Refuse
  <1>3. PICK o : o = [m EXCEPT !.phase = status, !.entry = Absent, !.at = 0]
    OBVIOUS
  <1>4. slot' = [slot EXCEPT ![k] = o] /\ slot \in [Kinds -> {slot[j] : j \in Kinds}]
    BY <1>0, <1>2, <1>3 DEF Answered, IInv, SlotsHold
  <1>5. /\ o \in Requests /\ o.phase = status
        /\ o.kind = m.kind /\ o.task = m.task /\ o.since = m.since /\ o.stale = m.stale
        /\ o.previous = m.previous
    BY <1>1, <1>3 DEF Requests
  <1>6. o # Free
    BY <1>5 DEF Free
  <1>7. SameProject /\ UNCHANGED <<cacheVars, fetchVars, cursor, behindVars>>
    BY DEF Refuse, SameProject, serverVars
  <1>8. cursor \in Nat
    BY LenProperties DEF IInv, ServerHolds
  <1>9. \A t \in Tasks : Unsettled(t) => Unsettled(t)'
    BY <1>0, <1>1, <1>4, <1>5, <1>6 DEF Unsettled
  <1>10. SlotsHold'
    <2>1. \A j \in Kinds : \A p : SlotHolds(j, p) => SlotHolds(j, p)'
      BY <1>7, <1>8, SlotStays
    <2>2. SlotHolds(k, o)
      BY <1>1, <1>5 DEF SlotHolds
    <2> QED
      BY <1>4, <2>1, <2>2, SlotChanges DEF IInv
  <1>11. ServerHolds' /\ FetchesHold'
    BY <1>7, ServerStays, FetchesStay DEF IInv, ServerHolds, fetchVars, FetchesHold
  <1>12. CacheHolds'
    <2>1. \A t \in Tasks : DetailHolds(t)' /\ ListHolds(t)'
      BY <1>7, <1>9, DetailStays, ListStays DEF IInv, cacheVars, fetchVars, behindVars
    <2> QED
      BY <1>7, <2>1 DEF IInv, CacheHolds, cacheVars, behindVars, CountOf
  <1> QED
    BY <1>10, <1>11, <1>12 DEF IInv

LEMMA ServeStep ==
  ASSUME IInv, NEW k \in Kinds, Serve(k)
  PROVE  IInv'
  <1>0. PICK m : m = slot[k]
    OBVIOUS
  <1> DEFINE t == m.task
             task == Result(m)
             entry == Entry(task.version, task.deps, "synced")
  <1>1. m # Free /\ SlotHolds(k, m) /\ m \in Requests /\ m.phase = "sent" /\ t \in Tasks
        /\ m.kind = k
    BY <1>0, SlotTaken DEF Serve
  <1>2. Accepts(m) /\ Commit(t, EventKind(m), task) /\ Answered(k, "ok", entry, Len(log) + 1)
    BY <1>0 DEF Serve
  <1>3. /\ task \in Records /\ task.version >= server[t].version
        /\ task.life = LifeAfter(EventKind(m)) /\ EventKind(m) \in EventKinds
        /\ EventKind(m) = "deleted" <=> k = "delete"
        /\ server[t].life # "deleted"
    BY <1>1, <1>2, TasksChange
       DEF Accepts, Result, EventKind, EventKinds, LifeAfter, Live, Kinds, Moves, Records
  <1>4. /\ Len(log') = Len(log) + 1 /\ \A i \in 1..Len(log) : log'[i] = log[i]
        /\ log'[Len(log) + 1].task = t /\ server'[t] = task
        /\ \A n \in 0..Len(log) : \A u \in Tasks : Still(u, n)' => u # t /\ Still(u, n)
        /\ \A u \in Tasks : server[u].version <= server'[u].version
    BY <1>1, <1>2, <1>3, CommitGrows DEF Serve, IInv
  <1>5. Len(log) \in Nat /\ cursor \in 0..Len(log)
    BY LenProperties DEF IInv, ServerHolds
  <1>6. /\ entry \in Entries /\ entry.sync = "synced"
        /\ entry.version = task.version /\ entry.deps = task.deps
    BY <1>3 DEF Entries, Entry, Records
  <1>7. PICK o : o = [m EXCEPT !.phase = "ok", !.entry = entry, !.at = Len(log) + 1]
    OBVIOUS
  <1>8. slot' = [slot EXCEPT ![k] = o]
    BY <1>0, <1>2, <1>7 DEF Answered
  <1>9. /\ o \in Requests /\ o.phase = "ok" /\ o.entry = entry /\ o.at = Len(log) + 1
        /\ o.kind = m.kind /\ o.task = t /\ o.since = m.since /\ o.stale = m.stale
        /\ o.previous = m.previous
    <2>1. PICK e \in Entries : e = entry
      BY <1>6
    <2>2. PICK n \in Nat : n = Len(log) + 1
      BY <1>5
    <2>3. o = [m EXCEPT !.phase = "ok", !.entry = e, !.at = n]
      BY <1>7, <2>1, <2>2
    <2>4. /\ o \in Requests /\ o.phase = "ok" /\ o.entry = e /\ o.at = n
          /\ o.kind = m.kind /\ o.task = m.task /\ o.since = m.since /\ o.stale = m.stale
          /\ o.previous = m.previous
      BY <1>1, <2>3 DEF Requests
    <2> QED
      BY <2>1, <2>2, <2>4
  <1>10. o # Free
    BY <1>9 DEF Free
  <1>11. \A u \in Tasks \ {t} : Unsettled(u) => Unsettled(u)'
    BY <1>0, <1>1, <1>8, <1>9, <1>10 DEF Unsettled, IInv, SlotsHold
  <1>12. ServerHolds' /\ CacheHolds' /\ FetchesHold'
    BY <1>1, <1>2, <1>3, <1>11, CommitKeeps DEF Serve
  <1>13. \A j \in Kinds : \A p : SlotHolds(j, p) => SlotHolds(j, p)'
    BY <1>1, <1>2, <1>3, SlotsOutlive DEF Serve
  <1>14. SlotHolds(k, o)'
    <2>1. SlotHolds(k, m)'
      BY <1>1, <1>13
    <2>2. o.entry \in Known(t)' /\ (k # "delete" => Matches(t, o.entry)')
      <3>1. o.entry \in Entries /\ o.entry.version = task.version /\ o.entry.deps = task.deps
        BY <1>6, <1>9
      <3>2. server'[t] = task /\ task.version \in Nat
        BY <1>3, <1>4 DEF Records
      <3>3. k # "delete" => task.life = "live"
        BY <1>3 DEF LifeAfter
      <3> QED
        BY <3>1, <3>2, <3>3 DEF Known, Matches, Live
    <2>3. k = "delete" => server'[t].life = "deleted"
      BY <1>3, <1>4 DEF LifeAfter
    <2>4. o.at \in 1..Len(log') /\ log'[o.at].task = t
      BY <1>4, <1>5, <1>9
    <2>5. o.entry.sync = "synced"
      BY <1>6, <1>9
    <2> HIDE DEF task, entry
    <2> QED
      BY <1>9, <2>1, <2>2, <2>3, <2>4, <2>5 DEF SlotHolds
  <1> QED
    BY <1>8, <1>12, <1>13, <1>14, SlotChanges DEF IInv

-----------------------------------------------------------------------------
(* Steps that change the slots, or the requests for data, and nothing else *)

LEMMA OnlySlots ==
  ASSUME IInv, SameProject, UNCHANGED <<cacheVars, fetchVars, cursor, behindVars>>, SlotsHold',
         \A t \in Tasks : Unsettled(t) => Unsettled(t)'
  PROVE  IInv'
  <1>1. ServerHolds' /\ FetchesHold'
    BY ServerStays, FetchesStay DEF IInv, ServerHolds, fetchVars, FetchesHold
  <1>2. \A t \in Tasks : DetailHolds(t)' /\ ListHolds(t)'
    BY DetailStays, ListStays DEF IInv, cacheVars, fetchVars, behindVars
  <1>3. CacheHolds'
    BY <1>2 DEF IInv, CacheHolds, cacheVars, behindVars, CountOf
  <1> QED
    BY <1>1, <1>3 DEF IInv

LEMMA OnlyFetches ==
  ASSUME IInv, SameProject, UNCHANGED <<cacheVars, slot, cursor, behindVars>>, FetchesHold',
         \A t \in Tasks : detailFetch'[t] = Idle => detailFetch[t] = Idle \/ ~Live(t),
         listFetch' = Idle => listFetch = Idle
  PROVE  IInv'
  <1>1. ServerHolds'
    BY ServerStays DEF IInv, ServerHolds
  <1>2. \A t \in Tasks : Unsettled(t) => Unsettled(t)'
    BY DEF Unsettled
  <1>3. \A t \in Tasks : ListHolds(t)'
    BY <1>2, ListStays DEF IInv, cacheVars, behindVars
  <1>4. ASSUME NEW t \in Tasks
        PROVE  DetailHolds(t)'
    <2>1. CASE detailFetch'[t] = Idle => detailFetch[t] = Idle
      BY <1>2, <2>1, DetailStays DEF IInv, cacheVars, behindVars
    <2>2. CASE ~Live(t)
      BY <2>2 DEF IInv, CacheHolds, DetailHolds, SameProject, cacheVars, behindVars, Live, Known, Still
    <2> QED
      BY <2>1, <2>2
  <1>5. CacheHolds'
    BY <1>3, <1>4 DEF IInv, CacheHolds, cacheVars, behindVars, CountOf
  <1>6. SlotsHold'
    BY SlotStays DEF IInv, SlotsHold, SameProject, SlotHolds, Known, Still, Matches, Live
  <1> QED
    BY <1>1, <1>5, <1>6 DEF IInv

LEMMA CursorIsNumber ==
  ASSUME IInv
  PROVE  cursor \in Nat /\ Len(log) \in Nat /\ cursor <= Len(log) /\ log \in Seq(Events)
  BY LenProperties DEF IInv, ServerHolds

LEMMA BeginsWell ==
  ASSUME IInv, SameProject, cursor' = cursor, NEW k \in Kinds, NEW t \in Tasks,
         NEW expected \in Nat, NEW previous \in Entries \cup {Absent}, NEW stale \in BOOLEAN,
         Begin(k, t, expected, previous, stale),
         k \in Optimistic =>
           /\ previous \in Known(t)
           /\ ~stale /\ previous.sync # "pending" /\ Still(t, cursor) => Matches(t, previous)
  PROVE  /\ SlotsHold'
         /\ \A u \in Tasks : Unsettled(u) => Unsettled(u)'
         /\ k \in Optimistic => Unsettled(t)'
  <1>1. PICK m : m = [phase |-> "sent", kind |-> k, task |-> t, expected |-> expected,
                      previous |-> previous, since |-> cursor, stale |-> stale,
                      entry |-> Absent, at |-> 0]
    OBVIOUS
  <1>2. slot' = [slot EXCEPT ![k] = m] /\ slot[k] = Free
    BY <1>1 DEF Begin
  <1>3. m \in Requests /\ m # Free
    BY <1>1, CursorIsNumber DEF Requests, Free
  <1>4. SlotHolds(k, m)
    BY <1>1, <1>3, CursorIsNumber DEF SlotHolds
  <1>5. \A j \in Kinds : \A p : SlotHolds(j, p) => SlotHolds(j, p)'
    BY SlotStays, CursorIsNumber
  <1>6. SlotsHold'
    BY <1>2, <1>4, <1>5, SlotChanges DEF IInv
  <1>7. \A j \in Kinds : slot'[j] = IF j = k THEN m ELSE slot[j]
    BY <1>2 DEF IInv, SlotsHold
  <1>8. Optimistic \subseteq Kinds
    BY DEF Optimistic, Kinds, Moves
  <1> QED
    BY <1>1, <1>2, <1>3, <1>6, <1>7, <1>8 DEF Unsettled

LEMMA EndsWell ==
  ASSUME IInv, SameProject, cursor' = cursor, NEW k \in Kinds, Ended(k)
  PROVE  /\ SlotsHold'
         /\ \A u \in Tasks :
              /\ Unsettled(u)
              /\ k \notin Optimistic \/ u # slot[k].task \/ (k = "link" /\ slot[k].phase = "ok")
              => Unsettled(u)'
  <1>1. slot' = [slot EXCEPT ![k] = Free]
    BY DEF Ended
  <1>2. \A j \in Kinds : \A p : SlotHolds(j, p) => SlotHolds(j, p)'
    BY SlotStays, CursorIsNumber
  <1>3. SlotsHold'
    BY <1>1, <1>2, SlotChanges DEF IInv
  <1>4. \A j \in Kinds : slot'[j] = IF j = k THEN Free ELSE slot[j]
    BY <1>1 DEF IInv, SlotsHold
  <1>5. Optimistic \subseteq Kinds
    BY DEF Optimistic, Kinds, Moves
  <1> QED
    BY <1>3, <1>4, <1>5 DEF Unsettled

LEMMA GiveUpStep ==
  ASSUME IInv, NEW k \in Kinds, GiveUp(k)
  PROVE  IInv'
  <1>1. SameProject /\ cursor' = cursor /\ Ended(k) /\ k \notin Optimistic
    BY DEF GiveUp, SameProject, serverVars, Optimistic, Moves
  <1> QED
    BY <1>1, EndsWell, OnlySlots DEF GiveUp

LEMMA DeleteRefusedStep ==
  ASSUME IInv, DeleteRefused
  PROVE  IInv'
  <1>1. SameProject /\ cursor' = cursor /\ Ended("delete") /\ "delete" \in Kinds \ Optimistic
    BY DEF DeleteRefused, SameProject, serverVars, Optimistic, Moves, Kinds
  <1> QED
    BY <1>1, EndsWell, OnlySlots DEF DeleteRefused

\* The mutations that change the cache when they are answered, if at all.
LEMMA PlainBeginStep ==
  ASSUME IInv, NEW t \in Tasks, BeginUnlink(t) \/ BeginReplay(t) \/ BeginDelete(t) \/ BeginCreate(t)
  PROVE  IInv'
  <1>1. SameProject /\ UNCHANGED <<cacheVars, fetchVars, cursor, behindVars>>
    BY DEF BeginUnlink, BeginReplay, BeginDelete, BeginCreate, SameProject, serverVars
  <1>2. ASSUME NEW k \in Kinds \ Optimistic, NEW expected \in Nat, Begin(k, t, expected, Absent, FALSE)
        PROVE  IInv'
    BY <1>1, <1>2, BeginsWell, OnlySlots
  <1>3. detail[t] # Absent => detail[t].version \in Nat
    BY DEF IInv, CacheHolds, DetailHolds, Known, Entries
  <1>4. {"unlink", "replay", "delete", "create"} \subseteq Kinds \ Optimistic
    BY DEF Kinds, Optimistic, Moves
  <1> QED
    BY <1>2, <1>3, <1>4 DEF BeginUnlink, BeginReplay, BeginDelete, BeginCreate

LEMMA AskStep ==
  ASSUME IInv, ReloadList \/ MembershipChanges \/ \E t \in Tasks : OpenTask(t)
  PROVE  IInv'
  <1>1. SameProject /\ UNCHANGED <<cacheVars, slot, cursor, behindVars>>
    BY DEF OpenTask, ReloadList, MembershipChanges, SameProject, serverVars, cacheVars, behindVars
  <1>2. /\ detailFetch' = [u \in Tasks |-> detailFetch'[u]]
        /\ \A u \in Tasks : detailFetch'[u] \in {detailFetch[u], Asked}
        /\ listFetch' \in {listFetch, Asked}
    BY DEF OpenTask, ReloadList, MembershipChanges, Invalidated, IInv, FetchesHold
  <1>3. FetchesHold'
    BY <1>1, <1>2, FetchesStay DEF IInv
  <1> QED
    BY <1>1, <1>2, <1>3, OnlyFetches DEF Asked, Idle

LEMMA ServeDetailStep ==
  ASSUME IInv, NEW t \in Tasks, ServeDetail(t)
  PROVE  IInv'
  <1> DEFINE f == [phase |-> "read", at |-> Len(log), entry |-> Shown(t)]
  <1>1. SameProject /\ UNCHANGED <<cacheVars, slot, cursor, behindVars, listFetch>>
    BY DEF ServeDetail, SameProject, serverVars, cacheVars, behindVars
  <1>2. detailFetch' = [detailFetch EXCEPT ![t] = IF Live(t) THEN f ELSE Idle]
    BY DEF ServeDetail
  <1>3. /\ detailFetch' = [u \in Tasks |-> detailFetch'[u]]
        /\ \A u \in Tasks \ {t} : detailFetch'[u] = detailFetch[u]
        /\ detailFetch'[t] = IF Live(t) THEN f ELSE Idle
    BY <1>2 DEF IInv, FetchesHold
  <1>4. Live(t) => DetailRead(t, f)
    <2>1. server[t] \in Records
      BY DEF IInv, ServerHolds
    <2>2. Shown(t) \in Known(t) /\ Shown(t).sync = "synced" /\ (Live(t) => Matches(t, Shown(t)))
      BY <2>1 DEF Shown, Entry, Known, Entries, Records, Matches
    <2>3. f.at = Len(log) /\ f.entry = Shown(t)
      OBVIOUS
    <2> QED
      BY <2>2, <2>3, CursorIsNumber DEF DetailRead
  <1>5. FetchesHold'
    <2>1. \A u \in Tasks : \A g \in {f, detailFetch[u]} : DetailRead(u, g) => DetailRead(u, g)'
      BY <1>1 DEF DetailRead, SameProject, Known, Still, Matches, Live
    <2>2. ListRead(listFetch) => ListRead(listFetch)'
      BY <1>1 DEF ListRead, SameProject, RowsOf, Known, Still, Matches, Live
    <2> QED
      BY <1>1, <1>3, <1>4, <2>1, <2>2 DEF IInv, FetchesHold
  <1>6. f # Idle
    BY DEF Idle
  <1> QED
    BY <1>1, <1>3, <1>5, <1>6, OnlyFetches

LEMMA ServeListStep ==
  ASSUME IInv, ServeList
  PROVE  IInv'
  <1> DEFINE rs == [t \in Tasks |-> IF Live(t) THEN <<Shown(t)>> ELSE <<>>]
             f == [phase |-> "read", at |-> Len(log), rows |-> rs]
  <1>1. SameProject /\ UNCHANGED <<cacheVars, slot, cursor, behindVars, detailFetch>>
    BY DEF ServeList, SameProject, serverVars, cacheVars, behindVars
  <1>2. listFetch' = f
    BY DEF ServeList
  <1>3. ListRead(f)
    <2>1. ASSUME NEW t \in Tasks
          PROVE  Shown(t) \in Known(t) /\ Shown(t).sync = "synced" /\ (Live(t) => Matches(t, Shown(t)))
      <3>1. server[t] \in Records
        BY DEF IInv, ServerHolds
      <3> QED
        BY <3>1 DEF Shown, Entry, Known, Entries, Records, Matches
    <2>2. ASSUME NEW t \in Tasks
          PROVE  /\ rs[t] \in RowsOf(t) /\ (rs[t] # <<>> <=> Live(t))
                 /\ rs[t] # <<>> => rs[t][1].sync = "synced" /\ Matches(t, rs[t][1])
      BY <2>1, OneRow DEF RowsOf
    <2>3. f.at = Len(log) /\ f.rows = rs /\ rs = [t \in Tasks |-> rs[t]]
      OBVIOUS
    <2> HIDE DEF rs
    <2> QED
      BY <2>2, <2>3, CursorIsNumber DEF ListRead
  <1>4. FetchesHold'
    <2>1. PICK g : g = f
      OBVIOUS
    <2>2. ListRead(g)'
      BY <1>1, <1>3, <2>1 DEF ListRead, SameProject, RowsOf, Known, Still, Matches, Live
    <2>3. \A t \in Tasks : DetailRead(t, detailFetch[t]) => DetailRead(t, detailFetch[t])'
      BY <1>1 DEF DetailRead, SameProject, Known, Still, Matches, Live
    <2> HIDE DEF f
    <2> QED
      BY <1>1, <1>2, <2>1, <2>2, <2>3 DEF IInv, FetchesHold
  <1>5. listFetch' # Idle
    BY <1>2 DEF Idle
  <1> HIDE DEF f
  <1> QED
    BY <1>1, <1>4, <1>5, OnlyFetches

LEMMA BootstrapAgainStep ==
  ASSUME IInv, BootstrapAgain
  PROVE  IInv'
  <1> DEFINE passed == {log[i].task : i \in (cursor + 1)..Len(log)}
  <1>1. SameProject /\ UNCHANGED <<cacheVars, fetchVars, slot>>
    BY DEF BootstrapAgain, SameProject, serverVars, cacheVars, fetchVars
  <1>2. cursor' = Len(log) /\ detailBehind' = detailBehind \cup passed /\ listBehind' = listBehind \cup passed
    BY DEF BootstrapAgain, streamCursor
  <1>3. \A t \in Tasks : t \notin passed => Still(t, cursor)
    BY DEF Still
  <1>4. \A t \in Tasks : Unsettled(t) => Unsettled(t)'
    BY <1>1 DEF Unsettled
  <1>5. passed \subseteq Tasks
    <2>1. \A i \in 1..Len(log) : log[i] \in Events
      BY CursorIsNumber, ElementOfSeq
    <2> QED
      BY <2>1, CursorIsNumber DEF Events
  <1>6. \A t \in Tasks : DetailHolds(t)' /\ ListHolds(t)'
    BY <1>1, <1>2, <1>3, <1>4
       DEF IInv, CacheHolds, DetailHolds, ListHolds, SameProject, RowsOf, Known, Still, Right, Matches,
           Live, cacheVars, fetchVars
  <1>7. CacheHolds'
    BY <1>1, <1>2, <1>5, <1>6 DEF IInv, CacheHolds, cacheVars, CountOf
  <1>8. ServerHolds' /\ FetchesHold'
    BY <1>1, <1>2, CursorIsNumber, ServerStays, FetchesStay DEF IInv, FetchesHold, fetchVars
  <1>9. SlotsHold'
    <2>1. \A j \in Kinds : \A p : SlotHolds(j, p) => SlotHolds(j, p)'
      BY <1>1, <1>2, CursorIsNumber, SlotStays
    <2> QED
      BY <1>1, <2>1 DEF IInv, SlotsHold
  <1> QED
    BY <1>7, <1>8, <1>9 DEF IInv

-----------------------------------------------------------------------------
(* Writes of the cache *)

LEMMA RowsPatched ==
  ASSUME IInv, NEW t \in Tasks, NEW x \in Known(t), SameProject, rows' = Everywhere(t, x)
  PROVE  /\ rows' = [u \in Tasks |-> rows'[u]]
         /\ \A u \in Tasks \ {t} : rows'[u] = rows[u]
         /\ rows'[t] = IF rows[t] = <<>> THEN <<>> ELSE <<x>>
         /\ CountOf(rows') = CountOf(rows)
  <1>1. rows' = [rows EXCEPT ![t] = [i \in DOMAIN rows[t] |-> x]]
    BY DEF Everywhere
  <1>2. rows = [u \in Tasks |-> rows[u]] /\ rows[t] \in RowsOf(t)
    BY DEF IInv, CacheHolds, ListHolds
  <1>3. [i \in DOMAIN rows[t] |-> x] = IF rows[t] = <<>> THEN <<>> ELSE <<x>>
    BY <1>2, RowsReplaced DEF RowsOf, Known
  <1>4. /\ rows' = [u \in Tasks |-> rows'[u]]
        /\ \A u \in Tasks \ {t} : rows'[u] = rows[u]
        /\ rows'[t] = [i \in DOMAIN rows[t] |-> x]
    BY <1>1, <1>2
  <1>5. \A u \in Tasks : rows[u] # <<>> <=> rows'[u] # <<>>
    BY <1>3, <1>4, OneRow
  <1> QED
    BY <1>3, <1>4, <1>5, CountStays

LEMMA RowsPrepended ==
  ASSUME IInv, NEW t \in Tasks, NEW x \in Known(t), SameProject, Prepend(t, x)
  PROVE  /\ rows' = [u \in Tasks |-> rows'[u]]
         /\ \A u \in Tasks \ {t} : rows'[u] = rows[u]
         /\ rows'[t] = <<x>>
         /\ total' = CountOf(rows')
  <1>1. CASE rows[t] # <<>>
    BY <1>1, RowsPatched DEF Prepend, IInv, CacheHolds
  <1>2. CASE rows[t] = <<>>
    <2>1. rows' = [rows EXCEPT ![t] = <<x>>] /\ total' = total + 1
      BY <1>2 DEF Prepend
    <2>2. rows = [u \in Tasks |-> rows[u]] /\ total = CountOf(rows)
      BY DEF IInv, CacheHolds
    <2>3. /\ rows' = [u \in Tasks |-> rows'[u]]
          /\ \A u \in Tasks \ {t} : rows'[u] = rows[u]
          /\ rows'[t] = <<x>>
      BY <2>1, <2>2
    <2>4. CountOf(rows') = CountOf(rows) + 1
      BY <1>2, <2>3, OneRow, CountRises
    <2> QED
      BY <2>1, <2>2, <2>3, <2>4
  <1> QED
    BY <1>1, <1>2

\* An entry that is written to the panel and to the rows there are.
LEMMA PatchKeeps ==
  ASSUME IInv, SameProject, cursor' = cursor, NEW t \in Tasks, NEW x \in Known(t), PatchTask(t, x),
         detailBehind' \subseteq Tasks, listBehind' \subseteq Tasks,
         \A u \in Tasks \ {t} :
           /\ u \notin detailBehind' =>
                u \notin detailBehind /\ (detailFetch'[u] = Idle => detailFetch[u] = Idle)
           /\ u \notin listBehind' => u \notin listBehind /\ (listFetch' = Idle => listFetch = Idle)
           /\ Unsettled(u) => Unsettled(u)',
         t \notin detailBehind' /\ Still(t, cursor) => Right(t, x)',
         t \notin listBehind' /\ listFetch' = Idle /\ Still(t, cursor) =>
           /\ rows[t] # <<>> <=> Live(t)
           /\ rows[t] # <<>> => Right(t, x)'
  PROVE  CacheHolds'
  <1>1. detail' = [detail EXCEPT ![t] = x] /\ rows' = Everywhere(t, x) /\ total' = total
    BY DEF PatchTask
  <1>2. /\ detail' = [u \in Tasks |-> detail'[u]] /\ detail'[t] = x
        /\ \A u \in Tasks \ {t} : detail'[u] = detail[u]
    BY <1>1 DEF IInv, CacheHolds
  <1>3. /\ rows' = [u \in Tasks |-> rows'[u]]
        /\ \A u \in Tasks \ {t} : rows'[u] = rows[u]
        /\ rows'[t] = IF rows[t] = <<>> THEN <<>> ELSE <<x>>
        /\ CountOf(rows') = CountOf(rows)
    BY <1>1, RowsPatched
  <1>4. \A u \in Tasks \ {t} : DetailHolds(u)' /\ ListHolds(u)'
    BY <1>2, <1>3, DetailStays, ListStays
  <1>5. x \in Known(t)' /\ <<x>> \in RowsOf(t)' /\ <<>> \in RowsOf(t)'
    BY DEF SameProject, RowsOf, Known
  <1>6. Still(t, cursor)' => Still(t, cursor)
    BY DEF SameProject, Still
  <1>7. Right(t, x)' => Live(t)'
    BY DEF Right, Live
  <1>8. DetailHolds(t)'
    BY <1>2, <1>5, <1>6, <1>7 DEF DetailHolds
  <1>9. Live(t)' <=> Live(t)
    BY DEF SameProject, Live
  <1>10. ListHolds(t)'
    <2>1. CASE rows[t] = <<>>
      BY <1>3, <1>5, <1>6, <1>9, <2>1 DEF ListHolds
    <2>2. CASE rows[t] # <<>>
      <3>1. rows'[t] = <<x>> /\ rows'[t] # <<>> /\ rows'[t][1] = x
        BY <1>3, <2>2, OneRow
      <3> QED
        BY <1>5, <1>6, <1>9, <2>2, <3>1 DEF ListHolds
    <2> QED
      BY <2>1, <2>2
  <1> QED
    BY <1>1, <1>2, <1>3, <1>4, <1>8, <1>10 DEF IInv, CacheHolds

\* What the cache shows before a write, and what is made of it.
LEMMA EntryMarked ==
  ASSUME NEW t, NEW x \in Known(t), NEW sync \in {"synced", "pending", "failed", "conflict"}
  PROVE  /\ Marked(x, sync) \in Known(t) /\ Marked(x, sync).sync = sync
         /\ Marked(x, sync).version = x.version /\ Marked(x, sync).deps = x.deps
  BY DEF Marked, Known, Entries

LEMMA EditBeginStep ==
  ASSUME IInv, NEW t \in Tasks, BeginEdit(t) \/ BeginLink(t)
  PROVE  IInv'
  <1> DEFINE stale == t \in detailBehind \/ detailFetch[t] # Idle
  <1>0. PICK x : x = Marked(detail[t], "pending")
    OBVIOUS
  <1>1. PICK k \in {"edit", "link"}, expected \in Nat : Begin(k, t, expected, detail[t], stale)
    <2>1. detail[t] # Absent => detail[t].version \in Nat
      BY DEF IInv, CacheHolds, DetailHolds, Known, Entries
    <2> QED
      BY <2>1 DEF BeginEdit, BeginLink
  <1>2. /\ SameProject /\ cursor' = cursor /\ listFetch' = listFetch /\ detail[t] # Absent
        /\ CancelDetail(t) /\ PatchTask(t, x)
        /\ listBehind' = IF t \in detailBehind' THEN listBehind \cup {t} ELSE listBehind
    BY <1>0 DEF BeginEdit, BeginLink, SameProject, serverVars
  <1>3. detail[t] \in Known(t) /\ DetailHolds(t) /\ ListHolds(t)
    BY <1>2 DEF IInv, CacheHolds, DetailHolds
  <1>4. k \in Kinds /\ k \in Optimistic /\ detail[t] \in Entries \cup {Absent}
    BY <1>3 DEF Kinds, Optimistic, Moves, Known
  <1>5. ~stale /\ detail[t].sync # "pending" /\ Still(t, cursor) => Matches(t, detail[t])
    BY <1>2, <1>3 DEF DetailHolds, Right
  <1>6. SlotsHold' /\ Unsettled(t)' /\ \A u \in Tasks : Unsettled(u) => Unsettled(u)'
    BY <1>1, <1>2, <1>3, <1>4, <1>5, BeginsWell
  <1>7. x \in Known(t) /\ x.sync = "pending"
    BY <1>0, <1>3, EntryMarked
  <1>8. /\ detailFetch' = [detailFetch EXCEPT ![t] = Idle]
        /\ detailFetch' = [u \in Tasks |-> detailFetch'[u]]
        /\ \A u \in Tasks \ {t} : detailFetch'[u] = detailFetch[u]
        /\ detailFetch'[t] = Idle
        /\ detailBehind' = IF detailFetch[t] = Idle THEN detailBehind ELSE detailBehind \cup {t}
    BY <1>2 DEF CancelDetail, IInv, FetchesHold
  <1>9. Live(t) => Right(t, x)'
    BY <1>2, <1>6, <1>7 DEF Right, SameProject, Live
  <1>10. t \notin detailBehind' /\ Still(t, cursor) => Live(t)
    BY <1>2, <1>3, <1>8 DEF DetailHolds
  <1>11. CacheHolds'
    <2>1. detailBehind' \subseteq Tasks /\ listBehind' \subseteq Tasks
      BY <1>2, <1>8 DEF IInv, CacheHolds
    <2>2. ASSUME NEW u \in Tasks \ {t}
          PROVE  /\ u \notin detailBehind' =>
                      u \notin detailBehind /\ (detailFetch'[u] = Idle => detailFetch[u] = Idle)
                 /\ u \notin listBehind' => u \notin listBehind /\ (listFetch' = Idle => listFetch = Idle)
                 /\ Unsettled(u) => Unsettled(u)'
      BY <1>2, <1>6, <1>8
    <2>3. t \notin listBehind' /\ listFetch' = Idle /\ Still(t, cursor) =>
            /\ rows[t] # <<>> <=> Live(t)
            /\ rows[t] # <<>> => Right(t, x)'
      BY <1>2, <1>3, <1>9 DEF ListHolds
    <2> QED
      BY <1>2, <1>7, <1>9, <1>10, <2>1, <2>2, <2>3, PatchKeeps
  <1>12. ServerHolds' /\ FetchesHold'
    BY <1>2, <1>8, CursorIsNumber, ServerStays, FetchesStay DEF IInv, ServerHolds
  <1> QED
    BY <1>6, <1>11, <1>12 DEF IInv

LEMMA MoveBeginStep ==
  ASSUME IInv, NEW t \in Tasks, BeginMove(t)
  PROVE  IInv'
  <1> DEFINE row == rows[t][1]
             stale == t \in listBehind \/ listFetch # Idle
  <1>0. PICK x : x = Marked(row, "pending")
    OBVIOUS
  <1>1. /\ SameProject /\ cursor' = cursor /\ detailFetch' = detailFetch /\ rows[t] # <<>>
        /\ Begin(MoveSlot, t, row.version, row, stale) /\ PatchTask(t, x)
        /\ listFetch' = Idle
        /\ listBehind' = IF listFetch = Idle THEN listBehind ELSE Tasks
        /\ detailBehind' = IF t \in listBehind' THEN detailBehind \cup {t} ELSE detailBehind
    BY <1>0 DEF BeginMove, SameProject, serverVars
  <1>2. row \in Known(t) /\ row \in Entries \cup {Absent} /\ row.version \in Nat /\ ListHolds(t)
    BY <1>1, OneRow DEF IInv, CacheHolds, ListHolds, RowsOf, Known, Entries
  <1>3. MoveSlot \in Kinds /\ MoveSlot \in Optimistic
    BY DEF MoveSlot, Kinds, Optimistic, Moves
  <1>4. ~stale /\ Still(t, cursor) => Live(t) /\ (row.sync # "pending" => Matches(t, row))
    BY <1>1, <1>2 DEF ListHolds, Right
  <1>5. SlotsHold' /\ Unsettled(t)' /\ \A u \in Tasks : Unsettled(u) => Unsettled(u)'
    <2> HIDE DEF row
    <2> QED
      BY <1>1, <1>2, <1>3, <1>4, BeginsWell
  <1>6. x \in Known(t) /\ x.sync = "pending"
    BY <1>0, <1>2, EntryMarked
  <1>7. Live(t) => Right(t, x)'
    BY <1>1, <1>5, <1>6 DEF Right, SameProject, Live
  <1>8. t \notin listBehind' => ~stale
    BY <1>1
  <1>9. CacheHolds'
    <2>1. detailBehind' \subseteq Tasks /\ listBehind' \subseteq Tasks
      BY <1>1 DEF IInv, CacheHolds
    <2>2. ASSUME NEW u \in Tasks \ {t}
          PROVE  /\ u \notin detailBehind' =>
                      u \notin detailBehind /\ (detailFetch'[u] = Idle => detailFetch[u] = Idle)
                 /\ u \notin listBehind' => u \notin listBehind /\ (listFetch' = Idle => listFetch = Idle)
                 /\ Unsettled(u) => Unsettled(u)'
      BY <1>1, <1>5
    <2>3. t \notin detailBehind' /\ Still(t, cursor) => Right(t, x)'
      BY <1>1, <1>4, <1>7, <1>8
    <2>4. t \notin listBehind' /\ listFetch' = Idle /\ Still(t, cursor) =>
            /\ rows[t] # <<>> <=> Live(t)
            /\ rows[t] # <<>> => Right(t, x)'
      BY <1>1, <1>4, <1>7, <1>8
    <2> QED
      BY <1>1, <1>6, <2>1, <2>2, <2>3, <2>4, PatchKeeps
  <1>10. ServerHolds' /\ FetchesHold'
    BY <1>1, CursorIsNumber, ServerStays, FetchesStay DEF IInv, ServerHolds, FetchesHold
  <1> QED
    BY <1>5, <1>9, <1>10 DEF IInv

\* An answer is right unless an event came since.
LEMMA AnswerIsRight ==
  ASSUME IInv, NEW k \in Kinds \ {"delete"}, NEW m, SlotHolds(k, m), m.phase = "ok"
  PROVE  /\ m.task \in Tasks /\ m.entry \in Known(m.task)
         /\ m.task \notin AppliedSince(m.at) /\ Still(m.task, cursor) =>
              Live(m.task) /\ (SameProject => Right(m.task, m.entry)')
  <1>1. /\ m \in Requests /\ m.task \in Tasks /\ m.at \in Nat
        /\ m.entry \in Known(m.task) /\ m.entry.sync = "synced"
        /\ Still(m.task, m.at) => Matches(m.task, m.entry)
    BY DEF SlotHolds, Requests
  <1>2. m.task \notin AppliedSince(m.at) /\ Still(m.task, cursor) => Matches(m.task, m.entry)
    BY <1>1, StillSince, CursorIsNumber
  <1> QED
    BY <1>1, <1>2 DEF Matches, Right, SameProject, Live

LEMMA SavedStep ==
  ASSUME IInv, NEW k \in Kinds, Saved(k)
  PROVE  IInv'
  <1>0. PICK m : m = slot[k]
    OBVIOUS
  <1>1. PICK t, x : t = m.task /\ x = m.entry
    OBVIOUS
  <1>2. /\ k \in Moves \cup {"edit", "replay"} /\ m.phase = "ok"
        /\ SameProject /\ cursor' = cursor /\ detailFetch' = detailFetch
        /\ PatchTask(t, x) /\ Behind(t, {t} \cap AppliedSince(m.at)) /\ Ended(k)
        /\ listFetch' \in {listFetch, Asked} /\ (k \in Moves => listFetch' = Asked)
    BY <1>0, <1>1 DEF Saved, Invalidated, SameProject, serverVars
  <1>3. SlotHolds(k, m) /\ k # "delete"
    BY <1>0, <1>2, SlotTaken DEF Moves
  <1>4. /\ t \in Tasks /\ x \in Known(t)
        /\ t \notin AppliedSince(m.at) /\ Still(t, cursor) => Live(t) /\ Right(t, x)'
    BY <1>1, <1>2, <1>3, AnswerIsRight
  <1>5. SlotsHold' /\ \A u \in Tasks \ {t} : Unsettled(u) => Unsettled(u)'
    BY <1>0, <1>1, <1>2, EndsWell
  <1>6. /\ detailBehind' = (detailBehind \ {t}) \cup ({t} \cap AppliedSince(m.at))
        /\ listBehind' = (listBehind \ IF rows[t] # <<>> THEN {t} ELSE {}) \cup ({t} \cap AppliedSince(m.at))
    BY <1>2 DEF Behind, Judge
  <1>7. Asked # Idle
    BY DEF Asked, Idle
  <1>8. CacheHolds'
    <2>1. detailBehind' \subseteq Tasks /\ listBehind' \subseteq Tasks
      BY <1>4, <1>6 DEF IInv, CacheHolds
    <2>2. ASSUME NEW u \in Tasks \ {t}
          PROVE  /\ u \notin detailBehind' =>
                      u \notin detailBehind /\ (detailFetch'[u] = Idle => detailFetch[u] = Idle)
                 /\ u \notin listBehind' => u \notin listBehind /\ (listFetch' = Idle => listFetch = Idle)
                 /\ Unsettled(u) => Unsettled(u)'
      BY <1>2, <1>5, <1>6, <1>7
    <2>3. t \notin detailBehind' /\ Still(t, cursor) => Right(t, x)'
      BY <1>4, <1>6
    <2>4. t \notin listBehind' /\ listFetch' = Idle /\ Still(t, cursor) =>
            /\ rows[t] # <<>> <=> Live(t)
            /\ rows[t] # <<>> => Right(t, x)'
      <3>1. CASE rows[t] # <<>>
        BY <1>4, <1>6, <3>1
      <3>2. CASE rows[t] = <<>>
        BY <1>2, <1>4, <1>6, <1>7, <3>2 DEF IInv, CacheHolds, ListHolds
      <3> QED
        BY <3>1, <3>2
    <2> QED
      BY <1>2, <1>4, <2>1, <2>2, <2>3, <2>4, PatchKeeps
  <1>9. ServerHolds' /\ FetchesHold'
    BY <1>2, CursorIsNumber, ServerStays, FetchesStay DEF IInv, ServerHolds, FetchesHold
  <1> QED
    BY <1>5, <1>8, <1>9 DEF IInv

LEMMA RollBackStep ==
  ASSUME IInv, NEW k \in Kinds, RollBack(k)
  PROVE  IInv'
  <1>0. PICK m : m = slot[k]
    OBVIOUS
  <1>1. PICK t, x : t = m.task /\ x = Restored(m)
    OBVIOUS
  <1> DEFINE stale == m.stale \/ t \in AppliedSince(m.since) \/ m.previous.sync = "pending"
  <1>2. /\ k \in Optimistic /\ m.phase \in {"conflict", "error"}
        /\ SameProject /\ cursor' = cursor /\ detailFetch' = detailFetch /\ listFetch' = listFetch
        /\ PatchTask(t, x) /\ Ended(k)
        /\ detailBehind' = IF stale THEN detailBehind \cup {t} ELSE detailBehind
        /\ listBehind' = IF stale THEN listBehind \cup {t} ELSE listBehind
    BY <1>0, <1>1 DEF RollBack, SameProject, serverVars, fetchVars, Optimistic
  <1>3. SlotHolds(k, m) /\ m \in Requests /\ t \in Tasks /\ m.since \in Nat
    BY <1>0, <1>1, <1>2, SlotTaken DEF Requests
  <1>4. /\ m.previous \in Known(t)
        /\ ~m.stale /\ m.previous.sync # "pending" /\ Still(t, m.since) => Matches(t, m.previous)
    BY <1>1, <1>2, <1>3 DEF SlotHolds
  <1>5. /\ x \in Known(t) /\ x.version = m.previous.version /\ x.deps = m.previous.deps
        /\ m.previous.sync # "pending" => x.sync # "pending"
    BY <1>1, <1>4, EntryMarked DEF Restored
  <1>6. ~stale /\ Still(t, cursor) => Live(t) /\ Right(t, x)'
    <2>1. ~stale /\ Still(t, cursor) => Still(t, m.since)
      BY <1>3, StillSince, CursorIsNumber
    <2>2. ~stale /\ Still(t, cursor) => Matches(t, m.previous)
      BY <1>4, <2>1
    <2> QED
      BY <1>2, <1>5, <2>2 DEF Matches, Right, SameProject, Live
  <1>7. SlotsHold' /\ \A u \in Tasks \ {t} : Unsettled(u) => Unsettled(u)'
    BY <1>0, <1>1, <1>2, EndsWell
  <1>8. CacheHolds'
    <2>1. detailBehind' \subseteq Tasks /\ listBehind' \subseteq Tasks
      BY <1>2, <1>3 DEF IInv, CacheHolds
    <2>2. ASSUME NEW u \in Tasks \ {t}
          PROVE  /\ u \notin detailBehind' =>
                      u \notin detailBehind /\ (detailFetch'[u] = Idle => detailFetch[u] = Idle)
                 /\ u \notin listBehind' => u \notin listBehind /\ (listFetch' = Idle => listFetch = Idle)
                 /\ Unsettled(u) => Unsettled(u)'
      BY <1>2, <1>7
    <2>3. t \notin detailBehind' /\ Still(t, cursor) => Right(t, x)'
      BY <1>2, <1>6
    <2>4. t \notin listBehind' /\ listFetch' = Idle /\ Still(t, cursor) =>
            /\ rows[t] # <<>> <=> Live(t)
            /\ rows[t] # <<>> => Right(t, x)'
      BY <1>2, <1>3, <1>6 DEF IInv, CacheHolds, ListHolds
    <2> QED
      BY <1>2, <1>3, <1>5, <2>1, <2>2, <2>3, <2>4, PatchKeeps
  <1>9. ServerHolds' /\ FetchesHold'
    BY <1>2, CursorIsNumber, ServerStays, FetchesStay DEF IInv, ServerHolds, FetchesHold
  <1> QED
    BY <1>7, <1>8, <1>9 DEF IInv

LEMMA LinkSavedStep ==
  ASSUME IInv, NEW k \in Kinds, LinkSaved(k)
  PROVE  IInv'
  <1>0. PICK t : t = slot[k].task
    OBVIOUS
  <1>1. /\ k \in {"link", "unlink"} /\ slot[k].phase = "ok" /\ Ended(k)
        /\ detailFetch' = [detailFetch EXCEPT ![t] = Invalidated(@, detail[t] # Absent)]
        /\ SameProject /\ UNCHANGED <<cacheVars, listFetch, cursor, behindVars>>
    BY <1>0 DEF LinkSaved, SameProject, serverVars, cacheVars, behindVars
  <1>2. /\ detailFetch' = [u \in Tasks |-> detailFetch'[u]]
        /\ \A u \in Tasks : detailFetch'[u] \in {detailFetch[u], Asked}
    BY <1>1 DEF IInv, FetchesHold, Invalidated
  <1>3. SlotsHold' /\ \A u \in Tasks : Unsettled(u) => Unsettled(u)'
    BY <1>1, EndsWell DEF Optimistic, Moves
  <1>4. ServerHolds' /\ FetchesHold'
    BY <1>1, <1>2, CursorIsNumber, ServerStays, FetchesStay DEF IInv, ServerHolds
  <1>5. \A u \in Tasks : DetailHolds(u)' /\ ListHolds(u)'
    BY <1>1, <1>2, <1>3, DetailStays, ListStays DEF cacheVars, behindVars, Asked, Idle
  <1>6. CacheHolds'
    BY <1>1, <1>5 DEF IInv, CacheHolds, cacheVars, behindVars, CountOf
  <1> QED
    BY <1>3, <1>4, <1>6 DEF IInv

\* An entry that is written to the panel, and to the list in any case.
LEMMA PrependKeeps ==
  ASSUME IInv, SameProject, NEW t \in Tasks, NEW x \in Known(t),
         cursor' = cursor \/ (cursor' = cursor + 1 /\ Next_.task = t),
         PrependTask(t, x), UNCHANGED fetchVars,
         \A u \in Tasks : Unsettled(u) => Unsettled(u)',
         detailBehind' \subseteq Tasks, listBehind' \subseteq Tasks,
         \A u \in Tasks \ {t} :
           /\ u \in detailBehind => u \in detailBehind'
           /\ u \in listBehind => u \in listBehind',
         t \notin detailBehind' /\ Still(t, cursor)' => Right(t, x)',
         t \notin listBehind' /\ Still(t, cursor)' => Right(t, x)'
  PROVE  CacheHolds'
  <1>1. detail' = [detail EXCEPT ![t] = x] /\ Prepend(t, x)
    BY DEF PrependTask
  <1>2. /\ detail' = [u \in Tasks |-> detail'[u]] /\ detail'[t] = x
        /\ \A u \in Tasks \ {t} : detail'[u] = detail[u]
    BY <1>1 DEF IInv, CacheHolds
  <1>3. /\ rows' = [u \in Tasks |-> rows'[u]]
        /\ \A u \in Tasks \ {t} : rows'[u] = rows[u]
        /\ rows'[t] = <<x>> /\ total' = CountOf(rows')
    BY <1>1, RowsPrepended
  <1>4. \A u \in Tasks \ {t} : DetailHolds(u)' /\ ListHolds(u)'
    BY <1>2, <1>3, DetailStays, ListStays DEF fetchVars
  <1>5. x \in Known(t)' /\ <<x>> \in RowsOf(t)'
    BY DEF SameProject, RowsOf, Known
  <1>6. Right(t, x)' => Live(t)'
    BY DEF Right, Live
  <1>7. DetailHolds(t)'
    BY <1>2, <1>5, <1>6 DEF DetailHolds
  <1>8. ListHolds(t)'
    BY <1>3, <1>5, <1>6, OneRow DEF ListHolds
  <1> QED
    BY <1>2, <1>3, <1>4, <1>7, <1>8 DEF IInv, CacheHolds

LEMMA CreateSavedStep ==
  ASSUME IInv, CreateSaved
  PROVE  IInv'
  <1>0. PICK m : m = slot["create"]
    OBVIOUS
  <1>1. PICK t, x : t = m.task /\ x = m.entry
    OBVIOUS
  <1> DEFINE stale == {t} \cap AppliedSince(m.at)
  <1>2. /\ m.phase = "ok" /\ "create" \in Kinds \ Optimistic /\ "create" # "delete"
        /\ SameProject /\ cursor' = cursor /\ UNCHANGED fetchVars
        /\ PrependTask(t, x) /\ Ended("create")
        /\ detailBehind' = (detailBehind \ {t}) \cup stale
        /\ listBehind' = (listBehind \ {t}) \cup stale
    BY <1>0, <1>1 DEF CreateSaved, Judge, SameProject, serverVars, Kinds, Optimistic, Moves
  <1>3. SlotHolds("create", m)
    BY <1>0, <1>2, SlotTaken
  <1>4. /\ t \in Tasks /\ x \in Known(t)
        /\ t \notin AppliedSince(m.at) /\ Still(t, cursor) => Right(t, x)'
    BY <1>1, <1>2, <1>3, AnswerIsRight
  <1>5. SlotsHold' /\ \A u \in Tasks : Unsettled(u) => Unsettled(u)'
    BY <1>2, EndsWell
  <1>6. CacheHolds'
    <2>1. detailBehind' \subseteq Tasks /\ listBehind' \subseteq Tasks
      BY <1>2, <1>4 DEF IInv, CacheHolds
    <2>2. \A u \in Tasks \ {t} : /\ u \in detailBehind => u \in detailBehind'
                                 /\ u \in listBehind => u \in listBehind'
      BY <1>2
    <2>3. Still(t, cursor)' => Still(t, cursor)
      BY <1>2 DEF SameProject, Still
    <2>4. t \notin detailBehind' \/ t \notin listBehind' => t \notin AppliedSince(m.at)
      BY <1>2
    <2> QED
      BY <1>2, <1>4, <1>5, <2>1, <2>2, <2>3, <2>4, PrependKeeps
  <1>7. ServerHolds' /\ FetchesHold'
    BY <1>2, CursorIsNumber, ServerStays, FetchesStay DEF IInv, ServerHolds, FetchesHold, fetchVars
  <1> QED
    BY <1>5, <1>6, <1>7 DEF IInv

LEMMA DeleteSavedStep ==
  ASSUME IInv, DeleteSaved
  PROVE  IInv'
  <1>0. PICK t : t = slot["delete"].task
    OBVIOUS
  <1>1. /\ slot["delete"].phase = "ok" /\ "delete" \in Kinds \ Optimistic
        /\ SameProject /\ cursor' = cursor /\ listFetch' = listFetch
        /\ RemoveTask(t) /\ Ended("delete") /\ Behind(t, {})
        /\ detailFetch' = [detailFetch EXCEPT ![t] = Idle]
    BY <1>0 DEF DeleteSaved, SameProject, serverVars, Kinds, Optimistic, Moves
  <1>2. t \in Tasks /\ server[t].life = "deleted"
    BY <1>0, <1>1, SlotTaken DEF SlotHolds
  <1>3. SlotsHold' /\ \A u \in Tasks : Unsettled(u) => Unsettled(u)'
    BY <1>1, EndsWell
  <1>4. /\ detailFetch' = [u \in Tasks |-> detailFetch'[u]]
        /\ detailFetch'[t] = Idle /\ \A u \in Tasks \ {t} : detailFetch'[u] = detailFetch[u]
    BY <1>1, <1>2 DEF IInv, FetchesHold
  <1>5. /\ detail' = [u \in Tasks |-> detail'[u]] /\ detail'[t] = Absent
        /\ \A u \in Tasks \ {t} : detail'[u] = detail[u]
    BY <1>1, <1>2 DEF IInv, CacheHolds, RemoveTask
  <1>6. /\ rows' = [u \in Tasks |-> rows'[u]] /\ rows'[t] = <<>>
        /\ \A u \in Tasks \ {t} : rows'[u] = rows[u]
    BY <1>1, <1>2 DEF IInv, CacheHolds, RemoveTask
  <1>7. total' = CountOf(rows')
    <2>1. CASE rows[t] = <<>>
      BY <1>1, <1>6, <2>1, CountStays DEF RemoveTask, IInv, CacheHolds
    <2>2. CASE rows[t] # <<>>
      <3>1. CountOf(rows) = CountOf(rows') + 1 /\ CountOf(rows') = CountOf(rows) - 1
        BY <1>2, <1>6, <2>2, CountRises
      <3> QED
        BY <1>1, <2>2, <3>1 DEF RemoveTask, IInv, CacheHolds
    <2> QED
      BY <2>1, <2>2
  <1>8. /\ detailBehind' = detailBehind \ {t}
        /\ listBehind' \in {listBehind, listBehind \ {t}}
    BY <1>1 DEF Behind, Judge
  <1>9. \A u \in Tasks \ {t} : DetailHolds(u)' /\ ListHolds(u)'
    BY <1>1, <1>3, <1>4, <1>5, <1>6, <1>8, DetailStays, ListStays
  <1>10. ~Live(t)' /\ <<>> \in RowsOf(t)'
    BY <1>1, <1>2 DEF SameProject, Live, RowsOf
  <1>11. DetailHolds(t)' /\ ListHolds(t)'
    BY <1>5, <1>6, <1>10 DEF DetailHolds, ListHolds
  <1>12. CacheHolds'
    BY <1>5, <1>6, <1>7, <1>8, <1>9, <1>11 DEF IInv, CacheHolds
  <1>13. ServerHolds' /\ FetchesHold'
    BY <1>1, <1>4, CursorIsNumber, ServerStays, FetchesStay DEF IInv, ServerHolds
  <1> QED
    BY <1>3, <1>12, <1>13 DEF IInv

LEMMA DetailArrivesStep ==
  ASSUME IInv, NEW t \in Tasks, DetailArrives(t)
  PROVE  IInv'
  <1>0. PICK f, x : f = detailFetch[t] /\ x = f.entry
    OBVIOUS
  <1>1. /\ f.phase = "read" /\ SameProject /\ UNCHANGED <<rows, total, listFetch, slot, cursor, listBehind>>
        /\ detail' = [detail EXCEPT ![t] = x]
        /\ detailBehind' = (detailBehind \ {t}) \cup ({t} \cap AppliedSince(f.at))
        /\ detailFetch' = [detailFetch EXCEPT ![t] = Idle]
    BY <1>0 DEF DetailArrives, Judge, SameProject, serverVars
  <1>2. DetailRead(t, f)
    BY <1>0, <1>1 DEF IInv, FetchesHold, Idle, Asked
  <1>3. /\ detailFetch' = [u \in Tasks |-> detailFetch'[u]]
        /\ detailFetch'[t] = Idle /\ \A u \in Tasks \ {t} : detailFetch'[u] = detailFetch[u]
    BY <1>1 DEF IInv, FetchesHold
  <1>4. /\ detail' = [u \in Tasks |-> detail'[u]] /\ detail'[t] = x
        /\ \A u \in Tasks \ {t} : detail'[u] = detail[u]
    BY <1>1 DEF IInv, CacheHolds
  <1>5. \A u \in Tasks : Unsettled(u) => Unsettled(u)'
    BY <1>1 DEF Unsettled
  <1>6. \A u \in Tasks : ListHolds(u)'
    BY <1>1, <1>5, ListStays
  <1>7. \A u \in Tasks \ {t} : DetailHolds(u)'
    BY <1>1, <1>3, <1>4, <1>5, DetailStays
  <1>8. DetailHolds(t)'
    <2>1. x \in Known(t)' /\ x.sync = "synced"
      BY <1>0, <1>1, <1>2 DEF DetailRead, SameProject, Known
    <2>2. t \notin AppliedSince(f.at) /\ Still(t, cursor) => Matches(t, x)
      BY <1>0, <1>2, StillSince, CursorIsNumber DEF DetailRead
    <2>3. t \notin detailBehind' /\ Still(t, cursor)' => Live(t)' /\ Right(t, x)'
      BY <1>1, <2>1, <2>2 DEF SameProject, Still, Matches, Right, Live
    <2> QED
      BY <1>4, <2>1, <2>3 DEF DetailHolds
  <1>9. CacheHolds'
    BY <1>1, <1>4, <1>6, <1>7, <1>8 DEF IInv, CacheHolds, CountOf
  <1>10. ServerHolds' /\ FetchesHold'
    BY <1>1, <1>3, CursorIsNumber, ServerStays, FetchesStay DEF IInv, ServerHolds
  <1>11. SlotsHold'
    <2>1. \A j \in Kinds : \A p : SlotHolds(j, p) => SlotHolds(j, p)'
      BY <1>1, CursorIsNumber, SlotStays
    <2> QED
      BY <1>1, <2>1 DEF IInv, SlotsHold
  <1> QED
    BY <1>9, <1>10, <1>11 DEF IInv

LEMMA ListArrivesStep ==
  ASSUME IInv, ListArrives
  PROVE  IInv'
  <1>0. PICK f : f = listFetch
    OBVIOUS
  <1>1. /\ f.phase = "read" /\ SameProject /\ UNCHANGED <<detail, detailFetch, slot, cursor, detailBehind>>
        /\ rows' = f.rows /\ total' = CountOf(rows') /\ listBehind' = AppliedSince(f.at)
        /\ listFetch' = Idle
    BY <1>0 DEF ListArrives, SameProject, serverVars
  <1>2. ListRead(f)
    BY <1>0, <1>1 DEF IInv, FetchesHold, Idle, Asked
  <1>3. \A u \in Tasks : Unsettled(u) => Unsettled(u)'
    BY <1>1 DEF Unsettled
  <1>4. \A u \in Tasks : DetailHolds(u)'
    BY <1>1, <1>3, DetailStays
  <1>5. ASSUME NEW t \in Tasks
        PROVE  ListHolds(t)'
    <2>1. rows'[t] = f.rows[t] /\ f.rows[t] \in RowsOf(t)'
      BY <1>1, <1>2 DEF ListRead, SameProject, RowsOf, Known
    <2>2. f.at \in Nat /\ (Still(t, f.at) =>
            /\ f.rows[t] # <<>> <=> Live(t)
            /\ f.rows[t] # <<>> => f.rows[t][1].sync = "synced" /\ Matches(t, f.rows[t][1]))
      BY <1>2 DEF ListRead
    <2>3. PICK r : r = f.rows[t]
      OBVIOUS
    <2>4. t \notin AppliedSince(f.at) /\ Still(t, cursor) =>
            /\ r # <<>> <=> Live(t)
            /\ r # <<>> => r[1].sync = "synced" /\ Matches(t, r[1])
      BY <2>2, <2>3, StillSince, CursorIsNumber
    <2>5. t \notin listBehind' /\ Still(t, cursor)' =>
            /\ r # <<>> <=> Live(t)'
            /\ r # <<>> => Right(t, r[1])'
      BY <1>1, <2>4 DEF SameProject, Still, Matches, Right, Live
    <2> QED
      BY <2>1, <2>3, <2>5 DEF ListHolds
  <1>6. rows' = [t \in Tasks |-> rows'[t]] /\ AppliedSince(f.at) \subseteq Tasks
    <2>1. f.rows = [t \in Tasks |-> f.rows[t]] /\ f.at \in Nat
      BY <1>2 DEF ListRead
    <2>2. \A i \in 1..Len(log) : log[i] \in Events
      BY CursorIsNumber, ElementOfSeq
    <2>3. \A i \in (f.at + 1)..cursor : i \in 1..Len(log)
      BY <2>1, CursorIsNumber
    <2>4. AppliedSince(f.at) \subseteq Tasks
      BY <2>2, <2>3 DEF AppliedSince, Events
    <2> QED
      BY <1>1, <2>1, <2>4
  <1>7. CacheHolds'
    BY <1>1, <1>4, <1>5, <1>6 DEF IInv, CacheHolds
  <1>8. ServerHolds' /\ FetchesHold'
    BY <1>1, CursorIsNumber, ServerStays, FetchesStay DEF IInv, ServerHolds, FetchesHold
  <1>9. SlotsHold'
    <2>1. \A j \in Kinds : \A p : SlotHolds(j, p) => SlotHolds(j, p)'
      BY <1>1, CursorIsNumber, SlotStays
    <2> QED
      BY <1>1, <2>1 DEF IInv, SlotsHold
  <1> QED
    BY <1>7, <1>8, <1>9 DEF IInv

-----------------------------------------------------------------------------
(* Events that are applied *)

LEMMA NextEvent ==
  ASSUME IInv, cursor < Len(log)
  PROVE  /\ Next_ \in Events /\ Next_.task \in Tasks /\ Next_.version \in Nat /\ Next_.deps \in Nat
         /\ cursor + 1 \in 1..Len(log)
         /\ Next_.version <= server[Next_.task].version
         /\ Still(Next_.task, cursor + 1) =>
              /\ Next_.version = server[Next_.task].version /\ Next_.deps = server[Next_.task].deps
              /\ Next_.kind # "deleted" => Live(Next_.task)
  <1>1. cursor + 1 \in 1..Len(log)
    BY CursorIsNumber
  <1>2. Next_ \in Events
    BY <1>1, CursorIsNumber, ElementOfSeq DEF Next_
  <1> QED
    BY <1>1, <1>2 DEF IInv, ServerHolds, Events, Next_

LEMMA StreamKeeps ==
  ASSUME IInv, SameProject, cursor < Len(log), cursor' = cursor + 1, slot' = slot
  PROVE  /\ SlotsHold' /\ ServerHolds'
         /\ \A u \in Tasks : Unsettled(u) => Unsettled(u)'
         /\ \A u \in Tasks : Still(u, cursor)' => Still(u, cursor + 1)
  <1>1. \A j \in Kinds : \A p : SlotHolds(j, p) => SlotHolds(j, p)'
    BY CursorIsNumber, SlotStays
  <1>2. SlotsHold'
    BY <1>1 DEF IInv, SlotsHold
  <1>3. ServerHolds'
    BY CursorIsNumber, ServerStays DEF IInv
  <1> QED
    BY <1>2, <1>3 DEF Unsettled, SameProject, Still

LEMMA ApplyTaskEventStep ==
  ASSUME IInv, ApplyTaskEvent
  PROVE  IInv'
  <1>0. PICK e, t : e = Next_ /\ t = e.task
    OBVIOUS
  <1>1. PICK x : x = Entry(e.version, e.deps, "synced")
    OBVIOUS
  <1>2. /\ SameProject /\ cursor < Len(log) /\ cursor' = cursor + 1 /\ slot' = slot
        /\ UNCHANGED fetchVars /\ e.kind \in {"created", "updated"}
        /\ \/ /\ NotOlder(e) /\ PrependTask(t, x)
              /\ detailBehind' = detailBehind \ {t} /\ listBehind' = listBehind \ {t}
           \/ ~NotOlder(e) /\ UNCHANGED <<cacheVars, behindVars>>
    BY <1>0, <1>1 DEF ApplyTaskEvent, RowsApplied, PrependTask, SameProject, serverVars
  <1>3. /\ e \in Events /\ t \in Tasks /\ e.version \in Nat /\ e.deps \in Nat
        /\ e.version <= server[t].version
        /\ Still(t, cursor + 1) => e.version = server[t].version /\ e.deps = server[t].deps /\ Live(t)
    BY <1>0, <1>2, NextEvent
  <1>4. /\ SlotsHold' /\ ServerHolds'
        /\ \A u \in Tasks : Unsettled(u) => Unsettled(u)'
        /\ \A u \in Tasks : Still(u, cursor)' => Still(u, cursor + 1)
    BY <1>2, StreamKeeps
  <1>5. /\ x \in Known(t) /\ x.sync = "synced" /\ x.version = e.version /\ x.deps = e.deps
    BY <1>1, <1>3 DEF Entry, Known, Entries
  <1>6. Still(t, cursor)' => Right(t, x)'
    BY <1>2, <1>3, <1>4, <1>5 DEF Right, Matches, Live, SameProject
  <1>7. FetchesHold'
    BY <1>2, FetchesStay DEF IInv, FetchesHold, fetchVars
  <1>8. CASE NotOlder(e) /\ PrependTask(t, x)
             /\ detailBehind' = detailBehind \ {t} /\ listBehind' = listBehind \ {t}
    <2>1. detailBehind' \subseteq Tasks /\ listBehind' \subseteq Tasks
      BY <1>8 DEF IInv, CacheHolds
    <2>2. \A u \in Tasks \ {t} : /\ u \in detailBehind => u \in detailBehind'
                                 /\ u \in listBehind => u \in listBehind'
      BY <1>8
    <2>3. CacheHolds'
      BY <1>0, <1>2, <1>3, <1>4, <1>5, <1>6, <1>8, <2>1, <2>2, PrependKeeps
    <2> QED
      BY <1>4, <1>7, <2>3 DEF IInv
  <1>9. CASE ~NotOlder(e) /\ UNCHANGED <<cacheVars, behindVars>>
    <2>1. ~Still(t, cursor)'
      <3>1. detail[t] # Absent /\ ~(e.version >= detail[t].version)
        BY <1>0, <1>9 DEF NotOlder
      <3>2. detail[t].version <= server[t].version /\ detail[t].version \in Nat /\ server[t].version \in Nat
        BY <1>3, <3>1 DEF IInv, ServerHolds, Records, CacheHolds, DetailHolds, Known, Entries
      <3> QED
        BY <1>3, <1>4, <3>1, <3>2
    <2>2. \A u \in Tasks \ {t} : DetailHolds(u)' /\ ListHolds(u)'
      BY <1>0, <1>2, <1>4, <1>9, DetailStays, ListStays DEF cacheVars, behindVars, fetchVars
    <2>3. DetailHolds(t)' /\ ListHolds(t)'
      BY <1>2, <1>3, <1>9, <2>1
         DEF IInv, CacheHolds, DetailHolds, ListHolds, RowsOf, Known, SameProject, cacheVars, behindVars
    <2>4. CacheHolds'
      BY <1>9, <2>2, <2>3 DEF IInv, CacheHolds, cacheVars, behindVars, CountOf
    <2> QED
      BY <1>4, <1>7, <2>4 DEF IInv
  <1> QED
    BY <1>2, <1>8, <1>9

LEMMA ApplyDeletedStep ==
  ASSUME IInv, ApplyDeleted
  PROVE  IInv'
  <1>0. PICK t : t = Next_.task
    OBVIOUS
  <1>1. /\ SameProject /\ cursor < Len(log) /\ cursor' = cursor + 1 /\ slot' = slot
        /\ UNCHANGED <<rows, total, listBehind>>
        /\ detail' = [detail EXCEPT ![t] = Absent]
        /\ detailFetch' = [detailFetch EXCEPT ![t] = Idle]
        /\ listFetch' = Asked /\ detailBehind' = detailBehind \ {t}
    BY <1>0 DEF ApplyDeleted, Invalidated, SameProject, serverVars
  <1>2. t \in Tasks
    BY <1>0, <1>1, NextEvent
  <1>3. /\ SlotsHold' /\ ServerHolds'
        /\ \A u \in Tasks : Unsettled(u) => Unsettled(u)'
    BY <1>1, StreamKeeps
  <1>4. /\ detailFetch' = [u \in Tasks |-> detailFetch'[u]]
        /\ detailFetch'[t] = Idle /\ \A u \in Tasks \ {t} : detailFetch'[u] = detailFetch[u]
    BY <1>1, <1>2 DEF IInv, FetchesHold
  <1>5. /\ detail' = [u \in Tasks |-> detail'[u]] /\ detail'[t] = Absent
        /\ \A u \in Tasks \ {t} : detail'[u] = detail[u]
    BY <1>1, <1>2 DEF IInv, CacheHolds
  <1>6. FetchesHold'
    BY <1>1, <1>4, FetchesStay DEF IInv
  <1>7. \A u \in Tasks \ {t} : DetailHolds(u)'
    BY <1>0, <1>1, <1>3, <1>4, <1>5, DetailStays
  <1>8. DetailHolds(t)'
    BY <1>5 DEF DetailHolds
  <1>9. \A u \in Tasks : ListHolds(u)'
    BY <1>1 DEF IInv, CacheHolds, ListHolds, RowsOf, Known, SameProject, Asked, Idle
  <1>10. CacheHolds'
    BY <1>1, <1>5, <1>7, <1>8, <1>9 DEF IInv, CacheHolds, CountOf
  <1> QED
    BY <1>3, <1>6, <1>10 DEF IInv

LEMMA ApplyDependencyEventStep ==
  ASSUME IInv, ApplyDependencyEvent
  PROVE  IInv'
  <1>0. PICK t : t = Next_.task
    OBVIOUS
  <1>1. /\ SameProject /\ cursor < Len(log) /\ cursor' = cursor + 1 /\ slot' = slot
        /\ UNCHANGED <<cacheVars, behindVars>> /\ Next_.kind = "dependency"
        /\ detailFetch' = [detailFetch EXCEPT ![t] = Invalidated(@, detail[t] # Absent)]
        /\ listFetch' = Asked
    BY <1>0 DEF ApplyDependencyEvent, Invalidated, SameProject, serverVars, cacheVars, behindVars
  <1>2. t \in Tasks /\ (Still(t, cursor + 1) => Live(t))
    BY <1>0, <1>1, NextEvent
  <1>3. /\ SlotsHold' /\ ServerHolds'
        /\ \A u \in Tasks : Unsettled(u) => Unsettled(u)'
        /\ \A u \in Tasks : Still(u, cursor)' => Still(u, cursor + 1)
    BY <1>1, StreamKeeps
  <1>4. /\ detailFetch' = [u \in Tasks |-> detailFetch'[u]]
        /\ \A u \in Tasks \ {t} : detailFetch'[u] = detailFetch[u]
        /\ detailFetch'[t] \in {detailFetch[t], Asked}
        /\ detail[t] # Absent => detailFetch'[t] = Asked
    BY <1>1, <1>2 DEF IInv, FetchesHold, Invalidated
  <1>5. FetchesHold'
    BY <1>1, <1>4, FetchesStay DEF IInv
  <1>6. \A u \in Tasks \ {t} : DetailHolds(u)'
    BY <1>0, <1>1, <1>3, <1>4, DetailStays DEF cacheVars, behindVars
  <1>7. DetailHolds(t)'
    BY <1>1, <1>2, <1>3, <1>4
       DEF IInv, CacheHolds, DetailHolds, Known, Live, SameProject, cacheVars, behindVars, Asked, Idle
  <1>8. \A u \in Tasks : ListHolds(u)'
    BY <1>1 DEF IInv, CacheHolds, ListHolds, RowsOf, Known, SameProject, Asked, Idle, cacheVars, behindVars
  <1>9. CacheHolds'
    BY <1>1, <1>6, <1>7, <1>8 DEF IInv, CacheHolds, CountOf, cacheVars, behindVars
  <1> QED
    BY <1>3, <1>5, <1>9 DEF IInv

-----------------------------------------------------------------------------
(* All steps *)

LEMMA InitHolds ==
  ASSUME Init
  PROVE  IInv
  <1>1. /\ server \in [Tasks -> Records]
        /\ \A t \in Tasks : /\ server[t] = Created \/ server[t] = Unborn
                            /\ server[t].life = "unborn" => server[t].version = 0
    BY DEF Init, Created, Unborn, Records
  <1>2. log = <<>> /\ Len(log) = 0 /\ log \in Seq(Events) /\ cursor = 0
    BY EmptySeq DEF Init
  <1>3. ServerHolds
    BY <1>1, <1>2 DEF ServerHolds
  <1>4. \A t \in Tasks : Shown(t) \in Known(t) /\ (Live(t) => Right(t, Shown(t)))
    BY <1>1 DEF Shown, Entry, Known, Entries, Records, Right, Matches
  <1>5. detail = [t \in Tasks |-> detail[t]] /\ \A t \in Tasks : DetailHolds(t)
    <2>1. PICK opened \in SUBSET {t \in Tasks : Live(t)} :
            detail = [t \in Tasks |-> IF t \in opened THEN Shown(t) ELSE Absent]
      BY DEF Init
    <2> QED
      BY <1>4, <2>1 DEF DetailHolds
  <1>6. rows = [t \in Tasks |-> rows[t]] /\ \A t \in Tasks : ListHolds(t)
    <2>1. rows = [t \in Tasks |-> IF Live(t) THEN <<Shown(t)>> ELSE <<>>]
      BY DEF Init
    <2> QED
      BY <1>4, <2>1, OneRow DEF ListHolds, RowsOf
  <1>7. CacheHolds
    BY <1>5, <1>6 DEF Init, CacheHolds
  <1>8. FetchesHold
    BY DEF Init, FetchesHold
  <1>9. SlotsHold
    BY DEF Init, SlotsHold
  <1> QED
    BY <1>3, <1>7, <1>8, <1>9 DEF IInv

LEMMA StutterHolds ==
  ASSUME IInv, UNCHANGED vars
  PROVE  IInv'
  <1>1. SameProject /\ UNCHANGED <<cacheVars, fetchVars, cursor, behindVars, slot>>
    BY DEF vars, serverVars, SameProject
  <1>2. SlotsHold'
    <2>1. \A j \in Kinds : \A p : SlotHolds(j, p) => SlotHolds(j, p)'
      BY <1>1, CursorIsNumber, SlotStays
    <2> QED
      BY <1>1, <2>1 DEF IInv, SlotsHold
  <1>3. \A t \in Tasks : Unsettled(t) => Unsettled(t)'
    BY <1>1 DEF Unsettled
  <1> QED
    BY <1>1, <1>2, <1>3, OnlySlots

LEMMA StepHolds ==
  ASSUME IInv, [Next]_vars
  PROVE  IInv'
  <1>1. CASE UserStep
    BY <1>1, EditBeginStep, PlainBeginStep, MoveBeginStep, AskStep, BootstrapAgainStep
       DEF UserStep
  <1>2. CASE ServerStep
    BY <1>2, OthersChangeStep, ServeDetailStep, ServeStep, RefuseStep, ServeListStep, AskStep
       DEF ServerStep
  <1>3. CASE AnswerStep
    BY <1>3, DetailArrivesStep, ListArrivesStep, SavedStep, LinkSavedStep, RollBackStep, GiveUpStep,
       CreateSavedStep, DeleteSavedStep, DeleteRefusedStep
       DEF AnswerStep
  <1>4. CASE StreamStep
    BY <1>4, ApplyTaskEventStep, ApplyDeletedStep, ApplyDependencyEventStep DEF StreamStep
  <1>5. CASE UNCHANGED vars
    BY <1>5, StutterHolds
  <1> QED
    BY <1>1, <1>2, <1>3, <1>4, <1>5 DEF Next

-----------------------------------------------------------------------------
(* The theorems *)

\* In every behaviour of the cache each entry is what the server has, or pending
\* for a mutation under way, or behind an event still to be applied, but for the
\* tasks left behind; each answer and each snapshot a roll-back restores was
\* right when it was taken.
THEOREM Invariance == Spec => []IInv
  <1>1. Init => IInv
    BY InitHolds
  <1>2. IInv /\ [Next]_vars => IInv'
    BY StepHolds
  <1> QED
    BY <1>1, <1>2, PTL DEF Spec

\* When every event is applied and nothing is under way, the panel and the list
\* show what the server has and nothing stays pending, however requests, events,
\* edits and roll-backs overlapped (applyEvent, query-cache.ts), for any number
\* of tasks, events and mutations.
THEOREM QuietCacheIsRight == Spec => []CacheConverges
  <1>1. IInv => CacheConverges
    <2> SUFFICES ASSUME IInv, Quiet, NEW t \in Tasks
                 PROVE  /\ t \notin detailBehind /\ detail[t] # Absent => UpToDate(t, detail[t])
                        /\ t \notin listBehind =>
                             /\ rows[t] # <<>> <=> Live(t)
                             /\ \A i \in DOMAIN rows[t] : UpToDate(t, rows[t][i])
      BY DEF CacheConverges
    <2>1. /\ Still(t, cursor) /\ listFetch = Idle /\ detailFetch[t] = Idle
          /\ \A k \in Kinds : slot[k] = Free
      BY CursorIsNumber DEF Quiet, Still
    <2>2. ~Unsettled(t)
      BY <2>1 DEF Unsettled, Optimistic, Kinds, Moves
    <2>3. \A x : Right(t, x) => UpToDate(t, x)
      BY <2>2 DEF Right, Matches, UpToDate
    <2>4. DetailHolds(t) /\ ListHolds(t)
      BY DEF IInv, CacheHolds
    <2>5. t \notin detailBehind /\ detail[t] # Absent => UpToDate(t, detail[t])
      BY <2>1, <2>3, <2>4 DEF DetailHolds
    <2>6. ASSUME t \notin listBehind
          PROVE  /\ rows[t] # <<>> <=> Live(t)
                 /\ \A i \in DOMAIN rows[t] : UpToDate(t, rows[t][i])
      <3>1. /\ rows[t] # <<>> <=> Live(t)
            /\ rows[t] # <<>> => UpToDate(t, rows[t][1])
        BY <2>1, <2>3, <2>4, <2>6 DEF ListHolds
      <3>2. \A i \in DOMAIN rows[t] : i = 1 /\ rows[t] # <<>>
        BY <2>4 DEF ListHolds, RowsOf
      <3> QED
        BY <3>1, <3>2
    <2> QED
      BY <2>5, <2>6
  <1> QED
    BY <1>1, Invariance, PTL

\* prependTaskToCache is idempotent: whichever of an event, a page and the answer
\* to a creation comes first, a task has at most one row, and the total is the
\* number of tasks with a row.
THEOREM RowsAddUp == Spec => []ListAddsUp
  <1>1. IInv => ListAddsUp
    <2>1. Len(<<>>) = 0
      OBVIOUS
    <2>2. ASSUME IInv, NEW t \in Tasks
          PROVE  Len(rows[t]) <= 1
      <3>1. CASE rows[t] = <<>>
        BY <2>1, <3>1
      <3>2. ASSUME NEW x \in Known(t), rows[t] = <<x>>
            PROVE  Len(rows[t]) <= 1
        <4>1. Len(<<x>>) = 1
          OBVIOUS
        <4> QED
          BY <3>2, <4>1
      <3> QED
        BY <2>2, <3>1, <3>2 DEF IInv, CacheHolds, ListHolds, RowsOf
    <2> QED
      BY <2>2 DEF IInv, CacheHolds, ListAddsUp
  <1> QED
    BY <1>1, Invariance, PTL
=============================================================================
