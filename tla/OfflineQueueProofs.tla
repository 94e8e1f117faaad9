-------------------------- MODULE OfflineQueueProofs --------------------------
(***************************************************************************)
(* Proofs about the offline queue: whatever is sent again, kept for later, *)
(* coalesced or given up, an edit is applied once and never over a newer   *)
(* one; an edit accepted in quiet is not lost; and nothing overtakes the   *)
(* creation of its task.                                                   *)
(***************************************************************************)
EXTENDS OfflineQueue, NaturalsInduction, FiniteSetTheorems, TLAPS

-----------------------------------------------------------------------------
(* Types *)

Inputs == [Fields -> Nat]
Requests == [kind : Kinds, task : Tasks, key : Nat, input : Inputs, expected : Nat,
             status : {"pending", "failed", "conflict"}]
ServerTasks == [version : Nat, life : {"unborn", "live", "deleted"}, touched : Inputs, mine : Inputs]
Responses == [kind : {"saved"}, request : Requests, version : Nat]
Answers == [status : {"none", "ok", "conflict", "failed"}, version : Nat]
Messages == [request : Requests, answer : Answers]
Calls == [kind : Kinds, task : Tasks, operation : Requests, read : [Kinds -> {None} \cup Requests],
          phase : {"sending", "queueing"}, quiet : BOOLEAN]
Runs == [kind : {"sync"}, batch : SUBSET Requests, versions : [Tasks -> Nat]]

ServerTyped ==
  /\ server \in [Tasks -> ServerTasks] /\ saved \in [Keys -> {None} \cup Responses]
  /\ applied \in [Edits -> Nat]

DeviceTyped ==
  /\ queue \in [Tasks -> [Kinds -> {None} \cup Requests]]
  /\ cache \in [Tasks -> [version : Nat, cached : BOOLEAN]]
  /\ keys \in Nat /\ edits \in 0..MaxEdits /\ taken \subseteq Tasks
  /\ DOMAIN fate = Edits /\ quiet \subseteq Edits

ProcessesTyped ==
  /\ call = None \/ call \in Calls
  /\ sync = None \/ sync \in Runs
  /\ wire \in [Callers -> {None} \cup Messages] /\ late \subseteq Requests
  /\ online \in BOOLEAN

Types == ServerTyped /\ DeviceTyped /\ ProcessesTyped

-----------------------------------------------------------------------------
(* The requests there are *)

\* What a call has read of the queue, and what a synchronisation has.
ReadOf(k) == IF call = None THEN None ELSE call.read[k]
Read == {ReadOf(k) : k \in Kinds} \ {None}
Batch == IF sync = None THEN {} ELSE sync.batch
Kept == Operations \cup Batch \cup Read

\* What may still reach the server.
Asked == {wire[w].request : w \in {v \in Callers : wire[v] # None}} \cup late

Called == IF call = None THEN {} ELSE {call.operation}

Held == Kept \cup Asked \cup Called

\* Each request is where its task and its kind say.
Placed ==
  /\ \A t \in Tasks, k \in Kinds : queue[t][k] # None => queue[t][k].task = t /\ queue[t][k].kind = k
  /\ call # None =>
       /\ call.operation.task = call.task /\ call.operation.kind = call.kind
       /\ \A k \in Kinds : call.read[k] # None => call.read[k].task = call.task /\ call.read[k].kind = k
  /\ \A o, p \in Batch : o.task = p.task /\ o.kind = p.kind => o = p

\* Keys are taken in order, and there are enough of them.
Due == IF call # None /\ call.kind # "create" THEN 1 ELSE 0

KeysHold ==
  /\ keys + Due <= 2 * edits + Cardinality(taken)
  /\ \A r \in Kept \cup Asked : r.key \in 1..keys
  /\ call # None /\ call.kind = "create" => call.operation.key \in 1..keys

-----------------------------------------------------------------------------
(* What is known of the server *)

ServerHolds ==
  \A t \in Tasks :
    /\ server[t].life = "live" => server[t].version >= 1
    /\ server[t].version >= 1 => t \in taken
    /\ \A f \in Fields : server[t].touched[f] <= server[t].version /\ server[t].mine[f] <= edits

\* A request that brings back an edit, or one older than the server's, meets a
\* field that was written after its base.
Stale(r, f) ==
  LET s == server[r.task] IN
    s.mine[f] >= r.input[f] => s.touched[f] > r.expected /\ s.touched[f] >= 2

Good(r) ==
  /\ r.task \in taken /\ r.expected <= server[r.task].version
  /\ r.kind # "update" => r.input = NoInput
  /\ \A f \in Fields : r.input[f] # 0 =>
       /\ r.input[f] <= edits /\ Stale(r, f)
       /\ applied[r.input[f]] > 0 => server[r.task].mine[f] >= r.input[f]

\* An edit is of one field of one task.
OneHome ==
  \A r, s \in Held : \A f, g \in Fields :
    r.input[f] # 0 /\ r.input[f] = s.input[g] => r.task = s.task /\ f = g

AppliedHolds ==
  \A e \in Edits : applied[e] > 0 => e <= edits /\ applied[e] = 1

\* The edit of a call that found an update in the queue is nowhere else yet.
FreshEdit ==
  call # None /\ call.kind = "update" /\ call.read["update"] # None =>
    /\ call.phase = "queueing"
    /\ \A f \in Fields : call.operation.input[f] # 0 =>
         /\ server[call.task].mine[f] < call.operation.input[f]
         /\ \A r \in Kept \cup Asked : r.input[f] < call.operation.input[f]

EditsApplied(r) == \A e \in EditsOf(r.input) : e \in Edits /\ applied[e] > 0

\* What was answered well was applied, and left the version it says or a later one.
Answer(r, version) ==
  EditsApplied(r) /\ version <= server[r.task].version /\ (r.kind = "create" => version = 1)

AnswersHold ==
  /\ \A k \in Keys : saved[k] # None => Answer(saved[k].request, saved[k].version)
  /\ \A w \in Callers : wire[w] # None /\ wire[w].answer.status = "ok" =>
       Answer(wire[w].request, wire[w].answer.version)

VersionsHold ==
  /\ \A t \in Tasks : cache[t].version <= server[t].version /\ (cache[t].cached => t \in taken)
  /\ sync # None =>
       /\ \A t \in Tasks : sync.versions[t] <= server[t].version
       /\ \A o \in sync.batch : o.kind = "update" => sync.versions[o.task] <= 1

\* The request of a process is what it is at.
SameAs(r, o) == r.kind = o.kind /\ r.task = o.task /\ r.input = o.input

ProcessesHold ==
  /\ wire["sync"] # None =>
       sync # None /\ sync.batch # {} /\ SameAs(wire["sync"].request, First(sync.batch))
  /\ call # None /\ call.phase = "sending" /\ wire["call"] # None =>
       SameAs(wire["call"].request, call.operation)
  /\ call # None => \A f \in Fields : call.operation.input[f] \notin quiet
  /\ call # None /\ call.quiet => sync = None
  /\ \A e \in quiet : e <= edits

-----------------------------------------------------------------------------
(* Order *)

\* Until its creation is queued a task has no other operation; then the creation
\* has the smaller key, and is in the batch of what is behind it.
Creations ==
  /\ \A r \in Kept : r.kind # "create" =>
       /\ r.task \in taken
       /\ call # None /\ call.kind = "create" => call.task # r.task
  /\ \A r, s \in Kept : r.kind = "create" /\ s.kind # "create" /\ r.task = s.task => r.key < s.key
  /\ \A t \in Tasks :
       /\ queue[t]["create"] # None /\ queue[t]["create"].status = "pending"
       /\ \E o \in Batch : o.task = t /\ o.kind # "create"
       => queue[t]["create"] \in Batch

-----------------------------------------------------------------------------
(* Quiet edits *)

\* An edit accepted in quiet and not yet applied is queued, in what has been read
\* of the queue, and in what is being sent of it.
Carries(o, f, e) == o # None /\ o.input[f] = e

QuietHolds ==
  \A e \in quiet : fate[e] = "accepted" /\ applied[e] = 0 =>
    \E t \in Tasks, f \in Fields :
      /\ Carries(queue[t]["update"], f, e)
      /\ call # None /\ call.task = t => Carries(call.read["update"], f, e)
      /\ \A o \in Batch : o.task = t /\ o.kind = "update" => o.input[f] = e

IInv ==
  /\ Types /\ Placed /\ KeysHold /\ ServerHolds
  /\ \A r \in Held : Good(r)
  /\ OneHome /\ AppliedHolds /\ FreshEdit /\ AnswersHold /\ VersionsHold /\ ProcessesHold
  /\ Creations /\ QuietHolds

-----------------------------------------------------------------------------
(* The first operation of a batch *)

LEMMA FirstIsLeast ==
  ASSUME NEW batch, batch \subseteq Requests, batch # {}
  PROVE  First(batch) \in batch /\ \A p \in batch : First(batch).key <= p.key
  <1> DEFINE ks == {o.key : o \in batch}
  <1>1. ks \subseteq Nat /\ ks # {}
    BY DEF Requests
  <1> HIDE DEF ks
  <1>2. PICK k \in ks : \A j \in ks : ~(<<j, k>> \in OpToRel(<, Nat))
    BY <1>1, WFMin, NatLessThanWellFounded
  <1>3. \A j \in ks : k <= j
    <2> SUFFICES ASSUME NEW j \in ks, j < k PROVE FALSE
      BY <1>1
    <2>1. <<j, k>> \in OpToRel(<, Nat)
      BY <1>1 DEF OpToRel
    <2> QED
      BY <1>2, <2>1
  <1>4. \E o \in batch : \A p \in batch : o.key <= p.key
    BY <1>2, <1>3 DEF ks
  <1> QED
    BY <1>4 DEF First

-----------------------------------------------------------------------------
(* What each action does *)

LEMMA NoneIsNoRequest == None \notin Requests /\ None \notin Calls /\ None \notin Runs
  BY DEF None, Requests, Calls, Runs, Kinds

LEMMA PutEffect ==
  ASSUME NEW q \in [Tasks -> [Kinds -> {None} \cup Requests]], NEW o \in Requests
  PROVE  /\ Put(q, o) \in [Tasks -> [Kinds -> {None} \cup Requests]]
         /\ Put(q, o)[o.task][o.kind] = o
         /\ \A t \in Tasks, k \in Kinds : t # o.task \/ k # o.kind => Put(q, o)[t][k] = q[t][k]
  BY DEF Put, Requests

LEMMA DeleteEffect ==
  ASSUME NEW q \in [Tasks -> [Kinds -> {None} \cup Requests]], NEW b \in Tasks, NEW j \in Kinds
  PROVE  /\ Delete(q, b, j) \in [Tasks -> [Kinds -> {None} \cup Requests]]
         /\ Delete(q, b, j)[b][j] = None
         /\ \A t \in Tasks, k \in Kinds : t # b \/ k # j => Delete(q, b, j)[t][k] = q[t][k]
  BY DEF Delete

\* A request that is applied has met no edit written after its base.
LEMMA ProcessEffect ==
  ASSUME ServerTyped, NEW r \in Requests, r.key \in Keys, Process(r)
  PROVE  \/ UNCHANGED serverVars
         \/ /\ server' = [server EXCEPT ![r.task] = Mutation(r).task]
            /\ saved' = [saved EXCEPT ![r.key] =
                           [kind |-> "saved", request |-> r, version |-> Mutation(r).task.version]]
            /\ applied' = [e \in Edits |-> IF e \in EditsOf(r.input) THEN applied[e] + 1 ELSE applied[e]]
            /\ Mutation(r).status = "ok" /\ others' = others
  BY DEF Process, Applies

\* What is known of a task that a request was applied to.
Change(s, n, r) ==
  /\ n \in ServerTasks
  /\ n.version = IF r.kind = "create" THEN 1 ELSE s.version + 1
  /\ r.kind = "create" => s.version = 0 /\ n.life = "live" /\ n.touched = s.touched /\ n.mine = s.mine
  /\ r.kind = "delete" => s.life = "live" /\ n.life = "deleted" /\ n.touched = s.touched /\ n.mine = s.mine
  /\ r.kind = "update" =>
       /\ s.life = "live" /\ n.life = "live" /\ r.expected <= s.version
       /\ \A f \in Fields : r.input[f] # 0 => s.touched[f] <= r.expected
       /\ n.touched = [f \in Fields |-> IF r.input[f] # 0 THEN s.version + 1 ELSE s.touched[f]]
       /\ n.mine = [f \in Fields |-> IF r.input[f] # 0 THEN r.input[f] ELSE s.mine[f]]

LEMMA ChangedEffect ==
  ASSUME NEW s \in ServerTasks, NEW r \in Requests
  PROVE  LET n == Changed(s, r)
         IN  /\ n \in ServerTasks
             /\ n.version = IF r.kind = "create" THEN 1 ELSE s.version + 1
             /\ r.kind = "create" => n.life = "live" /\ n.touched = s.touched /\ n.mine = s.mine
             /\ r.kind = "delete" => n.life = "deleted" /\ n.touched = s.touched /\ n.mine = s.mine
             /\ r.kind = "update" =>
                  n.life = s.life /\ n.touched = Touch(s, r.input) /\ n.mine = Overlay(s.mine, r.input)
  <1>0. r.input \in Inputs /\ r.kind \in {"create", "update", "delete"} /\ s.version + 1 \in Nat
    BY DEF Requests, ServerTasks, Kinds
  <1>1. CASE r.kind = "create"
    <2>1. Changed(s, r) = [s EXCEPT !.version = 1, !.life = "live"]
      BY <1>1 DEF Changed
    <2>2. 1 \in Nat /\ "live" \in {"unborn", "live", "deleted"}
      OBVIOUS
    <2>3. /\ Changed(s, r) \in ServerTasks /\ Changed(s, r).version = 1
          /\ Changed(s, r).life = "live"
          /\ Changed(s, r).touched = s.touched /\ Changed(s, r).mine = s.mine
      BY <2>1, <2>2 DEF ServerTasks
    <2> QED
      BY <1>1, <2>3
  <1>2. CASE r.kind = "delete"
    <2>1. Changed(s, r) = [s EXCEPT !.version = s.version + 1, !.life = "deleted"]
      BY <1>2 DEF Changed
    <2> QED
      BY <1>0, <1>2, <2>1 DEF ServerTasks
  <1>3. CASE r.kind = "update"
    <2> DEFINE x == Touch(s, r.input)
               y == Overlay(s.mine, r.input)
    <2>1. Changed(s, r) = [s EXCEPT !.version = s.version + 1, !.touched = x, !.mine = y]
      BY <1>3 DEF Changed
    <2>2. x \in Inputs /\ y \in Inputs
      BY <1>0 DEF ServerTasks, Inputs, Touch, Overlay
    <2> HIDE DEF x, y
    <2>3. /\ Changed(s, r) \in ServerTasks /\ Changed(s, r).version = s.version + 1
          /\ Changed(s, r).life = s.life
          /\ Changed(s, r).touched = x /\ Changed(s, r).mine = y
      BY <1>0, <2>1, <2>2 DEF ServerTasks
    <2> QED
      BY <1>3, <2>3 DEF x, y
  <1> QED
    BY <1>0, <1>1, <1>2, <1>3

LEMMA MutationEffect ==
  ASSUME ServerTyped, NEW r \in Requests, Mutation(r).status = "ok"
  PROVE  Change(server[r.task], Mutation(r).task, r)
  <1> DEFINE s == server[r.task]
             n == Changed(s, r)
  <1>0. s \in ServerTasks /\ r.input \in Inputs /\ r.kind \in Kinds /\ r.expected \in Nat
    BY DEF ServerTyped, Requests
  <1>1. Verdict(r) = "ok" /\ Mutation(r).task = Changed(s, r)
    BY DEF Mutation
  <1>2. /\ r.kind = "create" => s.version = 0
        /\ r.kind # "create" => s.life = "live"
        /\ r.kind = "update" => ~(r.expected > s.version) /\ ~Overlaps(r.task, r.input, r.expected)
    BY <1>1 DEF Verdict
  <1>3. r.kind = "update" =>
          r.expected <= s.version /\ \A f \in Fields : r.input[f] # 0 => s.touched[f] <= r.expected
    BY <1>0, <1>2 DEF Overlaps, ServerTasks, Inputs
  <1>4. /\ n \in ServerTasks
        /\ n.version = IF r.kind = "create" THEN 1 ELSE s.version + 1
        /\ r.kind = "create" => n.life = "live" /\ n.touched = s.touched /\ n.mine = s.mine
        /\ r.kind = "delete" => n.life = "deleted" /\ n.touched = s.touched /\ n.mine = s.mine
        /\ r.kind = "update" =>
             n.life = s.life /\ n.touched = Touch(s, r.input) /\ n.mine = Overlay(s.mine, r.input)
    BY <1>0, ChangedEffect
  <1>5. Change(s, n, r)
    <2> HIDE DEF n, s
    <2> QED
      BY <1>2, <1>3, <1>4 DEF Change, Touch, Overlay
  <1> QED
    BY <1>1, <1>5

-----------------------------------------------------------------------------
(* Types are kept *)

LEMMA HeldTyped ==
  ASSUME Types
  PROVE  Operations \subseteq Requests /\ Batch \subseteq Requests /\ Read \subseteq Requests
         /\ Asked \subseteq Requests /\ Called \subseteq Requests
  <1>1. Operations \subseteq Requests
    BY DEF Types, DeviceTyped, Operations
  <1>2. Batch \subseteq Requests
    BY DEF Types, ProcessesTyped, Batch, Runs
  <1>3. Read \subseteq Requests
    BY DEF Types, ProcessesTyped, Read, ReadOf, Calls
  <1>4. Asked \subseteq Requests
    BY DEF Types, ProcessesTyped, Asked, Messages
  <1>5. Called \subseteq Requests
    BY DEF Types, ProcessesTyped, Called, Calls
  <1> QED
    BY <1>1, <1>2, <1>3, <1>4, <1>5

LEMMA SentTyped ==
  ASSUME NEW o \in Requests, NEW n \in Nat
  PROVE  /\ [o EXCEPT !.expected = n] \in Requests /\ [o EXCEPT !.key = n] \in Requests
         /\ \A m \in {"pending", "failed", "conflict"} : [o EXCEPT !.status = m] \in Requests
  BY DEF Requests

LEMMA ProcessTyped ==
  ASSUME Types, NEW r \in Requests, Process(r)
  PROVE  ServerTyped'
  <1>1. CASE UNCHANGED serverVars
    BY <1>1 DEF serverVars, Types, ServerTyped
  <1>2. CASE ~UNCHANGED serverVars
    <2> DEFINE n == Mutation(r).task
               m == n.version
    <2>1. /\ server' = [server EXCEPT ![r.task] = n]
          /\ saved' = [saved EXCEPT ![r.key] = [kind |-> "saved", request |-> r, version |-> m]]
          /\ applied' = [e \in Edits |-> IF e \in EditsOf(r.input) THEN applied[e] + 1 ELSE applied[e]]
          /\ Mutation(r).status = "ok"
      BY <1>2 DEF Process, Applies
    <2>2. n \in ServerTasks /\ m \in Nat
      BY <2>1, MutationEffect DEF Types, Change, ServerTasks
    <2> HIDE DEF n, m
    <2>3. [kind |-> "saved", request |-> r, version |-> m] \in Responses
      BY <2>2 DEF Responses
    <2>4. server' \in [Tasks -> ServerTasks]
      BY <2>1, <2>2 DEF Types, ServerTyped
    <2>5. saved' \in [Keys -> {None} \cup Responses]
      BY <2>1, <2>3 DEF Types, ServerTyped
    <2>6. applied' \in [Edits -> Nat]
      BY <2>1 DEF Types, ServerTyped
    <2> QED
      BY <2>4, <2>5, <2>6 DEF ServerTyped
  <1> QED
    BY <1>1, <1>2

LEMMA AnswerTyped ==
  ASSUME Types, NEW r \in Requests, r.key \in Keys
  PROVE  AnswerTo(r) \in Answers
  <1>1. Verdict(r) \in {"ok", "conflict", "failed"}
    BY DEF Verdict
  <1>2. server[r.task] \in ServerTasks
    BY DEF Types, ServerTyped, Requests
  <1>3. Mutation(r).status = Verdict(r) /\ Mutation(r).task \in ServerTasks
    BY <1>2, ChangedEffect DEF Mutation
  <1>4. saved[r.key] # None => saved[r.key].version \in Nat
    BY DEF Types, ServerTyped, Responses
  <1> DEFINE v == Mutation(r).task.version
             a == Mutation(r).status
  <1>5. v \in Nat /\ a \in {"ok", "conflict", "failed"}
    BY <1>1, <1>3 DEF ServerTasks
  <1>6. AnswerTo(r) =
          IF r.kind # "create" /\ r.expected < 1 THEN [status |-> "failed", version |-> 0]
          ELSE IF saved[r.key] = None THEN [status |-> a, version |-> v]
          ELSE IF saved[r.key].request = r THEN [status |-> "ok", version |-> saved[r.key].version]
          ELSE [status |-> "failed", version |-> 0]
    BY DEF AnswerTo
  <1> HIDE DEF v, a
  <1> QED
    BY <1>4, <1>5, <1>6 DEF Answers

LEMMA KeysSuffice ==
  ASSUME Types, KeysHold, NEW r \in Kept \cup Asked
  PROVE  r.key \in Keys
  <1>1. Cardinality(taken) <= Cardinality(Tasks) /\ Cardinality(taken) \in Nat /\ Cardinality(Tasks) \in Nat
    BY QueueAssumption, FS_Subset, FS_CardinalityType DEF Types, DeviceTyped
  <1>2. keys <= 2 * MaxEdits + Cardinality(Tasks)
    BY <1>1, QueueAssumption DEF KeysHold, Due, Types, DeviceTyped
  <1>3. r.key \in 1..keys
    BY DEF KeysHold
  <1> QED
    BY <1>1, <1>2, <1>3, QueueAssumption DEF Keys, Types, DeviceTyped

LEMMA ServerStepTyped ==
  ASSUME Types, KeysHold,
         \/ \E w \in Callers : Serve(w)
         \/ \E r \in late : ServeLate(r)
         \/ \E t \in Tasks, f \in Fields : OthersUpdate(t, f)
  PROVE  Types'
  <1>1. ASSUME NEW w \in Callers, Serve(w) PROVE Types'
    <2> DEFINE r == wire[w].request
               a == AnswerTo(r)
    <2>1. r \in Requests /\ wire[w] \in Messages /\ r \in Asked
      BY <1>1 DEF Serve, Types, ProcessesTyped, Messages, Asked
    <2>2. ServerTyped'
      BY <1>1, <2>1, ProcessTyped DEF Serve
    <2>3. a \in Answers
      BY <2>1, KeysSuffice, AnswerTyped
    <2> HIDE DEF a
    <2>4. [wire[w] EXCEPT !.answer = a] \in Messages
      BY <2>1, <2>3 DEF Messages
    <2>5. wire' = [wire EXCEPT ![w].answer = a]
      BY <1>1 DEF Serve, a
    <2>6. wire' \in [Callers -> {None} \cup Messages]
      BY <2>4, <2>5 DEF Types, ProcessesTyped
    <2> QED
      BY <1>1, <2>2, <2>6
      DEF Serve, Types, DeviceTyped, ProcessesTyped, deviceVars, countVars, historyVars
  <1>2. ASSUME NEW r \in late, ServeLate(r) PROVE Types'
    <2>1. ServerTyped'
      BY <1>2, ProcessTyped DEF ServeLate, Types, ProcessesTyped
    <2> QED
      BY <1>2, <2>1
      DEF ServeLate, Types, DeviceTyped, ProcessesTyped, deviceVars, countVars, historyVars
  <1>3. ASSUME NEW t \in Tasks, NEW f \in Fields, OthersUpdate(t, f) PROVE Types'
    <2> DEFINE v == server[t].version + 1
               n == [server[t] EXCEPT !.version = v, !.touched[f] = v]
    <2>1. v \in Nat /\ server[t] \in ServerTasks
      BY DEF Types, ServerTyped, ServerTasks
    <2>2. n \in ServerTasks
      <3> HIDE DEF v
      <3> QED
        BY <2>1 DEF ServerTasks, Inputs
    <2>3. server' = [server EXCEPT ![t] = n]
      BY <1>3 DEF OthersUpdate
    <2> HIDE DEF n
    <2>4. ServerTyped'
      BY <1>3, <2>2, <2>3 DEF OthersUpdate, Types, ServerTyped
    <2> QED
      BY <1>3, <2>4
      DEF OthersUpdate, Types, DeviceTyped, ProcessesTyped, deviceVars, countVars, historyVars, networkVars
  <1> QED
    BY <1>1, <1>2, <1>3

LEMMA FailureTyped ==
  ASSUME Types, NEW who \in Callers, NetworkFailure(who)
  PROVE  wire' \in [Callers -> {None} \cup Messages] /\ late' \subseteq Requests
  <1>1. wire[who].request \in Requests
    BY DEF NetworkFailure, Types, ProcessesTyped, Messages
  <1> QED
    BY <1>1 DEF NetworkFailure, Types, ProcessesTyped

LEMMA SendTyped ==
  ASSUME Types, NEW who \in Callers, NEW o \in Requests, NEW n \in Nat, Send(who, o, n)
  PROVE  wire' \in [Callers -> {None} \cup Messages]
  <1> DEFINE x == [o EXCEPT !.expected = n]
  <1>1. x \in Requests /\ NoAnswer \in Answers
    BY SentTyped DEF NoAnswer, Answers
  <1>2. wire' = [wire EXCEPT ![who] = [request |-> x, answer |-> NoAnswer]]
    BY DEF Send
  <1> HIDE DEF x
  <1>3. [request |-> x, answer |-> NoAnswer] \in Messages
    BY <1>1 DEF Messages
  <1> QED
    BY <1>2, <1>3 DEF Types, ProcessesTyped

\* What a call begins with.
LEMMA BeginEffect ==
  ASSUME Types, NEW o \in Requests, NEW direct \in BOOLEAN, Begin(o, direct)
  PROVE  LET sent == [o EXCEPT !.key = keys + 1]
         IN  /\ sent \in Requests /\ call = None /\ call' \in Calls
             /\ keys' = IF direct \/ o.kind = "create" THEN keys + 1 ELSE keys
             /\ call'.kind = o.kind /\ call'.task = o.task /\ call'.operation = sent
             /\ call'.read = queue[o.task] /\ (call'.quiet => sync = None)
             /\ call'.phase = IF direct THEN "sending" ELSE "queueing"
             /\ direct => wire' = [wire EXCEPT !["call"] = [request |-> sent, answer |-> NoAnswer]]
             /\ ~direct => wire' = wire
             /\ late' = late /\ sync' = sync /\ serverVars' = serverVars /\ historyVars' = historyVars
             /\ deviceVars' = deviceVars /\ online' = online
  <1> DEFINE sent == [o EXCEPT !.key = keys + 1]
             ph == IF direct THEN "sending" ELSE "queueing"
             qu == ~Syncing
  <1>0. keys + 1 \in Nat
    BY DEF Types, DeviceTyped
  <1>1. sent \in Requests /\ sent.expected = o.expected /\ o.kind \in Kinds /\ o.task \in Tasks
    BY <1>0, SentTyped DEF Requests
  <1>2. [sent EXCEPT !.expected = o.expected] = sent
    BY DEF Requests
  <1>3. ph \in {"sending", "queueing"} /\ qu \in BOOLEAN /\ queue[o.task] \in [Kinds -> {None} \cup Requests]
    BY <1>1 DEF Types, DeviceTyped, Syncing
  <1>4. call' = [kind |-> o.kind, task |-> o.task, operation |-> sent, read |-> queue[o.task],
                 phase |-> ph, quiet |-> qu]
    BY DEF Begin
  <1>5. direct => wire' = [wire EXCEPT !["call"] = [request |-> sent, answer |-> NoAnswer]]
    BY <1>2 DEF Begin, Send
  <1>6. qu => sync = None
    BY DEF Syncing
  <1> HIDE DEF sent, ph, qu
  <1>7. call' \in Calls
    BY <1>1, <1>3, <1>4 DEF Calls
  <1>8. /\ call'.kind = o.kind /\ call'.task = o.task /\ call'.operation = sent
        /\ call'.read = queue[o.task] /\ (call'.quiet => sync = None) /\ call'.phase = ph
    BY <1>3, <1>4, <1>6
  <1> QED
    BY <1>1, <1>5, <1>7, <1>8 DEF Begin, sent, ph

\* The operation an edit, a deletion or a creation begins with.
LEMMA OperationTyped ==
  ASSUME NEW t \in Tasks, NEW k \in Kinds, NEW input \in Inputs, NEW v \in Nat
  PROVE  /\ Operation(t, k, 0, input, v) \in Requests
         /\ Operation(t, k, 0, input, v).kind = k /\ Operation(t, k, 0, input, v).task = t
         /\ Operation(t, k, 0, input, v).input = input /\ Operation(t, k, 0, input, v).expected = v
  BY DEF Operation, Requests

LEMMA InputTyped ==
  /\ NoInput \in Inputs
  /\ \A f \in Fields, e \in Nat :
       Input(f, e) \in Inputs /\ \A g \in Fields : Input(f, e)[g] = IF g = f THEN e ELSE 0
  BY DEF NoInput, Input, Inputs

LEMMA BeginsTyped ==
  ASSUME Types, NEW t \in Tasks,
         BeginCreate(t) \/ BeginDelete(t) \/ \E f \in Fields : BeginUpdate(t, f)
  PROVE  Types'
  <1>1. ASSUME NEW o \in Requests, NEW direct \in BOOLEAN, Begin(o, direct)
        PROVE  ServerTyped' /\ ProcessesTyped' /\ keys' \in Nat
               /\ UNCHANGED <<queue, cache, signedIn, fate, quiet>>
    <2> DEFINE sent == [o EXCEPT !.key = keys + 1]
    <2>1. /\ sent \in Requests /\ call' \in Calls
          /\ keys' = IF direct \/ o.kind = "create" THEN keys + 1 ELSE keys
          /\ direct => wire' = [wire EXCEPT !["call"] = [request |-> sent, answer |-> NoAnswer]]
          /\ ~direct => wire' = wire
          /\ late' = late /\ sync' = sync /\ serverVars' = serverVars /\ historyVars' = historyVars
          /\ deviceVars' = deviceVars /\ online' = online
      BY <1>1, BeginEffect
    <2> HIDE DEF sent
    <2>2. [request |-> sent, answer |-> NoAnswer] \in Messages
      BY <2>1 DEF Messages, NoAnswer, Answers
    <2>3. wire' \in [Callers -> {None} \cup Messages]
      BY <2>1, <2>2 DEF Types, ProcessesTyped
    <2>4. ServerTyped'
      BY <2>1 DEF serverVars, Types, ServerTyped
    <2> QED
      BY <2>1, <2>3, <2>4 DEF Types, ProcessesTyped, DeviceTyped, deviceVars, historyVars
  <1>2. CASE BeginCreate(t)
    <2>1. Operation(t, "create", 0, NoInput, 0) \in Requests
      BY OperationTyped, InputTyped DEF Kinds
    <2>2. online \in BOOLEAN
      BY DEF Types, ProcessesTyped
    <2> QED
      BY <1>1, <1>2, <2>1, <2>2 DEF BeginCreate, Types, DeviceTyped
  <1>3. CASE BeginDelete(t)
    <2>0. cache[t].version \in Nat /\ "delete" \in Kinds /\ NoInput \in Inputs
      BY InputTyped DEF Kinds, Types, DeviceTyped
    <2>1. Operation(t, "delete", 0, NoInput, cache[t].version) \in Requests
      BY <2>0, OperationTyped
    <2>2. edits' \in 0..MaxEdits
      BY <1>3, QueueAssumption DEF BeginDelete, Types, DeviceTyped
    <2> QED
      BY <1>1, <1>3, <2>1, <2>2 DEF BeginDelete, Types, DeviceTyped
  <1>4. ASSUME NEW f \in Fields, BeginUpdate(t, f) PROVE Types'
    <2>0. cache[t].version \in Nat /\ edits + 1 \in Nat /\ "update" \in Kinds
      BY QueueAssumption DEF Kinds, Types, DeviceTyped
    <2>1. Operation(t, "update", 0, Input(f, edits + 1), cache[t].version) \in Requests
      <3>1. Input(f, edits + 1) \in Inputs
        BY <2>0, InputTyped
      <3> QED
        BY <2>0, <3>1, OperationTyped
    <2>2. edits' \in 0..MaxEdits
      BY <1>4, QueueAssumption DEF BeginUpdate, Types, DeviceTyped
    <2>3. (online /\ ~TaskHasOutbox(t)) \in BOOLEAN
      OBVIOUS
    <2> QED
      BY <1>1, <1>4, <2>1, <2>2, <2>3 DEF BeginUpdate, Types, DeviceTyped
  <1> QED
    BY <1>2, <1>3, <1>4

\* What a queued update becomes when another is taken in.
LEMMA CoalescedEffect ==
  ASSUME NEW q \in Requests, NEW o \in Requests
  PROVE  LET c == Coalesced(q, o)
         IN  /\ c \in Requests /\ c.kind = q.kind /\ c.task = q.task /\ c.key = q.key
             /\ c.expected = q.expected /\ c.status = "pending"
             /\ c.input = Overlay(q.input, o.input)
             /\ \A f \in Fields : c.input[f] = IF o.input[f] # 0 THEN o.input[f] ELSE q.input[f]
  <1> DEFINE x == Overlay(q.input, o.input)
  <1>1. x \in Inputs /\ \A f \in Fields : x[f] = IF o.input[f] # 0 THEN o.input[f] ELSE q.input[f]
    BY DEF Overlay, Inputs, Requests
  <1>2. Coalesced(q, o) = [q EXCEPT !.input = x, !.status = "pending"]
    BY DEF Coalesced
  <1> HIDE DEF x
  <1>3. "pending" \in {"pending", "failed", "conflict"}
    OBVIOUS
  <1>4. /\ Coalesced(q, o) \in Requests /\ Coalesced(q, o).kind = q.kind /\ Coalesced(q, o).task = q.task
        /\ Coalesced(q, o).key = q.key /\ Coalesced(q, o).expected = q.expected
        /\ Coalesced(q, o).status = "pending" /\ Coalesced(q, o).input = x
    BY <1>1, <1>2, <1>3 DEF Requests
  <1> QED
    BY <1>1, <1>4 DEF x

\* What is queued is a coalesced update, or the operation of the call with a new key.
LEMMA QueueUpdateEffect ==
  ASSUME Types, QueueUpdate
  PROVE  LET queued == call.read["update"]
             o == call.operation
         IN  /\ call \in Calls /\ call' = None
             /\ \E x \in Requests :
                  /\ queue' = Put(queue, x)
                  /\ queued # None => x = Coalesced(queued, o) /\ keys' = keys
                  /\ queued = None => x = [o EXCEPT !.key = keys + 1] /\ keys' = keys + 1
  <1>1. call \in Calls
    BY DEF QueueUpdate, Queueing, Types, ProcessesTyped
  <1>2. call.operation \in Requests /\ call.read \in [Kinds -> {None} \cup Requests] /\ "update" \in Kinds
    BY <1>1 DEF Calls, Kinds
  <1>3. CASE call.read["update"] # None
    <2>1. Coalesced(call.read["update"], call.operation) \in Requests
      BY <1>2, <1>3, CoalescedEffect
    <2> QED
      BY <1>1, <1>3, <2>1 DEF QueueUpdate
  <1>4. CASE call.read["update"] = None
    <2>1. keys + 1 \in Nat
      BY DEF Types, DeviceTyped
    <2>2. [call.operation EXCEPT !.key = keys + 1] \in Requests
      BY <1>2, <2>1, SentTyped
    <2> QED
      BY <1>1, <1>4, <2>2 DEF QueueUpdate
  <1> QED
    BY <1>3, <1>4

\* What a deletion leaves of the queue.
LEMMA QueueDeleteEffect ==
  ASSUME Types, QueueDelete
  PROVE  /\ call \in Calls /\ call' = None
         /\ \E q \in [Tasks -> [Kinds -> {None} \cup Requests]] :
              /\ \A t \in Tasks, k \in Kinds : q[t][k] = queue[t][k] \/ q[t][k] = None
              /\ \A t \in Tasks, k \in Kinds : q[t][k] # queue[t][k] => t = call.task /\ k # "delete"
              /\ q[call.task]["update"] # queue[call.task]["update"] =>
                   \A e \in EditsOf(queue[call.task]["update"].input) \cap Edits : fate'[e] = "dropped"
              /\ q[call.task]["create"] # queue[call.task]["create"] => queue' = q
              /\ \/ queue' = q /\ keys' = keys /\ call.read["create"] # None
                 \/ queue' = Put(q, [call.operation EXCEPT !.key = keys + 1]) /\ keys' = keys + 1
         /\ \A e \in Edits : fate'[e] = fate[e] \/ fate'[e] = "dropped"
  <1> DEFINE t == call.task
             update    == call.read["update"] # None
             unqueued  == IF update THEN Delete(queue, t, "update") ELSE queue
             forgotten == Delete(unqueued, t, "create")
  <1>1. call \in Calls /\ t \in Tasks
    BY DEF QueueDelete, Queueing, Types, ProcessesTyped, Calls
  <1>2. "update" \in Kinds /\ "create" \in Kinds /\ queue \in [Tasks -> [Kinds -> {None} \cup Requests]]
    BY DEF Kinds, Types, DeviceTyped
  <1>3. /\ unqueued \in [Tasks -> [Kinds -> {None} \cup Requests]]
        /\ \A b \in Tasks, k \in Kinds : unqueued[b][k] = queue[b][k] \/ unqueued[b][k] = None
        /\ \A b \in Tasks, k \in Kinds : unqueued[b][k] # queue[b][k] => b = t /\ k = "update" /\ update
    <2>1. CASE update
      <3>1. unqueued = Delete(queue, t, "update")
        BY <2>1
      <3> HIDE DEF t, unqueued, update
      <3>2. /\ Delete(queue, t, "update") \in [Tasks -> [Kinds -> {None} \cup Requests]]
            /\ Delete(queue, t, "update")[t]["update"] = None
            /\ \A b \in Tasks, k \in Kinds : b # t \/ k # "update" =>
                 Delete(queue, t, "update")[b][k] = queue[b][k]
        BY <1>1, <1>2, DeleteEffect
      <3> QED
        BY <1>1, <1>2, <2>1, <3>1, <3>2
    <2>2. CASE ~update
      BY <1>2, <2>2
    <2> QED
      BY <2>1, <2>2
  <1> HIDE DEF unqueued
  <1>4. /\ forgotten \in [Tasks -> [Kinds -> {None} \cup Requests]]
        /\ forgotten[t]["create"] = None
        /\ \A b \in Tasks, k \in Kinds : b # t \/ k # "create" => forgotten[b][k] = unqueued[b][k]
    <2> HIDE DEF t, update
    <2> QED
      BY <1>1, <1>2, <1>3, DeleteEffect
  <1>5. fate' = IF update /\ queue[t]["update"] # None
                  THEN Tell(EditsOf(queue[t]["update"].input), "dropped") ELSE fate
    BY DEF QueueDelete
  <1>6. unqueued[t]["update"] # queue[t]["update"] =>
          /\ update /\ queue[t]["update"] # None
          /\ \A e \in EditsOf(queue[t]["update"].input) \cap Edits : fate'[e] = "dropped"
    BY <1>1, <1>2, <1>3, <1>5 DEF Tell
  <1>7. \A e \in Edits : fate'[e] = fate[e] \/ fate'[e] = "dropped"
    BY <1>5 DEF Tell
  <1>8. /\ queue' = IF call.read["create"] # None THEN forgotten
                    ELSE Put(unqueued, [call.operation EXCEPT !.key = keys + 1])
        /\ keys' = IF call.read["create"] # None THEN keys ELSE keys + 1
        /\ call' = None
    BY DEF QueueDelete, unqueued
  <1> HIDE DEF forgotten, t, update
  <1>9. CASE call.read["create"] # None
    <2>1. \A b \in Tasks, k \in Kinds : forgotten[b][k] = queue[b][k] \/ forgotten[b][k] = None
      BY <1>3, <1>4
    <2>2. \A b \in Tasks, k \in Kinds : forgotten[b][k] # queue[b][k] => b = t /\ k # "delete"
      BY <1>3, <1>4
    <2>3. forgotten[t]["update"] = unqueued[t]["update"]
      BY <1>1, <1>2, <1>4
    <2> QED
      BY <1>1, <1>4, <1>6, <1>7, <1>8, <1>9, <2>1, <2>2, <2>3 DEF t
  <1>10. CASE call.read["create"] = None
    <2>1. unqueued[t]["create"] = queue[t]["create"]
      BY <1>1, <1>2, <1>3
    <2>2. \A b \in Tasks, k \in Kinds : unqueued[b][k] # queue[b][k] => b = t /\ k # "delete"
      BY <1>3
    <2> QED
      BY <1>1, <1>3, <1>6, <1>7, <1>8, <1>10, <2>1, <2>2 DEF t
  <1> QED
    BY <1>9, <1>10

\* What is settled has left the batch, and a version is remembered of what was applied.
LEMMA SyncAppliedEffect ==
  ASSUME Types, SyncApplied, sync.batch # {}
  PROVE  LET o == First(sync.batch)
             version == wire["sync"].answer.version
         IN  /\ sync \in Runs /\ o \in sync.batch /\ o \in Requests /\ version \in Nat
             /\ wire["sync"] \in Messages /\ wire["sync"].answer.status = "ok"
             /\ queue' = Delete(queue, o.task, o.kind)
             /\ cache' = [cache EXCEPT ![o.task] = IF o.kind = "delete" THEN NotCached ELSE Cached(version)]
             /\ sync' \in Runs /\ sync'.batch = sync.batch \ {o}
             /\ \A t \in Tasks :
                  sync'.versions[t] = IF t = o.task /\ o.kind # "delete" THEN version ELSE sync.versions[t]
  <1> DEFINE o == First(sync.batch)
             version == wire["sync"].answer.version
  <1>1. sync \in Runs
    BY DEF SyncApplied, Syncing, Types, ProcessesTyped
  <1>2. sync.batch \subseteq Requests /\ sync.versions \in [Tasks -> Nat] /\ sync.kind = "sync"
    BY <1>1 DEF Runs
  <1>3. o \in sync.batch /\ o \in Requests
    BY <1>2, FirstIsLeast
  <1>4. wire["sync"] \in Messages /\ wire["sync"].answer.status = "ok"
    BY DEF SyncApplied, Ok, Types, ProcessesTyped, Callers
  <1>5. version \in Nat
    BY <1>4 DEF Messages, Answers
  <1>6. /\ queue' = Delete(queue, o.task, o.kind)
        /\ cache' = [cache EXCEPT ![o.task] = IF o.kind = "delete" THEN NotCached ELSE Cached(version)]
        /\ sync' = [sync EXCEPT !.batch = @ \ {o},
                      !.versions[o.task] = IF o.kind = "delete" THEN @ ELSE version]
    BY DEF SyncApplied
  <1>7. o.task \in Tasks
    BY <1>3 DEF Requests
  <1> HIDE DEF o, version
  <1> DEFINE n == IF o.kind = "delete" THEN sync.versions[o.task] ELSE version
             vs == [sync.versions EXCEPT ![o.task] = n]
             b == sync.batch \ {o}
  <1>8. n \in Nat
    BY <1>2, <1>5, <1>7
  <1>9. sync' = [sync EXCEPT !.batch = b, !.versions = vs]
    BY <1>1, <1>6 DEF Runs
  <1>10. vs \in [Tasks -> Nat] /\ \A t \in Tasks : vs[t] = IF t = o.task THEN n ELSE sync.versions[t]
    BY <1>2, <1>8
  <1>11. b \subseteq Requests
    BY <1>2
  <1> HIDE DEF vs, b
  <1>12. sync' \in Runs /\ sync'.batch = b /\ sync'.versions = vs
    BY <1>1, <1>9, <1>10, <1>11 DEF Runs
  <1>13. \A t \in Tasks :
           sync'.versions[t] = IF t = o.task /\ o.kind # "delete" THEN version ELSE sync.versions[t]
    BY <1>10, <1>12
  <1> QED
    BY <1>1, <1>3, <1>4, <1>5, <1>6, <1>12, <1>13 DEF b, o, version

LEMMA SyncRefusedEffect ==
  ASSUME Types, SyncRefused, sync.batch # {}
  PROVE  LET o == First(sync.batch)
             x == Settled(o, wire["sync"].answer.status)
         IN  /\ sync \in Runs /\ o \in sync.batch /\ o \in Requests
             /\ x \in Requests /\ x.kind = o.kind /\ x.task = o.task /\ x.key = o.key
             /\ x.input = o.input /\ x.expected = o.expected /\ x.status # "pending"
             /\ queue' = Put(queue, x)
             /\ sync' \in Runs /\ sync'.batch = sync.batch \ {o} /\ sync'.versions = sync.versions
  <1> DEFINE o == First(sync.batch)
             a == wire["sync"].answer.status
  <1>1. sync \in Runs
    BY DEF SyncRefused, Syncing, Types, ProcessesTyped
  <1>2. sync.batch \subseteq Requests /\ sync.versions \in [Tasks -> Nat] /\ sync.kind = "sync"
    BY <1>1 DEF Runs
  <1>3. o \in sync.batch /\ o \in Requests
    BY <1>2, FirstIsLeast
  <1>4. a \in {"conflict", "failed"}
    BY DEF SyncRefused, Refused
  <1>5. queue' = Put(queue, Settled(o, a)) /\ sync' = [sync EXCEPT !.batch = @ \ {o}]
    BY DEF SyncRefused
  <1> HIDE DEF o, a
  <1>6. sync' \in Runs /\ sync'.batch = sync.batch \ {o} /\ sync'.versions = sync.versions
    BY <1>1, <1>2, <1>5 DEF Runs
  <1>7. Settled(o, a) = [o EXCEPT !.status = a]
    BY DEF Settled
  <1>8. /\ Settled(o, a) \in Requests /\ Settled(o, a).kind = o.kind /\ Settled(o, a).task = o.task
        /\ Settled(o, a).key = o.key /\ Settled(o, a).input = o.input
        /\ Settled(o, a).expected = o.expected /\ Settled(o, a).status # "pending"
    BY <1>3, <1>4, <1>7 DEF Requests
  <1> QED
    BY <1>1, <1>3, <1>5, <1>6, <1>8 DEF o, a

LEMMA PerformTyped ==
  ASSUME Types
  PROVE  /\ PerformSync \in Runs /\ PerformSync.batch = Pending
         /\ \A t \in Tasks : PerformSync.versions[t] = 0
  <1>1. Pending \subseteq Requests
    BY HeldTyped DEF Pending, Having
  <1> HIDE DEF Pending
  <1> QED
    BY <1>1 DEF PerformSync, Runs

\* A call whose synchronisation has begun stays what it is.
LEMMA StartsEffect ==
  ASSUME Types, Starts
  PROVE  /\ sync = None /\ sync' = PerformSync /\ sync' \in Runs
         /\ call = None => call' = None
         /\ call # None => /\ call' = [call EXCEPT !.quiet = FALSE] /\ call' \in Calls
                           /\ call' # None
  <1>1. call # None => [call EXCEPT !.quiet = FALSE] \in Calls
    BY DEF Types, ProcessesTyped, Calls
  <1> QED
    BY <1>1, PerformTyped, NoneIsNoRequest DEF Starts, Syncing

\* The edits of a request have been made.
LEMMA EditsAreMade ==
  ASSUME Types, NEW r \in Requests, Good(r)
  PROVE  EditsOf(r.input) \subseteq Edits /\ \A e \in EditsOf(r.input) : e <= edits
  BY QueueAssumption DEF Good, EditsOf, Edits, Types, DeviceTyped, Requests, Inputs

LEMMA CallStepTyped ==
  ASSUME Types, \A r \in Called : Good(r), CallStep
  PROVE  Types'
  <1>0. call # None => EditsOf(call.operation.input) \subseteq Edits
    <2>1. call # None => call.operation \in Requests /\ Good(call.operation)
      BY DEF Called, Types, ProcessesTyped, Calls
    <2> QED
      BY <2>1, EditsAreMade
  <1>1. CASE CallSucceeds
    <2>1. wire["call"] \in Messages /\ call \in Calls
      BY <1>1 DEF CallSucceeds, Ok, Types, ProcessesTyped, Callers
    <2> DEFINE v == wire["call"].answer.version
               c == IF call.kind = "delete" THEN NotCached ELSE Cached(v)
    <2>2. v \in Nat
      BY <2>1 DEF Messages, Answers
    <2>3. c \in [version : Nat, cached : BOOLEAN]
      <3> HIDE DEF v
      <3> QED
        BY <2>2 DEF NotCached, Cached
    <2>4. cache' = [cache EXCEPT ![call.task] = c]
      BY <1>1 DEF CallSucceeds
    <2> HIDE DEF c
    <2>5. cache' \in [Tasks -> [version : Nat, cached : BOOLEAN]]
      BY <2>3, <2>4 DEF Types, DeviceTyped
    <2>6. EditsOf(call.operation.input) \subseteq Edits
      BY <1>0, <2>1, NoneIsNoRequest
    <2>7. quiet' \subseteq Edits
      BY <1>1, <2>6 DEF CallSucceeds, Types, DeviceTyped
    <2> QED
      BY <1>1, <2>5, <2>7 DEF CallSucceeds, Types, ServerTyped, DeviceTyped, ProcessesTyped, serverVars,
         countVars, Answered, Tell
  <1>2. CASE CallRefused
    BY <1>2 DEF CallRefused, Types, ServerTyped, DeviceTyped, ProcessesTyped, serverVars, deviceVars,
       countVars, Answered, Tell
  <1>3. CASE CallFailsOver
    <2>1. call # None /\ call' = [call EXCEPT !.phase = "queueing"] /\ "queueing" \in {"sending", "queueing"}
      BY <1>3 DEF CallFailsOver
    <2>2. call' \in Calls
      BY <2>1 DEF Types, ProcessesTyped, Calls
    <2>3. wire' \in [Callers -> {None} \cup Messages] /\ late' \subseteq Requests
      BY <1>3, FailureTyped DEF CallFailsOver, Callers
    <2> QED
      BY <1>3, <2>2, <2>3 DEF CallFailsOver, Types, ServerTyped, DeviceTyped, ProcessesTyped, serverVars,
         deviceVars, countVars, historyVars, NetworkFailure
  <1>4. CASE QueueCreate
    <2>1. call.operation \in Requests
      BY <1>4 DEF QueueCreate, Queueing, Types, ProcessesTyped, Calls
    <2>2. queue' \in [Tasks -> [Kinds -> {None} \cup Requests]]
      BY <1>4, <2>1, PutEffect DEF QueueCreate, Types, DeviceTyped
    <2>3. cache' \in [Tasks -> [version : Nat, cached : BOOLEAN]]
      BY <1>4 DEF QueueCreate, Remember, Cached, Types, DeviceTyped
    <2> QED
      BY <1>4, <2>2, <2>3 DEF QueueCreate, Types, ServerTyped, DeviceTyped, ProcessesTyped, serverVars,
         countVars, networkVars, historyVars
  <1>5. CASE QueueUpdate
    <2>1. PICK x \in Requests : queue' = Put(queue, x) /\ keys' \in {keys, keys + 1} /\ call' = None
      BY <1>5, QueueUpdateEffect
    <2>2. queue' \in [Tasks -> [Kinds -> {None} \cup Requests]]
      BY <2>1, PutEffect DEF Types, DeviceTyped
    <2>3. keys' \in Nat
      BY <2>1 DEF Types, DeviceTyped
    <2>4. DOMAIN fate' = Edits
      BY <1>5 DEF QueueUpdate
    <2>5. quiet' \subseteq Edits
      BY <1>0, <1>5 DEF QueueUpdate, Queueing, Types, DeviceTyped
    <2> QED
      BY <1>5, <2>1, <2>2, <2>3, <2>4, <2>5 DEF QueueUpdate, Types, ServerTyped, DeviceTyped, ProcessesTyped,
         serverVars, networkVars
  <1>6. CASE CacheMiss
    BY <1>6 DEF CacheMiss, Types, ServerTyped, DeviceTyped, ProcessesTyped, serverVars, deviceVars,
       countVars, networkVars, Tell
  <1>7. CASE QueueDelete
    <2>1. keys + 1 \in Nat /\ call \in Calls
      BY <1>7 DEF QueueDelete, Queueing, Types, DeviceTyped, ProcessesTyped
    <2>2. PICK q \in [Tasks -> [Kinds -> {None} \cup Requests]] :
            \/ queue' = q /\ keys' = keys
            \/ queue' = Put(q, [call.operation EXCEPT !.key = keys + 1]) /\ keys' = keys + 1
      BY <1>7, QueueDeleteEffect
    <2>3. [call.operation EXCEPT !.key = keys + 1] \in Requests
      BY <2>1, SentTyped DEF Calls
    <2>4. queue' \in [Tasks -> [Kinds -> {None} \cup Requests]] /\ keys' \in Nat
      <3> DEFINE x == [call.operation EXCEPT !.key = keys + 1]
      <3>1. Put(q, x) \in [Tasks -> [Kinds -> {None} \cup Requests]]
        BY <2>3, PutEffect
      <3> QED
        BY <2>1, <2>2, <3>1 DEF Types, DeviceTyped
    <2>5. DOMAIN fate' = Edits /\ call' = None
      BY <1>7 DEF QueueDelete, Tell, Types, DeviceTyped
    <2>6. cache' \in [Tasks -> [version : Nat, cached : BOOLEAN]]
      BY <1>7 DEF QueueDelete, NotCached, Types, DeviceTyped
    <2> QED
      BY <1>7, <2>4, <2>5, <2>6 DEF QueueDelete, Types, ServerTyped, DeviceTyped, ProcessesTyped,
         serverVars, networkVars
  <1> QED
    BY <1>1, <1>2, <1>3, <1>4, <1>5, <1>6, <1>7 DEF CallStep

LEMMA SyncStepTyped ==
  ASSUME Types, ProcessesHold, SyncStep
  PROVE  Types'
  <1>0. "sync" \in Callers /\ (wire["sync"] # None => sync # None /\ sync.batch # {})
    BY DEF ProcessesHold, Callers
  <1>1. CASE SendNext
    <2> DEFINE o == First(sync.batch)
               n == ExpectedVersion(o)
    <2>1. sync \in Runs /\ sync.batch # {}
      BY <1>1 DEF SendNext, Syncing, Types, ProcessesTyped
    <2>2. o \in Requests
      BY <2>1, FirstIsLeast DEF Runs
    <2>3. n \in Nat
      BY <2>1, <2>2 DEF ExpectedVersion, Runs, Requests
    <2>4. Send("sync", o, n)
      BY <1>1 DEF SendNext
    <2> HIDE DEF o, n
    <2>5. wire' \in [Callers -> {None} \cup Messages]
      BY <1>0, <2>2, <2>3, <2>4, SendTyped
    <2> QED
      BY <1>1, <2>5 DEF SendNext, Types, ServerTyped, DeviceTyped, ProcessesTyped, serverVars,
         deviceVars, countVars, historyVars
  <1>2. CASE SyncApplied
    <2>1. sync.batch # {}
      BY <1>0, <1>2 DEF SyncApplied, Ok
    <2> DEFINE o == First(sync.batch)
               v == wire["sync"].answer.version
               c == IF o.kind = "delete" THEN NotCached ELSE Cached(v)
    <2>2. /\ o \in Requests /\ v \in Nat /\ sync' \in Runs
          /\ queue' = Delete(queue, o.task, o.kind) /\ cache' = [cache EXCEPT ![o.task] = c]
      BY <1>2, <2>1, SyncAppliedEffect
    <2> HIDE DEF o, v
    <2>3. c \in [version : Nat, cached : BOOLEAN] /\ o.task \in Tasks /\ o.kind \in Kinds
      BY <2>2 DEF NotCached, Cached, Requests
    <2> HIDE DEF c
    <2>4. cache' \in [Tasks -> [version : Nat, cached : BOOLEAN]]
      BY <2>2, <2>3 DEF Types, DeviceTyped
    <2>5. queue' \in [Tasks -> [Kinds -> {None} \cup Requests]]
      BY <2>2, <2>3, DeleteEffect DEF Types, DeviceTyped
    <2> QED
      BY <1>2, <2>2, <2>4, <2>5 DEF SyncApplied, Answered, Types, ServerTyped, DeviceTyped,
         ProcessesTyped, serverVars, countVars, historyVars
  <1>3. CASE SyncRefused
    <2>1. sync.batch # {}
      BY <1>0, <1>3 DEF SyncRefused, Refused
    <2>2. /\ sync' \in Runs
          /\ Settled(First(sync.batch), wire["sync"].answer.status) \in Requests
          /\ queue' = Put(queue, Settled(First(sync.batch), wire["sync"].answer.status))
      BY <1>3, <2>1, SyncRefusedEffect
    <2>3. queue' \in [Tasks -> [Kinds -> {None} \cup Requests]]
      BY <2>2, PutEffect DEF Types, DeviceTyped
    <2> QED
      BY <1>3, <2>2, <2>3 DEF SyncRefused, Answered, Types, ServerTyped, DeviceTyped,
         ProcessesTyped, serverVars, countVars, historyVars
  <1>4. CASE SyncBreaks
    <2>1. wire' \in [Callers -> {None} \cup Messages] /\ late' \subseteq Requests
      BY <1>0, <1>4, FailureTyped DEF SyncBreaks
    <2> QED
      BY <1>4, <2>1 DEF SyncBreaks, Stopped, NetworkFailure, Types, ServerTyped, DeviceTyped,
         ProcessesTyped, serverVars, countVars, historyVars
  <1>5. CASE EndSync
    BY <1>5 DEF EndSync, Types, ServerTyped, DeviceTyped, ProcessesTyped, serverVars, countVars,
       historyVars, networkVars
  <1> QED
    BY <1>1, <1>2, <1>3, <1>4, <1>5 DEF SyncStep

LEMMA DeviceStepTyped ==
  ASSUME Types,
         \/ DiscardBlockedChanges \/ LogOut \/ LogIn \/ GoOffline \/ GoOnline \/ Reload \/ Retry
         \/ \E t \in Tasks : ForgetTask(t) \/ \E v \in 1..(MaxEdits + MaxOthers + 2) : RememberTask(t, v)
  PROVE  Types'
  <1>0. NotCached \in [version : Nat, cached : BOOLEAN]
    BY DEF NotCached
  <1>1. CASE DiscardBlockedChanges
    <2>1. queue' \in [Tasks -> [Kinds -> {None} \cup Requests]]
      BY <1>1 DEF DiscardBlockedChanges, Types, DeviceTyped
    <2>2. cache' \in [Tasks -> [version : Nat, cached : BOOLEAN]]
      BY <1>0, <1>1 DEF DiscardBlockedChanges, Types, DeviceTyped
    <2> QED
      BY <1>1, <2>1, <2>2 DEF DiscardBlockedChanges, Tell, Types, ServerTyped, DeviceTyped,
         ProcessesTyped, serverVars, countVars, networkVars
  <1>2. CASE LogOut
    <2>1. cache' \in [Tasks -> [version : Nat, cached : BOOLEAN]]
      BY <1>0, <1>2 DEF LogOut
    <2>2. edits' \in 0..MaxEdits
      BY <1>2, QueueAssumption DEF LogOut, Types, DeviceTyped
    <2> QED
      BY <1>2, <2>1, <2>2 DEF LogOut, EmptyQueue, Tell, Types, ServerTyped, DeviceTyped,
         ProcessesTyped, serverVars, networkVars
  <1>3. CASE LogIn
    BY <1>3 DEF LogIn, Types, ServerTyped, DeviceTyped, ProcessesTyped, serverVars, countVars,
       networkVars, historyVars
  <1>4. CASE GoOffline
    BY <1>4 DEF GoOffline, Types, ServerTyped, DeviceTyped, ProcessesTyped, serverVars, deviceVars,
       countVars, historyVars
  <1>5. CASE GoOnline
    <2>1. (call' = None \/ call' \in Calls) /\ (sync' = None \/ sync' \in Runs)
      BY <1>5, StartsEffect DEF GoOnline, Types, ProcessesTyped
    <2> QED
      BY <1>5, <2>1 DEF GoOnline, Types, ServerTyped, DeviceTyped, ProcessesTyped, serverVars,
         countVars, historyVars
  <1>6. CASE Reload
    <2>1. sync' = None \/ sync' \in Runs
      BY <1>6, PerformTyped DEF Reload
    <2>2. late' \subseteq late \cup Asked
      BY <1>6 DEF Reload, Asked
    <2>3. late' \subseteq Requests
      BY <2>2, HeldTyped DEF Types, ProcessesTyped
    <2>4. wire' \in [Callers -> {None} \cup Messages]
      BY <1>6 DEF Reload
    <2> QED
      BY <1>6, <2>1, <2>3, <2>4 DEF Reload, Types, ServerTyped, DeviceTyped, ProcessesTyped,
         serverVars, countVars, historyVars
  <1>7. CASE Retry
    <2>1. (call' = None \/ call' \in Calls) /\ (sync' = None \/ sync' \in Runs)
      BY <1>7, StartsEffect DEF Retry
    <2> QED
      BY <1>7, <2>1 DEF Retry, Types, ServerTyped, DeviceTyped, ProcessesTyped, serverVars,
         countVars, historyVars, networkVars
  <1>8. ASSUME NEW t \in Tasks, ForgetTask(t) PROVE Types'
    <2>1. cache' \in [Tasks -> [version : Nat, cached : BOOLEAN]]
      BY <1>0, <1>8 DEF ForgetTask, Types, DeviceTyped
    <2> QED
      BY <1>8, <2>1 DEF ForgetTask, Types, ServerTyped, DeviceTyped, ProcessesTyped, serverVars,
         countVars, historyVars, networkVars
  <1>9. ASSUME NEW t \in Tasks, NEW v \in 1..(MaxEdits + MaxOthers + 2), RememberTask(t, v)
        PROVE  Types'
    <2>1. v \in Nat
      BY QueueAssumption
    <2>2. cache' \in [Tasks -> [version : Nat, cached : BOOLEAN]]
      BY <1>9, <2>1 DEF RememberTask, Remember, Cached, Types, DeviceTyped
    <2> QED
      BY <1>9, <2>2 DEF RememberTask, Types, ServerTyped, DeviceTyped, ProcessesTyped, serverVars,
         countVars, historyVars, networkVars
  <1> QED
    BY <1>1, <1>2, <1>3, <1>4, <1>5, <1>6, <1>7, <1>8, <1>9

-----------------------------------------------------------------------------
(* The requests a step leaves *)

Same(r, s) == r.kind = s.kind /\ r.task = s.task /\ r.input = s.input /\ r.key = s.key

CallKept ==
  call' # None =>
    /\ call # None /\ call'.kind = call.kind /\ call'.task = call.task
    /\ call'.operation = call.operation /\ call'.read = call.read
    /\ call'.quiet => call.quiet
    /\ call'.phase = call.phase \/ call'.phase = "queueing"

\* A step that makes no request and gives no key away.
Keeps ==
  /\ CallKept
  /\ \A r \in Kept' : \E s \in Kept : Same(r, s)
  /\ \A r \in Asked' : \E s \in Kept \cup Asked : Same(r, s)
  /\ keys' = keys /\ taken' = taken /\ edits' >= edits

LEMMA OperationsShrink ==
  ASSUME \A t \in Tasks, k \in Kinds : queue'[t][k] = queue[t][k] \/ queue'[t][k] = None
  PROVE  Operations' \subseteq Operations
  BY DEF Operations

LEMMA OperationsPut ==
  ASSUME NEW q \in [Tasks -> [Kinds -> {None} \cup Requests]], NEW x \in Requests,
         queue' = Put(q, x),
         \A t \in Tasks, k \in Kinds : q[t][k] = queue[t][k] \/ q[t][k] = None
  PROVE  Operations' \subseteq Operations \cup {x}
  <1>1. /\ queue'[x.task][x.kind] = x
        /\ \A t \in Tasks, k \in Kinds : t # x.task \/ k # x.kind => queue'[t][k] = q[t][k]
    BY PutEffect
  <1> SUFFICES ASSUME NEW t \in Tasks, NEW k \in Kinds, queue'[t][k] # None, queue'[t][k] # x
               PROVE  queue'[t][k] \in Operations
    BY DEF Operations
  <1>2. queue'[t][k] = queue[t][k]
    BY <1>1
  <1> QED
    BY <1>2 DEF Operations

LEMMA ReadShrinks ==
  ASSUME CallKept
  PROVE  Read' \subseteq Read /\ Called' \subseteq Called
  BY DEF CallKept, Read, ReadOf, Called

LEMMA AskedShrinks ==
  ASSUME Types,
         \/ wire' = wire /\ late' \subseteq late
         \/ \E w \in Callers : Answered(w) \/ NetworkFailure(w)
         \/ Reload
         \/ \E w \in Callers : Serve(w)
  PROVE  Asked' \subseteq Asked
  <1>1. CASE wire' = wire /\ late' \subseteq late
    BY <1>1 DEF Asked
  <1>2. ASSUME NEW w \in Callers, Answered(w) \/ NetworkFailure(w) PROVE Asked' \subseteq Asked
    <2>1. wire' = [wire EXCEPT ![w] = None] /\ late' \subseteq late \cup Asked
      BY <1>2 DEF Answered, NetworkFailure, Asked
    <2> QED
      BY <2>1 DEF Types, ProcessesTyped, Asked
  <1>3. CASE Reload
    <2>1. wire' = [w \in Callers |-> None] /\ late' \subseteq Asked
      BY <1>3 DEF Reload, Asked
    <2> QED
      BY <2>1 DEF Asked
  <1>4. ASSUME NEW w \in Callers, Serve(w) PROVE Asked' \subseteq Asked
    <2>1. /\ late' = late /\ wire[w] # None /\ wire[w] \in Messages
          /\ wire' = [wire EXCEPT ![w].answer = AnswerTo(wire[w].request)]
      BY <1>4 DEF Serve, Types, ProcessesTyped
    <2>2. \A v \in Callers : v # w => wire'[v] = wire[v]
      BY <2>1 DEF Types, ProcessesTyped
    <2>3. wire'[w].request = wire[w].request
      BY <2>1 DEF Types, ProcessesTyped, Messages
    <2> QED
      BY <2>1, <2>2, <2>3 DEF Asked
  <1> QED
    BY <1>1, <1>2, <1>3, <1>4

\* A synchronisation that starts, goes on or ends.
LEMMA BatchShrinks ==
  ASSUME Types,
         \/ sync' = sync \/ sync' = None \/ sync' = PerformSync
         \/ sync # None /\ sync'.batch \subseteq sync.batch
  PROVE  Batch' \subseteq Batch \cup Operations
  <1>1. CASE sync' = PerformSync
    <2>1. Batch' \subseteq PerformSync.batch
      BY <1>1 DEF Batch
    <2>2. Pending \subseteq Operations
      BY DEF Pending, Having
    <2> QED
      BY <2>1, <2>2, PerformTyped
  <1> QED
    BY <1>1 DEF Batch

LEMMA Shrinking ==
  ASSUME Types, CallKept, Operations' \subseteq Operations, Batch' \subseteq Batch \cup Operations,
         Asked' \subseteq Asked, keys' = keys, taken' = taken, edits' >= edits
  PROVE  Keeps /\ Held' \subseteq Held
  <1>1. Read' \subseteq Read /\ Called' \subseteq Called
    BY ReadShrinks
  <1>2. Kept' \subseteq Kept
    BY <1>1 DEF Kept
  <1>3. \A r \in Kept' : r \in Kept /\ Same(r, r)
    BY <1>2 DEF Same
  <1>4. \A r \in Asked' : r \in Asked /\ Same(r, r)
    BY DEF Same
  <1> QED
    BY <1>1, <1>2, <1>3, <1>4 DEF Keeps, Held

-----------------------------------------------------------------------------
(* What the server does *)

\* Nothing the server has goes back.
Grows ==
  /\ \A t \in Tasks :
       server'[t].version >= server[t].version
       /\ \A f \in Fields : server'[t].mine[f] >= server[t].mine[f]
  /\ \A e \in Edits : applied'[e] >= applied[e]

RequestsHold == (\A r \in Held : Good(r)) /\ OneHome

\* An edit that the server applies is newer than what the task has of that field,
\* and was not applied before.
LEMMA AppliedIsNew ==
  ASSUME Types, NEW q \in Requests, Good(q), Mutation(q).status = "ok", NEW f \in Fields, q.input[f] # 0
  PROVE  /\ q.kind = "update" /\ server[q.task].mine[f] < q.input[f]
         /\ q.input[f] \in Edits /\ q.input[f] <= edits /\ applied[q.input[f]] = 0
  <1>1. q.kind = "update"
    BY DEF Good, NoInput
  <1>2. server[q.task].touched[f] <= q.expected
    BY <1>1, MutationEffect DEF Types, Change
  <1>3. /\ server[q.task].mine[f] \in Nat /\ server[q.task].touched[f] \in Nat
        /\ q.expected \in Nat /\ q.input[f] \in Nat
    BY DEF Types, ServerTyped, ServerTasks, Inputs, Requests
  <1>4. server[q.task].mine[f] < q.input[f]
    BY <1>2, <1>3 DEF Good, Stale
  <1>5. q.input[f] \in EditsOf(q.input)
    BY DEF EditsOf
  <1>6. q.input[f] \in Edits /\ q.input[f] <= edits
    BY <1>5, EditsAreMade
  <1>7. ~(applied[q.input[f]] > 0)
    BY <1>3, <1>4 DEF Good
  <1> QED
    BY <1>1, <1>4, <1>6, <1>7 DEF Types, ServerTyped

\* What is applied besides is what the request brings.
LEMMA AppliedByProcess ==
  ASSUME Types, NEW q \in Requests, NEW e \in Edits,
         applied' = [d \in Edits |-> IF d \in EditsOf(q.input) THEN applied[d] + 1 ELSE applied[d]]
  PROVE  /\ applied'[e] = applied[e] \/ applied'[e] = applied[e] + 1
         /\ applied'[e] # applied[e] => \E f \in Fields : q.input[f] = e /\ q.input[f] # 0
         /\ applied[e] \in Nat /\ applied'[e] \in Nat
  BY DEF Types, ServerTyped, EditsOf

LEMMA MutationGrows ==
  ASSUME Types, ServerHolds, AppliedHolds, NEW q \in Requests, Good(q), Mutation(q).status = "ok",
         server' = [server EXCEPT ![q.task] = Mutation(q).task],
         applied' = [d \in Edits |-> IF d \in EditsOf(q.input) THEN applied[d] + 1 ELSE applied[d]],
         edits' = edits, taken' = taken
  PROVE  Grows /\ ServerHolds' /\ AppliedHolds'
  <1> DEFINE s == server[q.task]
             n == Mutation(q).task
  <1>1. Change(s, n, q) /\ q.task \in Tasks /\ q.kind \in {"create", "update", "delete"}
    BY MutationEffect DEF Types, Requests, Kinds
  <1>2. s \in ServerTasks /\ n \in ServerTasks /\ server'[q.task] = n
        /\ \A t \in Tasks : t # q.task => server'[t] = server[t]
    BY <1>1 DEF Types, ServerTyped, Change
  <1>3. \A f \in Fields : q.input[f] # 0 => s.mine[f] < q.input[f] /\ q.input[f] <= edits
    BY AppliedIsNew
  <1>4. q.task \in taken /\ q.input \in Inputs /\ edits \in Nat
    BY DEF Good, Requests, Types, DeviceTyped
  <1>5. /\ s.life = "live" => s.version >= 1
        /\ \A f \in Fields : s.touched[f] <= s.version /\ s.mine[f] <= edits
    BY <1>1 DEF ServerHolds
  <1> HIDE DEF s, n
  <1>6. n.version >= s.version /\ n.version >= 1
    BY <1>1, <1>2, <1>5 DEF Change, ServerTasks
  <1>7. ASSUME NEW f \in Fields
        PROVE  n.mine[f] >= s.mine[f] /\ n.touched[f] <= n.version /\ n.mine[f] <= edits
    <2>0. s.mine[f] \in Nat /\ s.touched[f] \in Nat /\ q.input[f] \in Nat /\ s.version \in Nat
      BY <1>2, <1>4 DEF ServerTasks, Inputs
    <2>1. CASE q.kind = "update"
      <3>1. /\ n.version = s.version + 1
            /\ n.touched[f] = IF q.input[f] # 0 THEN s.version + 1 ELSE s.touched[f]
            /\ n.mine[f] = IF q.input[f] # 0 THEN q.input[f] ELSE s.mine[f]
        BY <1>1, <2>1 DEF Change
      <3> QED
        BY <1>3, <1>5, <2>0, <3>1
    <2>2. CASE q.kind # "update"
      <3>1. n.touched = s.touched /\ n.mine = s.mine
        BY <1>1, <2>2 DEF Change
      <3> QED
        BY <1>2, <1>5, <1>6, <2>0, <3>1 DEF ServerTasks
    <2> QED
      BY <2>1, <2>2
  <1>8. \A t \in Tasks : server'[t].version >= server[t].version
                         /\ \A f \in Fields : server'[t].mine[f] >= server[t].mine[f]
    BY <1>2, <1>6, <1>7 DEF Types, ServerTyped, ServerTasks, Inputs, s
  <1>9. ServerHolds'
    <2> SUFFICES ASSUME NEW t \in Tasks
                 PROVE  /\ server'[t].life = "live" => server'[t].version >= 1
                        /\ server'[t].version >= 1 => t \in taken
                        /\ \A f \in Fields : server'[t].touched[f] <= server'[t].version
                                             /\ server'[t].mine[f] <= edits
      BY DEF ServerHolds
    <2>1. CASE t = q.task
      BY <1>2, <1>4, <1>6, <1>7, <2>1
    <2>2. CASE t # q.task
      BY <1>2, <2>2 DEF ServerHolds
    <2> QED
      BY <2>1, <2>2
  <1>10. \A e \in Edits : applied'[e] >= applied[e]
    BY AppliedByProcess
  <1>11. AppliedHolds'
    <2> SUFFICES ASSUME NEW e \in Edits, applied'[e] > 0 PROVE e <= edits /\ applied'[e] = 1
      BY DEF AppliedHolds
    <2>1. CASE applied'[e] = applied[e]
      BY <2>1 DEF AppliedHolds
    <2>2. CASE applied'[e] # applied[e]
      <3>1. PICK f \in Fields : q.input[f] = e /\ q.input[f] # 0
        BY <2>2, AppliedByProcess
      <3>2. applied[e] = 0 /\ e <= edits
        BY <3>1, AppliedIsNew
      <3> QED
        BY <2>2, <3>2, AppliedByProcess
    <2> QED
      BY <2>1, <2>2
  <1> QED
    BY <1>8, <1>9, <1>10, <1>11 DEF Grows

\* What was good before the server applied another request is good after it.
LEMMA MutationKeepsGood ==
  ASSUME Types, ServerHolds, RequestsHold, NEW q \in Held, Mutation(q).status = "ok",
         server' = [server EXCEPT ![q.task] = Mutation(q).task],
         applied' = [d \in Edits |-> IF d \in EditsOf(q.input) THEN applied[d] + 1 ELSE applied[d]],
         edits' = edits, taken' = taken, Grows, NEW r \in Held
  PROVE  Good(r)'
  <1> DEFINE s == server[q.task]
             n == Mutation(q).task
  <1>0. q \in Requests /\ r \in Requests /\ Good(q) /\ Good(r)
    BY HeldTyped DEF RequestsHold, Held, Kept
  <1>1. Change(s, n, q) /\ q.task \in Tasks /\ q.kind \in Kinds
    BY <1>0, MutationEffect DEF Types, Requests
  <1>2. s \in ServerTasks /\ n \in ServerTasks /\ server'[q.task] = n
        /\ \A t \in Tasks : t # q.task => server'[t] = server[t]
    BY <1>1 DEF Types, ServerTyped, Change
  <1>3. /\ r.task \in Tasks /\ r.input \in Inputs /\ r.expected \in Nat
        /\ q.input \in Inputs /\ q.expected \in Nat /\ edits \in Nat
        /\ server[r.task] \in ServerTasks /\ server'[r.task] \in ServerTasks
    BY <1>0, <1>2 DEF Requests, Types, DeviceTyped, ServerTyped
  <1>4. server'[r.task].version >= server[r.task].version
    BY <1>3 DEF Grows
  <1>5. r.task \in taken' /\ r.expected <= server'[r.task].version
    BY <1>0, <1>3, <1>4 DEF Good, ServerTasks
  <1>6. ASSUME NEW f \in Fields, r.input[f] # 0
        PROVE  r.input[f] <= edits /\ Stale(r, f)'
               /\ (applied'[r.input[f]] > 0 => server'[r.task].mine[f] >= r.input[f])
    <2>0. /\ r.input[f] <= edits /\ Stale(r, f)
          /\ applied[r.input[f]] > 0 => server[r.task].mine[f] >= r.input[f]
          /\ r.expected <= server[r.task].version
      BY <1>0, <1>6 DEF Good
    <2>1. /\ server[r.task].mine[f] \in Nat /\ server[r.task].touched[f] \in Nat /\ r.input[f] \in Nat
          /\ q.input[f] \in Nat /\ server[r.task].version \in Nat
          /\ server'[r.task].mine[f] \in Nat
      BY <1>3 DEF ServerTasks, Inputs
    <2>2. Stale(r, f)'
      <3>1. CASE r.task # q.task
        BY <1>2, <1>3, <2>0, <3>1 DEF Stale
      <3>2. CASE r.task = q.task /\ q.input[f] = 0
        <4>1. n.touched[f] = s.touched[f] /\ n.mine[f] = s.mine[f]
          BY <1>1, <1>2, <3>2 DEF Change, Kinds, ServerTasks, Inputs
        <4> HIDE DEF n
        <4> QED
          BY <1>2, <2>0, <3>2, <4>1 DEF Stale
      <3>3. CASE r.task = q.task /\ q.input[f] # 0
        <4>1. q.kind = "update"
          BY <1>0, <3>3 DEF Good, NoInput
        <4>2. n.touched[f] = s.version + 1 /\ s.life = "live"
          BY <1>1, <3>3, <4>1 DEF Change
        <4>3. s.version >= 1
          BY <1>1, <4>2 DEF ServerHolds
        <4> HIDE DEF n
        <4>4. server'[r.task].touched[f] > r.expected /\ server'[r.task].touched[f] >= 2
          BY <1>2, <1>3, <2>0, <2>1, <3>3, <4>2, <4>3
        <4> QED
          BY <4>4 DEF Stale
      <3> QED
        BY <3>1, <3>2, <3>3
    <2>3. ASSUME applied'[r.input[f]] > 0 PROVE server'[r.task].mine[f] >= r.input[f]
      <3>1. r.input[f] \in Edits
        BY <1>0, <1>6, EditsAreMade DEF EditsOf
      <3>2. CASE applied[r.input[f]] > 0
        <4>1. server'[r.task].mine[f] >= server[r.task].mine[f]
          BY <1>3 DEF Grows
        <4> QED
          BY <2>0, <2>1, <3>2, <4>1
      <3>3. CASE ~(applied[r.input[f]] > 0)
        <4>1. applied'[r.input[f]] # applied[r.input[f]]
          BY <2>3, <3>3
        <4>2. PICK g \in Fields : q.input[g] = r.input[f] /\ q.input[g] # 0
          BY <1>0, <3>1, <4>1, AppliedByProcess
        <4>3. q.task = r.task /\ f = g
          BY <1>6, <4>2 DEF RequestsHold, OneHome
        <4>4. q.kind = "update"
          BY <1>0, <4>2 DEF Good, NoInput
        <4>5. n.mine[f] = q.input[f]
          BY <1>1, <4>2, <4>3, <4>4 DEF Change
        <4> HIDE DEF n
        <4> QED
          BY <1>2, <2>1, <4>2, <4>3, <4>5
      <3> QED
        BY <3>2, <3>3
    <2> QED
      BY <2>0, <2>2, <2>3
  <1>7. r.kind # "update" => r.input = NoInput
    BY <1>0 DEF Good
  <1> QED
    BY <1>5, <1>6, <1>7 DEF Good

\* Where the server does nothing, what was good stays good.
LEMMA GoodStays ==
  ASSUME Types, server' = server, applied' = applied, edits' >= edits, edits' \in Nat,
         taken \subseteq taken', NEW r \in Requests, Good(r)
  PROVE  Good(r)'
  <1>1. r.task \in taken' /\ r.expected <= server'[r.task].version /\ (r.kind # "update" => r.input = NoInput)
    BY DEF Good
  <1>2. ASSUME NEW f \in Fields, r.input[f] # 0
        PROVE  r.input[f] <= edits' /\ Stale(r, f)'
               /\ (applied'[r.input[f]] > 0 => server'[r.task].mine[f] >= r.input[f])
    <2>1. /\ r.input[f] <= edits /\ Stale(r, f)
          /\ applied[r.input[f]] > 0 => server[r.task].mine[f] >= r.input[f]
      BY <1>2 DEF Good
    <2>2. r.input[f] \in Nat /\ edits \in Nat
      BY DEF Requests, Inputs, Types, DeviceTyped
    <2> QED
      BY <2>1, <2>2 DEF Stale
  <1> QED
    BY <1>1, <1>2 DEF Good

LEMMA ServerStays ==
  ASSUME Types, ServerHolds, AppliedHolds, serverVars' = serverVars, edits' >= edits, edits' \in Nat,
         taken \subseteq taken'
  PROVE  Grows /\ ServerHolds' /\ AppliedHolds' /\ server' = server /\ saved' = saved /\ applied' = applied
  <1>1. server' = server /\ applied' = applied /\ saved' = saved /\ edits \in Nat
    BY DEF serverVars, Types, DeviceTyped
  <1>2. Grows
    BY <1>1 DEF Grows, Types, ServerTyped, ServerTasks, Inputs
  <1>3. ServerHolds'
    BY <1>1 DEF ServerHolds, Types, ServerTyped, ServerTasks, Inputs
  <1>4. AppliedHolds'
    BY <1>1, QueueAssumption DEF AppliedHolds, Edits
  <1> QED
    BY <1>1, <1>2, <1>3, <1>4

LEMMA ProcessHolds ==
  ASSUME Types, ServerHolds, AppliedHolds, RequestsHold, NEW q \in Held, Process(q),
         edits' = edits, taken' = taken
  PROVE  Grows /\ ServerHolds' /\ AppliedHolds' /\ \A r \in Held : Good(r)'
  <1>1. q \in Requests /\ Good(q) /\ Held \subseteq Requests
    BY HeldTyped DEF RequestsHold, Held, Kept
  <1>2. CASE UNCHANGED serverVars
    <2>1. edits \in Nat
      BY DEF Types, DeviceTyped
    <2>2. Grows /\ ServerHolds' /\ AppliedHolds' /\ server' = server /\ applied' = applied
      BY <1>2, <2>1, ServerStays
    <2> QED
      BY <1>1, <2>1, <2>2, GoodStays DEF RequestsHold
  <1>3. CASE ~UNCHANGED serverVars
    <2>1. /\ server' = [server EXCEPT ![q.task] = Mutation(q).task]
          /\ applied' = [e \in Edits |-> IF e \in EditsOf(q.input) THEN applied[e] + 1 ELSE applied[e]]
          /\ Mutation(q).status = "ok"
      BY <1>3 DEF Process, Applies
    <2>2. Grows /\ ServerHolds' /\ AppliedHolds'
      BY <1>1, <2>1, MutationGrows
    <2>3. \A r \in Held : Good(r)'
      BY <2>1, <2>2, MutationKeepsGood
    <2> QED
      BY <2>2, <2>3
  <1> QED
    BY <1>2, <1>3

\* An edit of another user comes from a version no request of the user has seen.
LEMMA OthersHold ==
  ASSUME Types, ServerHolds, AppliedHolds, RequestsHold, NEW t \in Tasks, NEW f \in Fields,
         OthersUpdate(t, f)
  PROVE  Grows /\ ServerHolds' /\ AppliedHolds' /\ \A r \in Held : Good(r)'
  <1> DEFINE s == server[t]
             v == s.version + 1
             n == [s EXCEPT !.version = v, !.touched[f] = v]
  <1>1. /\ server' = [server EXCEPT ![t] = n] /\ applied' = applied /\ edits' = edits /\ taken' = taken
        /\ s.life = "live" /\ keys' = keys
    BY DEF OthersUpdate, countVars
  <1>2. s \in ServerTasks /\ v \in Nat /\ v > s.version /\ v >= 2
    BY <1>1 DEF Types, ServerTyped, ServerTasks, ServerHolds
  <1>3. /\ n.version = v /\ n.life = s.life /\ n.mine = s.mine
        /\ \A g \in Fields : n.touched[g] = IF g = f THEN v ELSE s.touched[g]
    <2> HIDE DEF s, v
    <2> QED
      BY <1>2 DEF ServerTasks, Inputs
  <1> HIDE DEF n
  <1>4. server'[t] = n /\ \A u \in Tasks : u # t => server'[u] = server[u]
    BY <1>1 DEF Types, ServerTyped
  <1> HIDE DEF v
  <1>5. ServerHolds'
    <2> SUFFICES ASSUME NEW u \in Tasks
                 PROVE  /\ server'[u].life = "live" => server'[u].version >= 1
                        /\ server'[u].version >= 1 => u \in taken
                        /\ \A g \in Fields : server'[u].touched[g] <= server'[u].version
                                             /\ server'[u].mine[g] <= edits
      BY <1>1 DEF ServerHolds
    <2>1. CASE u = t
      <3>1. s.version >= 1 /\ t \in taken /\ \A g \in Fields : s.touched[g] <= s.version /\ s.mine[g] <= edits
        BY <1>1, <1>2 DEF ServerHolds, ServerTasks
      <3> QED
        BY <1>2, <1>3, <1>4, <2>1, <3>1 DEF ServerTasks, Inputs
    <2>2. CASE u # t
      BY <1>4, <2>2 DEF ServerHolds
    <2> QED
      BY <2>1, <2>2
  <1>6. Grows
    BY <1>1, <1>2, <1>3, <1>4 DEF Grows, Types, ServerTyped, ServerTasks, Inputs
  <1>7. AppliedHolds'
    BY <1>1 DEF AppliedHolds
  <1>8. ASSUME NEW r \in Held PROVE Good(r)'
    <2>1. r \in Requests /\ Good(r)
      BY HeldTyped DEF RequestsHold, Held, Kept
    <2>2. /\ r.task \in Tasks /\ r.expected \in Nat /\ r.input \in Inputs
          /\ r.expected <= server[r.task].version /\ r.task \in taken
          /\ server[r.task].version \in Nat
      BY <2>1 DEF Requests, Good, Types, ServerTyped, ServerTasks
    <2>3. r.expected <= server'[r.task].version
      BY <1>2, <1>3, <1>4, <2>2
    <2>4. server'[r.task].mine = server[r.task].mine
      BY <1>3, <1>4, <2>2
    <2>5. ASSUME NEW g \in Fields, r.input[g] # 0, Stale(r, g) PROVE Stale(r, g)'
      BY <1>2, <1>3, <1>4, <2>2, <2>4, <2>5 DEF Stale
    <2> QED
      BY <1>1, <2>1, <2>2, <2>3, <2>4, <2>5 DEF Good
  <1> QED
    BY <1>5, <1>6, <1>7, <1>8

-----------------------------------------------------------------------------
(* Steps that make no request *)

ServerStep ==
  \/ \E w \in Callers : Serve(w)
  \/ \E r \in late : ServeLate(r)
  \/ \E t \in Tasks, f \in Fields : OthersUpdate(t, f)

DeviceStep ==
  \/ DiscardBlockedChanges \/ LogOut \/ LogIn \/ GoOffline \/ GoOnline \/ Reload \/ Retry
  \/ \E t \in Tasks : ForgetTask(t) \/ \E v \in 1..(MaxEdits + MaxOthers + 2) : RememberTask(t, v)

EndingStep == CallSucceeds \/ CallRefused \/ CallFailsOver \/ CacheMiss

LEMMA ServerStepKeeps ==
  ASSUME Types, ServerStep
  PROVE  /\ Keeps /\ Held' \subseteq Held /\ edits' = edits
         /\ deviceVars' = deviceVars /\ historyVars' = historyVars /\ call' = call /\ sync' = sync
  <1>1. /\ deviceVars' = deviceVars /\ countVars' = countVars /\ historyVars' = historyVars
        /\ call' = call /\ sync' = sync
    BY DEF ServerStep, Serve, ServeLate, OthersUpdate
  <1>2. Asked' \subseteq Asked
    BY AskedShrinks DEF ServerStep, Serve, ServeLate, OthersUpdate, networkVars
  <1>3. Operations' \subseteq Operations /\ Batch' \subseteq Batch \cup Operations /\ CallKept
    BY <1>1 DEF deviceVars, Operations, Batch, CallKept
  <1>4. keys' = keys /\ taken' = taken /\ edits' = edits /\ edits' >= edits
    BY <1>1 DEF countVars, Types, DeviceTyped
  <1> QED
    BY <1>1, <1>2, <1>3, <1>4, Shrinking

LEMMA EndingStepKeeps ==
  ASSUME Types, EndingStep
  PROVE  /\ Keeps /\ Held' \subseteq Held /\ edits' = edits /\ serverVars' = serverVars
         /\ queue' = queue /\ sync' = sync
  <1>1. /\ queue' = queue /\ sync' = sync /\ countVars' = countVars /\ serverVars' = serverVars
    BY DEF EndingStep, CallSucceeds, CallRefused, CallFailsOver, CacheMiss, deviceVars
  <1>2. Asked' \subseteq Asked
    BY AskedShrinks DEF EndingStep, CallSucceeds, CallRefused, CallFailsOver, CacheMiss, Callers, networkVars
  <1>3. Operations' \subseteq Operations /\ Batch' \subseteq Batch \cup Operations
    BY <1>1 DEF Operations, Batch
  <1>4. CallKept
    <2>1. CASE CallFailsOver
      <3>1. call \in Calls /\ call' = [call EXCEPT !.phase = "queueing"]
        BY <2>1 DEF CallFailsOver, Types, ProcessesTyped
      <3> QED
        BY <3>1, NoneIsNoRequest DEF CallKept, Calls
    <2>2. CASE ~CallFailsOver
      BY <2>2 DEF EndingStep, CallSucceeds, CallRefused, CacheMiss, CallKept
    <2> QED
      BY <2>1, <2>2
  <1>5. keys' = keys /\ taken' = taken /\ edits' = edits /\ edits' >= edits
    BY <1>1 DEF countVars, Types, DeviceTyped
  <1> QED
    BY <1>1, <1>2, <1>3, <1>4, <1>5, Shrinking

LEMMA DeviceStepKeeps ==
  ASSUME Types, DeviceStep
  PROVE  /\ Keeps /\ Held' \subseteq Held /\ serverVars' = serverVars
         /\ \A t \in Tasks, k \in Kinds : queue'[t][k] = queue[t][k] \/ queue'[t][k] = None
         /\ \/ sync' = sync \/ sync' = None
            \/ sync' = PerformSync /\ queue' = queue
  <1> DEFINE Kind == /\ \A t \in Tasks, k \in Kinds : queue'[t][k] = queue[t][k] \/ queue'[t][k] = None
                     /\ \/ sync' = sync \/ sync' = None
                        \/ sync' = PerformSync /\ queue' = queue
                     /\ keys' = keys /\ taken' = taken /\ edits' >= edits /\ serverVars' = serverVars
  <1>0. edits \in Nat
    BY DEF Types, DeviceTyped
  <1>6. Kind
    <2>1. CASE DiscardBlockedChanges
      BY <1>0, <2>1 DEF DiscardBlockedChanges, countVars
    <2>2. CASE LogOut
      BY <1>0, <2>2 DEF LogOut, EmptyQueue
    <2>3. CASE Reload
      <3> HIDE DEF PerformSync
      <3> QED
        BY <1>0, <2>3 DEF Reload, countVars
    <2>4. CASE GoOnline \/ Retry
      BY <1>0, <2>4 DEF GoOnline, Retry, Starts, countVars
    <2>5. CASE LogIn
      BY <1>0, <2>5 DEF LogIn, countVars
    <2>7. CASE GoOffline
      BY <1>0, <2>7 DEF GoOffline, countVars, deviceVars
    <2>6. CASE \E t \in Tasks : ForgetTask(t) \/ \E v \in 1..(MaxEdits + MaxOthers + 2) : RememberTask(t, v)
      BY <1>0, <2>6 DEF ForgetTask, RememberTask, countVars
    <2> QED
      BY <2>1, <2>2, <2>3, <2>4, <2>5, <2>6, <2>7 DEF DeviceStep
  <1>7. Asked' \subseteq Asked
    BY AskedShrinks
    DEF DeviceStep, DiscardBlockedChanges, LogOut, LogIn, GoOffline, GoOnline, Retry,
        ForgetTask, RememberTask, networkVars
  <1>8. CallKept
    <2>1. CASE Starts
      <3>1. call # None => call \in Calls /\ call' = [call EXCEPT !.quiet = FALSE]
        BY <2>1, StartsEffect DEF Types, ProcessesTyped
      <3>2. call = None => call' = None
        BY <2>1, StartsEffect
      <3> QED
        BY <3>1, <3>2 DEF CallKept, Calls
    <2>2. CASE ~Starts
      <3>1. call' = call \/ call' = None
        BY <2>2 DEF DeviceStep, DiscardBlockedChanges, LogOut, LogIn, GoOffline, GoOnline, Reload, Retry,
           ForgetTask, RememberTask
      <3> QED
        BY <3>1 DEF CallKept
    <2> QED
      BY <2>1, <2>2
  <1>9. Operations' \subseteq Operations
    BY <1>6, OperationsShrink
  <1>10. Batch' \subseteq Batch \cup Operations
    BY <1>6, BatchShrinks
  <1> QED
    BY <1>6, <1>7, <1>8, <1>9, <1>10, Shrinking

\* The request that is sent for an operation of the batch is as good as it.
LEMMA SentIsGood ==
  ASSUME Types, VersionsHold, NEW o \in Batch, o \in Requests, Good(o), sync # None
  PROVE  LET x == [o EXCEPT !.expected = ExpectedVersion(o)]
         IN  x \in Requests /\ Good(x) /\ Same(x, o)
  <1> DEFINE n == ExpectedVersion(o)
             x == [o EXCEPT !.expected = n]
  <1>1. sync \in Runs /\ o \in sync.batch /\ o.task \in Tasks /\ o.expected \in Nat
    BY DEF Types, ProcessesTyped, Batch, Requests
  <1>2. n \in Nat /\ n <= server[o.task].version
    BY <1>1 DEF ExpectedVersion, Runs, VersionsHold, Good
  <1>3. n = o.expected \/ n = sync.versions[o.task]
    BY DEF ExpectedVersion
  <1>4. o.kind = "update" /\ n # o.expected => n <= 1
    BY <1>1, <1>3 DEF VersionsHold
  <1> HIDE DEF n
  <1>5. /\ x \in Requests /\ x.kind = o.kind /\ x.task = o.task /\ x.input = o.input
        /\ x.key = o.key /\ x.expected = n
    BY <1>2 DEF Requests
  <1> HIDE DEF x
  <1>6. ASSUME NEW f \in Fields, o.input[f] # 0 PROVE Stale(x, f)
    <2>1. o.kind = "update" /\ Stale(o, f)
      BY <1>6 DEF Good, NoInput
    <2>2. server[o.task].touched[f] \in Nat
      BY <1>1 DEF Types, ServerTyped, ServerTasks, Inputs
    <2> QED
      BY <1>1, <1>2, <1>4, <1>5, <2>1, <2>2 DEF Stale
  <1>7. Good(x)
    BY <1>2, <1>5, <1>6 DEF Good
  <1> QED
    BY <1>5, <1>7 DEF Same, n, x

LEMMA SyncStepKeeps ==
  ASSUME Types, ProcessesHold, VersionsHold, RequestsHold, SyncStep
  PROVE  /\ Keeps /\ serverVars' = serverVars /\ call' = call /\ edits' = edits
         /\ \A r \in Held' : r \in Requests /\ Good(r) /\ \E s \in Held : Same(r, s)
         /\ \/ sync' = sync \/ sync' = None
            \/ sync # None /\ sync' # None /\ sync'.batch \subseteq sync.batch
  <1>0. "sync" \in Callers /\ (wire["sync"] # None => sync # None /\ sync.batch # {})
    BY DEF ProcessesHold, Callers
  <1>1. keys' = keys /\ taken' = taken /\ edits' = edits /\ edits' >= edits /\ serverVars' = serverVars
        /\ call' = call /\ CallKept
    <2>1. countVars' = countVars /\ serverVars' = serverVars /\ call' = call
      BY DEF SyncStep, SendNext, SyncApplied, SyncRefused, SyncBreaks, EndSync
    <2> QED
      BY <2>1 DEF countVars, CallKept, Types, DeviceTyped
  <1>2. Read' \subseteq Read /\ Called' \subseteq Called
    BY <1>1, ReadShrinks
  <1>3. Held \subseteq Requests /\ \A r \in Held : r \in Requests /\ Good(r) /\ Same(r, r)
    BY HeldTyped DEF RequestsHold, Held, Kept, Same
  <1>4. ASSUME Operations' \subseteq Operations, Batch' \subseteq Batch \cup Operations, Asked' \subseteq Asked
        PROVE  Keeps /\ \A r \in Held' : r \in Requests /\ Good(r) /\ \E s \in Held : Same(r, s)
    BY <1>1, <1>3, <1>4, Shrinking
  <1>5. CASE SendNext
    <2> DEFINE o == First(sync.batch)
               n == ExpectedVersion(o)
               x == [o EXCEPT !.expected = n]
    <2>1. sync \in Runs /\ sync.batch # {} /\ sync # None
      BY <1>5 DEF SendNext, Syncing, Types, ProcessesTyped
    <2>2. o \in Batch /\ o \in Requests
      BY <2>1, FirstIsLeast DEF Runs, Batch
    <2>3. Good(o) /\ o \in Kept
      BY <1>3, <2>2 DEF Held, Kept
    <2>4. x \in Requests /\ Good(x) /\ Same(x, o)
      BY <2>1, <2>2, <2>3, SentIsGood
    <2>5. /\ wire' = [wire EXCEPT !["sync"] = [request |-> x, answer |-> NoAnswer]]
          /\ late' = late /\ queue' = queue /\ sync' = sync
      BY <1>5 DEF SendNext, Send, deviceVars
    <2> HIDE DEF x, o
    <2>6. Asked' \subseteq Asked \cup {x}
      BY <1>0, <2>5 DEF Asked, Types, ProcessesTyped
    <2>7. Kept' \subseteq Kept /\ Operations' = Operations /\ Batch' = Batch
      BY <1>2, <2>5 DEF Operations, Batch, Kept
    <2>8. \A r \in Held' : r \in Held \/ r = x
      BY <1>2, <2>6, <2>7 DEF Held
    <2>9. \A r \in Held' : r \in Requests /\ Good(r) /\ \E s \in Held : Same(r, s)
      BY <1>3, <2>3, <2>4, <2>8 DEF Held
    <2>10. Keeps
      <3>1. \A r \in Kept' : \E s \in Kept : Same(r, s)
        BY <2>7 DEF Same
      <3>2. \A r \in Asked' : \E s \in Kept \cup Asked : Same(r, s)
        BY <2>3, <2>4, <2>6 DEF Same
      <3> QED
        BY <1>1, <3>1, <3>2 DEF Keeps
    <2> QED
      BY <1>1, <2>5, <2>9, <2>10
  <1>6. CASE SyncApplied
    <2>1. sync.batch # {} /\ sync # None
      BY <1>0, <1>6 DEF SyncApplied, Ok
    <2> DEFINE o == First(sync.batch)
    <2>2. /\ o \in Requests /\ sync' \in Runs /\ sync'.batch \subseteq sync.batch
          /\ queue' = Delete(queue, o.task, o.kind)
      BY <1>6, <2>1, SyncAppliedEffect
    <2> HIDE DEF o
    <2>3. o.task \in Tasks /\ o.kind \in Kinds
      BY <2>2 DEF Requests
    <2>4. \A t \in Tasks, k \in Kinds : queue'[t][k] = queue[t][k] \/ queue'[t][k] = None
      <3>0. queue \in [Tasks -> [Kinds -> {None} \cup Requests]]
        BY DEF Types, DeviceTyped
      <3>1. /\ Delete(queue, o.task, o.kind)[o.task][o.kind] = None
            /\ \A t \in Tasks, k \in Kinds : t # o.task \/ k # o.kind =>
                 Delete(queue, o.task, o.kind)[t][k] = queue[t][k]
        BY <2>3, <3>0, DeleteEffect
      <3> QED
        BY <2>2, <3>1
    <2>5. Operations' \subseteq Operations
      BY <2>4, OperationsShrink
    <2>6. Batch' \subseteq Batch \cup Operations
      BY <2>1, <2>2, BatchShrinks
    <2>7. Asked' \subseteq Asked
      BY <1>0, <1>6, AskedShrinks DEF SyncApplied
    <2> QED
      BY <1>1, <1>4, <2>1, <2>2, <2>5, <2>6, <2>7, NoneIsNoRequest
  <1>7. CASE SyncRefused
    <2>1. sync.batch # {} /\ sync # None
      BY <1>0, <1>7 DEF SyncRefused, Refused
    <2> DEFINE o == First(sync.batch)
               x == Settled(o, wire["sync"].answer.status)
    <2>2. /\ sync \in Runs /\ o \in sync.batch /\ o \in Requests
          /\ x \in Requests /\ x.kind = o.kind /\ x.task = o.task /\ x.key = o.key
          /\ x.input = o.input /\ x.expected = o.expected
          /\ queue' = Put(queue, x)
          /\ sync' \in Runs /\ sync'.batch \subseteq sync.batch
      BY <1>7, <2>1, SyncRefusedEffect
    <2> HIDE DEF o, x
    <2>3. o \in Batch /\ o \in Kept /\ o \in Held /\ Good(o)
      BY <1>3, <2>1, <2>2 DEF Batch, Kept, Held
    <2>4. Good(x) /\ Same(x, o)
      BY <2>2, <2>3 DEF Good, Stale, Same
    <2>5. Operations' \subseteq Operations \cup {x}
      BY <2>2, OperationsPut DEF Types, DeviceTyped
    <2>6. Batch' \subseteq Batch
      BY <2>1, <2>2, NoneIsNoRequest DEF Batch
    <2>7. Asked' \subseteq Asked
      BY <1>0, <1>7, AskedShrinks DEF SyncRefused
    <2>8. \A r \in Kept' : r \in Kept \/ r = x
      BY <1>2, <2>5, <2>6 DEF Kept
    <2>9. \A r \in Held' : r \in Held \/ r = x
      BY <1>2, <2>7, <2>8 DEF Held
    <2>10. \A r \in Held' : r \in Requests /\ Good(r) /\ \E s \in Held : Same(r, s)
      BY <1>3, <2>2, <2>3, <2>4, <2>9
    <2>11. Keeps
      <3>1. \A r \in Kept' : \E s \in Kept : Same(r, s)
        BY <2>3, <2>4, <2>8 DEF Same
      <3>2. \A r \in Asked' : \E s \in Kept \cup Asked : Same(r, s)
        BY <2>7 DEF Same
      <3> QED
        BY <1>1, <3>1, <3>2 DEF Keeps
    <2> QED
      BY <1>1, <2>1, <2>2, <2>10, <2>11, NoneIsNoRequest
  <1>8. CASE SyncBreaks
    <2>1. queue' = queue /\ sync' = None /\ NetworkFailure("sync")
      BY <1>8 DEF SyncBreaks, Stopped
    <2>2. Operations' \subseteq Operations /\ Batch' \subseteq Batch \cup Operations
      BY <2>1 DEF Operations, Batch
    <2>3. Asked' \subseteq Asked
      BY <1>0, <2>1, AskedShrinks
    <2> QED
      BY <1>1, <1>4, <2>1, <2>2, <2>3
  <1>9. CASE EndSync
    <2>1. queue' = queue /\ sync' = None /\ wire' = wire /\ late' = late
      BY <1>9 DEF EndSync, networkVars
    <2>2. Operations' \subseteq Operations /\ Batch' \subseteq Batch \cup Operations
      BY <2>1 DEF Operations, Batch
    <2>3. Asked' \subseteq Asked
      BY <2>1, AskedShrinks
    <2> QED
      BY <1>1, <1>4, <2>1, <2>2, <2>3
  <1> QED
    BY <1>5, <1>6, <1>7, <1>8, <1>9 DEF SyncStep

-----------------------------------------------------------------------------
(* What such a step preserves *)

LEMMA KeepsKeys ==
  ASSUME Types, Types', KeysHold, Keeps
  PROVE  KeysHold'
  <1>1. /\ keys' = keys /\ taken' = taken /\ edits' >= edits /\ edits \in Nat /\ edits' \in Nat
        /\ keys \in Nat /\ Cardinality(taken) \in Nat
    <2>1. Cardinality(taken) \in Nat
      BY QueueAssumption, FS_Subset, FS_CardinalityType DEF Types, DeviceTyped
    <2> QED
      BY <2>1, QueueAssumption DEF Keeps, Types, DeviceTyped
  <1>2. Due' <= Due /\ Due' \in Nat /\ Due \in Nat
    BY DEF Due, Keeps, CallKept
  <1>3. keys' + Due' <= 2 * edits' + Cardinality(taken')
    BY <1>1, <1>2 DEF KeysHold
  <1>4. \A r \in Kept' \cup Asked' : r.key \in 1..keys'
    BY <1>1 DEF KeysHold, Keeps, Same
  <1>5. call' # None /\ call'.kind = "create" => call'.operation.key \in 1..keys'
    BY <1>1 DEF KeysHold, Keeps, CallKept
  <1> QED
    BY <1>3, <1>4, <1>5 DEF KeysHold

LEMMA KeepsHomes ==
  ASSUME OneHome, \A r \in Held' : \E s \in Held : Same(r, s)
  PROVE  OneHome'
  <1> SUFFICES ASSUME NEW r \in Held', NEW s \in Held', NEW f \in Fields, NEW g \in Fields,
                      r.input[f] # 0, r.input[f] = s.input[g]
               PROVE  r.task = s.task /\ f = g
    BY DEF OneHome
  <1>1. PICK a \in Held : Same(r, a)
    OBVIOUS
  <1>2. PICK b \in Held : Same(s, b)
    OBVIOUS
  <1> QED
    BY <1>1, <1>2 DEF Same, OneHome

\* What a task has of the user's edits it has from a request.
MineFrom ==
  \A t \in Tasks, f \in Fields :
    server'[t].mine[f] = server[t].mine[f] \/ \E r \in Asked : server'[t].mine[f] = r.input[f]

LEMMA KeepsFresh ==
  ASSUME Types, FreshEdit, Keeps, MineFrom
  PROVE  FreshEdit'
  <1> SUFFICES ASSUME call' # None, call'.kind = "update", call'.read["update"] # None
               PROVE  /\ call'.phase = "queueing"
                      /\ \A f \in Fields : call'.operation.input[f] # 0 =>
                           /\ server'[call'.task].mine[f] < call'.operation.input[f]
                           /\ \A r \in Kept' \cup Asked' : r.input[f] < call'.operation.input[f]
    BY DEF FreshEdit
  <1>1. /\ call # None /\ call.kind = "update" /\ call.task = call'.task
        /\ call'.operation = call.operation /\ call.read["update"] # None
        /\ call'.phase = call.phase \/ call'.phase = "queueing"
    BY DEF Keeps, CallKept
  <1>2. call.task \in Tasks
    BY <1>1 DEF Types, ProcessesTyped, Calls
  <1>3. ASSUME NEW f \in Fields, call.operation.input[f] # 0
        PROVE  /\ server'[call.task].mine[f] < call.operation.input[f]
               /\ \A r \in Kept' \cup Asked' : r.input[f] < call.operation.input[f]
    <2>1. /\ server[call.task].mine[f] < call.operation.input[f]
          /\ \A r \in Kept \cup Asked : r.input[f] < call.operation.input[f]
      BY <1>1, <1>3 DEF FreshEdit
    <2>2. server'[call.task].mine[f] < call.operation.input[f]
      BY <1>2, <2>1 DEF MineFrom
    <2>3. \A r \in Kept' \cup Asked' : r.input[f] < call.operation.input[f]
      BY <2>1 DEF Keeps, Same
    <2> QED
      BY <2>2, <2>3
  <1>4. call'.phase = "queueing"
    BY <1>1 DEF FreshEdit
  <1> QED
    BY <1>1, <1>3, <1>4

LEMMA ServerStepMine ==
  ASSUME Types, ServerStep \/ serverVars' = serverVars
  PROVE  MineFrom
  <1>1. ASSUME NEW q \in Asked, Process(q) PROVE MineFrom
    <2>1. CASE UNCHANGED serverVars
      BY <2>1 DEF serverVars, MineFrom
    <2>2. CASE ~UNCHANGED serverVars
      <3> DEFINE n == Mutation(q).task
      <3>1. server' = [server EXCEPT ![q.task] = n] /\ Mutation(q).status = "ok"
        BY <1>1, <2>2 DEF Process, Applies
      <3>2. q \in Requests
        BY HeldTyped
      <3>3. Change(server[q.task], n, q) /\ q.kind \in Kinds /\ q.task \in Tasks
        BY <3>1, <3>2, MutationEffect DEF Types, Requests
      <3>4. \A f \in Fields : n.mine[f] = server[q.task].mine[f] \/ n.mine[f] = q.input[f]
        BY <3>3 DEF Change, Kinds
      <3> HIDE DEF n
      <3> QED
        BY <3>1, <3>3, <3>4 DEF MineFrom, Types, ServerTyped
    <2> QED
      BY <2>1, <2>2
  <1>2. ASSUME NEW t \in Tasks, NEW f \in Fields, OthersUpdate(t, f) PROVE MineFrom
    <2> DEFINE v == server[t].version + 1
               n == [server[t] EXCEPT !.version = v, !.touched[f] = v]
    <2>1. server' = [server EXCEPT ![t] = n]
      BY <1>2 DEF OthersUpdate
    <2>2. n.mine = server[t].mine
      BY DEF Types, ServerTyped, ServerTasks
    <2> HIDE DEF n
    <2> QED
      BY <2>1, <2>2 DEF MineFrom, Types, ServerTyped
  <1>3. CASE serverVars' = serverVars
    BY <1>3 DEF serverVars, MineFrom
  <1> QED
    BY <1>1, <1>2, <1>3 DEF ServerStep, Serve, ServeLate, Asked

\* What an answer says is true after the step.
AnswerNow(r, version) ==
  /\ \A e \in EditsOf(r.input) : e \in Edits /\ applied'[e] > 0
  /\ version <= server'[r.task].version
  /\ r.kind = "create" => version = 1

LEMMA AnswerGrows ==
  ASSUME Types, Types', Grows, NEW r \in Requests, NEW v \in Nat, Answer(r, v)
  PROVE  AnswerNow(r, v)
  <1>1. \A e \in EditsOf(r.input) : e \in Edits /\ applied'[e] > 0
    BY DEF Answer, EditsApplied, Grows, Types, ServerTyped
  <1>2. v <= server'[r.task].version
    BY DEF Answer, Grows, Types, ServerTyped, ServerTasks, Requests
  <1> QED
    BY <1>1, <1>2 DEF Answer, AnswerNow

LEMMA ProcessAnswers ==
  ASSUME Types, Types', KeysHold, AnswersHold, RequestsHold, Grows, NEW q \in Asked, Process(q)
  PROVE  /\ \A k \in Keys : saved'[k] # None => AnswerNow(saved'[k].request, saved'[k].version)
         /\ AnswerTo(q).status = "ok" => AnswerNow(q, AnswerTo(q).version)
  <1> DEFINE n == Mutation(q).task
             m == n.version
             x == [kind |-> "saved", request |-> q, version |-> m]
  <1>1. q \in Requests /\ Good(q) /\ q.key \in Keys
    BY HeldTyped, KeysSuffice DEF RequestsHold, Held
  <1>2. \A k \in Keys : saved[k] # None =>
          saved[k].request \in Requests /\ saved[k].version \in Nat
          /\ Answer(saved[k].request, saved[k].version)
    BY DEF AnswersHold, Types, ServerTyped, Responses
  <1>3. \A k \in Keys : saved[k] # None => AnswerNow(saved[k].request, saved[k].version)
    BY <1>2, AnswerGrows
  <1>4. ASSUME saved[q.key] = None, Mutation(q).status = "ok",
               server' = [server EXCEPT ![q.task] = n],
               applied' = [d \in Edits |-> IF d \in EditsOf(q.input) THEN applied[d] + 1 ELSE applied[d]]
        PROVE  AnswerNow(q, m)
    <2>1. Change(server[q.task], n, q) /\ q.task \in Tasks
      BY <1>1, <1>4, MutationEffect DEF Types, Requests
    <2>2. n \in ServerTasks /\ (q.kind = "create" => m = 1)
      BY <2>1 DEF Change
    <2> HIDE DEF n
    <2>3. server'[q.task].version = m /\ m \in Nat
      BY <1>4, <2>1, <2>2 DEF Types, ServerTyped, ServerTasks
    <2>4. EditsOf(q.input) \subseteq Edits
      BY <1>1, EditsAreMade
    <2>5. \A e \in EditsOf(q.input) : e \in Edits /\ applied'[e] > 0
      BY <1>4, <2>4 DEF Types, ServerTyped
    <2> QED
      BY <2>2, <2>3, <2>5 DEF AnswerNow
  <1>5. CASE UNCHANGED serverVars
    <2>1. \A k \in Keys : saved'[k] # None => AnswerNow(saved'[k].request, saved'[k].version)
      BY <1>3, <1>5 DEF serverVars
    <2>2. ASSUME AnswerTo(q).status = "ok" PROVE AnswerNow(q, AnswerTo(q).version)
      <3>1. CASE saved[q.key] # None
        <4>1. saved[q.key].request = q /\ AnswerTo(q).version = saved[q.key].version
          BY <2>2, <3>1 DEF AnswerTo
        <4>2. saved[q.key].version \in Nat /\ Answer(q, saved[q.key].version)
          BY <1>1, <1>2, <3>1, <4>1
        <4>3. AnswerNow(q, saved[q.key].version)
          BY <1>1, <1>3, <3>1, <4>1
        <4> QED
          BY <4>1, <4>3
      <3>2. CASE saved[q.key] = None
        <4>1. Mutation(q).status = "ok" /\ (q.kind = "create" \/ q.expected >= 1)
          BY <2>2, <3>2, <1>1 DEF AnswerTo, Requests
        <4>2. saved' = [saved EXCEPT ![q.key] = x]
          BY <3>2, <4>1 DEF Process, Applies
        <4>3. saved'[q.key] # None
          BY <1>1, <4>2 DEF Types, ServerTyped, None
        <4> QED
          BY <1>5, <3>2, <4>3 DEF serverVars
      <3> QED
        BY <3>1, <3>2
    <2> QED
      BY <2>1, <2>2
  <1>6. CASE ~UNCHANGED serverVars
    <2>1. /\ saved[q.key] = None /\ Mutation(q).status = "ok" /\ (q.kind = "create" \/ q.expected >= 1)
          /\ server' = [server EXCEPT ![q.task] = n] /\ saved' = [saved EXCEPT ![q.key] = x]
          /\ applied' = [d \in Edits |-> IF d \in EditsOf(q.input) THEN applied[d] + 1 ELSE applied[d]]
      BY <1>6 DEF Process, Applies
    <2>2. AnswerNow(q, m)
      BY <1>4, <2>1
    <2>3. AnswerTo(q) = [status |-> Mutation(q).status, version |-> m]
      BY <1>1, <2>1 DEF AnswerTo, Requests
    <2> HIDE DEF m
    <2>4. \A k \in Keys : saved'[k] = IF k = q.key THEN x ELSE saved[k]
      BY <1>1, <2>1 DEF Types, ServerTyped
    <2>5. x.request = q /\ x.version = m
      OBVIOUS
    <2> HIDE DEF x
    <2>6. \A k \in Keys : saved'[k] # None => AnswerNow(saved'[k].request, saved'[k].version)
      BY <1>3, <2>2, <2>4, <2>5
    <2>7. AnswerTo(q).version = m
      BY <2>3
    <2> QED
      BY <2>2, <2>6, <2>7
  <1> QED
    BY <1>5, <1>6

LEMMA ServerStepAnswers ==
  ASSUME Types, Types', KeysHold, AnswersHold, RequestsHold, Grows, ServerStep
  PROVE  AnswersHold'
  <1>0. ASSUME NEW w \in Callers, wire[w] # None, wire[w].answer.status = "ok"
        PROVE  AnswerNow(wire[w].request, wire[w].answer.version)
    <2>1. wire[w].request \in Requests /\ wire[w].answer.version \in Nat
      BY <1>0 DEF Types, ProcessesTyped, Messages, Answers
    <2> QED
      BY <1>0, <2>1, AnswerGrows DEF AnswersHold
  <1>1. ASSUME NEW w \in Callers, Serve(w) PROVE AnswersHold'
    <2> DEFINE q == wire[w].request
    <2>1. q \in Asked /\ Process(q) /\ wire[w] # None /\ wire' = [wire EXCEPT ![w].answer = AnswerTo(q)]
      BY <1>1 DEF Serve, Asked
    <2>2. /\ \A k \in Keys : saved'[k] # None => AnswerNow(saved'[k].request, saved'[k].version)
          /\ AnswerTo(q).status = "ok" => AnswerNow(q, AnswerTo(q).version)
      BY <2>1, ProcessAnswers
    <2>3. \A v \in Callers : v # w => wire'[v] = wire[v]
      BY <2>1 DEF Types, ProcessesTyped
    <2>4. wire'[w].request = q /\ wire'[w].answer = AnswerTo(q)
      BY <2>1 DEF Types, ProcessesTyped, Messages
    <2> HIDE DEF q
    <2>5. \A v \in Callers : wire'[v] # None /\ wire'[v].answer.status = "ok" =>
            AnswerNow(wire'[v].request, wire'[v].answer.version)
      BY <1>0, <2>2, <2>3, <2>4
    <2> QED
      BY <2>2, <2>5 DEF AnswersHold, Answer, AnswerNow, EditsApplied
  <1>2. ASSUME NEW q \in late, ServeLate(q) PROVE AnswersHold'
    <2>1. q \in Asked /\ Process(q) /\ wire' = wire
      BY <1>2 DEF ServeLate, Asked
    <2>2. \A k \in Keys : saved'[k] # None => AnswerNow(saved'[k].request, saved'[k].version)
      BY <2>1, ProcessAnswers
    <2> QED
      BY <1>0, <2>1, <2>2 DEF AnswersHold, Answer, AnswerNow, EditsApplied
  <1>3. ASSUME NEW t \in Tasks, NEW f \in Fields, OthersUpdate(t, f) PROVE AnswersHold'
    <2>1. saved' = saved /\ wire' = wire
      BY <1>3 DEF OthersUpdate, networkVars
    <2>2. \A k \in Keys : saved[k] # None => AnswerNow(saved[k].request, saved[k].version)
      BY AnswerGrows DEF AnswersHold, Types, ServerTyped, Responses
    <2> QED
      BY <1>0, <2>1, <2>2 DEF AnswersHold, Answer, AnswerNow, EditsApplied
  <1> QED
    BY <1>1, <1>2, <1>3 DEF ServerStep

\* Elsewhere answers are only awaited.
LEMMA AnswersStay ==
  ASSUME AnswersHold, serverVars' = serverVars,
         \A w \in Callers : wire'[w] = wire[w] \/ wire'[w] = None \/ wire'[w].answer = NoAnswer
  PROVE  AnswersHold'
  <1>1. server' = server /\ saved' = saved /\ applied' = applied
    BY DEF serverVars
  <1>2. \A k \in Keys : saved'[k] # None => Answer(saved[k].request, saved[k].version)
    BY <1>1 DEF AnswersHold
  <1>3. \A w \in Callers : wire'[w] # None /\ wire'[w].answer.status = "ok" =>
          wire'[w] = wire[w] /\ Answer(wire[w].request, wire[w].answer.version)
    BY DEF AnswersHold, NoAnswer
  <1> QED
    BY <1>1, <1>2, <1>3 DEF AnswersHold, Answer, EditsApplied

LEMMA WireSteps ==
  ASSUME Types, EndingStep \/ DeviceStep \/ SyncStep
  PROVE  \A w \in Callers : wire'[w] = wire[w] \/ wire'[w] = None \/ wire'[w].answer = NoAnswer
  <1>0. wire \in [Callers -> {None} \cup Messages]
    BY DEF Types, ProcessesTyped
  <1>1. ASSUME NEW w \in Callers, Answered(w) \/ NetworkFailure(w)
        PROVE  \A v \in Callers : wire'[v] = wire[v] \/ wire'[v] = None
    BY <1>0, <1>1 DEF Answered, NetworkFailure
  <1>2. CASE EndingStep
    BY <1>1, <1>2 DEF EndingStep, CallSucceeds, CallRefused, CallFailsOver, CacheMiss, networkVars, Callers
  <1>3. CASE DeviceStep
    BY <1>3 DEF DeviceStep, DiscardBlockedChanges, LogOut, LogIn, GoOffline, GoOnline, Reload, Retry,
       ForgetTask, RememberTask, networkVars
  <1>4. CASE SyncStep
    <2>1. CASE SendNext
      BY <1>0, <2>1 DEF SendNext, Send
    <2>2. CASE ~SendNext
      BY <1>1, <1>4, <2>2 DEF SyncStep, SyncApplied, SyncRefused, SyncBreaks, EndSync, networkVars, Callers
    <2> QED
      BY <2>1, <2>2
  <1> QED
    BY <1>2, <1>3, <1>4

LEMMA ServerStepRest ==
  ASSUME Types, Types', Placed, VersionsHold, ProcessesHold, Creations, QuietHolds, Grows, ServerStep
  PROVE  Placed' /\ VersionsHold' /\ ProcessesHold' /\ Creations' /\ QuietHolds'
  <1>1. /\ queue' = queue /\ cache' = cache /\ call' = call /\ sync' = sync /\ fate' = fate
        /\ quiet' = quiet /\ taken' = taken /\ edits' = edits
    BY ServerStepKeeps DEF deviceVars, historyVars, Keeps
  <1>2. \A w \in Callers : wire'[w] # None => wire[w] # None /\ wire'[w].request = wire[w].request
    <2>1. ASSUME NEW v \in Callers, Serve(v) PROVE <1>2
      <3>1. wire[v] # None /\ wire[v] \in Messages
            /\ wire' = [wire EXCEPT ![v].answer = AnswerTo(wire[v].request)]
        BY <2>1 DEF Serve, Types, ProcessesTyped
      <3> QED
        BY <3>1 DEF Types, ProcessesTyped, Messages
    <2>2. CASE ~\E v \in Callers : Serve(v)
      BY <2>2 DEF ServerStep, ServeLate, OthersUpdate, networkVars
    <2> QED
      BY <2>1, <2>2
  <1>3. Batch' = Batch /\ Operations' = Operations /\ Read' = Read /\ Kept' = Kept
    BY <1>1 DEF Batch, Operations, Read, ReadOf, Kept
  <1>4. Placed'
    BY <1>1, <1>3 DEF Placed
  <1>5. VersionsHold'
    <2>1. \A t \in Tasks : server[t].version <= server'[t].version /\ server[t].version \in Nat
                           /\ server'[t].version \in Nat /\ cache[t].version \in Nat
      BY DEF Grows, Types, ServerTyped, ServerTasks, DeviceTyped
    <2>2. sync # None => \A t \in Tasks : sync.versions[t] \in Nat
      BY DEF Types, ProcessesTyped, Runs
    <2>3. \A t \in Tasks : cache[t].version <= server'[t].version /\ (cache[t].cached => t \in taken)
      BY <2>1 DEF VersionsHold
    <2>4. sync # None => \A t \in Tasks : sync.versions[t] <= server'[t].version
      BY <2>1, <2>2 DEF VersionsHold
    <2> QED
      BY <1>1, <2>3, <2>4 DEF VersionsHold
  <1>6. ProcessesHold'
    <2>1. wire'["sync"] # None =>
            sync # None /\ sync.batch # {} /\ SameAs(wire'["sync"].request, First(sync.batch))
      BY <1>2 DEF ProcessesHold, Callers
    <2>2. call # None /\ call.phase = "sending" /\ wire'["call"] # None =>
            SameAs(wire'["call"].request, call.operation)
      BY <1>2 DEF ProcessesHold, Callers
    <2> QED
      BY <1>1, <2>1, <2>2 DEF ProcessesHold, SameAs, First
  <1>7. Creations'
    BY <1>1, <1>3 DEF Creations
  <1>8. QuietHolds'
    <2>1. \A e \in quiet : applied'[e] = 0 => applied[e] = 0
      BY DEF Grows, Types, DeviceTyped, ServerTyped
    <2> QED
      BY <1>1, <1>3, <2>1 DEF QuietHolds, Carries
  <1> QED
    BY <1>4, <1>5, <1>6, <1>7, <1>8

\* The order of a creation and what is behind it.
LEMMA KeepsOrder ==
  ASSUME Types, Types', Creations, Keeps
  PROVE  /\ \A r \in Kept' : r.kind # "create" =>
              /\ r.task \in taken'
              /\ call' # None /\ call'.kind = "create" => call'.task # r.task
         /\ \A r, s \in Kept' : r.kind = "create" /\ s.kind # "create" /\ r.task = s.task => r.key < s.key
  <1>1. ASSUME NEW r \in Kept', r.kind # "create"
        PROVE  r.task \in taken' /\ (call' # None /\ call'.kind = "create" => call'.task # r.task)
    <2>1. PICK a \in Kept : Same(r, a)
      BY DEF Keeps
    <2> QED
      BY <1>1, <2>1 DEF Same, Keeps, CallKept, Creations
  <1>2. ASSUME NEW r \in Kept', NEW s \in Kept', r.kind = "create", s.kind # "create", r.task = s.task
        PROVE  r.key < s.key
    <2>1. PICK a \in Kept : Same(r, a)
      BY DEF Keeps
    <2>2. PICK b \in Kept : Same(s, b)
      BY DEF Keeps
    <2> QED
      BY <1>2, <2>1, <2>2 DEF Same, Creations
  <1> QED
    BY <1>1, <1>2

LEMMA EndingStepRest ==
  ASSUME Types, Types', Placed, RequestsHold, AnswersHold, VersionsHold, ProcessesHold, Creations,
         QuietHolds, EndingStep
  PROVE  Placed' /\ VersionsHold' /\ ProcessesHold' /\ Creations' /\ QuietHolds'
  <1>1. /\ queue' = queue /\ sync' = sync /\ serverVars' = serverVars /\ taken' = taken
        /\ edits' = edits /\ Keeps /\ CallKept
    BY EndingStepKeeps DEF Keeps
  <1>2. call \in Calls /\ call # None /\ call.operation \in Requests /\ Good(call.operation)
        /\ call.task \in taken /\ call.operation.task = call.task
    <2>1. call \in Calls /\ call # None
      BY DEF EndingStep, CallSucceeds, CallRefused, CallFailsOver, CacheMiss, Queueing, Types, ProcessesTyped
    <2>2. call.operation \in Requests /\ call.operation \in Held
      BY <2>1 DEF Calls, Held, Called
    <2> QED
      BY <2>1, <2>2 DEF RequestsHold, Placed, Good
  <1>3. /\ wire'["sync"] = wire["sync"]
        /\ call' = None \/ (call'.phase = "queueing" /\ quiet' = quiet)
    <2>1. CASE CallFailsOver
      <3>1. call' = [call EXCEPT !.phase = "queueing"] /\ quiet' = quiet
        BY <2>1 DEF CallFailsOver, historyVars
      <3>2. wire'["sync"] = wire["sync"]
        BY <2>1 DEF CallFailsOver, NetworkFailure, Types, ProcessesTyped, Callers
      <3> QED
        BY <1>2, <3>1, <3>2 DEF Calls
    <2>2. CASE ~CallFailsOver
      <3>1. wire'["sync"] = wire["sync"]
        BY <2>2 DEF EndingStep, CallSucceeds, CallRefused, CacheMiss, Answered, networkVars, Types,
           ProcessesTyped, Callers
      <3>2. call' = None
        BY <2>2 DEF EndingStep, CallSucceeds, CallRefused, CacheMiss
      <3> QED
        BY <3>1, <3>2
    <2> QED
      BY <2>1, <2>2
  <1>4. CallSucceeds =>
          /\ wire["call"].answer.version <= server[call.task].version
          /\ wire["call"].answer.version \in Nat
          /\ \A e \in EditsOf(call.operation.input) : e \in Edits /\ applied[e] > 0
    <2> SUFFICES ASSUME CallSucceeds
                 PROVE  /\ wire["call"].answer.version <= server[call.task].version
                        /\ wire["call"].answer.version \in Nat
                        /\ \A e \in EditsOf(call.operation.input) : e \in Edits /\ applied[e] > 0
      OBVIOUS
    <2>1. /\ wire["call"] # None /\ wire["call"].answer.status = "ok" /\ call.phase = "sending"
          /\ wire["call"] \in Messages /\ "call" \in Callers
      BY DEF CallSucceeds, Ok, Types, ProcessesTyped, Callers
    <2>2. SameAs(wire["call"].request, call.operation)
      BY <1>2, <2>1 DEF ProcessesHold
    <2>3. Answer(wire["call"].request, wire["call"].answer.version)
      BY <2>1 DEF AnswersHold
    <2> QED
      BY <1>2, <2>1, <2>2, <2>3 DEF Answer, EditsApplied, SameAs, Messages, Answers
  <1>5. Batch' = Batch
    BY <1>1 DEF Batch
  <1>6. Placed'
    BY <1>1, <1>5 DEF Placed, CallKept
  <1>7. VersionsHold'
    <2>1. ASSUME NEW t \in Tasks
          PROVE  cache'[t].version <= server[t].version /\ (cache'[t].cached => t \in taken)
      <3>1. CASE cache'[t] = cache[t]
        BY <3>1 DEF VersionsHold
      <3>2. CASE cache'[t] # cache[t]
        <4>1. CallSucceeds /\ t = call.task
          BY <3>2 DEF EndingStep, CallSucceeds, CallRefused, CallFailsOver, CacheMiss, deviceVars, Types, DeviceTyped
        <4>2. \/ cache'[t] = NotCached
              \/ cache'[t] = Cached(wire["call"].answer.version)
          BY <1>2, <4>1 DEF CallSucceeds, Types, DeviceTyped
        <4>3. server[t].version \in Nat
          BY DEF Types, ServerTyped, ServerTasks
        <4> QED
          BY <1>2, <1>4, <4>1, <4>2, <4>3 DEF NotCached, Cached
      <3> QED
        BY <3>1, <3>2
    <2> QED
      BY <1>1, <2>1 DEF VersionsHold, serverVars
  <1>8. ProcessesHold'
    <2>1. \A e \in quiet' : e <= edits
      <3>1. quiet' \subseteq quiet \cup EditsOf(call.operation.input)
        BY DEF EndingStep, CallSucceeds, CallRefused, CallFailsOver, CacheMiss, historyVars
      <3>2. \A e \in EditsOf(call.operation.input) : e <= edits
        BY <1>2, EditsAreMade
      <3> QED
        BY <3>1, <3>2 DEF ProcessesHold
    <2> QED
      BY <1>1, <1>3, <2>1 DEF ProcessesHold, CallKept, First
  <1>9. Creations'
    BY <1>1, <1>5, KeepsOrder DEF Creations
  <1>10. QuietHolds'
    <2>1. ASSUME NEW e \in quiet', fate'[e] = "accepted", applied[e] = 0
          PROVE  e \in quiet /\ fate[e] = "accepted"
      <3>0. e \in Edits
        BY DEF Types, DeviceTyped
      <3>1. CASE CallSucceeds
        <4>1. e \notin EditsOf(call.operation.input)
          BY <1>4, <2>1, <3>1
        <4> QED
          BY <2>1, <3>0, <3>1, <4>1 DEF CallSucceeds, Tell
      <3>2. CASE ~CallSucceeds
        BY <2>1, <3>0, <3>2 DEF EndingStep, CallRefused, CallFailsOver, CacheMiss, historyVars, Tell
      <3> QED
        BY <3>1, <3>2
    <2>2. applied' = applied
      BY <1>1 DEF serverVars
    <2> QED
      BY <1>1, <1>5, <2>1, <2>2 DEF QuietHolds, Carries, CallKept
  <1> QED
    BY <1>6, <1>7, <1>8, <1>9, <1>10

\* The batch a synchronisation starts with.
LEMMA BatchOfSync ==
  ASSUME Types, Placed, sync' = PerformSync, queue' = queue
  PROVE  /\ Batch' = Pending
         /\ \A o \in Batch' : o.task \in Tasks /\ o.kind \in Kinds /\ o = queue[o.task][o.kind]
         /\ \A t \in Tasks, k \in Kinds :
              queue[t][k] # None /\ queue[t][k].status = "pending" => queue[t][k] \in Batch'
  <1>1. Batch' = Pending
    BY PerformTyped, NoneIsNoRequest DEF Batch
  <1>2. \A o \in Pending : o.task \in Tasks /\ o.kind \in Kinds /\ o = queue[o.task][o.kind]
    BY DEF Pending, Having, Operations, Placed
  <1>3. \A t \in Tasks, k \in Kinds :
          queue[t][k] # None /\ queue[t][k].status = "pending" => queue[t][k] \in Pending
    BY DEF Pending, Having, Operations
  <1> QED
    BY <1>1, <1>2, <1>3

LEMMA DeviceStepWire ==
  ASSUME Types, ProcessesHold, DeviceStep
  PROVE  /\ wire'["sync"] # None => wire'["sync"] = wire["sync"] /\ sync' = sync
         /\ wire'["call"] # None => wire'["call"] = wire["call"]
         /\ call' # None /\ call'.quiet => sync' = None
         /\ quiet' = quiet /\ edits' >= edits /\ edits \in Nat /\ edits' \in Nat
  <1>0. edits \in Nat
    BY DEF Types, DeviceTyped
  <1>1. CASE Starts /\ (GoOnline \/ Retry)
    <2>1. sync = None /\ (call # None => call' = [call EXCEPT !.quiet = FALSE]) /\ (call = None => call' = None)
      BY <1>1, StartsEffect
    <2>2. wire["sync"] = None
      BY <2>1 DEF ProcessesHold
    <2>3. call # None => call \in Calls
      BY DEF Types, ProcessesTyped
    <2>4. ~(call' # None /\ call'.quiet)
      BY <2>1, <2>3 DEF Calls
    <2>5. wire' = wire /\ quiet' = quiet /\ edits' = edits
      BY <1>1 DEF GoOnline, Retry, networkVars, historyVars, countVars
    <2> QED
      BY <1>0, <2>2, <2>4, <2>5
  <1>2. CASE Reload
    BY <1>0, <1>2 DEF Reload, historyVars, countVars, Callers
  <1>3. CASE ~(Starts /\ (GoOnline \/ Retry)) /\ ~Reload
    <2>1. wire' = wire /\ sync' = sync /\ call' = call
      BY <1>3 DEF DeviceStep, DiscardBlockedChanges, LogOut, LogIn, GoOffline, GoOnline, Retry,
         ForgetTask, RememberTask, networkVars
    <2>2. quiet' = quiet
      BY <1>3 DEF DeviceStep, DiscardBlockedChanges, LogOut, LogIn, GoOffline, GoOnline, Retry,
         ForgetTask, RememberTask, historyVars
    <2>3. edits' >= edits /\ edits' \in Nat
      <3>1. CASE LogOut
        BY <1>0, <3>1 DEF LogOut
      <3>2. CASE ~LogOut
        <4>1. countVars' = countVars
          BY <1>3, <3>2 DEF DeviceStep, DiscardBlockedChanges, LogIn, GoOffline, GoOnline, Retry,
             ForgetTask, RememberTask
        <4> QED
          BY <1>0, <4>1 DEF countVars
      <3> QED
        BY <3>1, <3>2
    <2> QED
      BY <1>0, <2>1, <2>2, <2>3 DEF ProcessesHold
  <1> QED
    BY <1>1, <1>2, <1>3

LEMMA DeviceStepCache ==
  ASSUME Types, ServerHolds, VersionsHold, DeviceStep, NEW t \in Tasks
  PROVE  cache'[t].version <= server[t].version /\ (cache'[t].cached => t \in taken)
  <1>1. CASE cache'[t] = cache[t]
    BY <1>1 DEF VersionsHold
  <1>2. CASE cache'[t] = NotCached
    BY <1>2 DEF NotCached, Types, ServerTyped, ServerTasks
  <1>3. CASE cache'[t] # cache[t] /\ cache'[t] # NotCached
    <2>1. \E v \in 1..(MaxEdits + MaxOthers + 2) : RememberTask(t, v)
      BY <1>3 DEF DeviceStep, DiscardBlockedChanges, LogOut, LogIn, GoOffline, GoOnline, Reload,
         Retry, ForgetTask, RememberTask, Remember, deviceVars, Types, DeviceTyped
    <2>2. PICK v \in 1..(MaxEdits + MaxOthers + 2) : RememberTask(t, v)
      BY <2>1
    <2>3. cache'[t] = Cached(v) /\ v \in 1..server[t].version
      BY <2>2 DEF RememberTask, Remember, Types, DeviceTyped
    <2>4. server[t].version \in Nat /\ server[t].version >= 1
      BY <2>3 DEF Types, ServerTyped, ServerTasks
    <2> QED
      BY <2>3, <2>4 DEF Cached, ServerHolds
  <1> QED
    BY <1>1, <1>2, <1>3

\* What the user gives up is told so.
LEMMA DeviceStepQuiet ==
  ASSUME Types, DeviceStep, NEW e \in quiet, fate'[e] = "accepted"
  PROVE  /\ fate[e] = "accepted"
         /\ \A t \in Tasks, k \in Kinds : queue[t][k] # None /\ e \in EditsOf(queue[t][k].input) =>
              queue'[t][k] = queue[t][k]
  <1>0. e \in Edits
    BY DEF Types, DeviceTyped
  <1>1. CASE DiscardBlockedChanges
    <2>1. fate' = Tell(UNION {EditsOf(o.input) : o \in Blocked}, "dropped")
      BY <1>1 DEF DiscardBlockedChanges
    <2>2. fate[e] = "accepted" /\ \A o \in Blocked : e \notin EditsOf(o.input)
      BY <1>0, <2>1 DEF Tell
    <2>3. queue' = [t \in Tasks |-> [k \in Kinds |-> IF queue[t][k] \in Blocked THEN None ELSE queue[t][k]]]
      BY <1>1 DEF DiscardBlockedChanges
    <2> HIDE DEF Blocked
    <2> QED
      BY <2>2, <2>3
  <1>2. CASE LogOut
    <2>1. fate' = Tell(UNION {EditsOf(o.input) : o \in Operations}, "dropped")
      BY <1>2 DEF LogOut
    <2>2. fate[e] = "accepted" /\ \A o \in Operations : e \notin EditsOf(o.input)
      BY <1>0, <2>1 DEF Tell
    <2>3. \A t \in Tasks, k \in Kinds : queue[t][k] # None => queue[t][k] \in Operations
      BY DEF Operations
    <2> QED
      BY <2>2, <2>3
  <1>3. CASE ~DiscardBlockedChanges /\ ~LogOut
    BY <1>3 DEF DeviceStep, LogIn, GoOffline, GoOnline, Reload, Retry, ForgetTask, RememberTask,
       historyVars, deviceVars
  <1> QED
    BY <1>1, <1>2, <1>3

LEMMA DeviceStepRest ==
  ASSUME Types, Types', Placed, ServerHolds, VersionsHold, ProcessesHold, Creations, QuietHolds, DeviceStep
  PROVE  Placed' /\ VersionsHold' /\ ProcessesHold' /\ Creations' /\ QuietHolds'
  <1>1. /\ Keeps /\ CallKept /\ serverVars' = serverVars /\ taken' = taken
        /\ \A t \in Tasks, k \in Kinds : queue'[t][k] = queue[t][k] \/ queue'[t][k] = None
        /\ \/ sync' = sync \/ sync' = None
           \/ sync' = PerformSync /\ queue' = queue
    BY DeviceStepKeeps DEF Keeps
  <1>2. \/ Batch' = Batch
        \/ Batch' = {}
        \/ /\ queue' = queue
           /\ \A o \in Batch' : o.task \in Tasks /\ o.kind \in Kinds /\ o = queue[o.task][o.kind]
           /\ \A t \in Tasks, k \in Kinds :
                queue[t][k] # None /\ queue[t][k].status = "pending" => queue[t][k] \in Batch'
    BY <1>1, BatchOfSync DEF Batch
  <1>3. Placed'
    <2>1. \A o, p \in Batch' : o.task = p.task /\ o.kind = p.kind => o = p
      BY <1>2 DEF Placed
    <2>2. \A t \in Tasks, k \in Kinds : queue'[t][k] # None => queue'[t][k].task = t /\ queue'[t][k].kind = k
      BY <1>1 DEF Placed
    <2> QED
      BY <1>1, <2>1, <2>2 DEF Placed, CallKept
  <1>4. VersionsHold'
    <2>1. \A t \in Tasks : cache'[t].version <= server[t].version /\ (cache'[t].cached => t \in taken)
      BY DeviceStepCache
    <2>2. sync' # None => \A t \in Tasks : sync'.versions[t] <= server[t].version
      BY <1>1, PerformTyped DEF VersionsHold, Types, ServerTyped, ServerTasks
    <2>3. sync' # None => \A o \in sync'.batch : o.kind = "update" => sync'.versions[o.task] <= 1
      <3>1. CASE sync' = PerformSync
        <4>1. \A o \in PerformSync.batch : o.task \in Tasks
          BY PerformTyped DEF Runs, Requests
        <4> QED
          BY <3>1, <4>1, PerformTyped
      <3>2. CASE sync' # PerformSync
        BY <1>1, <3>2 DEF VersionsHold
      <3> QED
        BY <3>1, <3>2
    <2> QED
      BY <1>1, <2>1, <2>2, <2>3 DEF VersionsHold, serverVars
  <1>5. ProcessesHold'
    <2>1. /\ wire'["sync"] # None => wire'["sync"] = wire["sync"] /\ sync' = sync
          /\ wire'["call"] # None => wire'["call"] = wire["call"]
          /\ call' # None /\ call'.quiet => sync' = None
          /\ quiet' = quiet /\ edits' >= edits /\ edits \in Nat /\ edits' \in Nat
      BY DeviceStepWire
    <2>2. wire'["sync"] # None =>
            sync' # None /\ sync'.batch # {} /\ SameAs(wire'["sync"].request, First(sync'.batch))
      BY <2>1 DEF ProcessesHold
    <2>3. call' # None /\ call'.phase = "sending" /\ wire'["call"] # None =>
            SameAs(wire'["call"].request, call'.operation)
      BY <1>1, <2>1 DEF ProcessesHold, CallKept
    <2>4. call' # None => \A f \in Fields : call'.operation.input[f] \notin quiet'
      BY <1>1, <2>1 DEF ProcessesHold, CallKept
    <2>5. \A e \in quiet' : e <= edits'
      BY <2>1 DEF ProcessesHold, Types, DeviceTyped, Edits
    <2> QED
      BY <2>1, <2>2, <2>3, <2>4, <2>5 DEF ProcessesHold, SameAs, First
  <1>6. Creations'
    <2>1. ASSUME NEW t \in Tasks, queue'[t]["create"] # None, queue'[t]["create"].status = "pending",
                 NEW o \in Batch', o.task = t, o.kind # "create"
          PROVE  queue'[t]["create"] \in Batch'
      <3>1. "create" \in Kinds
        BY DEF Kinds
      <3>2. queue'[t]["create"] = queue[t]["create"]
        BY <1>1, <2>1, <3>1
      <3> QED
        BY <1>2, <2>1, <3>1, <3>2 DEF Creations
    <2> QED
      BY <1>1, <2>1, KeepsOrder DEF Creations
  <1>7. QuietHolds'
    <2> SUFFICES ASSUME NEW e \in quiet', fate'[e] = "accepted", applied'[e] = 0
                 PROVE  \E t \in Tasks, f \in Fields :
                          /\ Carries(queue'[t]["update"], f, e)
                          /\ call' # None /\ call'.task = t => Carries(call'.read["update"], f, e)
                          /\ \A o \in Batch' : o.task = t /\ o.kind = "update" => o.input[f] = e
      BY DEF QuietHolds, Carries
    <2>1. e \in quiet /\ e # 0 /\ applied[e] = 0 /\ "update" \in Kinds
      BY <1>1, DeviceStepWire DEF serverVars, Types, DeviceTyped, Edits, Kinds
    <2>2. fate[e] = "accepted"
      BY <2>1, DeviceStepQuiet
    <2>3. PICK t \in Tasks, f \in Fields :
            /\ Carries(queue[t]["update"], f, e)
            /\ call # None /\ call.task = t => Carries(call.read["update"], f, e)
            /\ \A o \in Batch : o.task = t /\ o.kind = "update" => o.input[f] = e
      BY <2>1, <2>2 DEF QuietHolds
    <2>4. e \in EditsOf(queue[t]["update"].input)
      BY <2>1, <2>3 DEF EditsOf, Carries
    <2>5. queue'[t]["update"] = queue[t]["update"]
      BY <2>1, <2>3, <2>4, DeviceStepQuiet DEF Carries
    <2>6. \A o \in Batch' : o.task = t /\ o.kind = "update" => o.input[f] = e
      BY <1>2, <2>3 DEF Carries
    <2>7. call' # None /\ call'.task = t => Carries(call'.read["update"], f, e)
      BY <1>1, <2>3 DEF CallKept
    <2> QED
      BY <2>3, <2>5, <2>6, <2>7
  <1> QED
    BY <1>3, <1>4, <1>5, <1>6, <1>7

LEMMA SyncStepRest ==
  ASSUME Types, Types', Placed, RequestsHold, AnswersHold, VersionsHold, ProcessesHold, Creations,
         QuietHolds, SyncStep
  PROVE  Placed' /\ VersionsHold' /\ ProcessesHold' /\ Creations' /\ QuietHolds'
  <1>0. "sync" \in Callers /\ (wire["sync"] # None => sync # None /\ sync.batch # {})
        /\ "create" \in Kinds /\ "update" \in Kinds
    BY DEF ProcessesHold, Callers, Kinds
  <1>1. /\ Keeps /\ CallKept /\ serverVars' = serverVars /\ call' = call /\ edits' = edits /\ taken' = taken
        /\ server' = server /\ applied' = applied
        /\ \/ sync' = sync \/ sync' = None
           \/ sync # None /\ sync' # None /\ sync'.batch \subseteq sync.batch
    BY SyncStepKeeps DEF Keeps, serverVars
  <1>2. sync # None /\ sync \in Runs /\ sync.batch \subseteq Requests
    <2>1. sync # None
      BY DEF SyncStep, SendNext, SyncApplied, SyncRefused, SyncBreaks, EndSync, Syncing
    <2> QED
      BY <2>1 DEF Types, ProcessesTyped, Runs
  <1>3. Batch' \subseteq Batch
    BY <1>1, <1>2 DEF Batch
  <1>4. quiet' = quiet /\ fate' = fate
    BY DEF SyncStep, SendNext, SyncApplied, SyncRefused, SyncBreaks, EndSync, historyVars
  <1> DEFINE o == First(sync.batch)
             Removed == /\ queue' = Delete(queue, o.task, o.kind) /\ sync'.batch = sync.batch \ {o}
                        /\ sync' # None /\ SyncApplied
             Marked(x) == /\ queue' = Put(queue, x) /\ sync'.batch = sync.batch \ {o} /\ sync' # None
                          /\ x \in Requests /\ x.kind = o.kind /\ x.task = o.task
                          /\ x.input = o.input /\ x.status # "pending"
  <1>5. \/ queue' = queue /\ (Batch' = Batch \/ Batch' = {})
        \/ o \in sync.batch /\ o \in Requests /\ Removed
        \/ o \in sync.batch /\ o \in Requests /\ \E x \in Requests : Marked(x)
    <2>1. CASE SyncApplied
      <3>1. sync.batch # {}
        BY <1>0, <2>1 DEF SyncApplied, Ok
      <3>2. /\ o \in sync.batch /\ o \in Requests /\ sync' \in Runs
            /\ queue' = Delete(queue, o.task, o.kind) /\ sync'.batch = sync.batch \ {o}
        BY <2>1, <3>1, SyncAppliedEffect
      <3> QED
        BY <2>1, <3>2, NoneIsNoRequest
    <2>2. CASE SyncRefused
      <3>1. sync.batch # {}
        BY <1>0, <2>2 DEF SyncRefused, Refused
      <3> DEFINE x == Settled(o, wire["sync"].answer.status)
      <3>2. /\ o \in sync.batch /\ o \in Requests
            /\ x \in Requests /\ x.kind = o.kind /\ x.task = o.task /\ x.input = o.input
            /\ x.status # "pending" /\ queue' = Put(queue, x)
            /\ sync' \in Runs /\ sync'.batch = sync.batch \ {o}
        BY <2>2, <3>1, SyncRefusedEffect
      <3> HIDE DEF x, o
      <3> QED
        BY <3>2, NoneIsNoRequest
    <2>3. CASE ~SyncApplied /\ ~SyncRefused
      BY <2>3 DEF SyncStep, SendNext, SyncBreaks, Stopped, EndSync, deviceVars, Batch
    <2> QED
      BY <2>1, <2>2, <2>3
  <1>6. queue \in [Tasks -> [Kinds -> {None} \cup Requests]]
    BY DEF Types, DeviceTyped
  <1>7. \/ queue' = queue /\ (Batch' = Batch \/ Batch' = {})
        \/ /\ Removed /\ o \in sync.batch /\ o \in Requests
           /\ queue'[o.task][o.kind] = None
           /\ \A t \in Tasks, k \in Kinds : t # o.task \/ k # o.kind => queue'[t][k] = queue[t][k]
        \/ /\ o \in sync.batch /\ o \in Requests
           /\ \E x \in Requests : Marked(x) /\ queue'[o.task][o.kind] = x
           /\ \A t \in Tasks, k \in Kinds : t # o.task \/ k # o.kind => queue'[t][k] = queue[t][k]
    <2>1. CASE queue' = queue /\ (Batch' = Batch \/ Batch' = {})
      BY <2>1
    <2>2. CASE o \in sync.batch /\ o \in Requests /\ Removed
      <3> HIDE DEF o
      <3>1. o.task \in Tasks /\ o.kind \in Kinds
        BY <2>2 DEF Requests
      <3>2. /\ Delete(queue, o.task, o.kind)[o.task][o.kind] = None
            /\ \A t \in Tasks, k \in Kinds : t # o.task \/ k # o.kind =>
                 Delete(queue, o.task, o.kind)[t][k] = queue[t][k]
        BY <1>6, <3>1, DeleteEffect
      <3>3. queue' = Delete(queue, o.task, o.kind)
        BY <2>2
      <3> QED
        BY <2>2, <3>2, <3>3
    <2>3. CASE o \in sync.batch /\ o \in Requests /\ \E x \in Requests : Marked(x)
      <3> HIDE DEF o
      <3>1. PICK x \in Requests : Marked(x)
        BY <2>3
      <3>2. /\ Put(queue, x)[x.task][x.kind] = x
            /\ \A t \in Tasks, k \in Kinds : t # x.task \/ k # x.kind => Put(queue, x)[t][k] = queue[t][k]
        BY <1>6, PutEffect
      <3> QED
        BY <2>3, <3>1, <3>2
    <2> QED
      BY <1>5, <2>1, <2>2, <2>3
  <1> HIDE DEF o
  <1>8. Placed'
    <2>1. \A p, q \in Batch' : p.task = q.task /\ p.kind = q.kind => p = q
      BY <1>3 DEF Placed
    <2>2. \A t \in Tasks, k \in Kinds : queue'[t][k] # None => queue'[t][k].task = t /\ queue'[t][k].kind = k
      BY <1>7 DEF Placed
    <2> QED
      BY <1>1, <2>1, <2>2 DEF Placed
  <1>9. Creations'
    <2>1. ASSUME NEW t \in Tasks, queue'[t]["create"] # None, queue'[t]["create"].status = "pending",
                 NEW p \in Batch', p.task = t, p.kind # "create"
          PROVE  queue'[t]["create"] \in Batch'
      <3>1. p \in Batch
        BY <1>3
      <3>2. CASE queue' = queue /\ Batch' = Batch
        BY <2>1, <3>1, <3>2 DEF Creations
      <3>3. CASE /\ o \in sync.batch /\ sync'.batch = sync.batch \ {o} /\ sync' # None
                 /\ queue'[o.task][o.kind] = None \/ queue'[o.task][o.kind].status # "pending"
                 /\ \A u \in Tasks, k \in Kinds : u # o.task \/ k # o.kind => queue'[u][k] = queue[u][k]
        <4>1. t # o.task \/ "create" # o.kind
          BY <2>1, <3>3
        <4>2. queue'[t]["create"] = queue[t]["create"]
          BY <1>0, <3>3, <4>1
        <4>3. queue[t]["create"] \in Batch
          BY <2>1, <3>1, <4>2 DEF Creations
        <4>4. queue[t]["create"].task = t /\ queue[t]["create"].kind = "create"
          BY <1>0, <2>1, <4>2 DEF Placed
        <4>5. queue[t]["create"] # o
          BY <4>1, <4>4
        <4> QED
          BY <1>2, <3>3, <4>2, <4>3, <4>5 DEF Batch
      <3> QED
        BY <1>7, <3>2, <3>3
    <2> QED
      BY <1>1, <2>1, KeepsOrder DEF Creations
  <1>10. QuietHolds'
    <2> SUFFICES ASSUME NEW e \in quiet', fate'[e] = "accepted", applied'[e] = 0
                 PROVE  \E t \in Tasks, f \in Fields :
                          /\ Carries(queue'[t]["update"], f, e)
                          /\ call' # None /\ call'.task = t => Carries(call'.read["update"], f, e)
                          /\ \A p \in Batch' : p.task = t /\ p.kind = "update" => p.input[f] = e
      BY DEF QuietHolds, Carries
    <2>1. e \in quiet /\ fate[e] = "accepted" /\ applied[e] = 0 /\ e # 0
      BY <1>1, <1>4 DEF Types, DeviceTyped, Edits
    <2>2. PICK t \in Tasks, f \in Fields :
            /\ Carries(queue[t]["update"], f, e)
            /\ call # None /\ call.task = t => Carries(call.read["update"], f, e)
            /\ \A p \in Batch : p.task = t /\ p.kind = "update" => p.input[f] = e
      BY <2>1 DEF QuietHolds
    <2>3. Carries(queue'[t]["update"], f, e)
      <3>1. CASE queue'[t]["update"] = queue[t]["update"]
        BY <2>2, <3>1
      <3>2. CASE queue'[t]["update"] # queue[t]["update"]
        <4>1. o \in sync.batch /\ o \in Requests /\ o.task = t /\ o.kind = "update"
          BY <1>0, <1>7, <3>2
        <4>2. o.input[f] = e
          BY <1>2, <2>2, <4>1 DEF Batch
        <4>3. ~Removed
          <5> SUFFICES ASSUME SyncApplied PROVE FALSE
            OBVIOUS
          <5>1. wire["sync"] # None /\ wire["sync"].answer.status = "ok"
            BY DEF SyncApplied, Ok
          <5>2. SameAs(wire["sync"].request, o) /\ Answer(wire["sync"].request, wire["sync"].answer.version)
            BY <1>0, <5>1 DEF ProcessesHold, AnswersHold, o
          <5>3. e \in EditsOf(o.input)
            BY <2>1, <4>2 DEF EditsOf
          <5>4. applied[e] > 0
            BY <5>2, <5>3 DEF Answer, EditsApplied, SameAs
          <5> QED
            BY <2>1, <5>4
        <4>4. PICK x \in Requests : Marked(x) /\ queue'[o.task][o.kind] = x
          BY <1>0, <1>7, <3>2, <4>3
        <4> QED
          BY <4>1, <4>2, <4>4, NoneIsNoRequest DEF Carries
      <3> QED
        BY <3>1, <3>2
    <2> QED
      BY <1>1, <1>3, <2>2, <2>3
  <1>11. wire'["call"] = wire["call"]
         /\ (wire'["sync"] # None => SendNext)
    <2>1. "call" \in Callers
      BY DEF Callers
    <2>2. CASE SendNext
      BY <1>0, <2>1, <2>2 DEF SendNext, Send, Types, ProcessesTyped
    <2>3. CASE ~SendNext
      BY <1>0, <2>1, <2>3 DEF SyncStep, SyncApplied, SyncRefused, SyncBreaks, EndSync, Answered,
         NetworkFailure, networkVars, Types, ProcessesTyped
    <2> QED
      BY <2>2, <2>3
  <1>12. ProcessesHold'
    <2>1. SendNext => /\ sync' = sync /\ sync.batch # {}
                      /\ SameAs(wire'["sync"].request, First(sync.batch))
      <3> SUFFICES ASSUME SendNext
                   PROVE  sync' = sync /\ sync.batch # {} /\ SameAs(wire'["sync"].request, First(sync.batch))
        OBVIOUS
      <3> DEFINE n == ExpectedVersion(o)
                 x == [o EXCEPT !.expected = n]
      <3>1. sync' = sync /\ sync.batch # {} /\ wire'["sync"].request = x
        BY <1>0 DEF SendNext, Send, Types, ProcessesTyped, o
      <3>2. o \in Requests
        BY <1>2, <3>1, FirstIsLeast DEF o
      <3>3. SameAs(x, o)
        <4> HIDE DEF n
        <4> QED
          BY <3>2 DEF SameAs, Requests
      <3> QED
        BY <3>1, <3>3 DEF o
    <2>2. wire'["sync"] # None =>
            sync' # None /\ sync'.batch # {} /\ SameAs(wire'["sync"].request, First(sync'.batch))
      BY <1>2, <1>11, <2>1
    <2>3. call' # None => ~call'.quiet
      BY <1>1, <1>2 DEF ProcessesHold, Types, ProcessesTyped, Calls
    <2> QED
      BY <1>1, <1>4, <1>11, <2>2, <2>3 DEF ProcessesHold, SameAs, First
  <1>13. VersionsHold'
    <2>1. CASE SyncApplied
      <3> DEFINE version == wire["sync"].answer.version
      <3>1. sync.batch # {} /\ wire["sync"] # None /\ wire["sync"].answer.status = "ok"
        BY <1>0, <2>1 DEF SyncApplied, Ok
      <3>2. /\ o \in sync.batch /\ o \in Requests /\ version \in Nat /\ sync' \in Runs
            /\ cache' = [cache EXCEPT ![o.task] = IF o.kind = "delete" THEN NotCached ELSE Cached(version)]
            /\ sync'.batch = sync.batch \ {o}
            /\ \A t \in Tasks :
                 sync'.versions[t] = IF t = o.task /\ o.kind # "delete" THEN version ELSE sync.versions[t]
        BY <2>1, <3>1, SyncAppliedEffect DEF o
      <3>3. SameAs(wire["sync"].request, o) /\ Answer(wire["sync"].request, version)
        BY <1>0, <3>1 DEF ProcessesHold, AnswersHold, o
      <3>4. version <= server[o.task].version /\ (o.kind = "create" => version = 1)
        BY <3>3 DEF Answer, SameAs
      <3>5. o.task \in Tasks /\ o.task \in taken
        BY <1>2, <3>2 DEF Requests, RequestsHold, Held, Kept, Batch, Good
      <3> HIDE DEF version
      <3>6. \A t \in Tasks :
              \/ cache'[t] = cache[t]
              \/ t = o.task /\ (cache'[t] = NotCached \/ cache'[t] = Cached(version))
        <4>1. cache \in [Tasks -> [version : Nat, cached : BOOLEAN]]
          BY DEF Types, DeviceTyped
        <4> QED
          BY <3>2, <3>5, <4>1
      <3>7. \A t \in Tasks : server[t].version \in Nat
        BY DEF Types, ServerTyped, ServerTasks
      <3>8. \A t \in Tasks : cache'[t].version <= server[t].version /\ (cache'[t].cached => t \in taken)
        BY <3>4, <3>5, <3>6, <3>7 DEF VersionsHold, NotCached, Cached
      <3>9. \A t \in Tasks : sync'.versions[t] <= server[t].version
        BY <1>2, <3>2, <3>4 DEF VersionsHold
      <3>10. ASSUME NEW p \in sync'.batch, p.kind = "update" PROVE sync'.versions[p.task] <= 1
        <4>1. p \in sync.batch /\ p # o /\ p.task \in Tasks
          BY <1>2, <3>2, <3>10 DEF Requests
        <4>2. p.task = o.task => o.kind # "update"
          BY <1>2, <3>2, <3>10, <4>1 DEF Placed, Batch
        <4>3. o.kind \in {"create", "update", "delete"}
          BY <3>2 DEF Requests, Kinds
        <4>4. sync.versions[p.task] <= 1
          BY <1>2, <3>10, <4>1 DEF VersionsHold
        <4> QED
          BY <3>2, <3>4, <4>1, <4>2, <4>3, <4>4
      <3> QED
        BY <1>1, <3>8, <3>9, <3>10 DEF VersionsHold
    <2>2. CASE ~SyncApplied
      <3>1. cache' = cache
        BY <2>2 DEF SyncStep, SendNext, SyncRefused, SyncBreaks, EndSync, deviceVars
      <3>2. sync' # None => sync'.versions = sync.versions /\ sync'.batch \subseteq sync.batch
        <4>1. CASE SyncRefused
          <5>1. sync.batch # {}
            BY <1>0, <4>1 DEF SyncRefused, Refused
          <5> QED
            BY <4>1, <5>1, SyncRefusedEffect
        <4>2. CASE ~SyncRefused
          BY <2>2, <4>2 DEF SyncStep, SendNext, SyncBreaks, Stopped, EndSync
        <4> QED
          BY <4>1, <4>2
      <3> QED
        BY <1>1, <1>2, <3>1, <3>2 DEF VersionsHold
    <2> QED
      BY <2>1, <2>2
  <1> QED
    BY <1>8, <1>9, <1>10, <1>12, <1>13

-----------------------------------------------------------------------------
(* Calls *)

\* A call begins with an edit nothing has yet, at a base the server has had.
LEMMA BeginHolds ==
  ASSUME IInv, Types', NEW o \in Requests, NEW direct \in BOOLEAN, Begin(o, direct),
         edits' >= edits, taken \subseteq taken',
         keys' + Due' <= 2 * edits' + Cardinality(taken'),
         o.task \in taken', o.expected <= server[o.task].version, o.kind # "update" => o.input = NoInput,
         \A f \in Fields : o.input[f] # 0 => o.input[f] = edits + 1 /\ edits' = edits + 1,
         \A f, g \in Fields : o.input[f] # 0 /\ o.input[g] # 0 => f = g,
         direct /\ o.kind = "update" => queue[o.task]["update"] = None,
         o.kind = "create" => o.task \notin taken
  PROVE  IInv'
  <1>1. PICK sent \in Requests :
        /\ sent = [o EXCEPT !.key = keys + 1] /\ call = None /\ call' \in Calls
        /\ keys' = IF direct \/ o.kind = "create" THEN keys + 1 ELSE keys
        /\ call'.kind = o.kind /\ call'.task = o.task /\ call'.operation = sent
        /\ call'.read = queue[o.task] /\ (call'.quiet => sync = None)
        /\ call'.phase = IF direct THEN "sending" ELSE "queueing"
        /\ direct => wire' = [wire EXCEPT !["call"] = [request |-> sent, answer |-> NoAnswer]]
        /\ ~direct => wire' = wire
        /\ late' = late /\ sync' = sync /\ serverVars' = serverVars /\ historyVars' = historyVars
        /\ deviceVars' = deviceVars
    <2> DEFINE y == [o EXCEPT !.key = keys + 1]
    <2>1. /\ y \in Requests /\ call = None /\ call' \in Calls
          /\ keys' = IF direct \/ o.kind = "create" THEN keys + 1 ELSE keys
          /\ call'.kind = o.kind /\ call'.task = o.task /\ call'.operation = y
          /\ call'.read = queue[o.task] /\ (call'.quiet => sync = None)
          /\ call'.phase = IF direct THEN "sending" ELSE "queueing"
          /\ direct => wire' = [wire EXCEPT !["call"] = [request |-> y, answer |-> NoAnswer]]
          /\ ~direct => wire' = wire
          /\ late' = late /\ sync' = sync /\ serverVars' = serverVars /\ historyVars' = historyVars
          /\ deviceVars' = deviceVars
      BY BeginEffect DEF IInv
    <2> QED
      BY <2>1
  <1>2. /\ sent.kind = o.kind /\ sent.task = o.task /\ sent.input = o.input /\ sent.expected = o.expected
        /\ sent.key = keys + 1
    BY <1>1 DEF Requests
  <1>3. /\ queue' = queue /\ cache' = cache /\ fate' = fate /\ quiet' = quiet /\ sync' = sync
        /\ server' = server /\ saved' = saved /\ applied' = applied
    BY <1>1 DEF deviceVars, historyVars, serverVars
  <1>4. /\ edits \in Nat /\ edits' \in Nat /\ edits' <= MaxEdits /\ keys \in Nat
        /\ o.task \in Tasks /\ o.kind \in {"create", "update", "delete"} /\ o.input \in Inputs
        /\ Types
    BY QueueAssumption DEF Types, DeviceTyped, Requests, Kinds, IInv
  <1>5. Operations' = Operations /\ Batch' = Batch /\ Called' = {sent} /\ Read = {}
        /\ Read' \subseteq Operations
    <2>1. call' # None /\ o.task \in Tasks
      BY <1>1, <1>4, NoneIsNoRequest
    <2>2. Read' \subseteq Operations
      BY <1>1, <1>4, <2>1 DEF Read, ReadOf, Operations
    <2>3. Operations' = Operations /\ Batch' = Batch
      BY <1>3 DEF Operations, Batch
    <2>4. Called' = {sent} /\ Read = {}
      BY <1>1, <2>1 DEF Called, Read, ReadOf
    <2> QED
      BY <2>2, <2>3, <2>4
  <1>6. Kept' \subseteq Kept
    BY <1>5 DEF Kept
  <1>7. (~direct => Asked' = Asked) /\ Asked' \subseteq Asked \cup {sent}
    <2>1. CASE direct
      BY <1>1, <2>1 DEF Asked, Types, ProcessesTyped, IInv
    <2>2. CASE ~direct
      BY <1>1, <2>2 DEF Asked
    <2> QED
      BY <2>1, <2>2
  <1>8. \A r \in Held' : r \in Held \/ r = sent
    BY <1>5, <1>6, <1>7 DEF Held
  <1>9. Held \subseteq Requests /\ \A r \in Held : Good(r)
    BY HeldTyped DEF Held, Kept, IInv
  <1>10. Grows /\ ServerHolds' /\ AppliedHolds'
    BY <1>1, <1>4, ServerStays DEF IInv
  <1>11. Placed'
    <2>1. \A k \in Kinds : call'.read[k] # None => call'.read[k].task = call'.task /\ call'.read[k].kind = k
      BY <1>1, <1>4 DEF IInv, Placed
    <2> QED
      BY <1>1, <1>2, <1>3, <1>5, <2>1 DEF IInv, Placed
  <1>12. KeysHold'
    <2>1. \A r \in Kept \cup Asked : r.key \in 1..keys
      BY DEF IInv, KeysHold
    <2>2. \A r \in Kept' \cup Asked' : r.key \in 1..keys'
      <3>1. CASE direct
        <4>1. keys' = keys + 1 /\ sent.key = keys + 1
          BY <1>1, <1>2, <3>1
        <4>2. \A r \in Kept' \cup Asked' : r \in Kept \cup Asked \/ r = sent
          BY <1>6, <1>7
        <4> QED
          BY <1>4, <2>1, <4>1, <4>2
      <3>2. CASE ~direct
        BY <1>1, <1>4, <1>6, <1>7, <2>1, <3>2
      <3> QED
        BY <3>1, <3>2
    <2>3. call'.kind = "create" => call'.operation.key \in 1..keys'
      BY <1>1, <1>2, <1>4
    <2> QED
      BY <2>2, <2>3 DEF KeysHold
  <1>13. \A r \in Held : \A f \in Fields : r.input[f] \in Nat /\ r.input[f] <= edits
    BY <1>4, <1>9 DEF Good, Requests, Inputs
  <1>14. \A r \in Held' : Good(r)'
    <2>1. \A r \in Held : Good(r)'
      BY <1>3, <1>4, <1>9, GoodStays
    <2>2. Good(sent)'
      <3>1. ASSUME NEW f \in Fields, sent.input[f] # 0
            PROVE  /\ sent.input[f] <= edits' /\ Stale(sent, f)'
                   /\ applied'[sent.input[f]] > 0 => server'[sent.task].mine[f] >= sent.input[f]
        <4>1. sent.input[f] = edits + 1 /\ edits' = edits + 1 /\ edits + 1 \in Edits
          BY <1>2, <1>4, <3>1 DEF Edits
        <4>2. server[sent.task].mine[f] <= edits /\ server[sent.task].mine[f] \in Nat
          BY <1>2, <1>4 DEF IInv, ServerHolds, Types, ServerTyped, ServerTasks, Inputs
        <4>3. ~(server[sent.task].mine[f] >= sent.input[f])
          BY <1>4, <4>1, <4>2
        <4>4. ~(applied[sent.input[f]] > 0)
          BY <1>4, <4>1 DEF IInv, AppliedHolds
        <4> QED
          BY <1>3, <1>4, <4>1, <4>3, <4>4 DEF Stale
      <3> QED
        BY <1>2, <1>3, <3>1 DEF Good
    <2> QED
      BY <1>8, <2>1, <2>2
  <1>15. OneHome'
    <2> SUFFICES ASSUME NEW r \in Held', NEW s \in Held', NEW f \in Fields, NEW g \in Fields,
                        r.input[f] # 0, r.input[f] = s.input[g]
                 PROVE  r.task = s.task /\ f = g
      BY DEF OneHome
    <2>1. \A h \in Fields : sent.input[h] # 0 => sent.input[h] > edits
      BY <1>2, <1>4
    <2>2. \A h, i \in Fields : sent.input[h] # 0 /\ sent.input[i] # 0 => h = i
      BY <1>2
    <2>3. CASE r \in Held /\ s \in Held
      BY <2>3 DEF IInv, OneHome
    <2>4. CASE r = sent /\ s = sent
      BY <2>2, <2>4
    <2>5. CASE r = sent /\ s \in Held
      BY <1>4, <1>13, <2>1, <2>5
    <2>6. CASE r \in Held /\ s = sent
      BY <1>4, <1>13, <2>1, <2>6
    <2> QED
      BY <1>8, <2>3, <2>4, <2>5, <2>6
  <1>16. FreshEdit'
    <2> SUFFICES ASSUME call'.kind = "update", call'.read["update"] # None
                 PROVE  /\ call'.phase = "queueing"
                        /\ \A f \in Fields : call'.operation.input[f] # 0 =>
                             /\ server'[call'.task].mine[f] < call'.operation.input[f]
                             /\ \A r \in Kept' \cup Asked' : r.input[f] < call'.operation.input[f]
      BY DEF FreshEdit
    <2>1. ~direct
      BY <1>1
    <2>2. Kept' \cup Asked' \subseteq Held
      BY <1>6, <1>7, <2>1 DEF Held
    <2>3. ASSUME NEW f \in Fields, sent.input[f] # 0
          PROVE  /\ server[o.task].mine[f] < sent.input[f]
                 /\ \A r \in Kept' \cup Asked' : r.input[f] < sent.input[f]
      <3>1. sent.input[f] = edits + 1
        BY <1>2, <2>3
      <3>2. server[o.task].mine[f] <= edits /\ server[o.task].mine[f] \in Nat
        BY <1>4 DEF IInv, ServerHolds, Types, ServerTyped, ServerTasks, Inputs
      <3>3. \A r \in Kept' \cup Asked' : r.input[f] \in Nat /\ r.input[f] <= edits
        BY <1>13, <2>2
      <3> QED
        BY <1>4, <3>1, <3>2, <3>3
    <2> QED
      BY <1>1, <1>3, <2>1, <2>3
  <1>17. AnswersHold'
    <2>1. \A w \in Callers : wire'[w] = wire[w] \/ wire'[w].answer = NoAnswer
      BY <1>1 DEF IInv, Types, ProcessesTyped
    <2> QED
      BY <1>1, <2>1, AnswersStay DEF IInv
  <1>18. VersionsHold'
    BY <1>3 DEF IInv, VersionsHold
  <1>19. ProcessesHold'
    <2>1. wire'["sync"] = wire["sync"] /\ (direct => wire'["call"].request = sent)
      BY <1>1 DEF IInv, Types, ProcessesTyped, Callers
    <2>2. \A f \in Fields : sent.input[f] \notin quiet
      <3>1. \A e \in quiet : e \in Nat /\ e # 0 /\ e <= edits
        BY QueueAssumption DEF IInv, ProcessesHold, Types, DeviceTyped, Edits
      <3> QED
        BY <1>2, <1>4, <3>1
    <2>3. \A e \in quiet : e <= edits'
      BY <1>4, QueueAssumption DEF IInv, ProcessesHold, Types, DeviceTyped, Edits
    <2>4. call'.phase = "sending" => SameAs(wire'["call"].request, call'.operation)
      BY <1>1, <2>1 DEF SameAs
    <2> QED
      BY <1>1, <1>3, <2>1, <2>2, <2>3, <2>4 DEF IInv, ProcessesHold, First
  <1>20. Creations'
    <2>1. \A r \in Kept' : r.kind # "create" =>
            r.task \in taken' /\ (call'.kind = "create" => call'.task # r.task)
      BY <1>1, <1>6 DEF IInv, Creations
    <2>2. \A r, s \in Kept' : r.kind = "create" /\ s.kind # "create" /\ r.task = s.task => r.key < s.key
      BY <1>6 DEF IInv, Creations
    <2> QED
      BY <1>3, <1>5, <2>1, <2>2 DEF IInv, Creations
  <1>21. QuietHolds'
    BY <1>1, <1>3, <1>5 DEF IInv, QuietHolds, Carries
  <1> QED
    BY <1>10, <1>11, <1>12, <1>14, <1>15, <1>16, <1>17, <1>18, <1>19, <1>20, <1>21 DEF IInv

LEMMA TakenGrows ==
  ASSUME Types, NEW t \in Tasks, t \notin taken
  PROVE  Cardinality(taken \cup {t}) = Cardinality(taken) + 1 /\ Cardinality(taken) \in Nat
  BY QueueAssumption, FS_Subset, FS_AddElement, FS_CardinalityType DEF Types, DeviceTyped

LEMMA BeginsHold ==
  ASSUME IInv, Types', NEW t \in Tasks,
         BeginCreate(t) \/ BeginDelete(t) \/ \E f \in Fields : BeginUpdate(t, f)
  PROVE  IInv'
  <1>0. /\ Types /\ edits \in Nat /\ keys \in Nat /\ Cardinality(taken) \in Nat /\ online \in BOOLEAN
        /\ server[t].version \in Nat /\ cache[t].version \in Nat /\ cache[t].cached \in BOOLEAN
    <2>1. Cardinality(taken) \in Nat
      BY QueueAssumption, FS_Subset, FS_CardinalityType DEF IInv, Types, DeviceTyped
    <2> QED
      BY <2>1, QueueAssumption
      DEF IInv, Types, ServerTyped, DeviceTyped, ProcessesTyped, ServerTasks
  <1>1. call = None => keys <= 2 * edits + Cardinality(taken)
    BY <1>0 DEF IInv, KeysHold, Due
  <1>2. cache[t].version <= server[t].version /\ (cache[t].cached => t \in taken)
    BY DEF IInv, VersionsHold
  <1>3. "create" \in Kinds /\ "delete" \in Kinds /\ "update" \in Kinds
    BY DEF Kinds
  <1>4. CASE BeginCreate(t)
    <2> DEFINE o == Operation(t, "create", 0, NoInput, 0)
    <2>1. o \in Requests /\ o.kind = "create" /\ o.task = t /\ o.input = NoInput /\ o.expected = 0
      BY <1>3, OperationTyped, InputTyped
    <2>2. Begin(o, online) /\ t \notin taken /\ taken' = taken \cup {t} /\ edits' = edits
      BY <1>4 DEF BeginCreate
    <2> HIDE DEF o
    <2>3. call = None /\ keys' = keys + 1 /\ call'.kind = "create"
      BY <1>0, <2>1, <2>2, BeginEffect
    <2>4. Due' = 0
      BY <2>3 DEF Due
    <2>5. keys' + Due' <= 2 * edits' + Cardinality(taken')
      BY <1>0, <1>1, <2>2, <2>3, <2>4, TakenGrows
    <2>6. \A f \in Fields : o.input[f] = 0
      BY <2>1 DEF NoInput
    <2>7. /\ edits' >= edits /\ taken \subseteq taken' /\ o.task \in taken' /\ o.task \notin taken
          /\ o.expected <= server[o.task].version /\ o.kind # "update" /\ online \in BOOLEAN
          /\ \A f \in Fields : o.input[f] # 0 => o.input[f] = edits + 1 /\ edits' = edits + 1
          /\ \A f, g \in Fields : o.input[f] # 0 /\ o.input[g] # 0 => f = g
      BY <1>0, <2>1, <2>2, <2>6
    <2> QED
      BY <2>1, <2>2, <2>5, <2>7, BeginHolds
  <1>5. CASE BeginDelete(t)
    <2> DEFINE o == Operation(t, "delete", 0, NoInput, cache[t].version)
               d == online /\ queue[t]["create"] = None /\ queue[t]["update"] = None
    <2>1. /\ o \in Requests /\ o.kind = "delete" /\ o.task = t /\ o.input = NoInput
          /\ o.expected = cache[t].version
      BY <1>0, <1>3, OperationTyped, InputTyped
    <2>2. Begin(o, d) /\ Shown(t) /\ taken' = taken /\ edits' = edits + 1 /\ d \in BOOLEAN
      BY <1>5 DEF BeginDelete
    <2> HIDE DEF o, d
    <2>3. call = None /\ keys' \in {keys, keys + 1}
      BY <1>0, <2>1, <2>2, BeginEffect
    <2>4. Due' \in {0, 1}
      BY DEF Due
    <2>5. keys' + Due' <= 2 * edits' + Cardinality(taken')
      BY <1>0, <1>1, <2>2, <2>3, <2>4
    <2>6. \A f \in Fields : o.input[f] = 0
      BY <2>1 DEF NoInput
    <2>7. t \in taken
      BY <1>2, <2>2 DEF Shown
    <2>8. edits' >= edits
      BY <1>0, <2>2
    <2> QED
      BY <1>2, <2>1, <2>2, <2>5, <2>6, <2>7, <2>8, BeginHolds
  <1>6. ASSUME NEW f \in Fields, BeginUpdate(t, f) PROVE IInv'
    <2> DEFINE o == Operation(t, "update", 0, Input(f, edits + 1), cache[t].version)
               d == online /\ ~TaskHasOutbox(t)
    <2>0. Input(f, edits + 1) \in Inputs /\ \A g \in Fields : Input(f, edits + 1)[g] = IF g = f THEN edits + 1 ELSE 0
      BY <1>0, InputTyped
    <2>1. /\ o \in Requests /\ o.kind = "update" /\ o.task = t /\ o.input = Input(f, edits + 1)
          /\ o.expected = cache[t].version
      BY <1>0, <1>3, <2>0, OperationTyped
    <2>2. Begin(o, d) /\ Shown(t) /\ taken' = taken /\ edits' = edits + 1 /\ d \in BOOLEAN
      BY <1>6 DEF BeginUpdate
    <2>3. d => queue[t]["update"] = None
      BY <1>3 DEF TaskHasOutbox
    <2> HIDE DEF o, d
    <2>4. call = None /\ keys' \in {keys, keys + 1}
      BY <1>0, <2>1, <2>2, BeginEffect
    <2>5. Due' \in {0, 1}
      BY DEF Due
    <2>6. keys' + Due' <= 2 * edits' + Cardinality(taken')
      BY <1>0, <1>1, <2>2, <2>4, <2>5
    <2>7. /\ \A g \in Fields : o.input[g] # 0 => o.input[g] = edits + 1 /\ edits' = edits + 1
          /\ \A g, h \in Fields : o.input[g] # 0 /\ o.input[h] # 0 => g = h
      BY <2>0, <2>1, <2>2
    <2>8. t \in taken
      BY <1>2, <2>2 DEF Shown
    <2>9. edits' >= edits
      BY <1>0, <2>2
    <2> QED
      BY <1>2, <2>1, <2>2, <2>3, <2>6, <2>7, <2>8, <2>9, BeginHolds
  <1> QED
    BY <1>4, <1>5, <1>6

\* A request that may be added to the queue.
MayBeQueued(x) ==
  /\ Good(x) /\ x.key \in 1..keys'
  /\ \A f \in Fields : x.input[f] # 0 =>
       \E s \in Held : s.task = x.task /\ s.input[f] = x.input[f]
  /\ x.kind # "create" => \A r \in Kept : r.kind = "create" /\ r.task = x.task => r.key < x.key
  /\ x.kind = "create" => \A r \in Kept : r.kind # "create" => r.task # x.task

\* What a call leaves in the queue.
LEMMA QueueHolds ==
  ASSUME IInv, Types', call # None, call' = None,
         UNCHANGED <<serverVars, networkVars, sync, edits, taken>>,
         NEW x \in Requests, \A r \in Kept' : r \in Kept \/ (r = x /\ MayBeQueued(x)),
         keys' >= keys, keys' <= keys + Due,
         \A t \in Tasks, k \in Kinds :
           \/ queue'[t][k] = queue[t][k] \/ queue'[t][k] = None
           \/ queue'[t][k] = x /\ x.task = t /\ x.kind = k /\ MayBeQueued(x),
         \A t \in Tasks :
           \/ cache'[t] = cache[t]
           \/ cache'[t].version = 0 /\ (cache'[t].cached => t \in taken),
         quiet' \subseteq quiet \cup EditsOf(call.operation.input),
         QuietHolds'
  PROVE  IInv'
  <1>1. /\ server' = server /\ saved' = saved /\ applied' = applied /\ wire' = wire /\ late' = late
        /\ sync' = sync /\ edits' = edits /\ taken' = taken /\ serverVars' = serverVars
    BY DEF serverVars, networkVars
  <1>2. /\ Types /\ edits \in Nat /\ keys \in Nat /\ Cardinality(taken) \in Nat /\ keys' \in Nat
        /\ "create" \in Kinds
    <2>1. Cardinality(taken) \in Nat
      BY QueueAssumption, FS_Subset, FS_CardinalityType DEF IInv, Types, DeviceTyped
    <2> QED
      BY <2>1, QueueAssumption DEF IInv, Types, DeviceTyped, Kinds
  <1>3. Asked' = Asked /\ Batch' = Batch /\ Called' = {} /\ Due' = 0
    BY <1>1 DEF Asked, Batch, Called, Due
  <1>4. \A r \in Held' : r \in Held \/ (r = x /\ MayBeQueued(x))
    BY <1>3 DEF Held
  <1>5. Held \subseteq Requests /\ \A r \in Held : Good(r)
    BY <1>2, HeldTyped DEF Held, Kept, IInv
  <1>6. ServerHolds' /\ AppliedHolds'
    BY <1>1, <1>2, ServerStays DEF IInv
  <1>7. \A r \in Held' : Good(r)'
    BY <1>1, <1>2, <1>4, <1>5, GoodStays DEF MayBeQueued
  <1>8. OneHome'
    <2>1. \A r \in Held' : \A f \in Fields : r.input[f] # 0 =>
            \E s \in Held : s.task = r.task /\ s.input[f] = r.input[f]
      BY <1>4 DEF MayBeQueued
    <2> SUFFICES ASSUME NEW r \in Held', NEW s \in Held', NEW f \in Fields, NEW g \in Fields,
                        r.input[f] # 0, r.input[f] = s.input[g]
                 PROVE  r.task = s.task /\ f = g
      BY DEF OneHome
    <2>2. PICK a \in Held : a.task = r.task /\ a.input[f] = r.input[f]
      BY <2>1
    <2>3. PICK b \in Held : b.task = s.task /\ b.input[g] = s.input[g]
      BY <2>1
    <2> QED
      BY <2>2, <2>3 DEF IInv, OneHome
  <1>9. Placed'
    <2>1. \A t \in Tasks, k \in Kinds : queue'[t][k] # None => queue'[t][k].task = t /\ queue'[t][k].kind = k
      BY DEF IInv, Placed
    <2> QED
      BY <1>3, <2>1 DEF IInv, Placed
  <1>10. KeysHold'
    <2>1. keys + Due <= 2 * edits + Cardinality(taken) /\ Due \in Nat
      BY DEF IInv, KeysHold, Due
    <2>2. keys' + Due' <= 2 * edits' + Cardinality(taken')
      BY <1>1, <1>2, <1>3, <2>1
    <2>3. \A r \in Kept \cup Asked : r.key \in 1..keys
      BY DEF IInv, KeysHold
    <2>4. \A r \in Kept' \cup Asked' : r.key \in 1..keys'
      <3>1. \A r \in Kept' \cup Asked' : r \in Kept \cup Asked \/ r.key \in 1..keys'
        BY <1>3 DEF MayBeQueued
      <3> QED
        BY <1>2, <2>3, <3>1
    <2> QED
      BY <2>2, <2>4 DEF KeysHold
  <1>11. FreshEdit'
    BY DEF FreshEdit
  <1>12. AnswersHold'
    BY <1>1, AnswersStay DEF IInv
  <1>13. VersionsHold'
    <2>1. \A t \in Tasks : server[t].version \in Nat
      BY <1>2 DEF Types, ServerTyped, ServerTasks
    <2>2. \A t \in Tasks : cache'[t].version <= server[t].version /\ (cache'[t].cached => t \in taken)
      BY <2>1 DEF IInv, VersionsHold
    <2> QED
      BY <1>1, <2>2 DEF IInv, VersionsHold
  <1>14. ProcessesHold'
    <2>1. call.operation \in Requests /\ Good(call.operation)
      BY <1>2, <1>5 DEF Types, ProcessesTyped, Calls, Held, Called
    <2>2. \A e \in quiet' : e <= edits
      BY <1>2, <2>1, EditsAreMade DEF IInv, ProcessesHold
    <2> QED
      BY <1>1, <2>2 DEF IInv, ProcessesHold, SameAs, First
  <1>15. Creations'
    <2>1. \A r \in Kept' : r.kind # "create" => r.task \in taken'
      BY <1>1 DEF IInv, Creations, Good, MayBeQueued
    <2>2. \A r, s \in Kept' : r.kind = "create" /\ s.kind # "create" /\ r.task = s.task => r.key < s.key
      <3> SUFFICES ASSUME NEW r \in Kept', NEW s \in Kept', r.kind = "create", s.kind # "create", r.task = s.task
                   PROVE  r.key < s.key
        OBVIOUS
      <3> QED
        BY DEF IInv, Creations, MayBeQueued
    <2>3. ASSUME NEW t \in Tasks, queue'[t]["create"] # None, queue'[t]["create"].status = "pending",
                 NEW p \in Batch', p.task = t, p.kind # "create"
          PROVE  queue'[t]["create"] \in Batch'
      <3>1. p \in Batch /\ p \in Kept
        BY <1>3, <2>3 DEF Kept
      <3>2. ~(queue'[t]["create"] = x /\ x.task = t /\ x.kind = "create" /\ MayBeQueued(x))
        BY <2>3, <3>1 DEF MayBeQueued
      <3>3. queue'[t]["create"] = queue[t]["create"]
        BY <1>2, <2>3, <3>2
      <3> QED
        BY <1>3, <2>3, <3>1, <3>3 DEF IInv, Creations
    <2> QED
      BY <2>1, <2>2, <2>3 DEF Creations
  <1> QED
    BY <1>6, <1>7, <1>8, <1>9, <1>10, <1>11, <1>12, <1>13, <1>14, <1>15 DEF IInv

LEMMA CallHeld ==
  ASSUME IInv, call # None
  PROVE  LET o == call.operation
         IN  /\ call \in Calls /\ o \in Requests /\ o \in Held /\ Good(o) /\ o.task = call.task
             /\ o.kind = call.kind /\ call.task \in Tasks /\ call.task \in taken /\ call.kind \in Kinds
             /\ \A k \in Kinds : call.read[k] # None =>
                  /\ call.read[k] \in Requests /\ call.read[k] \in Kept
                  /\ call.read[k].task = call.task /\ call.read[k].kind = k /\ Good(call.read[k])
  <1>1. call \in Calls
    BY DEF IInv, Types, ProcessesTyped
  <1>2. call.operation \in Requests /\ call.operation \in Held
    BY <1>1 DEF Calls, Held, Called
  <1>3. \A k \in Kinds : call.read[k] # None => call.read[k] \in Requests /\ call.read[k] \in Kept
    BY <1>1 DEF Calls, Read, ReadOf, Kept
  <1> QED
    BY <1>1, <1>2, <1>3 DEF IInv, Placed, Good, Held, Calls

LEMMA QueueCreateHolds ==
  ASSUME IInv, Types', QueueCreate
  PROVE  IInv'
  <1> DEFINE x == call.operation
  <1>1. /\ call # None /\ call.kind = "create" /\ queue' = Put(queue, x) /\ call' = None
        /\ cache' = [cache EXCEPT ![call.task] = Cached(0)]
        /\ UNCHANGED <<serverVars, networkVars, sync, edits, taken>> /\ keys' = keys
        /\ quiet' = quiet /\ fate' = fate
    BY DEF QueueCreate, Queueing, Remember, historyVars, countVars
  <1>2. /\ x \in Requests /\ x \in Held /\ Good(x) /\ x.task = call.task /\ x.kind = "create"
        /\ call.task \in Tasks /\ call.task \in taken
    BY <1>1, CallHeld
  <1> HIDE DEF x
  <1>3. queue \in [Tasks -> [Kinds -> {None} \cup Requests]] /\ "update" \in Kinds
        /\ cache \in [Tasks -> [version : Nat, cached : BOOLEAN]] /\ keys \in Nat
    BY DEF IInv, Types, DeviceTyped, Kinds
  <1>4. /\ queue'[x.task][x.kind] = x
        /\ \A t \in Tasks, k \in Kinds : t # x.task \/ k # x.kind => queue'[t][k] = queue[t][k]
    <2>1. /\ Put(queue, x)[x.task][x.kind] = x
          /\ \A t \in Tasks, k \in Kinds : t # x.task \/ k # x.kind => Put(queue, x)[t][k] = queue[t][k]
      BY <1>2, <1>3, PutEffect
    <2> QED
      BY <1>1, <2>1
  <1>5. Kept' \subseteq Kept \cup {x}
    <2>1. Operations' \subseteq Operations \cup {x}
      BY <1>1, <1>2, <1>3, OperationsPut
    <2>2. Batch' = Batch /\ Read' = {}
      BY <1>1 DEF Batch, Read, ReadOf
    <2> QED
      BY <2>1, <2>2 DEF Kept
  <1>6. Due = 0 /\ x.key \in 1..keys
    BY <1>1 DEF Due, IInv, KeysHold, x
  <1>7. \A r \in Kept : r.kind # "create" => r.task # x.task
    BY <1>1, <1>2 DEF IInv, Creations
  <1>8. \A t \in Tasks : cache'[t] = cache[t] \/ (cache'[t].version = 0 /\ t \in taken)
    BY <1>1, <1>2, <1>3 DEF Cached
  <1>9. QuietHolds'
    <2>1. applied' = applied /\ Batch' = Batch
      BY <1>1 DEF serverVars, Batch
    <2>2. \A t \in Tasks : queue'[t]["update"] = queue[t]["update"]
      BY <1>2, <1>3, <1>4
    <2> QED
      BY <1>1, <2>1, <2>2 DEF IInv, QuietHolds, Carries
  <1>10. MayBeQueued(x)
    BY <1>1, <1>2, <1>6, <1>7 DEF MayBeQueued
  <1>11. \A t \in Tasks, k \in Kinds :
           \/ queue'[t][k] = queue[t][k] \/ queue'[t][k] = None
           \/ queue'[t][k] = x /\ x.task = t /\ x.kind = k /\ MayBeQueued(x)
    BY <1>4, <1>10
  <1>12. keys' >= keys /\ keys' <= keys + Due /\ quiet' \subseteq quiet \cup EditsOf(call.operation.input)
    BY <1>1, <1>3, <1>6
  <1>13. \A r \in Kept' : r \in Kept \/ (r = x /\ MayBeQueued(x))
    BY <1>5, <1>10
  <1> QED
    BY <1>1, <1>2, <1>8, <1>9, <1>11, <1>12, <1>13, QueueHolds

\* A queued update that takes another in is a request like any other.
LEMMA CoalescedHolds ==
  ASSUME IInv, Queueing("update"), call.read["update"] # None
  PROVE  LET x == Coalesced(call.read["update"], call.operation)
         IN  /\ x \in Requests /\ Good(x) /\ x.key = call.read["update"].key
             /\ x.task = call.task /\ x.kind = "update"
             /\ \A f \in Fields :
                  x.input[f] = IF call.operation.input[f] # 0 THEN call.operation.input[f]
                               ELSE call.read["update"].input[f]
  <1> DEFINE q == call.read["update"]
             o == call.operation
             x == Coalesced(q, o)
  <1>1. call # None /\ call.kind = "update" /\ "update" \in Kinds
    BY DEF Queueing, Kinds
  <1>2. /\ call \in Calls /\ o \in Requests /\ Good(o) /\ o.task = call.task /\ call.task \in Tasks
        /\ q \in Requests /\ q.task = call.task /\ q.kind = "update" /\ Good(q)
    BY <1>1, CallHeld
  <1>3. \A f \in Fields : o.input[f] # 0 => server[call.task].mine[f] < o.input[f]
    BY <1>1 DEF IInv, FreshEdit
  <1> HIDE DEF q, o
  <1>4. /\ x \in Requests /\ x.kind = q.kind /\ x.task = q.task /\ x.key = q.key /\ x.expected = q.expected
        /\ \A f \in Fields : x.input[f] = IF o.input[f] # 0 THEN o.input[f] ELSE q.input[f]
    BY <1>2, CoalescedEffect
  <1> HIDE DEF x
  <1>5. ASSUME NEW f \in Fields, x.input[f] # 0
        PROVE  /\ x.input[f] <= edits /\ Stale(x, f)
               /\ applied[x.input[f]] > 0 => server[x.task].mine[f] >= x.input[f]
    <2>1. CASE o.input[f] # 0
      <3>1. server[x.task].mine[f] \in Nat /\ o.input[f] \in Nat
        BY <1>2, <1>4 DEF IInv, Types, ServerTyped, ServerTasks, Inputs, Requests
      <3>2. ~(server[x.task].mine[f] >= x.input[f])
        BY <1>2, <1>3, <1>4, <2>1, <3>1
      <3> QED
        BY <1>2, <1>4, <2>1, <3>2 DEF Good, Stale
    <2>2. CASE o.input[f] = 0
      BY <1>2, <1>4, <1>5, <2>2 DEF Good, Stale
    <2> QED
      BY <2>1, <2>2
  <1>6. Good(x)
    BY <1>2, <1>4, <1>5 DEF Good
  <1> QED
    BY <1>2, <1>4, <1>6 DEF x, q, o

LEMMA QueueUpdateHolds ==
  ASSUME IInv, Types', QueueUpdate
  PROVE  IInv'
  <1> DEFINE q == call.read["update"]
             o == call.operation
  <1>1. /\ call # None /\ call.kind = "update" /\ call' = None /\ cache' = cache /\ Queueing("update")
        /\ UNCHANGED <<serverVars, networkVars, sync, edits, taken>>
        /\ quiet' = IF call.quiet THEN quiet \cup EditsOf(o.input) ELSE quiet
        /\ fate' = [e \in Edits |->
              IF e \in EditsOf(o.input) THEN "accepted"
              ELSE IF q # None /\ \E f \in Fields : q.input[f] = e /\ o.input[f] # 0 THEN "replaced"
              ELSE fate[e]]
    BY DEF QueueUpdate, Queueing
  <1>2. PICK x \in Requests :
          /\ queue' = Put(queue, x)
          /\ q # None => x = Coalesced(q, o) /\ keys' = keys
          /\ q = None => x = [o EXCEPT !.key = keys + 1] /\ keys' = keys + 1
    BY QueueUpdateEffect DEF IInv
  <1>3. /\ call \in Calls /\ o \in Requests /\ o \in Held /\ Good(o) /\ o.task = call.task
        /\ o.kind = "update" /\ call.task \in Tasks /\ call.task \in taken
        /\ q # None => q \in Requests /\ q \in Kept /\ q.task = call.task /\ q.kind = "update"
    BY <1>1, CallHeld DEF Kinds
  <1>4. /\ queue \in [Tasks -> [Kinds -> {None} \cup Requests]] /\ "update" \in Kinds /\ keys \in Nat
        /\ edits \in Nat
    BY DEF IInv, Types, DeviceTyped, Kinds
  <1>5. q # None => /\ Good(x) /\ x.key = q.key /\ x.task = call.task /\ x.kind = "update"
                    /\ \A f \in Fields : x.input[f] = IF o.input[f] # 0 THEN o.input[f] ELSE q.input[f]
    BY <1>1, <1>2, CoalescedHolds
  <1> HIDE DEF q, o
  <1>6. q = None => /\ x.key = keys + 1 /\ x.task = o.task /\ x.kind = o.kind /\ x.input = o.input
                    /\ x.expected = o.expected
    BY <1>2, <1>3 DEF Requests
  <1>7. Good(x) /\ x.task = call.task /\ x.kind = "update"
    BY <1>3, <1>5, <1>6 DEF Good, Stale
  <1>8. /\ Put(queue, x)[x.task][x.kind] = x
        /\ \A t \in Tasks, k \in Kinds : t # x.task \/ k # x.kind => Put(queue, x)[t][k] = queue[t][k]
    BY <1>4, PutEffect
  <1>9. /\ queue'[x.task][x.kind] = x
        /\ \A t \in Tasks, k \in Kinds : t # x.task \/ k # x.kind => queue'[t][k] = queue[t][k]
    BY <1>2, <1>8
  <1>10. Kept' \subseteq Kept \cup {x} /\ Batch' = Batch
    <2>1. Operations' \subseteq Operations \cup {x}
      BY <1>2, <1>4, OperationsPut
    <2>2. Batch' = Batch /\ Read' = {}
      BY <1>1 DEF Batch, Read, ReadOf
    <2> QED
      BY <2>1, <2>2 DEF Kept
  <1>11. Due = 1 /\ \A r \in Kept : r.key \in 1..keys
    BY <1>1 DEF Due, IInv, KeysHold
  <1>12. keys' >= keys /\ keys' <= keys + Due /\ x.key \in 1..keys'
    BY <1>2, <1>3, <1>4, <1>5, <1>6, <1>11
  <1>13. \A f \in Fields : x.input[f] # 0 =>
           \E s \in Held : s.task = x.task /\ s.input[f] = x.input[f]
    <2>1. q # None => q \in Held
      BY <1>3 DEF Held
    <2> QED
      BY <1>3, <1>5, <1>6, <1>7, <2>1
  <1>14. \A r \in Kept : r.kind = "create" /\ r.task = x.task => r.key < x.key
    <2>1. CASE q = None
      BY <1>4, <1>6, <1>11, <2>1
    <2>2. CASE q # None
      BY <1>3, <1>5, <2>2 DEF IInv, Creations
    <2> QED
      BY <2>1, <2>2
  <1>15. QuietHolds'
    <2> SUFFICES ASSUME NEW e \in quiet', fate'[e] = "accepted", applied'[e] = 0
                 PROVE  \E t \in Tasks, f \in Fields :
                          /\ Carries(queue'[t]["update"], f, e)
                          /\ \A p \in Batch' : p.task = t /\ p.kind = "update" => p.input[f] = e
      BY <1>1 DEF QuietHolds, Carries
    <2>0. applied[e] = 0 /\ e \in Edits /\ e # 0 /\ x # None
      BY <1>1, NoneIsNoRequest DEF serverVars, Types, DeviceTyped, Edits
    <2>1. CASE e \in EditsOf(o.input)
      <3>1. PICK f \in Fields : o.input[f] = e /\ o.input[f] # 0
        BY <2>0, <2>1 DEF EditsOf
      <3>2. e \notin quiet
        BY <1>1, <3>1 DEF IInv, ProcessesHold, o
      <3>3. call.quiet
        BY <1>1, <3>2
      <3>4. Batch = {}
        BY <1>1, <3>3 DEF IInv, ProcessesHold, Batch
      <3>5. x.input[f] = e
        BY <1>5, <1>6, <3>1
      <3> QED
        BY <1>3, <1>7, <1>9, <1>10, <2>0, <3>4, <3>5 DEF Carries
    <2>2. CASE e \notin EditsOf(o.input)
      <3>1. /\ e \in quiet /\ fate[e] = "accepted"
            /\ q # None => \A f \in Fields : q.input[f] = e => o.input[f] = 0
        BY <1>1, <2>0, <2>2
      <3>2. PICK t \in Tasks, f \in Fields :
              /\ Carries(queue[t]["update"], f, e)
              /\ call # None /\ call.task = t => Carries(q, f, e)
              /\ \A p \in Batch : p.task = t /\ p.kind = "update" => p.input[f] = e
        BY <2>0, <3>1 DEF IInv, QuietHolds, q
      <3>3. Carries(queue'[t]["update"], f, e)
        <4>1. CASE t = call.task
          <5>1. q # None /\ q.input[f] = e
            BY <1>1, <3>2, <4>1 DEF Carries
          <5>2. x.input[f] = e
            BY <1>5, <3>1, <5>1
          <5> QED
            BY <1>7, <1>9, <1>3, <2>0, <4>1, <5>2 DEF Carries
        <4>2. CASE t # call.task
          BY <1>4, <1>7, <1>9, <3>2, <4>2 DEF Carries
        <4> QED
          BY <4>1, <4>2
      <3> QED
        BY <1>10, <3>2, <3>3
    <2> QED
      BY <2>1, <2>2
  <1>18. MayBeQueued(x)
    BY <1>7, <1>12, <1>13, <1>14 DEF MayBeQueued
  <1>16. \A t \in Tasks, k \in Kinds :
           \/ queue'[t][k] = queue[t][k] \/ queue'[t][k] = None
           \/ queue'[t][k] = x /\ x.task = t /\ x.kind = k /\ MayBeQueued(x)
    BY <1>9, <1>18
  <1>17. quiet' \subseteq quiet \cup EditsOf(call.operation.input)
    BY <1>1 DEF o
  <1> QED
    BY <1>1, <1>10, <1>12, <1>15, <1>16, <1>17, <1>18, QueueHolds

LEMMA QueueDeleteHolds ==
  ASSUME IInv, Types', QueueDelete
  PROVE  IInv'
  <1>1. /\ call # None /\ call.kind = "delete" /\ call' = None
        /\ UNCHANGED <<serverVars, networkVars, sync, edits, taken>>
        /\ quiet' = quiet /\ cache' = [cache EXCEPT ![call.task] = NotCached]
    BY DEF QueueDelete, Queueing
  <1>2. PICK q \in [Tasks -> [Kinds -> {None} \cup Requests]] :
          /\ \A t \in Tasks, k \in Kinds : q[t][k] = queue[t][k] \/ q[t][k] = None
          /\ \A t \in Tasks, k \in Kinds : q[t][k] # queue[t][k] => t = call.task /\ k # "delete"
          /\ q[call.task]["update"] # queue[call.task]["update"] =>
               \A e \in EditsOf(queue[call.task]["update"].input) \cap Edits : fate'[e] = "dropped"
          /\ \/ queue' = q /\ keys' = keys
             \/ queue' = Put(q, [call.operation EXCEPT !.key = keys + 1]) /\ keys' = keys + 1
    BY QueueDeleteEffect DEF IInv
  <1>3. \A e \in Edits : fate'[e] = fate[e] \/ fate'[e] = "dropped"
    BY QueueDeleteEffect DEF IInv
  <1>4. /\ keys \in Nat /\ keys + 1 \in Nat /\ cache \in [Tasks -> [version : Nat, cached : BOOLEAN]]
        /\ "update" \in Kinds /\ "delete" \in Kinds
    BY DEF IInv, Types, DeviceTyped, Kinds
  <1>5. /\ call.operation \in Requests /\ call.operation \in Held /\ Good(call.operation)
        /\ call.operation.task = call.task /\ call.operation.kind = "delete" /\ call.task \in Tasks
    BY <1>1, CallHeld
  <1>6. PICK x \in Requests : x = [call.operation EXCEPT !.key = keys + 1]
    BY <1>4, <1>5, SentTyped
  <1>7. /\ x.task = call.task /\ x.kind = "delete" /\ x.key = keys + 1
        /\ x.input = call.operation.input /\ x.expected = call.operation.expected
    BY <1>5, <1>6 DEF Requests
  <1>8. Good(x)
    BY <1>5, <1>7 DEF Good, Stale
  <1>9. Due = 1 /\ \A r \in Kept : r.key \in 1..keys
    BY <1>1 DEF Due, IInv, KeysHold
  <1>16. keys' = keys + 1 => MayBeQueued(x)
    <2>1. \A f \in Fields : x.input[f] # 0 =>
            \E s \in Held : s.task = x.task /\ s.input[f] = x.input[f]
      BY <1>5, <1>7
    <2>2. \A r \in Kept : r.kind = "create" /\ r.task = x.task => r.key < x.key
      BY <1>4, <1>7, <1>9
    <2> QED
      BY <1>4, <1>7, <1>8, <2>1, <2>2 DEF MayBeQueued
  <1>10. /\ \A t \in Tasks, k \in Kinds :
              \/ queue'[t][k] = queue[t][k] \/ queue'[t][k] = None
              \/ queue'[t][k] = x /\ x.task = t /\ x.kind = k /\ MayBeQueued(x)
         /\ \A t \in Tasks : queue'[t]["update"] = q[t]["update"]
         /\ \A r \in Operations' : r \in Operations \/ (r = x /\ MayBeQueued(x))
         /\ keys' >= keys /\ keys' <= keys + Due
    <2>1. CASE queue' = q /\ keys' = keys
      BY <1>2, <1>4, <1>9, <2>1, OperationsShrink
    <2>2. CASE queue' = Put(q, x) /\ keys' = keys + 1
      <3>1. /\ Put(q, x)[x.task][x.kind] = x
            /\ \A t \in Tasks, k \in Kinds : t # x.task \/ k # x.kind => Put(q, x)[t][k] = q[t][k]
        BY PutEffect
      <3>2. Operations' \subseteq Operations \cup {x}
        BY <1>2, <2>2, OperationsPut
      <3> QED
        BY <1>2, <1>4, <1>7, <1>9, <1>16, <2>2, <3>1, <3>2
    <2> QED
      BY <1>2, <1>6, <2>1, <2>2
  <1>11. Batch' = Batch /\ Read' = {}
    BY <1>1 DEF Batch, Read, ReadOf
  <1>12. QuietHolds'
    <2> SUFFICES ASSUME NEW e \in quiet', fate'[e] = "accepted", applied'[e] = 0
                 PROVE  \E t \in Tasks, f \in Fields :
                          /\ Carries(queue'[t]["update"], f, e)
                          /\ \A p \in Batch' : p.task = t /\ p.kind = "update" => p.input[f] = e
      BY <1>1 DEF QuietHolds, Carries
    <2>1. e \in quiet /\ e \in Edits /\ e # 0 /\ fate[e] = "accepted" /\ applied[e] = 0
      BY <1>1, <1>3 DEF serverVars, Types, DeviceTyped, Edits
    <2>2. PICK t \in Tasks, f \in Fields :
            /\ Carries(queue[t]["update"], f, e)
            /\ \A p \in Batch : p.task = t /\ p.kind = "update" => p.input[f] = e
      BY <2>1 DEF IInv, QuietHolds
    <2>3. e \in EditsOf(queue[t]["update"].input)
      BY <2>1, <2>2 DEF EditsOf, Carries
    <2>4. q[t]["update"] = queue[t]["update"]
      BY <1>2, <1>4, <2>1, <2>3
    <2>5. Carries(queue'[t]["update"], f, e)
      BY <1>10, <2>2, <2>4
    <2> QED
      BY <1>11, <2>2, <2>5
  <1>13. \A r \in Kept' : r \in Kept \/ (r = x /\ MayBeQueued(x))
    BY <1>10, <1>11 DEF Kept
  <1>14. \A t \in Tasks :
           \/ cache'[t] = cache[t]
           \/ cache'[t].version = 0 /\ (cache'[t].cached => t \in taken)
    BY <1>1, <1>4, <1>5 DEF NotCached
  <1> QED
    BY <1>1, <1>10, <1>12, <1>13, <1>14, QueueHolds

-----------------------------------------------------------------------------
(* Every step keeps the invariant *)

LEMMA Sorts ==
  ASSUME IInv
  PROVE  /\ Types /\ Placed /\ KeysHold /\ ServerHolds /\ RequestsHold /\ AppliedHolds /\ FreshEdit
         /\ AnswersHold /\ VersionsHold /\ ProcessesHold /\ Creations /\ QuietHolds
  BY DEF IInv, RequestsHold

LEMMA SameHomes ==
  ASSUME OneHome, Held' \subseteq Held
  PROVE  OneHome'
  <1>1. \A r \in Held' : r \in Held /\ Same(r, r)
    BY DEF Same
  <1> QED
    BY <1>1, KeepsHomes

LEMMA ServerStepServes ==
  ASSUME IInv, ServerStep
  PROVE  Grows /\ ServerHolds' /\ AppliedHolds' /\ \A r \in Held : Good(r)'
  <1>1. edits' = edits /\ taken' = taken
    BY Sorts, ServerStepKeeps DEF Keeps
  <1>2. ASSUME NEW q \in Asked, Process(q)
        PROVE  Grows /\ ServerHolds' /\ AppliedHolds' /\ \A r \in Held : Good(r)'
    <2>1. q \in Held
      BY DEF Held
    <2> QED
      BY <1>1, <1>2, <2>1, Sorts, ProcessHolds
  <1>3. ASSUME NEW w \in Callers, Serve(w)
        PROVE  wire[w].request \in Asked /\ Process(wire[w].request)
    BY <1>3 DEF Serve, Asked
  <1>4. ASSUME NEW r \in late, ServeLate(r)
        PROVE  r \in Asked /\ Process(r)
    BY <1>4 DEF ServeLate, Asked
  <1>5. ASSUME NEW t \in Tasks, NEW f \in Fields, OthersUpdate(t, f)
        PROVE  Grows /\ ServerHolds' /\ AppliedHolds' /\ \A r \in Held : Good(r)'
    BY <1>5, Sorts, OthersHold
  <1> QED
    BY <1>2, <1>3, <1>4, <1>5 DEF ServerStep

LEMMA ServerStepHolds ==
  ASSUME IInv, ServerStep
  PROVE  IInv' /\ Grows
  <1>1. Types'
    BY Sorts, ServerStepTyped DEF ServerStep
  <1>2. Keeps /\ Held' \subseteq Held
    BY Sorts, ServerStepKeeps
  <1>3. Grows /\ ServerHolds' /\ AppliedHolds' /\ \A r \in Held : Good(r)'
    BY ServerStepServes
  <1>4. KeysHold' /\ OneHome'
    BY <1>1, <1>2, Sorts, KeepsKeys, SameHomes DEF RequestsHold
  <1>5. FreshEdit'
    BY <1>2, Sorts, ServerStepMine, KeepsFresh
  <1>6. AnswersHold'
    BY <1>1, <1>3, Sorts, ServerStepAnswers
  <1>7. Placed' /\ VersionsHold' /\ ProcessesHold' /\ Creations' /\ QuietHolds'
    BY <1>1, <1>3, Sorts, ServerStepRest
  <1>8. \A r \in Held' : Good(r)'
    BY <1>2, <1>3
  <1> QED
    BY <1>1, <1>3, <1>4, <1>5, <1>6, <1>7, <1>8 DEF IInv

\* A step in which the server does nothing.
LEMMA QuietServer ==
  ASSUME IInv, Types', Keeps, serverVars' = serverVars
  PROVE  /\ Grows /\ ServerHolds' /\ AppliedHolds' /\ KeysHold' /\ FreshEdit'
         /\ \A r \in Held : Good(r)'
  <1>1. edits' >= edits /\ edits' \in Nat /\ taken \subseteq taken'
    BY DEF Keeps, Types, DeviceTyped
  <1>2. Grows /\ ServerHolds' /\ AppliedHolds' /\ server' = server /\ applied' = applied
    BY <1>1, Sorts, ServerStays
  <1>3. \A r \in Held : r \in Requests /\ Good(r)
    BY Sorts, HeldTyped DEF RequestsHold, Held, Kept
  <1>4. \A r \in Held : Good(r)'
    BY <1>1, <1>2, <1>3, Sorts, GoodStays
  <1>5. KeysHold' /\ FreshEdit'
    BY Sorts, KeepsKeys, ServerStepMine, KeepsFresh
  <1> QED
    BY <1>2, <1>4, <1>5

LEMMA EndingStepHolds ==
  ASSUME IInv, Types', EndingStep
  PROVE  IInv'
  <1>1. Keeps /\ Held' \subseteq Held /\ serverVars' = serverVars
    BY Sorts, EndingStepKeeps
  <1>2. /\ Grows /\ ServerHolds' /\ AppliedHolds' /\ KeysHold' /\ FreshEdit'
        /\ \A r \in Held : Good(r)'
    BY <1>1, QuietServer
  <1>3. OneHome' /\ \A r \in Held' : Good(r)'
    BY <1>1, <1>2, Sorts, SameHomes DEF RequestsHold
  <1>4. AnswersHold'
    BY <1>1, Sorts, WireSteps, AnswersStay
  <1>5. Placed' /\ VersionsHold' /\ ProcessesHold' /\ Creations' /\ QuietHolds'
    BY Sorts, EndingStepRest
  <1> QED
    BY <1>2, <1>3, <1>4, <1>5 DEF IInv

LEMMA DeviceStepHolds ==
  ASSUME IInv, DeviceStep
  PROVE  IInv'
  <1>0. Types'
    BY Sorts, DeviceStepTyped DEF DeviceStep
  <1>1. Keeps /\ Held' \subseteq Held /\ serverVars' = serverVars
    BY Sorts, DeviceStepKeeps
  <1>2. /\ Grows /\ ServerHolds' /\ AppliedHolds' /\ KeysHold' /\ FreshEdit'
        /\ \A r \in Held : Good(r)'
    BY <1>0, <1>1, QuietServer
  <1>3. OneHome' /\ \A r \in Held' : Good(r)'
    BY <1>1, <1>2, Sorts, SameHomes DEF RequestsHold
  <1>4. AnswersHold'
    BY <1>1, Sorts, WireSteps, AnswersStay
  <1>5. Placed' /\ VersionsHold' /\ ProcessesHold' /\ Creations' /\ QuietHolds'
    BY <1>0, Sorts, DeviceStepRest
  <1> QED
    BY <1>0, <1>2, <1>3, <1>4, <1>5 DEF IInv

LEMMA SyncStepHolds ==
  ASSUME IInv, SyncStep
  PROVE  IInv'
  <1>0. Types'
    BY Sorts, SyncStepTyped
  <1>1. /\ Keeps /\ serverVars' = serverVars
        /\ \A r \in Held' : r \in Requests /\ Good(r) /\ \E s \in Held : Same(r, s)
    BY Sorts, SyncStepKeeps
  <1>2. /\ Grows /\ ServerHolds' /\ AppliedHolds' /\ KeysHold' /\ FreshEdit'
    BY <1>0, <1>1, QuietServer
  <1>3. OneHome'
    BY <1>1, Sorts, KeepsHomes DEF RequestsHold
  <1>4. \A r \in Held' : Good(r)'
    <2>1. /\ edits' >= edits /\ edits' \in Nat /\ taken \subseteq taken'
          /\ server' = server /\ applied' = applied
      BY <1>0, <1>1 DEF Keeps, Types, DeviceTyped, serverVars
    <2> QED
      BY <1>1, <2>1, Sorts, GoodStays
  <1>5. AnswersHold'
    BY <1>1, Sorts, WireSteps, AnswersStay
  <1>6. Placed' /\ VersionsHold' /\ ProcessesHold' /\ Creations' /\ QuietHolds'
    BY <1>0, Sorts, SyncStepRest
  <1> QED
    BY <1>0, <1>2, <1>3, <1>4, <1>5, <1>6 DEF IInv

LEMMA CallStepHolds ==
  ASSUME IInv, CallStep
  PROVE  IInv'
  <1>1. Types'
    BY CallStepTyped DEF IInv, Held
  <1>2. CASE EndingStep
    BY <1>1, <1>2, EndingStepHolds
  <1>3. CASE QueueCreate \/ QueueUpdate \/ QueueDelete
    BY <1>1, <1>3, QueueCreateHolds, QueueUpdateHolds, QueueDeleteHolds
  <1> QED
    BY <1>2, <1>3 DEF CallStep, EndingStep

LEMMA StutterHolds ==
  ASSUME IInv, UNCHANGED vars
  PROVE  IInv'
  <1>1. /\ UNCHANGED <<online, faults, wire, late, server, saved, others, applied>>
        /\ UNCHANGED <<queue, cache, snapshot, signedIn, call, sync, keys, edits, taken, fate, quiet>>
    BY DEF vars, networkVars, serverVars, deviceVars, countVars, historyVars
  <1>2. Types' /\ Placed' /\ KeysHold' /\ ServerHolds'
    BY <1>1, Sorts DEF Types, ServerTyped, DeviceTyped, ProcessesTyped, Placed, Batch, KeysHold, Due,
       Kept, Operations, Read, ReadOf, Asked, ServerHolds
  <1>3. Held' = Held /\ Kept' = Kept /\ Asked' = Asked /\ Batch' = Batch
    BY <1>1 DEF Held, Kept, Operations, Batch, Read, ReadOf, Asked, Called
  <1>4. (\A r \in Held : Good(r))' /\ OneHome' /\ AppliedHolds' /\ FreshEdit' /\ AnswersHold'
    BY <1>1, <1>3 DEF IInv, Good, Stale, OneHome, AppliedHolds, FreshEdit, AnswersHold, Answer, EditsApplied
  <1>5. VersionsHold' /\ ProcessesHold' /\ Creations' /\ QuietHolds'
    BY <1>1, <1>3 DEF IInv, VersionsHold, ProcessesHold, Creations, QuietHolds, Carries
  <1> QED
    BY <1>2, <1>4, <1>5 DEF IInv

LEMMA NextHolds ==
  ASSUME IInv, [Next]_vars
  PROVE  IInv'
  <1>1. CASE \E t \in Tasks : BeginCreate(t) \/ BeginDelete(t) \/ \E f \in Fields : BeginUpdate(t, f)
    BY <1>1, Sorts, BeginsTyped, BeginsHold
  <1>2. CASE CallStep
    BY <1>2, CallStepHolds
  <1>3. CASE SyncStep
    BY <1>3, SyncStepHolds
  <1>4. CASE ServerStep
    BY <1>4, ServerStepHolds
  <1>5. CASE DeviceStep
    BY <1>5, DeviceStepHolds
  <1>6. CASE UNCHANGED vars
    BY <1>6, StutterHolds
  <1> QED
    BY <1>1, <1>2, <1>3, <1>4, <1>5, <1>6 DEF Next, UserStep, WorldStep, ServerStep, DeviceStep

LEMMA InitTyped ==
  ASSUME Init
  PROVE  Types
  <1>1. NoInput \in Inputs
    BY InputTyped
  <1>2. Unborn \in ServerTasks /\ Existing \in ServerTasks
    BY <1>1 DEF Unborn, Existing, ServerTasks
  <1>3. ServerTyped
    BY <1>2 DEF Init, ServerTyped
  <1>4. DeviceTyped
    BY QueueAssumption DEF Init, DeviceTyped, EmptyQueue, Cached, NotCached
  <1>5. ProcessesTyped
    BY DEF Init, ProcessesTyped
  <1> QED
    BY <1>3, <1>4, <1>5 DEF Types

LEMMA InitHolds ==
  ASSUME Init
  PROVE  IInv
  <1>1. Types
    BY InitTyped
  <1>2. /\ call = None /\ sync = None /\ quiet = {} /\ keys = 0 /\ edits = 0 /\ taken \subseteq Tasks
        /\ applied = [e \in Edits |-> 0] /\ saved = [k \in Keys |-> None]
        /\ wire = [w \in Callers |-> None] /\ late = {}
        /\ queue = [t \in Tasks |-> [k \in Kinds |-> None]]
    BY DEF Init, EmptyQueue
  <1>3. Batch = {} /\ Read = {} /\ Called = {} /\ Operations = {} /\ Asked = {}
    BY <1>2 DEF Batch, Read, ReadOf, Called, Operations, Asked
  <1>4. Held = {} /\ Kept = {}
    BY <1>3 DEF Held, Kept
  <1>5. \A t \in Tasks :
          /\ server[t].version = IF t \in taken THEN 1 ELSE 0
          /\ server[t].life = IF t \in taken THEN "live" ELSE "unborn"
          /\ cache[t] = IF t \in taken THEN Cached(1) ELSE NotCached
          /\ \A f \in Fields : server[t].touched[f] = 0 /\ server[t].mine[f] = 0
    BY DEF Init, Unborn, Existing, NoInput
  <1>6. Placed
    BY <1>2, <1>3 DEF Placed
  <1>7. KeysHold
    <2>1. Cardinality(taken) \in Nat
      BY <1>2, QueueAssumption, FS_Subset, FS_CardinalityType
    <2> QED
      BY <1>2, <1>3, <1>4, <2>1 DEF KeysHold, Due
  <1>8. ServerHolds
    BY <1>2, <1>5 DEF ServerHolds
  <1>9. (\A r \in Held : Good(r)) /\ OneHome /\ AppliedHolds /\ FreshEdit
    BY <1>2, <1>4 DEF OneHome, AppliedHolds, FreshEdit
  <1>10. AnswersHold /\ ProcessesHold /\ Creations /\ QuietHolds
    BY <1>2, <1>3, <1>4 DEF AnswersHold, ProcessesHold, Creations, QuietHolds, Callers
  <1>11. VersionsHold
    BY <1>2, <1>5 DEF VersionsHold, Cached, NotCached
  <1> QED
    BY <1>1, <1>6, <1>7, <1>8, <1>9, <1>10, <1>11 DEF IInv

-----------------------------------------------------------------------------
(* The theorems *)

\* In every behaviour of the queue each request carries edits of one field of
\* one task, made before and not applied over a newer one; what was answered
\* well was applied; and what the page still holds of the queue agrees with it.
THEOREM Invariance == Spec => []IInv
  <1>1. Init => IInv
    BY InitHolds
  <1>2. IInv /\ [Next]_vars => IInv'
    BY NextHolds
  <1> QED
    BY <1>1, <1>2, PTL DEF Spec

\* Sent again with the key it had or with another one, after an answer was lost,
\* a page was loaded again or a queued update took it in, an edit is applied at
\* most once by runMutation and UpdateTask.
THEOREM EditsApplyOnce == Spec => []AppliedAtMostOnce
  <1>1. IInv => AppliedAtMostOnce
    <2> SUFFICES ASSUME IInv, NEW e \in Edits
                 PROVE  applied[e] <= 1
      BY DEF AppliedAtMostOnce
    <2> QED
      BY DEF IInv, Types, ServerTyped, AppliedHolds
  <1> QED
    BY <1>1, Invariance, PTL

LEMMA NextGrows ==
  ASSUME IInv, [Next]_vars
  PROVE  Grows
  <1>1. CASE ServerStep
    BY <1>1, ServerStepHolds
  <1>2. CASE serverVars' = serverVars
    <2>1. server' = server /\ applied' = applied
      BY <1>2 DEF serverVars
    <2> QED
      BY <2>1 DEF Grows, IInv, Types, ServerTyped, ServerTasks, Inputs
  <1>3. ServerStep \/ serverVars' = serverVars
    <2>1. CASE \E t \in Tasks : BeginCreate(t) \/ BeginDelete(t) \/ \E f \in Fields : BeginUpdate(t, f)
      BY <2>1 DEF BeginCreate, BeginDelete, BeginUpdate, Begin, serverVars
    <2>2. CASE CallStep
      BY <2>2 DEF CallStep, CallSucceeds, CallRefused, CallFailsOver, QueueCreate, QueueUpdate, CacheMiss,
         QueueDelete
    <2>3. CASE SyncStep
      BY <2>3 DEF SyncStep, SendNext, SyncApplied, SyncRefused, SyncBreaks, EndSync
    <2>4. CASE DeviceStep
      BY <2>4, Sorts, DeviceStepKeeps
    <2>5. CASE UNCHANGED vars
      BY <2>5 DEF vars
    <2> QED
      BY <2>1, <2>2, <2>3, <2>4, <2>5 DEF Next, UserStep, WorldStep, ServerStep, DeviceStep
  <1> QED
    BY <1>1, <1>2, <1>3

\* A request that was delayed, given up or sent again never brings an older edit
\* of the user back over a newer one: the version an edit is based on meets the
\* field written since in UpdateTask.
THEOREM NewerEditsStay == Spec => EditsDoNotRollBack
  <1>1. IInv /\ [Next]_vars => [\A t \in Tasks, f \in Fields :
                                  server'[t].mine[f] >= server[t].mine[f]]_vars
    BY NextGrows DEF Grows
  <1> QED
    BY <1>1, Invariance, PTL DEF Spec, EditsDoNotRollBack

\* performSync sends in the order of creation and stops at the first failure: no
\* update or deletion is on its way to the server while the creation of its task
\* waits in the queue.
THEOREM CreationsGoFirst == Spec => []SentInOrder
  <1>1. IInv => SentInOrder
    <2> SUFFICES ASSUME IInv, wire["sync"] # None, wire["sync"].request.kind # "create"
                 PROVE  LET o == wire["sync"].request IN
                          queue[o.task]["create"] = None \/ queue[o.task]["create"].status # "pending"
      BY DEF SentInOrder
    <2> DEFINE r == wire["sync"].request
               o == First(sync.batch)
               c == queue[r.task]["create"]
    <2>1. /\ sync # None /\ sync.batch # {} /\ r.kind = o.kind /\ r.task = o.task
      BY DEF IInv, ProcessesHold, SameAs
    <2>2. Batch = sync.batch /\ Batch \subseteq Requests
      BY <2>1, Sorts, HeldTyped DEF Batch
    <2>3. /\ o \in Batch /\ o \in Requests /\ o \in Kept /\ o.task \in Tasks
          /\ \A p \in Batch : o.key <= p.key
      BY <2>1, <2>2, FirstIsLeast DEF Kept, Requests
    <2>4. SUFFICES ASSUME c # None, c.status = "pending"
                   PROVE  FALSE
      OBVIOUS
    <2>5. c \in Batch /\ c.kind = "create" /\ c.task = o.task
      BY <2>1, <2>3, <2>4 DEF IInv, Creations, Placed, Kinds
    <2>6. c \in Kept /\ c.key < o.key
      BY <2>1, <2>3, <2>5 DEF IInv, Creations, Kept
    <2>7. c.key \in Nat /\ o.key \in Nat /\ o.key <= c.key
      BY <2>2, <2>3, <2>5 DEF Requests
    <2> QED
      BY <2>6, <2>7
  <1> QED
    BY <1>1, Invariance, PTL

\* An edit the user was told was saved while nothing was being synchronised has
\* reached the server or is still in IndexedDB, whatever was coalesced, sent,
\* refused or lost since, unless the user replaced or gave it up.
THEOREM QuietEditsStay == Spec => []QuietEditsSurvive
  <1>1. IInv => QuietEditsSurvive
    <2> SUFFICES ASSUME IInv, NEW e \in quiet, fate[e] = "accepted", ~(applied[e] > 0)
                 PROVE  e \in QueuedEdits
      BY DEF QuietEditsSurvive, Survives
    <2>1. e \in Edits /\ e # 0 /\ applied[e] = 0
      BY QueueAssumption DEF IInv, Types, ServerTyped, DeviceTyped, Edits
    <2>2. PICK t \in Tasks, f \in Fields : Carries(queue[t]["update"], f, e)
      BY <2>1 DEF IInv, QuietHolds
    <2>3. queue[t]["update"] \in Operations /\ e \in EditsOf(queue[t]["update"].input)
      BY <2>1, <2>2 DEF Carries, Operations, Kinds, EditsOf
    <2> QED
      BY <2>3 DEF QueuedEdits
  <1> QED
    BY <1>1, Invariance, PTL

=============================================================================
