---------------------------- MODULE LockingProofs ----------------------------
(***************************************************************************)
(* Proofs about the requests that rely on locks in the database.  The      *)
(* dependencies of any finite set of tasks stay acyclic, for any number of *)
(* concurrent requests, as long as the recursive query may go as deep as a *)
(* path without repetition can be long.  And whatever requests on its      *)
(* memberships overlap, a project keeps an active owner, and no request    *)
(* changes a membership on authority its actor has lost.                   *)
(***************************************************************************)
EXTENDS DependencyGraph, Membership, FiniteSetTheorems, TLAPS

\* The query is deep enough for the tasks there are.
QueryIsDeepEnough == IsFiniteSet(Tasks) /\ Cardinality(Tasks) <= MaxDepth + 1

-----------------------------------------------------------------------------
(* Graphs *)

\* A subgraph of an acyclic graph is acyclic.
LEMMA SubgraphAcyclic ==
  ASSUME NEW E, NEW F, F \subseteq E, Dag!Acyclic(E)
  PROVE  Dag!Acyclic(F)
BY DEF Dag!Acyclic

\* A path that visits a task twice runs around a cycle.
LEMMA RepeatingPathCycles ==
  ASSUME NEW k \in Nat, NEW p \in [0..k -> Tasks], IsPath(p, k),
         NEW i \in 0..k, NEW j \in 0..k, i < j, p[i] = p[j]
  PROVE  ~Dag!Acyclic(deps)
<1> DEFINE S == {p[m] : m \in i..(j - 1)}
<1>1. S \in SUBSET Tasks /\ p[i] \in S
  OBVIOUS
<1>2. ASSUME NEW x \in S PROVE \E y \in S : <<x, y>> \in deps
  <2>1. PICK m \in i..(j - 1) : x = p[m]
    BY <1>2
  <2>2. <<p[m], p[m + 1]>> \in deps
    BY DEF IsPath
  <2>3. p[m + 1] \in S
    <3>1. CASE m + 1 = j
      BY <3>1, <1>1
    <3>2. CASE m + 1 # j
      BY <3>2
    <3>3. QED BY <3>1, <3>2
  <2>4. QED BY <2>1, <2>2, <2>3
<1> HIDE DEF S
<1>3. QED BY <1>1, <1>2 DEF Dag!Acyclic

\* An acyclic graph has no path of more edges than there are other tasks.
LEMMA PathsAreShort ==
  ASSUME QueryIsDeepEnough, Dag!Acyclic(deps)
  PROVE  ~\E p \in [0..(MaxDepth + 1) -> Tasks] : IsPath(p, MaxDepth + 1)
<1> SUFFICES ASSUME NEW p \in [0..(MaxDepth + 1) -> Tasks], IsPath(p, MaxDepth + 1)
             PROVE  FALSE
  OBVIOUS
<1>1. MaxDepth + 1 \in Nat
  BY MaxDepthAssumption
<1>2. IsFiniteSet(0..(MaxDepth + 1)) /\ Cardinality(0..(MaxDepth + 1)) = MaxDepth + 2
  <2> DEFINE n == MaxDepth + 1
  <2>1. n \in Nat /\ n \in Int /\ 0 \in Int /\ ~(0 > n) /\ n - 0 + 1 = MaxDepth + 2
    BY MaxDepthAssumption
  <2> HIDE DEF n
  <2>2. IsFiniteSet(0..n) /\ Cardinality(0..n) = IF 0 > n THEN 0 ELSE n - 0 + 1
    BY <2>1, FS_Interval, Zenon
  <2>3. QED BY <2>1, <2>2 DEF n
<1>3. IsFiniteSet(Tasks) /\ Cardinality(Tasks) \in Nat /\ Cardinality(Tasks) < MaxDepth + 2
  BY FS_CardinalityType, MaxDepthAssumption DEF QueryIsDeepEnough
<1>4. PICK i \in 0..(MaxDepth + 1), j \in 0..(MaxDepth + 1) : i # j /\ p[i] = p[j]
  <2>1. p \in [0..(MaxDepth + 1) -> Tasks] /\ Cardinality(Tasks) < Cardinality(0..(MaxDepth + 1))
    BY <1>2, <1>3
  <2>2. QED BY <1>2, <1>3, <2>1, FS_PigeonHole, Zenon
<1>5. CASE i < j
  BY <1>1, <1>4, <1>5, RepeatingPathCycles
<1>6. CASE j < i
  BY <1>1, <1>4, <1>6, RepeatingPathCycles
<1>7. QED BY <1>4, <1>5, <1>6

\* What the query visits.
Reached(d) ==
  {x \in Tasks :
     \E k \in 0..MaxDepth : \E p \in [0..k -> Tasks] : IsPath(p, k) /\ p[0] = d /\ p[k] = x}

\* The query visits its start and every successor of what it visits.
LEMMA ReachedIsClosed ==
  ASSUME QueryIsDeepEnough, Dag!Acyclic(deps), NEW d \in Tasks
  PROVE  /\ d \in Reached(d)
         /\ \A x \in Reached(d), y \in Tasks : <<x, y>> \in deps => y \in Reached(d)
<1>1. d \in Reached(d)
  <2> DEFINE p == [i \in 0..0 |-> d]
  <2>1. p \in [0..0 -> Tasks] /\ IsPath(p, 0) /\ p[0] = d
    BY DEF IsPath
  <2>2. 0 \in 0..MaxDepth
    BY MaxDepthAssumption
  <2> HIDE DEF p
  <2>3. QED BY <2>1, <2>2 DEF Reached
<1>2. ASSUME NEW x \in Reached(d), NEW y \in Tasks, <<x, y>> \in deps
      PROVE  y \in Reached(d)
  <2>0. PICK k \in 0..MaxDepth :
          \E p \in [0..k -> Tasks] : IsPath(p, k) /\ p[0] = d /\ p[k] = x
    BY DEF Reached
  <2>1. PICK p \in [0..k -> Tasks] : IsPath(p, k) /\ p[0] = d /\ p[k] = x
    BY <2>0
  <2> DEFINE q == [i \in 0..(k + 1) |-> IF i = k + 1 THEN y ELSE p[i]]
  <2>2. k \in Nat /\ k <= MaxDepth
    BY MaxDepthAssumption
  <2>3. q \in [0..(k + 1) -> Tasks] /\ q[0] = d /\ q[k + 1] = y
    BY <2>1, <2>2
  <2>4. IsPath(q, k + 1)
    BY <1>2, <2>1, <2>2 DEF IsPath
  <2> HIDE DEF q
  <2>5. k # MaxDepth
    BY <2>3, <2>4, PathsAreShort
  <2>6. k + 1 \in 0..MaxDepth
    BY <2>2, <2>5, MaxDepthAssumption
  <2>7. QED BY <2>3, <2>4, <2>6 DEF Reached
<1>3. QED BY <1>1, <1>2

\* An edge the query lets pass closes no cycle: a cycle through it would, by
\* following the graph from the dependency, stay inside what the query visits.
LEMMA QueryIsSound ==
  ASSUME QueryIsDeepEnough, Dag!Acyclic(deps), NEW t \in Tasks, NEW d \in Tasks,
         ~DependencyWouldCycle(t, d)
  PROVE  Dag!Acyclic(deps \cup {<<t, d>>})
<1>1. t \notin Reached(d)
  BY DEF Reached, DependencyWouldCycle
<1> SUFFICES ASSUME NEW S \in SUBSET Tasks, S # {}
             PROVE  \E x \in S : \A y \in S : <<x, y>> \notin deps \cup {<<t, d>>}
  BY DEF Dag!Acyclic
<1>2. CASE S \cap Reached(d) # {}
  <2>1. PICK x \in S \cap Reached(d) : \A y \in S \cap Reached(d) : <<x, y>> \notin deps
    BY <1>2 DEF Dag!Acyclic
  <2>2. ASSUME NEW y \in S PROVE <<x, y>> \notin deps
    BY <2>1, ReachedIsClosed
  <2>3. x # t
    BY <1>1
  <2>4. QED BY <2>2, <2>3
<1>3. CASE S \cap Reached(d) = {}
  <2>1. PICK x \in S : \A y \in S : <<x, y>> \notin deps
    BY DEF Dag!Acyclic
  <2>2. d \notin S
    BY <1>3, ReachedIsClosed
  <2>3. QED BY <2>1, <2>2
<1>4. QED BY <1>2, <1>3

-----------------------------------------------------------------------------
(* The requests *)

Inv == GraphTypes /\ LockIsExclusive /\ NoCycle /\ ClearedStaysSafe

LEMMA NoEdgesNoCycle == Dag!Acyclic({})
BY DEF Dag!Acyclic

LEMMA InitInv == GraphInit => Inv
<1> SUFFICES ASSUME GraphInit PROVE Inv
  OBVIOUS
<1>1. GraphTypes
  BY DEF GraphInit, GraphTypes
<1>2. \A s \in Writers : request[s].phase = "idle"
  BY DEF GraphInit, NoRequest
<1>3. QED
  BY <1>1, <1>2, NoEdgesNoCycle DEF GraphInit, Inv, LockIsExclusive, NoCycle, ClearedStaysSafe

\* A step that leaves the tables alone and gives one session a request that is
\* not past the lock, or none.
LEMMA UnlockedStepInv ==
  ASSUME Inv, NEW s \in Writers, NEW x, x = NoRequest \/ (IsEdgeRequest(x) /\ x.phase = "waiting"),
         request' = [request EXCEPT ![s] = x], life' = life, deps' \subseteq deps
  PROVE  Inv'
<1> USE DEF Inv
<1>1. \A r \in Writers : request'[r] = IF r = s THEN x ELSE request[r]
  BY DEF GraphTypes
<1>2. x.phase \notin {"locked", "examined", "cleared"}
  BY DEF NoRequest
<1>3. live' = live
  BY DEF live
<1>4. GraphTypes'
  BY <1>1, <1>3 DEF GraphTypes
<1>5. LockIsExclusive'
  BY <1>1, <1>2 DEF LockIsExclusive
<1>6. NoCycle'
  BY SubgraphAcyclic DEF NoCycle
<1>7. ClearedStaysSafe'
  <2> SUFFICES ASSUME NEW r \in Writers, request'[r].phase = "cleared"
               PROVE  Dag!Acyclic(deps' \cup {<<request'[r].task, request'[r].dependency>>})
    BY DEF ClearedStaysSafe
  <2>1. request'[r] = request[r]
    BY <1>1, <1>2
  <2>2. Dag!Acyclic(deps \cup {<<request[r].task, request[r].dependency>>})
    BY <2>1 DEF ClearedStaysSafe
  <2>3. deps' \cup {<<request[r].task, request[r].dependency>>} \subseteq deps \cup {<<request[r].task, request[r].dependency>>}
    OBVIOUS
  <2>4. QED BY <2>1, <2>2, <2>3, SubgraphAcyclic
<1>8. QED BY <1>4, <1>5, <1>6, <1>7

\* A step that moves one session along the phases past the lock.
LEMMA LockedStepInv ==
  ASSUME Inv, NEW s \in Writers, NEW phase \in {"locked", "examined", "cleared"}, Step(s, phase),
         request[s] # NoRequest, \A r \in Writers : r # s => request[r].phase \notin {"locked", "examined", "cleared"},
         phase = "cleared" => Dag!Acyclic(deps \cup {<<request[s].task, request[s].dependency>>}),
         UNCHANGED <<life, deps>>
  PROVE  Inv'
<1> USE DEF Inv
<1>1. IsEdgeRequest(request[s])
  BY DEF GraphTypes
<1>2. \A r \in Writers : r # s => request'[r] = request[r]
  BY DEF Step, GraphTypes
<1>3. request'[s] = [phase |-> phase, kind |-> request[s].kind, task |-> request[s].task,
                dependency |-> request[s].dependency]
  BY <1>1 DEF Step, GraphTypes, IsEdgeRequest
<1>4. /\ IsEdgeRequest(request'[s]) /\ request'[s].phase = phase
      /\ request'[s].task = request[s].task /\ request'[s].dependency = request[s].dependency
  BY <1>1, <1>3 DEF IsEdgeRequest
<1>5. live' = live
  BY DEF live
<1>6. DOMAIN request' = Writers /\ request' = [r \in Writers |-> request'[r]]
  BY DEF Step, GraphTypes
<1>7. GraphTypes'
  BY <1>2, <1>4, <1>5, <1>6 DEF GraphTypes
<1>8. LockIsExclusive'
  BY <1>2 DEF LockIsExclusive
<1>9. NoCycle'
  BY DEF NoCycle
<1>10. ClearedStaysSafe'
  BY <1>2, <1>4 DEF ClearedStaysSafe
<1>11. QED BY <1>7, <1>8, <1>9, <1>10

\* Everyone but the session past the lock is not past it.
LEMMA OthersWait ==
  ASSUME Inv, NEW s \in Writers, request[s].phase \in {"locked", "examined", "cleared"}
  PROVE  \A r \in Writers : r # s => request[r].phase \notin {"locked", "examined", "cleared"}
BY DEF Inv, LockIsExclusive

LEMMA AddInv ==
  ASSUME Inv, NEW s \in Writers, AddDependency(s)
  PROVE  Inv'
<1> USE DEF Inv
<1>1. \A r \in Writers : request'[r] = IF r = s THEN NoRequest ELSE request[r]
  BY DEF AddDependency, Finish, GraphTypes
<1>2. \A r \in Writers : request'[r].phase \notin {"locked", "examined", "cleared"}
  BY <1>1, OthersWait DEF AddDependency, NoRequest
<1>3. live' = live
  BY DEF AddDependency, live
<1>4. DOMAIN request' = Writers /\ request' = [r \in Writers |-> request'[r]]
  BY DEF AddDependency, Finish, GraphTypes
<1>5. GraphTypes'
  BY <1>1, <1>3, <1>4 DEF AddDependency, GraphTypes
<1>6. NoCycle'
  BY DEF AddDependency, ClearedStaysSafe, NoCycle
<1>7. LockIsExclusive' /\ ClearedStaysSafe'
  BY <1>2 DEF LockIsExclusive, ClearedStaysSafe
<1>8. QED BY <1>5, <1>6, <1>7

\* Tasks come and go; edges only go.
LEMMA TasksInv ==
  ASSUME Inv, NEW t \in Tasks, CreateTask(t) \/ DeleteTask(t)
  PROVE  Inv'
<1> USE DEF Inv
<1>1. deps' \subseteq deps /\ request' = request
  BY DEF CreateTask, DeleteTask
<1>2. GraphTypes'
  <2>1. CASE CreateTask(t)
    BY <2>1 DEF CreateTask, GraphTypes, live
  <2>2. CASE DeleteTask(t)
    <3>1. \A x \in live : x # t => x \in live'
      BY <2>2 DEF DeleteTask, GraphTypes, live
    <3>2. \A e \in deps' : e \in live \X live /\ e[1] # t /\ e[2] # t
      BY <2>2 DEF DeleteTask, CascadeOf, GraphTypes
    <3>3. deps' \subseteq live' \X live'
      BY <3>1, <3>2
    <3>4. QED BY <2>2, <3>3 DEF DeleteTask, GraphTypes
  <2>3. QED BY <2>1, <2>2
<1>3. LockIsExclusive'
  BY <1>1 DEF LockIsExclusive
<1>4. NoCycle'
  BY <1>1, SubgraphAcyclic DEF NoCycle
<1>5. ClearedStaysSafe'
  <2> SUFFICES ASSUME NEW r \in Writers, request[r].phase = "cleared"
               PROVE  Dag!Acyclic(deps' \cup {<<request[r].task, request[r].dependency>>})
    BY <1>1 DEF ClearedStaysSafe
  <2>1. Dag!Acyclic(deps \cup {<<request[r].task, request[r].dependency>>})
    BY DEF ClearedStaysSafe
  <2>2. deps' \cup {<<request[r].task, request[r].dependency>>} \subseteq deps \cup {<<request[r].task, request[r].dependency>>}
    BY <1>1
  <2>3. QED BY <2>1, <2>2, SubgraphAcyclic
<1>6. QED BY <1>2, <1>3, <1>4, <1>5

LEMMA NextInv ==
  ASSUME QueryIsDeepEnough, Inv, [GraphNext]_graphVars
  PROVE  Inv'
<1> USE DEF Inv
<1>1. ASSUME NEW s \in Writers, NEW t \in Tasks, NEW d \in Tasks,
             BeginAdd(s, t, d) \/ BeginRemove(s, t, d)
      PROVE  Inv'
  <2>1. PICK kind \in {"add", "remove"} :
          request' = [request EXCEPT ![s] = [phase |-> "waiting", kind |-> kind, task |-> t, dependency |-> d]]
    BY <1>1 DEF BeginAdd, BeginRemove
  <2> DEFINE x == [phase |-> "waiting", kind |-> kind, task |-> t, dependency |-> d]
  <2>2. IsEdgeRequest(x) /\ x.phase = "waiting"
    BY DEF IsEdgeRequest
  <2>3. life' = life /\ deps' \subseteq deps
    BY <1>1 DEF BeginAdd, BeginRemove
  <2>4. request' = [request EXCEPT ![s] = x]
    BY <2>1
  <2> HIDE DEF x
  <2>5. QED BY <2>2, <2>3, <2>4, UnlockedStepInv
<1>2. ASSUME NEW s \in Writers, LockDependencyGraph(s) PROVE Inv'
  <2>1. request[s] # NoRequest /\ Step(s, "locked") /\ UNCHANGED <<life, deps>>
    BY <1>2 DEF LockDependencyGraph, NoRequest
  <2>2. \A r \in Writers : request[r].phase \notin {"locked", "examined", "cleared"}
    BY <1>2 DEF LockDependencyGraph, GraphLocked
  <2>3. QED BY <2>1, <2>2, LockedStepInv
<1>3. ASSUME NEW s \in Writers, Finish(s), life' = life, deps' \subseteq deps PROVE Inv'
  BY <1>3, UnlockedStepInv DEF Finish
<1>4. ASSUME NEW s \in Writers, ExamineTasks(s) PROVE Inv'
  <2>1. CASE Examined(request[s])
    <3>1. request[s] # NoRequest /\ request[s].phase = "locked"
      BY <1>4 DEF ExamineTasks, NoRequest
    <3>2. Step(s, "examined") /\ UNCHANGED <<life, deps>>
      BY <1>4, <2>1 DEF ExamineTasks
    <3>3. QED BY <3>1, <3>2, LockedStepInv, OthersWait
  <2>2. CASE ~Examined(request[s])
    BY <1>3, <1>4, <2>2 DEF ExamineTasks
  <2>3. QED BY <2>1, <2>2
<1>5. ASSUME NEW s \in Writers, CheckCycle(s) PROVE Inv'
  <2>1. CASE DependencyWouldCycle(request[s].task, request[s].dependency)
    BY <1>3, <1>5, <2>1 DEF CheckCycle
  <2>2. CASE ~DependencyWouldCycle(request[s].task, request[s].dependency)
    <3>1. request[s] # NoRequest /\ IsEdgeRequest(request[s])
      BY <1>5 DEF CheckCycle, NoRequest, GraphTypes
    <3>2. Dag!Acyclic(deps \cup {<<request[s].task, request[s].dependency>>})
      BY <2>2, <3>1, QueryIsSound DEF NoCycle, IsEdgeRequest
    <3>3. QED BY <1>5, <2>2, <3>1, <3>2, LockedStepInv, OthersWait DEF CheckCycle
  <2>3. QED BY <2>1, <2>2
<1>6. ASSUME NEW s \in Writers, RemoveDependency(s) PROVE Inv'
  BY <1>3, <1>6 DEF RemoveDependency
<1>7. CASE UNCHANGED graphVars
  BY <1>7 DEF graphVars, GraphTypes, live, LockIsExclusive, NoCycle, ClearedStaysSafe
<1>8. QED
  BY <1>1, <1>2, <1>3, <1>4, <1>5, <1>6, <1>7, AddInv, TasksInv DEF GraphNext, Advance, RollBack

\* The dependencies of a project never form a cycle.
THEOREM StaysAcyclic ==
  ASSUME QueryIsDeepEnough
  PROVE  GraphSpec => []NoCycle
<1>1. GraphSpec => []Inv
  BY InitInv, NextInv, PTL DEF GraphSpec
<1>2. QED BY <1>1, PTL DEF Inv

\* The answer of the cycle check stays good until the edge is inserted.
THEOREM ClearanceHolds ==
  ASSUME QueryIsDeepEnough
  PROVE  GraphSpec => []ClearedStaysSafe
<1>1. GraphSpec => []Inv
  BY InitInv, NextInv, PTL DEF GraphSpec
<1>2. QED BY <1>1, PTL DEF Inv

-----------------------------------------------------------------------------
(* The requests implement atomic changes of an acyclic graph *)

LEMMA InitImplements == GraphInit => Dag!Init
BY DEF GraphInit, Dag!Init, live

LEMMA NextImplements ==
  ASSUME QueryIsDeepEnough, Inv, [GraphNext]_graphVars
  PROVE  [Dag!Next]_(Dag!dagVars)
<1> USE DEF Inv, Dag!dagVars
<1>1. CASE UNCHANGED <<life, deps>>
  BY <1>1 DEF live
<1>2. ASSUME NEW s \in Writers, AddDependency(s) PROVE [Dag!Next]_(Dag!dagVars)
  <2> DEFINE t == request[s].task
             d == request[s].dependency
  <2>1. live' = live
    BY <1>2 DEF AddDependency, live
  <2>2. CASE <<t, d>> \in deps \/ ~({t, d} \subseteq live)
    BY <1>2, <2>1, <2>2 DEF AddDependency
  <2>3. CASE <<t, d>> \notin deps /\ {t, d} \subseteq live
    <3>1. t \in Tasks /\ d \in Tasks
      BY <2>3 DEF live
    <3>2. Dag!Acyclic(deps \cup {<<t, d>>})
      BY <1>2 DEF AddDependency, ClearedStaysSafe
    <3>3. Dag!AddDependency(t, d)
      BY <1>2, <2>1, <2>3, <3>2 DEF AddDependency, Dag!AddDependency
    <3>4. QED BY <3>1, <3>3 DEF Dag!Next
  <2>4. QED BY <2>2, <2>3
<1>3. ASSUME NEW s \in Writers, RemoveDependency(s) PROVE [Dag!Next]_(Dag!dagVars)
  <2> DEFINE t == request[s].task
             d == request[s].dependency
  <2>1. live' = live
    BY <1>3 DEF RemoveDependency, live
  <2>2. CASE <<t, d>> \notin deps
    BY <1>3, <2>1, <2>2 DEF RemoveDependency
  <2>3. CASE <<t, d>> \in deps
    <3>1. t \in Tasks /\ d \in Tasks
      BY <2>3 DEF GraphTypes, live
    <3>2. Dag!RemoveDependency(t, d)
      BY <1>3, <2>1, <2>3 DEF RemoveDependency, Dag!RemoveDependency
    <3>3. QED BY <3>1, <3>2 DEF Dag!Next
  <2>4. QED BY <2>2, <2>3
<1>4. ASSUME NEW t \in Tasks, CreateTask(t) PROVE [Dag!Next]_(Dag!dagVars)
  <2>1. t \notin live /\ live' = live \cup {t} /\ deps' = deps
    BY <1>4 DEF CreateTask, live, GraphTypes
  <2>2. QED BY <2>1 DEF Dag!CreateTask, Dag!Next
<1>5. ASSUME NEW t \in Tasks, DeleteTask(t) PROVE [Dag!Next]_(Dag!dagVars)
  <2>1. t \in live /\ live' = live \ {t}
    BY <1>5 DEF DeleteTask, live, GraphTypes
  <2>2. deps' = {e \in deps : e[1] # t /\ e[2] # t}
    BY <1>5 DEF DeleteTask, CascadeOf
  <2>3. QED BY <2>1, <2>2 DEF Dag!DeleteTask, Dag!Next
<1>6. QED
  BY <1>1, <1>2, <1>3, <1>4, <1>5
     DEF GraphNext, Advance, RollBack, graphVars, BeginAdd, BeginRemove, LockDependencyGraph, ExamineTasks,
         CheckCycle

\* Requests that interleave statement by statement amount to atomic changes
\* of an acyclic graph on the tasks that exist.
THEOREM Implements ==
  ASSUME QueryIsDeepEnough
  PROVE  GraphSpec => ImplementsDag
<1>1. GraphSpec => []Inv
  BY InitInv, NextInv, PTL DEF GraphSpec
<1>2. QED
  BY <1>1, InitImplements, NextImplements, PTL DEF GraphSpec, ImplementsDag, Dag!Spec

-----------------------------------------------------------------------------
(* The memberships of a project *)

Row == [role : AllRoles, status : AllStatuses, version : Nat \ {0}, joined : BOOLEAN]

NewMember == [role : Roles, status : {"INVITED", "ACTIVE"}]

Request ==
  [phase : {"authorizing", "loading", "locking", "counting", "writing"}, kind : {"update", "create"},
   actor : Users, target : Users, change : Changes \cup NewMember, expected : Nat,
   role : AllRoles, owners : BOOLEAN]

RowsTyped == Members \subseteq Users /\ IsFiniteSet(Members) /\ rows \in [Members -> Row]

RequestsTyped ==
  /\ tx \in [Sessions -> {Idle} \cup Request]
  /\ \A s \in Sessions : tx[s] # Idle =>
       /\ tx[s].kind = "update" => tx[s].change \in Changes /\ tx[s].target \in Members
       /\ tx[s].kind = "create" => tx[s].change \in NewMember
       /\ tx[s].phase = "loading" => tx[s].kind = "update"

Entered(s) == tx[s].phase \in {"locking", "counting", "writing"}

\* No two requests hold locks that exclude each other.
LocksExclude ==
  /\ \A r, s \in Sessions, u \in Users :
       r # s /\ HoldsUpdate(r, u) => ~HoldsShare(s, u) /\ ~HoldsUpdate(s, u)
  /\ \A r, s \in Sessions : HoldsOwners(r) /\ HoldsOwners(s) => r = s

\* From the moment it is authorized until it ends, a request's actor is the
\* active manager that was read: its row is shared.
ActorsStand ==
  \A s \in Sessions : tx[s].phase \notin {"idle", "authorizing"} =>
    /\ IsActive(tx[s].actor)
    /\ CanManageMembers(tx[s].role) /\ rows[tx[s].actor].role = tx[s].role

\* What a request was allowed to do to its target's row it still is, and the
\* owners' lock is asked for if an owner is made, changed or unmade.
DecisionsStand ==
  \A s \in Sessions : Entered(s) =>
    /\ tx[s].kind = "update" =>
         /\ CanManageMembership(tx[s].role, rows[tx[s].target].role, Wanted(tx[s], "role"))
         /\ "OWNER" \in {rows[tx[s].target].role, Wanted(tx[s], "role")} => tx[s].owners
    /\ tx[s].kind = "create" => CanManageMembership(tx[s].role, "MEMBER", tx[s].change["role"])

\* Who counted the owners and goes on leaves one behind.
CountStands ==
  \A s \in Sessions : tx[s].phase = "writing" /\ LosesOwner(tx[s]) =>
    ActiveOwners \ {tx[s].target} # {}

IInv ==
  /\ RowsTyped /\ RequestsTyped /\ LocksExclude
  /\ ActorsStand /\ DecisionsStand /\ CountStands /\ OwnerRemains

-----------------------------------------------------------------------------
(* Facts about requests *)

\* A role or a status a request asks for is one.
LEMMA ChangesTyped ==
  ASSUME NEW c \in Changes
  PROVE  /\ "role" \in DOMAIN c => c["role"] \in AllRoles
         /\ "status" \in DOMAIN c => c["status"] \in AllStatuses
  BY ChangesAssumption, UsersAssumption

LEMMA NewMemberTyped ==
  ASSUME NEW c \in NewMember
  PROVE  c["role"] \in AllRoles /\ c["status"] \in AllStatuses
  BY UsersAssumption DEF NewMember, AllStatuses

LEMMA WantedTyped ==
  ASSUME RowsTyped, NEW x \in Request, x.change \in Changes, x.target \in Members
  PROVE  Wanted(x, "role") \in AllRoles /\ Wanted(x, "status") \in AllStatuses
  BY ChangesTyped DEF RowsTyped, Row, Wanted

\* The founder owns the project.
LEMMA InvInit == Init => IInv
  <1> SUFFICES ASSUME Init PROVE IInv
    OBVIOUS
  <1>1. Members = {Founder} /\ rows[Founder] = [role |-> "OWNER", status |-> "ACTIVE", version |-> 1, joined |-> TRUE]
    BY DEF Init, Members
  <1>2. RowsTyped
    BY <1>1, FS_Singleton, UsersAssumption DEF Init, RowsTyped, Row, AllRoles, AllStatuses, Members
  <1>3. ActiveOwners # {}
    BY <1>1 DEF ActiveOwners
  <1>4. \A s \in Sessions : tx[s] = Idle
    BY DEF Init
  <1>5. RequestsTyped
    BY <1>4 DEF Init, RequestsTyped
  <1>6. LocksExclude /\ ActorsStand /\ DecisionsStand /\ CountStands
    BY <1>4 DEF LocksExclude, ActorsStand, DecisionsStand, CountStands, HoldsUpdate, HoldsShare, HoldsOwners,
                Entered, Idle
  <1> QED
    BY <1>2, <1>3, <1>5, <1>6 DEF IInv, OwnerRemains

-----------------------------------------------------------------------------
(* Steps that leave the rows alone *)

\* What a request of the others stands on depends on the rows and on its own record.
LEMMA OthersStand ==
  ASSUME IInv, UNCHANGED rows, NEW s \in Sessions, \A r \in Sessions \ {s} : tx'[r] = tx[r]
  PROVE  /\ \A x : LosesOwner(x)' <=> LosesOwner(x)
         /\ ActiveOwners' = ActiveOwners
         /\ \A r \in Sessions \ {s} :
              /\ \A u \in Users : (HoldsShare(r, u)' <=> HoldsShare(r, u)) /\ (HoldsUpdate(r, u)' <=> HoldsUpdate(r, u))
              /\ HoldsOwners(r)' <=> HoldsOwners(r)
  BY DEF LosesOwner, ActiveOwners, Members, Wanted, HoldsShare, HoldsUpdate, HoldsOwners

\* A request that ends, or begins, holds nothing.
LEMMA HoldingNothing ==
  ASSUME IInv, UNCHANGED rows, NEW s \in Sessions, NEW x \in {Idle} \cup Request,
         tx' = [tx EXCEPT ![s] = x],
         x # Idle => /\ x.phase = "authorizing"
                     /\ x.kind = "update" => x.change \in Changes /\ x.target \in Members
                     /\ x.kind = "create" => x.change \in NewMember
  PROVE  IInv'
  <1>1. tx'[s] = x /\ (\A r \in Sessions \ {s} : tx'[r] = tx[r]) /\ x.phase \in {"idle", "authorizing"}
    BY DEF IInv, RequestsTyped, Idle
  <1>2. /\ \A u \in Users : ~HoldsShare(s, u)' /\ ~HoldsUpdate(s, u)'
        /\ ~HoldsOwners(s)'
    BY <1>1 DEF HoldsShare, HoldsUpdate, HoldsOwners
  <1>3. RequestsTyped'
    BY <1>1 DEF IInv, RequestsTyped, Members
  <1>4. RowsTyped' /\ OwnerRemains'
    BY DEF IInv, RowsTyped, OwnerRemains, Members, ActiveOwners
  <1>5. LocksExclude'
    BY <1>1, <1>2, OthersStand DEF IInv, LocksExclude
  <1>6. ActorsStand'
    BY <1>1 DEF IInv, ActorsStand, IsActive, Members
  <1>7. DecisionsStand'
    BY <1>1 DEF IInv, DecisionsStand, Entered, Wanted
  <1>8. CountStands'
    BY <1>1, OthersStand DEF IInv, CountStands
  <1> QED
    BY <1>3, <1>4, <1>5, <1>6, <1>7, <1>8 DEF IInv

LEMMA BeginInv ==
  ASSUME IInv,
         \/ \E s \in Sessions, u, m \in Users, c \in Changes, v \in 1..MaxRequests : BeginUpdate(s, u, m, c, v)
         \/ \E s \in Sessions, u, m \in Users, r \in Roles, x \in AllStatuses : BeginCreate(s, u, m, r, x)
  PROVE  IInv'
  <1>1. ASSUME NEW s \in Sessions, NEW u \in Users, NEW m \in Users, NEW c \in Changes, NEW v \in 1..MaxRequests,
               BeginUpdate(s, u, m, c, v)
        PROVE  IInv'
    <2> DEFINE x == [phase |-> "authorizing", kind |-> "update", actor |-> u, target |-> m,
                     change |-> c, expected |-> v, role |-> "VIEWER", owners |-> FALSE]
    <2>1. /\ tx' = [tx EXCEPT ![s] = x] /\ UNCHANGED rows /\ m \in Members
      BY <1>1 DEF BeginUpdate, Begin
    <2>2. x \in Request
      BY BoundAssumption DEF Request, AllRoles
    <2> QED
      BY <2>1, <2>2, HoldingNothing
  <1>2. ASSUME NEW s \in Sessions, NEW u \in Users, NEW m \in Users, NEW r \in Roles, NEW y \in AllStatuses,
               BeginCreate(s, u, m, r, y)
        PROVE  IInv'
    <2> DEFINE x == [phase |-> "authorizing", kind |-> "create", actor |-> u, target |-> m,
                     change |-> [role |-> r, status |-> y], expected |-> 0,
                     role |-> "VIEWER", owners |-> FALSE]
    <2>1. /\ tx' = [tx EXCEPT ![s] = x] /\ UNCHANGED rows /\ y \in {"INVITED", "ACTIVE"}
      BY <1>2 DEF BeginCreate, Begin
    <2>2. [role |-> r, status |-> y] \in NewMember
      BY <2>1 DEF NewMember
    <2>3. x \in Request
      BY <2>2 DEF Request, AllRoles
    <2> QED
      BY <2>1, <2>2, <2>3, HoldingNothing
  <1> QED
    BY <1>1, <1>2

\* A request that ends early: refused, rolled back or aborted.
LEMMA EndInv ==
  ASSUME IInv, NEW s \in Sessions, End(s), UNCHANGED rows
  PROVE  IInv'
  BY HoldingNothing DEF End

\* A request that goes on, with the locks it has just been given and what it has
\* read under them.
LEMMA GoOnInv ==
  ASSUME IInv, UNCHANGED rows, NEW s \in Sessions, NEW x \in Request,
         tx' = [tx EXCEPT ![s] = x],
         x.kind = "update" => x.change \in Changes /\ x.target \in Members,
         x.kind = "create" => x.change \in NewMember,
         x.phase # "authorizing",
         x.phase = "loading" => x.kind = "update",
         IsActive(x.actor), CanManageMembers(x.role), rows[x.actor].role = x.role,
         \A r \in Sessions \ {s} : ~HoldsUpdate(r, x.actor),
         x.phase # "loading" =>
           /\ x.kind = "update" =>
                /\ CanManageMembership(x.role, rows[x.target].role, Wanted(x, "role"))
                /\ "OWNER" \in {rows[x.target].role, Wanted(x, "role")} => x.owners
                /\ \A r \in Sessions \ {s} : ~HoldsShare(r, x.target) /\ ~HoldsUpdate(r, x.target)
           /\ x.kind = "create" => CanManageMembership(x.role, "MEMBER", x.change["role"]),
         x.phase \in {"counting", "writing"} /\ x.owners => \A r \in Sessions \ {s} : ~HoldsOwners(r),
         x.phase = "writing" /\ LosesOwner(x) => ActiveOwners \ {x.target} # {}
  PROVE  IInv'
  <1>1. tx'[s] = x /\ (\A r \in Sessions \ {s} : tx'[r] = tx[r])
    BY DEF IInv, RequestsTyped
  <1>2. x.phase \notin {"idle", "authorizing"} /\ x # Idle
    BY DEF Request, Idle
  <1>3. RequestsTyped'
    BY <1>1 DEF IInv, RequestsTyped, Members
  <1>4. RowsTyped' /\ OwnerRemains'
    BY DEF IInv, RowsTyped, OwnerRemains, Members, ActiveOwners
  <1>5. LocksExclude'
    <2>1. \A u \in Users : /\ HoldsShare(s, u)' <=> x.actor = u
                           /\ HoldsUpdate(s, u)' => x.kind = "update" /\ x.phase # "loading" /\ x.target = u
      BY <1>1, <1>2 DEF HoldsShare, HoldsUpdate
    <2>2. HoldsOwners(s)' => x.phase \in {"counting", "writing"} /\ x.owners
      BY <1>1 DEF HoldsOwners
    <2> QED
      BY <1>1, <2>1, <2>2, OthersStand DEF IInv, LocksExclude
  <1>6. ActorsStand'
    BY <1>1 DEF IInv, ActorsStand, IsActive, Members
  <1>7. DecisionsStand'
    BY <1>1, <1>2 DEF IInv, DecisionsStand, Entered, Wanted
  <1>8. CountStands'
    BY <1>1, OthersStand DEF IInv, CountStands
  <1> QED
    BY <1>3, <1>4, <1>5, <1>6, <1>7, <1>8 DEF IInv

\* A request in flight, and what it holds.
LEMMA InFlight ==
  ASSUME IInv, NEW s \in Sessions, tx[s] # Idle
  PROVE  /\ tx[s] \in Request
         /\ tx[s].kind = "update" => tx[s].change \in Changes /\ tx[s].target \in Members
         /\ tx[s].kind = "create" => tx[s].change \in NewMember
         /\ tx[s].phase = "loading" => tx[s].kind = "update"
         /\ tx[s].phase # "authorizing" =>
              /\ IsActive(tx[s].actor) /\ CanManageMembers(tx[s].role) /\ rows[tx[s].actor].role = tx[s].role
              /\ \A r \in Sessions \ {s} : ~HoldsUpdate(r, tx[s].actor)
         /\ Entered(s) /\ tx[s].kind = "update" =>
              \A r \in Sessions \ {s} : ~HoldsShare(r, tx[s].target) /\ ~HoldsUpdate(r, tx[s].target)
  <1>1. tx[s] \in Request /\ tx[s].phase # "idle" /\ tx[s].actor \in Users /\ tx[s].target \in Users
    BY DEF IInv, RequestsTyped, Request
  <1>2. tx[s].phase # "authorizing" => HoldsShare(s, tx[s].actor)
    BY <1>1 DEF HoldsShare
  <1>3. Entered(s) /\ tx[s].kind = "update" => HoldsUpdate(s, tx[s].target)
    BY DEF HoldsUpdate, Entered
  <1> QED
    BY <1>1, <1>2, <1>3 DEF IInv, RequestsTyped, ActorsStand, LocksExclude

\* The record of a request that enters its last phases.
Entering(x, owners, role) ==
  [x EXCEPT !.phase = IF owners THEN "locking" ELSE "writing", !.owners = owners, !.role = role]

LEMMA EnteringTyped ==
  ASSUME NEW x \in Request, NEW owners \in BOOLEAN, NEW role \in AllRoles
  PROVE  LET y == Entering(x, owners, role)
         IN  /\ y \in Request /\ y.phase \in {"locking", "writing"} /\ y.kind = x.kind /\ y.role = role
             /\ y.actor = x.actor /\ y.change = x.change /\ y.target = x.target /\ y.owners = owners
             /\ y.phase = "writing" => ~y.owners
  <1> DEFINE y == Entering(x, owners, role)
  <1>1. CASE owners
    <2>1. y = [x EXCEPT !.phase = "locking", !.owners = TRUE, !.role = role] /\ owners = TRUE
      BY <1>1 DEF Entering
    <2> QED
      BY <2>1 DEF Request
  <1>2. CASE ~owners
    <2>1. y = [x EXCEPT !.phase = "writing", !.owners = FALSE, !.role = role] /\ owners = FALSE
      BY <1>2 DEF Entering
    <2> QED
      BY <2>1 DEF Request
  <1> QED
    BY <1>1, <1>2

LEMMA EnterEnters ==
  ASSUME IInv, NEW s \in Sessions, tx[s] \in Request, NEW owners \in BOOLEAN, NEW role \in AllRoles,
         Enter(s, owners, role)
  PROVE  \E y \in Request :
           /\ tx' = [tx EXCEPT ![s] = y]
           /\ y.phase \in {"locking", "writing"} /\ y.kind = tx[s].kind /\ y.role = role
           /\ y.actor = tx[s].actor /\ y.change = tx[s].change /\ y.target = tx[s].target
           /\ y.owners = owners /\ (y.phase = "writing" => ~y.owners)
  <1>1. tx' = [tx EXCEPT ![s] = Entering(tx[s], owners, role)]
    BY DEF Enter, Entering, IInv, RequestsTyped
  <1> QED
    BY <1>1, EnteringTyped

LEMMA AuthorizeInv == ASSUME IInv, NEW s \in Sessions, Authorize(s) PROVE IInv'
  <1> DEFINE x == tx[s]
             role == rows[x.actor].role
  <1>1. /\ x # Idle /\ x.phase = "authorizing" /\ UNCHANGED rows
        /\ \A r \in Sessions \ {s} : ~HoldsUpdate(r, x.actor)
    BY DEF Authorize, Idle, Runnable, BlockedBy
  <1>2. /\ x \in Request
        /\ x.kind = "update" => x.change \in Changes /\ x.target \in Members
        /\ x.kind = "create" => x.change \in NewMember
    BY <1>1, InFlight
  <1>3. CASE End(s)
    BY <1>1, <1>3, EndInv
  <1>4. ASSUME ~End(s) PROVE IsActive(x.actor) /\ CanManageMembers(role) /\ role \in AllRoles
    BY <1>4 DEF Authorize, CanManageMembers, AllRoles
  <1>5. CASE ~End(s) /\ x.kind = "update"
    <2> DEFINE y == [x EXCEPT !.phase = "loading", !.role = role]
    <2>1. tx' = [tx EXCEPT ![s] = y]
      <3>1. tx' = [tx EXCEPT ![s].phase = "loading", ![s].role = role]
        BY <1>4, <1>5 DEF Authorize
      <3> QED
        BY <3>1 DEF IInv, RequestsTyped
    <2>2. /\ y \in Request /\ y.phase = "loading" /\ y.kind = "update" /\ y.role = role
          /\ y.actor = x.actor /\ y.change = x.change /\ y.target = x.target
      BY <1>2, <1>4, <1>5 DEF Request
    <2> HIDE DEF y
    <2> QED
      BY <1>1, <1>2, <1>4, <1>5, <2>1, <2>2, GoOnInv
  <1>6. CASE ~End(s) /\ x.kind # "update"
    <2> DEFINE owners == x.change["role"] = "OWNER"
    <2>0. owners \in BOOLEAN
      OBVIOUS
    <2>1. CanManageMembership(role, "MEMBER", x.change["role"]) /\ Enter(s, owners, role)
      BY <1>4, <1>6 DEF Authorize
    <2>2. x.kind = "create"
      BY <1>2, <1>6 DEF Request
    <2> HIDE DEF owners
    <2>3. PICK y \in Request :
            /\ tx' = [tx EXCEPT ![s] = y]
            /\ y.phase \in {"locking", "writing"} /\ y.kind = x.kind /\ y.role = role
            /\ y.actor = x.actor /\ y.change = x.change /\ y.target = x.target
            /\ y.owners = owners /\ (y.phase = "writing" => ~y.owners)
      BY <1>2, <1>4, <1>6, <2>0, <2>1, EnterEnters
    <2>4. ~LosesOwner(y)
      BY <2>2, <2>3 DEF LosesOwner
    <2>5. CanManageMembership(y.role, "MEMBER", y.change["role"])
      BY <2>1, <2>3
    <2> QED
      BY <1>1, <1>2, <1>4, <1>6, <2>2, <2>3, <2>4, <2>5, GoOnInv
  <1> QED
    BY <1>3, <1>5, <1>6

LEMMA LoadTargetInv == ASSUME IInv, NEW s \in Sessions, LoadTarget(s) PROVE IInv'
  <1> DEFINE x == tx[s]
             current == rows[x.target]
             owners == "OWNER" \in {current.role, Wanted(x, "role")}
  <1>1. /\ x # Idle /\ x.phase = "loading" /\ UNCHANGED rows
        /\ \A r \in Sessions \ {s} : ~HoldsShare(r, x.target) /\ ~HoldsUpdate(r, x.target)
    BY DEF LoadTarget, Idle, Runnable, BlockedBy
  <1>2. /\ x \in Request /\ x.kind = "update" /\ x.change \in Changes /\ x.target \in Members
        /\ IsActive(x.actor) /\ CanManageMembers(x.role) /\ rows[x.actor].role = x.role
        /\ \A r \in Sessions \ {s} : ~HoldsUpdate(r, x.actor)
    BY <1>1, InFlight
  <1>3. CASE End(s)
    BY <1>1, <1>3, EndInv
  <1>4. CASE ~End(s)
    <2>1. Enter(s, owners, x.role) /\ CanManageMembership(x.role, current.role, Wanted(x, "role"))
      BY <1>4 DEF LoadTarget
    <2>2. owners \in BOOLEAN /\ x.role \in AllRoles
      BY <1>2 DEF Request
    <2>3. x.target \in ActiveOwners => owners
      BY DEF ActiveOwners
    <2>4. owners <=> "OWNER" \in {current.role, Wanted(x, "role")}
      OBVIOUS
    <2> HIDE DEF owners
    <2>5. PICK y \in Request :
            /\ tx' = [tx EXCEPT ![s] = y]
            /\ y.phase \in {"locking", "writing"} /\ y.kind = x.kind /\ y.role = x.role
            /\ y.actor = x.actor /\ y.change = x.change /\ y.target = x.target
            /\ y.owners = owners /\ (y.phase = "writing" => ~y.owners)
      BY <1>2, <2>1, <2>2, EnterEnters
    <2>6. Wanted(y, "role") = Wanted(x, "role")
      BY <2>5 DEF Wanted
    <2>7. y.phase = "writing" => ~LosesOwner(y)
      BY <2>3, <2>5 DEF LosesOwner
    <2> QED
      BY <1>1, <1>2, <2>1, <2>4, <2>5, <2>6, <2>7, GoOnInv
  <1> QED
    BY <1>3, <1>4

\* What a request that has entered its last phases stands on.
LEMMA Standing ==
  ASSUME IInv, NEW s \in Sessions, Entered(s)
  PROVE  LET x == tx[s] IN
         /\ x.kind = "update" => x.change \in Changes /\ x.target \in Members
         /\ x.kind = "create" => x.change \in NewMember
         /\ IsActive(x.actor) /\ CanManageMembers(x.role) /\ rows[x.actor].role = x.role
         /\ \A r \in Sessions \ {s} : ~HoldsUpdate(r, x.actor)
         /\ x.kind = "update" =>
              /\ CanManageMembership(x.role, rows[x.target].role, Wanted(x, "role"))
              /\ "OWNER" \in {rows[x.target].role, Wanted(x, "role")} => x.owners
              /\ \A r \in Sessions \ {s} : ~HoldsShare(r, x.target) /\ ~HoldsUpdate(r, x.target)
         /\ x.kind = "create" => CanManageMembership(x.role, "MEMBER", x.change["role"])
  <1>1. tx[s] # Idle /\ tx[s].phase # "authorizing"
    BY DEF Entered, Idle
  <1>2. DecisionsStand
    BY DEF IInv
  <1> QED
    BY <1>1, <1>2, InFlight DEF DecisionsStand

LEMMA LockOwnerInv == ASSUME IInv, NEW s \in Sessions, LockOwnerInvariant(s) PROVE IInv'
  <1> DEFINE x == tx[s]
             y == [x EXCEPT !.phase = "counting"]
  <1>1. /\ x # Idle /\ x.phase = "locking" /\ UNCHANGED rows
        /\ \A r \in Sessions \ {s} : ~HoldsOwners(r)
    BY DEF LockOwnerInvariant, Idle, Runnable, BlockedBy
  <1>2. x \in Request /\ Entered(s)
    BY <1>1, InFlight DEF Entered
  <1>3. tx' = [tx EXCEPT ![s] = y]
    BY DEF LockOwnerInvariant, IInv, RequestsTyped
  <1>4. /\ y \in Request /\ y.phase = "counting" /\ y.kind = x.kind /\ y.role = x.role
        /\ y.actor = x.actor /\ y.change = x.change /\ y.target = x.target /\ y.owners = x.owners
    BY <1>2 DEF Request
  <1>5. Wanted(y, "role") = Wanted(x, "role")
    BY <1>4 DEF Wanted
  <1> HIDE DEF y
  <1> QED
    <2>1. /\ y.kind = "update" => y.change \in Changes /\ y.target \in Members
          /\ y.kind = "create" => y.change \in NewMember
          /\ IsActive(y.actor) /\ CanManageMembers(y.role) /\ rows[y.actor].role = y.role
          /\ \A r \in Sessions \ {s} : ~HoldsUpdate(r, y.actor)
      BY <1>2, <1>4, Standing
    <2>2. /\ y.kind = "update" =>
               /\ CanManageMembership(y.role, rows[y.target].role, Wanted(y, "role"))
               /\ "OWNER" \in {rows[y.target].role, Wanted(y, "role")} => y.owners
               /\ \A r \in Sessions \ {s} : ~HoldsShare(r, y.target) /\ ~HoldsUpdate(r, y.target)
          /\ y.kind = "create" => CanManageMembership(y.role, "MEMBER", y.change["role"])
      BY <1>2, <1>4, <1>5, Standing
    <2> QED
      BY <1>1, <1>3, <1>4, <2>1, <2>2, GoOnInv

LEMMA CountInv == ASSUME IInv, NEW s \in Sessions, CountActiveOwners(s) PROVE IInv'
  <1> DEFINE x == tx[s]
             y == [x EXCEPT !.phase = "writing"]
  <1>1. x # Idle /\ x.phase = "counting" /\ UNCHANGED rows
    BY DEF CountActiveOwners, Idle
  <1>2. x \in Request /\ Entered(s)
    BY <1>1, InFlight DEF Entered
  <1>3. CASE LosesOwner(x) /\ Cardinality(ActiveOwners) <= 1
    BY <1>1, <1>3, EndInv DEF CountActiveOwners
  <1>4. CASE ~(LosesOwner(x) /\ Cardinality(ActiveOwners) <= 1)
    <2>1. tx' = [tx EXCEPT ![s] = y]
      BY <1>4 DEF CountActiveOwners, IInv, RequestsTyped
    <2>2. /\ y \in Request /\ y.phase = "writing" /\ y.kind = x.kind /\ y.role = x.role
          /\ y.actor = x.actor /\ y.change = x.change /\ y.target = x.target /\ y.owners = x.owners
      BY <1>2 DEF Request
    <2>3. /\ Wanted(y, "role") = Wanted(x, "role") /\ Wanted(y, "status") = Wanted(x, "status")
          /\ LosesOwner(y) <=> LosesOwner(x)
      BY <2>2 DEF Wanted, LosesOwner
    <2>4. LosesOwner(x) => ActiveOwners \ {x.target} # {}
      <3> SUFFICES ASSUME LosesOwner(x), ActiveOwners \subseteq {x.target} PROVE FALSE
        OBVIOUS
      <3>1. ActiveOwners = {x.target}
        BY DEF LosesOwner
      <3>2. Cardinality(ActiveOwners) = 1
        BY <3>1, FS_Singleton
      <3> QED
        BY <1>4, <3>2
    <2>5. x.owners => \A r \in Sessions \ {s} : ~HoldsOwners(r)
      BY <1>1 DEF IInv, LocksExclude, HoldsOwners
    <2> HIDE DEF y
    <2> QED
      <3>1. /\ y.kind = "update" => y.change \in Changes /\ y.target \in Members
            /\ y.kind = "create" => y.change \in NewMember
            /\ IsActive(y.actor) /\ CanManageMembers(y.role) /\ rows[y.actor].role = y.role
            /\ \A r \in Sessions \ {s} : ~HoldsUpdate(r, y.actor)
        BY <1>2, <2>2, Standing
      <3>2. /\ y.kind = "update" =>
                 /\ CanManageMembership(y.role, rows[y.target].role, Wanted(y, "role"))
                 /\ "OWNER" \in {rows[y.target].role, Wanted(y, "role")} => y.owners
                 /\ \A r \in Sessions \ {s} : ~HoldsShare(r, y.target) /\ ~HoldsUpdate(r, y.target)
            /\ y.kind = "create" => CanManageMembership(y.role, "MEMBER", y.change["role"])
        BY <1>2, <2>2, <2>3, Standing
      <3> QED
        BY <1>1, <2>1, <2>2, <2>3, <2>4, <2>5, <3>1, <3>2, GoOnInv
  <1> QED
    BY <1>3, <1>4

-----------------------------------------------------------------------------
(* Steps that write a membership *)

\* A request writes its target's row and ends.  The requests that remain stand
\* on other rows, and who of them has counted counts on an owner it leaves.
LEMMA WriteInv ==
  ASSUME IInv, NEW s \in Sessions, End(s), NEW m \in Users, NEW row \in Row,
         rows' = [u \in Members \cup {m} |-> IF u = m THEN row ELSE rows[u]],
         \A r \in Sessions \ {s} :
           /\ tx[r].phase \notin {"idle", "authorizing"} => tx[r].actor # m
           /\ Entered(r) /\ tx[r].kind = "update" => tx[r].target # m,
         m \in ActiveOwners /\ ~(row.status = "ACTIVE" /\ row.role = "OWNER") =>
           /\ ActiveOwners \ {m} # {}
           /\ \A r \in Sessions \ {s} : ~HoldsOwners(r)
  PROVE  IInv'
  <1>1. /\ tx'[s] = Idle /\ \A r \in Sessions \ {s} : tx'[r] = tx[r]
        /\ tx' \in [Sessions -> {Idle} \cup Request]
    BY DEF End, IInv, RequestsTyped
  <1>2. /\ Members' = Members \cup {m} /\ rows'[m] = row
        /\ \A u \in Members \ {m} : rows'[u] = rows[u]
    BY DEF Members
  <1>3. RowsTyped'
    <2>1. Members' \subseteq Users /\ IsFiniteSet(Members')
      BY <1>2, FS_AddElement DEF IInv, RowsTyped
    <2>2. rows' \in [Members \cup {m} -> Row]
      BY DEF IInv, RowsTyped
    <2> QED
      BY <1>2, <2>1, <2>2 DEF RowsTyped
  <1>4. RequestsTyped'
    BY <1>1, <1>2 DEF IInv, RequestsTyped
  <1>5. /\ ActiveOwners \ {m} \subseteq ActiveOwners'
        /\ m \in ActiveOwners' <=> row.status = "ACTIVE" /\ row.role = "OWNER"
    BY <1>2 DEF ActiveOwners
  <1>6. OwnerRemains'
    BY <1>5 DEF IInv, OwnerRemains
  <1>7. LocksExclude'
    <2>1. \A r \in Sessions, u \in Users :
            /\ HoldsShare(r, u)' => HoldsShare(r, u)
            /\ HoldsUpdate(r, u)' => HoldsUpdate(r, u)
            /\ HoldsOwners(r)' => HoldsOwners(r)
      BY <1>1 DEF HoldsShare, HoldsUpdate, HoldsOwners, Idle
    <2> QED
      BY <2>1 DEF IInv, LocksExclude
  <1>8. ActorsStand'
    BY <1>1, <1>2 DEF IInv, ActorsStand, IsActive, Idle
  <1>9. \A r \in Sessions \ {s} : Entered(r) /\ tx[r].kind = "update" =>
          /\ tx[r].target \in Members \ {m} /\ rows'[tx[r].target] = rows[tx[r].target]
          /\ Wanted(tx[r], "role")' = Wanted(tx[r], "role") /\ Wanted(tx[r], "status")' = Wanted(tx[r], "status")
    <2> SUFFICES ASSUME NEW r \in Sessions \ {s}, Entered(r), tx[r].kind = "update"
                 PROVE  /\ tx[r].target \in Members \ {m}
                        /\ rows'[tx[r].target] = rows[tx[r].target]
                        /\ Wanted(tx[r], "role")' = Wanted(tx[r], "role")
                        /\ Wanted(tx[r], "status")' = Wanted(tx[r], "status")
      OBVIOUS
    <2>1. tx[r].target \in Members \ {m}
      BY DEF IInv, RequestsTyped, Entered, Idle
    <2> QED
      BY <1>1, <1>2, <2>1 DEF Wanted
  <1>10. DecisionsStand'
    <2> SUFFICES ASSUME NEW r \in Sessions, Entered(r)'
                 PROVE  /\ tx'[r].kind = "update" =>
                             /\ CanManageMembership(tx'[r].role, rows'[tx'[r].target].role, Wanted(tx[r], "role")')
                             /\ "OWNER" \in {rows'[tx'[r].target].role, Wanted(tx[r], "role")'} => tx'[r].owners
                        /\ tx'[r].kind = "create" => CanManageMembership(tx'[r].role, "MEMBER", tx'[r].change["role"])
      BY DEF DecisionsStand
    <2>1. r # s /\ tx'[r] = tx[r] /\ Entered(r)
      BY <1>1 DEF Entered, Idle
    <2> QED
      BY <1>9, <2>1, Standing
  <1>11. CountStands'
    <2> SUFFICES ASSUME NEW r \in Sessions, tx'[r].phase = "writing", LosesOwner(tx[r])'
                 PROVE  ActiveOwners' \ {tx'[r].target} # {}
      BY DEF CountStands
    <2>1. r # s /\ tx'[r] = tx[r] /\ Entered(r)
      BY <1>1 DEF Idle, Entered
    <2>2. tx[r].kind = "update" /\ tx[r].target \in Members \ {m} /\ tx[r].target \in ActiveOwners
      BY <1>2, <1>9, <2>1 DEF LosesOwner, ActiveOwners
    <2>3. LosesOwner(tx[r]) /\ HoldsOwners(r)
      BY <1>9, <2>1, <2>2 DEF LosesOwner, HoldsOwners, IInv, DecisionsStand, ActiveOwners
    <2>4. PICK u \in ActiveOwners : u # tx[r].target
      BY <2>1, <2>3 DEF IInv, CountStands
    <2>5. u \in ActiveOwners'
      BY <1>5, <2>1, <2>3
    <2> QED
      BY <2>1, <2>4, <2>5
  <1> QED
    BY <1>3, <1>4, <1>6, <1>7, <1>8, <1>10, <1>11 DEF IInv

LEMMA UpdateInv == ASSUME IInv, NEW s \in Sessions, UpdateMembership(s) PROVE IInv'
  <1> DEFINE x == tx[s]
             m == x.target
             row == [role |-> Wanted(x, "role"), status |-> Wanted(x, "status"), version |-> rows[m].version + 1,
                     joined |-> JoinedAfter(rows[m].joined, Wanted(x, "status"))]
  <1>1. x # Idle /\ x.phase = "writing" /\ x.kind = "update" /\ End(s)
    BY DEF UpdateMembership, Idle
  <1>2. /\ x \in Request /\ Entered(s) /\ m \in Members /\ m \in Users /\ x.change \in Changes
        /\ \A r \in Sessions \ {s} : ~HoldsShare(r, m) /\ ~HoldsUpdate(r, m)
    BY <1>1, InFlight DEF Entered, Request
  <1>3. CASE UNCHANGED rows
    BY <1>1, <1>3, EndInv
  <1>4. CASE rows' = [rows EXCEPT ![m] = row]
    <2>1. row \in Row
      <3>1. rows[m] \in Row
        BY <1>2 DEF IInv, RowsTyped
      <3>2. JoinedAfter(rows[m].joined, Wanted(x, "status")) \in BOOLEAN
        BY DEF JoinedAfter
      <3> HIDE DEF m
      <3> QED
        BY <1>2, <3>1, <3>2, WantedTyped DEF IInv, Row, m
    <2>2. rows' = [u \in Members \cup {m} |-> IF u = m THEN row ELSE rows[u]]
      BY <1>2, <1>4 DEF IInv, RowsTyped, Members
    <2>3. \A r \in Sessions \ {s} :
            /\ tx[r].phase \notin {"idle", "authorizing"} => tx[r].actor # m
            /\ Entered(r) /\ tx[r].kind = "update" => tx[r].target # m
      BY <1>2 DEF HoldsShare, HoldsUpdate, Entered
    <2>4. row.status = Wanted(x, "status") /\ row.role = Wanted(x, "role")
      OBVIOUS
    <2> HIDE DEF row
    <2>5. ASSUME m \in ActiveOwners, ~(row.status = "ACTIVE" /\ row.role = "OWNER")
          PROVE  /\ ActiveOwners \ {m} # {}
                 /\ \A r \in Sessions \ {s} : ~HoldsOwners(r)
      <3>1. LosesOwner(x)
        BY <1>1, <2>4, <2>5 DEF LosesOwner
      <3>2. HoldsOwners(s)
        BY <1>1, <1>2, <2>5 DEF IInv, DecisionsStand, ActiveOwners, HoldsOwners
      <3> QED
        BY <1>1, <3>1, <3>2 DEF IInv, CountStands, LocksExclude
    <2> QED
      BY <1>1, <1>2, <2>1, <2>2, <2>3, <2>5, WriteInv
  <1> QED
    BY <1>3, <1>4 DEF UpdateMembership

LEMMA CreateInv == ASSUME IInv, NEW s \in Sessions, CreateMembership(s) PROVE IInv'
  <1> DEFINE x == tx[s]
             m == x.target
             joined == x.change["status"] = "ACTIVE"
             row == [role |-> x.change["role"], status |-> x.change["status"],
                     version |-> 1, joined |-> joined]
  <1>1. x # Idle /\ x.phase = "writing" /\ x.kind = "create" /\ End(s)
    BY DEF CreateMembership, Idle
  <1>2. x \in Request /\ m \in Users /\ x.change \in NewMember
    BY <1>1, InFlight DEF Request
  <1>3. CASE m \in Members
    BY <1>1, <1>3, EndInv DEF CreateMembership
  <1>4. CASE m \notin Members
    <2>1. rows' = [u \in Members \cup {m} |-> IF u = m THEN row ELSE rows[u]]
      BY <1>4 DEF CreateMembership
    <2>a. joined \in BOOLEAN
      OBVIOUS
    <2> HIDE DEF joined
    <2>2. row \in Row
      BY <1>2, <2>a, NewMemberTyped DEF Row, AllRoles, AllStatuses
    <2>3. \A r \in Sessions \ {s} :
            /\ tx[r].phase \notin {"idle", "authorizing"} => tx[r].actor # m
            /\ Entered(r) /\ tx[r].kind = "update" => tx[r].target # m
      BY <1>4 DEF IInv, ActorsStand, IsActive, RequestsTyped, Entered, Idle
    <2>4. m \notin ActiveOwners
      BY <1>4 DEF ActiveOwners
    <2> HIDE DEF row
    <2> QED
      BY <1>1, <1>2, <2>1, <2>2, <2>3, <2>4, WriteInv
  <1> QED
    BY <1>3, <1>4

-----------------------------------------------------------------------------
(* The theorems *)

LEMMA InvNext == IInv /\ [Next]_vars => IInv'
  <1> SUFFICES ASSUME IInv, [Next]_vars PROVE IInv'
    OBVIOUS
  <1>1. ASSUME NEW s \in Sessions, Proceed(s) PROVE IInv'
    BY <1>1, AuthorizeInv, LoadTargetInv, LockOwnerInv, CountInv, UpdateInv, CreateInv DEF Proceed
  <1>2. ASSUME NEW s \in Sessions, Abort(s) PROVE IInv'
    BY <1>2, EndInv DEF Abort
  <1>3. CASE UNCHANGED vars
    BY <1>3 DEF vars, IInv, RowsTyped, RequestsTyped, LocksExclude, ActorsStand, DecisionsStand, CountStands,
                OwnerRemains, Members, Entered, HoldsShare, HoldsUpdate, HoldsOwners, IsActive, Wanted,
                LosesOwner, ActiveOwners
  <1> QED
    BY <1>1, <1>2, <1>3, BeginInv DEF Next

THEOREM Invariance == Spec => []IInv
  BY InvInit, InvNext, PTL DEF Spec

\* Every interleaving of demotions, suspensions, removals and departures leaves
\* the project an active owner (Service.UpdateMembership).
THEOREM OwnerAlwaysRemains == Spec => []OwnerRemains
  <1>1. IInv => OwnerRemains
    BY DEF IInv
  <1> QED
    BY <1>1, Invariance, PTL

\* Every variable keeps the shape its declaration describes.
THEOREM TypesAreKept == Spec => []TypeOK
  <1>1. ASSUME IInv PROVE TypeOK
    <2>1. \A u \in Members : IsRow(rows[u])
      BY <1>1 DEF IInv, RowsTyped, Row, IsRow
    <2>2. ASSUME NEW s \in Sessions, tx[s] # Idle PROVE IsRequest(tx[s])
      <3>1. tx[s].kind = "create" => tx[s].change["role"] \in Roles /\ tx[s].change["status"] \in AllStatuses
        BY <1>1, <2>2, InFlight DEF NewMember, AllStatuses
      <3> QED
        BY <1>1, <2>2, <3>1, InFlight DEF IsRequest, Request
    <2> QED
      BY <1>1, <2>1, <2>2 DEF IInv, RowsTyped, RequestsTyped, TypeOK
  <1> QED
    BY <1>1, Invariance, PTL

\* The membership a step changes is that of the request it ends.
LEMMA WhoTouches ==
  ASSUME IInv, Next, NEW m \in Users, Touches(m)
  PROVE  \E s \in Sessions :
           /\ tx[s] # Idle /\ tx'[s] = Idle /\ tx[s].target = m
           /\ UpdateMembership(s) \/ (CreateMembership(s) /\ m \notin Members)
  <1>1. ~UNCHANGED rows
    BY DEF Touches, Members
  <1>2. PICK s \in Sessions : UpdateMembership(s) \/ CreateMembership(s)
    BY <1>1 DEF Next, BeginUpdate, BeginCreate, Begin, Proceed, Authorize, LoadTarget, LockOwnerInvariant,
                CountActiveOwners, Abort
  <1>3. tx[s] # Idle /\ tx'[s] = Idle
    BY <1>2 DEF UpdateMembership, CreateMembership, End, Idle, IInv, RequestsTyped
  <1>4. CASE UpdateMembership(s)
    <2>1. tx[s].target \in Members
      BY <1>3, <1>4, InFlight DEF UpdateMembership
    <2>2. \A u \in Members \ {tx[s].target} : rows'[u] = rows[u]
      BY <1>4 DEF UpdateMembership, IInv, RowsTyped
    <2>3. DOMAIN rows' = Members
      BY <1>4 DEF UpdateMembership, IInv, RowsTyped, Members
    <2>4. tx[s].target = m
      BY <2>1, <2>2, <2>3 DEF Touches
    <2> QED
      BY <1>3, <1>4, <2>4
  <1>5. CASE CreateMembership(s)
    <2>1. /\ tx[s].target \notin Members /\ DOMAIN rows' = Members \cup {tx[s].target}
          /\ \A u \in Members : rows'[u] = rows[u]
      BY <1>1, <1>5 DEF CreateMembership
    <2>2. m = tx[s].target
      BY <2>1 DEF Touches
    <2> QED
      BY <1>3, <1>5, <2>1, <2>2
  <1> QED
    BY <1>2, <1>4, <1>5

\* No request acts on authority that was withdrawn since it was checked
\* (requireMembershipManager and CanManageMembership in Service.UpdateMembership).
THEOREM ChangesStayAuthorized == Spec => ChangesAreAuthorized
  <1> DEFINE Authorized(m) ==
        \E s \in Sessions :
          /\ tx[s] # Idle /\ tx'[s] = Idle /\ tx[s].target = m
          /\ IsActive(tx[s].actor)
          /\ CanManageMembers(rows[tx[s].actor].role)
          /\ OwnerTouched(m) => rows[tx[s].actor].role = "OWNER"
  <1>1. ASSUME IInv, [Next]_vars, NEW m \in Users, Touches(m) PROVE Authorized(m)
    <2>1. Next
      BY <1>1 DEF vars, Touches, Members
    <2>2. PICK s \in Sessions :
            /\ tx[s] # Idle /\ tx'[s] = Idle /\ tx[s].target = m
            /\ UpdateMembership(s) \/ (CreateMembership(s) /\ m \notin Members)
      BY <1>1, <2>1, WhoTouches
    <2>3. Entered(s)
      BY <2>2 DEF UpdateMembership, CreateMembership, Entered
    <2>4. IsActive(tx[s].actor) /\ CanManageMembers(rows[tx[s].actor].role) /\ rows[tx[s].actor].role = tx[s].role
      BY <1>1, <2>3, Standing
    <2>5. ASSUME OwnerTouched(m) PROVE tx[s].role = "OWNER"
      <3>1. CASE UpdateMembership(s)
        <4>1. tx[s].kind = "update" /\ m \in Members
          BY <1>1, <2>2, <2>3, <3>1, Standing DEF UpdateMembership
        <4>2. rows'[m].role = Wanted(tx[s], "role") \/ rows'[m] = rows[m]
          BY <1>1, <2>2, <3>1, <4>1 DEF UpdateMembership, IInv, RowsTyped
        <4>3. rows[m].role = "OWNER" \/ Wanted(tx[s], "role") = "OWNER"
          BY <2>5, <4>2 DEF OwnerTouched
        <4> QED
          BY <1>1, <2>2, <2>3, <4>1, <4>3, Standing DEF CanManageMembership
      <3>2. CASE CreateMembership(s) /\ m \notin Members
        <4>1. tx[s].kind = "create" /\ rows'[m].role = tx[s].change["role"]
          BY <2>2, <3>2 DEF CreateMembership
        <4> QED
          BY <1>1, <2>3, <2>5, <3>2, <4>1, Standing DEF OwnerTouched, CanManageMembership
      <3> QED
        BY <2>2, <3>1, <3>2
    <2> QED
      BY <2>2, <2>4, <2>5
  <1>2. IInv /\ [Next]_vars => [\A m \in Users : Touches(m) => Authorized(m)]_vars
    BY <1>1
  <1> QED
    BY <1>2, Invariance, PTL DEF Spec, ChangesAreAuthorized

==============================================================================
