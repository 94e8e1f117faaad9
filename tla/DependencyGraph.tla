--------------------------- MODULE DependencyGraph ---------------------------
(***************************************************************************)
(* The dependency edges of a project's tasks, and the requests that add    *)
(* and remove them while tasks are created and deleted.  A request first   *)
(* takes the advisory lock of the project's graph and keeps it until its   *)
(* transaction ends; every statement after it reads a fresh snapshot.  The *)
(* deletion of a task removes its edges by cascade, without that lock.     *)
(***************************************************************************)
EXTENDS Integers, FiniteSets

CONSTANTS
  Tasks,    \* the identifiers of tasks, never reused
  Writers,  \* concurrent requests
  MaxDepth  \* the depth the recursive query stops at; 1000 in the code

ASSUME MaxDepthAssumption == MaxDepth \in Nat

VARIABLES
  life,    \* "unborn", "live" or "deleted", for each task
  deps,    \* the rows of task_dependencies: <<task, task it depends on>>
  request  \* the request each session has in flight

graphVars == <<life, deps, request>>

live == {t \in Tasks : life[t] = "live"}

NoRequest == [phase |-> "idle"]

\* A path of k edges of the stored graph.
IsPath(p, k) == \A i \in 0..(k - 1) : <<p[i], p[i + 1]>> \in deps

\* The recursive query: from the dependency, along depends_on_task_id, at most
\* MaxDepth edges deep, it reaches the dependent task.
DependencyWouldCycle(t, d) ==
  \E k \in 0..MaxDepth : \E p \in [0..k -> Tasks] : IsPath(p, k) /\ p[0] = d /\ p[k] = t

-----------------------------------------------------------------------------
(* Requests *)

\* Faulty: nobody takes the lock of the graph.
NobodyHolds == FALSE

\* Faulty: a request that waits for the lock counts as holding it.
AnyoneInFlight == \E s \in Writers : request[s] # NoRequest

GraphLocked == \E s \in Writers : request[s].phase \in {"locked", "examined", "cleared"}

Step(s, phase) == request' = [request EXCEPT ![s].phase = phase]

Finish(s) == request' = [request EXCEPT ![s] = NoRequest]

\* AddDependency refuses a self-dependency before its transaction.
BeginAdd(s, t, d) ==
  /\ request[s] = NoRequest
  /\ t # d
  /\ request' = [request EXCEPT ![s] = [phase |-> "waiting", kind |-> "add", task |-> t, dependency |-> d]]
  /\ UNCHANGED <<life, deps>>

BeginRemove(s, t, d) ==
  /\ request[s] = NoRequest
  /\ request' = [request EXCEPT ![s] = [phase |-> "waiting", kind |-> "remove", task |-> t, dependency |-> d]]
  /\ UNCHANGED <<life, deps>>

LockDependencyGraph(s) ==
  /\ request[s].phase = "waiting"
  /\ ~GraphLocked
  /\ Step(s, "locked")
  /\ UNCHANGED <<life, deps>>

\* Both tasks exist and the edge does not.
Examined(x) ==
  /\ x.task \in live /\ x.dependency \in live
  /\ <<x.task, x.dependency>> \notin deps

ExamineTasks(s) ==
  /\ request[s].phase = "locked" /\ request[s].kind = "add"
  /\ IF Examined(request[s]) THEN Step(s, "examined") ELSE Finish(s)
  /\ UNCHANGED <<life, deps>>

CheckCycle(s) ==
  /\ request[s].phase = "examined"
  /\ IF DependencyWouldCycle(request[s].task, request[s].dependency) THEN Finish(s) ELSE Step(s, "cleared")
  /\ UNCHANGED <<life, deps>>

\* The insertion, which the foreign keys refuse when a task has gone, and the commit.
AddDependency(s) ==
  LET x == request[s]
  IN  /\ x.phase = "cleared"
      /\ deps' = IF {x.task, x.dependency} \subseteq live
                   THEN deps \cup {<<x.task, x.dependency>>} ELSE deps
      /\ Finish(s)
      /\ UNCHANGED life

\* DEPENDENCY_NOT_FOUND when there is no such edge.
RemoveDependency(s) ==
  LET x == request[s]
  IN  /\ x.phase = "locked" /\ x.kind = "remove"
      /\ deps' = deps \ {<<x.task, x.dependency>>}
      /\ Finish(s)
      /\ UNCHANGED life

\* A cancelled request or a lost connection rolls the transaction back.
RollBack(s) ==
  /\ request[s] # NoRequest
  /\ Finish(s)
  /\ UNCHANGED <<life, deps>>

CreateTask(t) ==
  /\ life[t] = "unborn"
  /\ life' = [life EXCEPT ![t] = "live"]
  /\ UNCHANGED <<deps, request>>

\* Faulty: only the task's own dependencies go with it.
OwnDependencies(t) == {e \in deps : e[1] = t}

CascadeOf(t) == {e \in deps : e[1] = t \/ e[2] = t}

DeleteTask(t) ==
  /\ life[t] = "live"
  /\ life' = [life EXCEPT ![t] = "deleted"]
  /\ deps' = deps \ CascadeOf(t)
  /\ UNCHANGED request

-----------------------------------------------------------------------------
GraphInit ==
  /\ life = [t \in Tasks |-> "unborn"]
  /\ deps = {}
  /\ request = [s \in Writers |-> NoRequest]

Advance(s) ==
  \/ ExamineTasks(s)
  \/ CheckCycle(s)
  \/ AddDependency(s)
  \/ RemoveDependency(s)

GraphNext ==
  \/ \E s \in Writers, t, d \in Tasks : BeginAdd(s, t, d)
  \/ \E s \in Writers, t, d \in Tasks : BeginRemove(s, t, d)
  \/ \E s \in Writers : LockDependencyGraph(s)
  \/ \E s \in Writers : Advance(s)
  \/ \E s \in Writers : RollBack(s)
  \/ \E t \in Tasks : CreateTask(t)
  \/ \E t \in Tasks : DeleteTask(t)

GraphSpec == GraphInit /\ [][GraphNext]_graphVars

\* A transaction that has its locks runs on, and PostgreSQL hands a contended
\* advisory lock to the waiting transactions in turn.
GraphFairness ==
  \A s \in Writers : WF_graphVars(Advance(s)) /\ SF_graphVars(LockDependencyGraph(s))

FairGraphSpec == GraphSpec /\ GraphFairness

-----------------------------------------------------------------------------
(* Properties *)

Dag == INSTANCE TaskDag WITH tasks <- live

IsEdgeRequest(x) ==
  /\ x.phase \in {"waiting", "locked", "examined", "cleared"}
  /\ x.kind \in {"add", "remove"}
  /\ x.task \in Tasks /\ x.dependency \in Tasks
  /\ x = [phase |-> x.phase, kind |-> x.kind, task |-> x.task, dependency |-> x.dependency]

\* Every variable keeps the shape its declaration describes, and an edge joins
\* tasks that exist.
GraphTypes ==
  /\ life \in [Tasks -> {"unborn", "live", "deleted"}]
  /\ deps \subseteq live \X live
  /\ DOMAIN request = Writers /\ request = [s \in Writers |-> request[s]]
  /\ \A s \in Writers : request[s] = NoRequest \/ IsEdgeRequest(request[s])

\* The dependencies never form a cycle, though each request sees only the
\* graph at its own check and another may be adding the closing edge.
NoCycle == Dag!Acyclic(deps)

\* Between its check and its insertion a request can rely on the answer: its
\* edge still closes no cycle, whatever was added or deleted in between.
ClearedStaysSafe ==
  \A s \in Writers :
    request[s].phase = "cleared" => Dag!Acyclic(deps \cup {<<request[s].task, request[s].dependency>>})

\* One request at a time is past the lock of the graph.
LockIsExclusive ==
  \A r, s \in Writers :
    /\ request[r].phase \in {"locked", "examined", "cleared"}
    /\ request[s].phase \in {"locked", "examined", "cleared"}
    => r = s

\* The statements of the requests, taken one at a time, amount to atomic
\* changes of an acyclic graph on the existing tasks.
ImplementsDag == Dag!Spec

\* Every request ends: the graph's lock is always released and passed on.
EdgeRequestsEnd == \A s \in Writers : request[s] # NoRequest ~> request[s] = NoRequest

=============================================================================
