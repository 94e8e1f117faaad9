------------------------------- MODULE TaskDag -------------------------------
(***************************************************************************)
(* What a project promises about the dependencies of its tasks: they form  *)
(* a directed graph without cycles on the tasks that exist, and a task     *)
(* takes its dependencies with it when it is deleted.                      *)
(***************************************************************************)
CONSTANT Tasks

VARIABLES
  tasks,  \* the tasks that exist
  deps    \* the pairs <<task, task it depends on>>

dagVars == <<tasks, deps>>

\* Every set of tasks has a member that depends on no member of the set.  For
\* finitely many tasks this is the absence of cycles.
Acyclic(edges) ==
  \A S \in SUBSET Tasks :
    S # {} => \E x \in S : \A y \in S : <<x, y>> \notin edges

CreateTask(t) ==
  /\ t \notin tasks
  /\ tasks' = tasks \cup {t}
  /\ UNCHANGED deps

DeleteTask(t) ==
  /\ t \in tasks
  /\ tasks' = tasks \ {t}
  /\ deps' = {e \in deps : e[1] # t /\ e[2] # t}

AddDependency(t, d) ==
  /\ t \in tasks /\ d \in tasks
  /\ <<t, d>> \notin deps
  /\ Acyclic(deps \cup {<<t, d>>})
  /\ deps' = deps \cup {<<t, d>>}
  /\ UNCHANGED tasks

RemoveDependency(t, d) ==
  /\ <<t, d>> \in deps
  /\ deps' = deps \ {<<t, d>>}
  /\ UNCHANGED tasks

Init == tasks = {} /\ deps = {}

Next ==
  \/ \E t \in Tasks : CreateTask(t) \/ DeleteTask(t)
  \/ \E t, d \in Tasks : AddDependency(t, d) \/ RemoveDependency(t, d)

Spec == Init /\ [][Next]_dagVars

=============================================================================
