---------------------------- MODULE MCTaskEdits -----------------------------
(* Values for the run of TaskEdits: ann and bob edit, undo and redo in two  *)
(* sessions, one edit writes a column, a joined field and the assignees at  *)
(* once, the other the description that the description channel overwrites, *)
(* and a manager suspends and reinstates bob meanwhile.                     *)
EXTENDS TaskEdits, TLC

CONSTANTS ann, bob, s1, s2, t0, t1

Tags == {"tags"}
Description == {"description"}

Created ==
  {("status" :> "TODO") @@ ("tags" :> t0) @@ ("description" :> t0) @@ ("assigneeIds" :> {})}

Edited ==
  {[status |-> "IN_PROGRESS", tags |-> t1, assigneeIds |-> {bob}], [description |-> t1]}

Interchangeable == Permutations(Sessions)

=============================================================================
