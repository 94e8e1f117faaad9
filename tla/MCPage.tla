------------------------------ MODULE MCPage ------------------------------
(***************************************************************************)
(* The two halves of the page in one run: the shell around the tasks       *)
(* (Workspace) and the panel of one task (TaskPanel).  They share no state *)
(* but the place the shell mounts the panel for, which TaskPanel takes as  *)
(* its Reopen; so a behaviour is of the one or of the other.               *)
(***************************************************************************)
EXTENDS Workspace, TaskPanel

VARIABLE half

PageInit == Init /\ PanelInit /\ half \in {"shell", "panel"}

PageNext ==
  \/ half = "shell" /\ Next /\ UNCHANGED <<half, panelVars>>
  \/ half = "panel" /\ PanelNext /\ UNCHANGED <<half, vars>>

PageSpec == PageInit /\ [][PageNext]_<<half, vars, panelVars>> /\ Fairness

=============================================================================
