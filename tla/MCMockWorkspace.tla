-------------------------- MODULE MCMockWorkspace --------------------------
EXTENDS MockWorkspace

CONSTANTS t1, t2, t3, maya, avery

ThreeTasks == {t1, t2, t3}
TwoSeeds == <<t1, t2>>

\* One field, the other, and both at once.
SmallInputs ==
  {[status |-> "done"], [status |-> "todo"], [assigneeIds |-> <<avery>>],
   [status |-> "done", assigneeIds |-> <<maya, avery>>]}
=============================================================================
