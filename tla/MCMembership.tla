---------------------------- MODULE MCMembership ----------------------------
(* Values for the runs of Membership. *)
EXTENDS Membership, TLC

CONSTANTS ann, bob

\* Demotion, and every step of the lifecycle; owners are made by creation.
MemberChanges ==
  {[role |-> "ADMIN"], [status |-> "SUSPENDED"], [status |-> "REMOVED"],
   [status |-> "INVITED"], [status |-> "ACTIVE"]}

=============================================================================
