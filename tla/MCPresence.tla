---------------------------- MODULE MCPresence ----------------------------
(* Values for the run of Presence: two people, the second with two tabs. *)
EXTENDS Presence, TLC

CONSTANTS mine, theirs, again, me, you

Owners == (mine :> me) @@ (theirs :> you) @@ (again :> you)
TwoOwners == (mine :> me) @@ (theirs :> you)
Sockets == (mine :> 2) @@ (theirs :> 1)

=============================================================================
