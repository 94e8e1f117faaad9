----------------------------- MODULE ProjectFeed -----------------------------
(***************************************************************************)
(* What the synchronization of a project promises its open pages: each one *)
(* moves through the project's events one by one and in order, and skips   *)
(* events only by loading a snapshot that already contains them.           *)
(***************************************************************************)
EXTENDS Integers

CONSTANT Clients

VARIABLES
  last,  \* the sequence of the project's latest event
  page,  \* the sequence of a snapshot a client has loaded and not shown yet
  seen   \* the sequence a client is at

feedVars == <<last, page, seen>>

NoPage == -1

Append ==
  /\ last' = last + 1
  /\ UNCHANGED <<page, seen>>

Load(c) ==
  /\ page' = [page EXCEPT ![c] = last]
  /\ UNCHANGED <<last, seen>>

\* A snapshot older than what the client has seen does not take it back.
Show(c) ==
  /\ page[c] # NoPage
  /\ seen' = [seen EXCEPT ![c] = IF @ < page[c] THEN page[c] ELSE @]
  /\ page' = [page EXCEPT ![c] = NoPage]
  /\ UNCHANGED last

Deliver(c) ==
  /\ seen[c] < last
  /\ seen' = [seen EXCEPT ![c] = @ + 1]
  /\ UNCHANGED <<last, page>>

Init ==
  /\ last \in Nat
  /\ page = [c \in Clients |-> NoPage]
  /\ seen \in [Clients -> 0..last]

Next ==
  \/ Append
  \/ \E c \in Clients : Load(c) \/ Show(c) \/ Deliver(c)

Spec == Init /\ [][Next]_feedVars

=============================================================================
