------------------------------ MODULE EventFeed ------------------------------
(***************************************************************************)
(* The event stream of one project, from its log in PostgreSQL to the      *)
(* pages that show it.  A page loads a snapshot with the sequence it was   *)
(* taken at and asks for the events after it; the handler of its stream    *)
(* replays the log, then waits for notices of the hub, a poll of the log   *)
(* or a heartbeat.  The hub never blocks: with Redis it is offered events  *)
(* that may be late, repeated, out of order or lost, without Redis it is   *)
(* woken by the database.  Connections break and members come and go at    *)
(* any time.                                                               *)
(***************************************************************************)
EXTENDS Integers, Sequences

CONSTANTS
  Clients,    \* the pages open on the project
  QueueSize,  \* notices a subscription of the hub holds; 256 in the code
  Batch,      \* events one replay query returns; 200 in the code
  MaxEvents   \* bound: the events of the log

ASSUME QueueSizeAssumption == QueueSize \in Nat \ {0}
ASSUME BatchAssumption == Batch \in Nat \ {0}
ASSUME MaxEventsAssumption == MaxEvents \in Nat

VARIABLES
  last,     \* project_streams.last_sequence: the log holds the events 1..last
  members,  \* the clients whose user is an active member of the project
  fanout,   \* how events reach the hub: "redis" or "database"
  page,     \* the streamCursor of a bootstrap answer under way
  start,    \* the streamCursor the page's hook runs with
  cursor,   \* the client's lastCursor
  conn,     \* the stream: "closed", "admitted", "replaying" or "live"
  after,    \* the handler's position in the log
  notices,  \* the hub's channel to the handler; Hint is a notice without event
  wire      \* events written by the handler and not read by the client yet

source == <<last, members, fanout>>
client == <<page, start, cursor>>
stream == <<conn, after, notices, wire>>
vars == <<source, client, stream>>

Hint == 0
NoPage == -1

-----------------------------------------------------------------------------
(* The log, the memberships and the hub *)

\* A mutation commits with its event.
MutationCommits ==
  /\ last < MaxEvents
  /\ last' = last + 1
  /\ UNCHANGED <<members, fanout, client, stream>>

Suspend(c) ==
  /\ c \in members
  /\ members' = members \ {c}
  /\ UNCHANGED <<last, fanout, client, stream>>

Reinstate(c) ==
  /\ c \notin members
  /\ members' = members \cup {c}
  /\ UNCHANGED <<last, fanout, client, stream>>

Subscribed(c) == conn[c] \in {"replaying", "live"}

HasRoom(c) == Subscribed(c) /\ Len(notices[c]) < QueueSize

\* Without Redis the database's notification is a hint, dropped when the
\* channel holds anything already.
Publish ==
  /\ fanout = "database"
  /\ notices' = [c \in Clients |-> IF Subscribed(c) /\ notices[c] = <<>> THEN <<Hint>> ELSE notices[c]]
  /\ UNCHANGED <<source, client, conn, after, wire>>

Committed(n) == n <= last

\* With Redis the hub is offered some event of the log, and a channel that is
\* full drops it.
PublishEvent(n) ==
  /\ fanout = "redis"
  /\ Committed(n)
  /\ notices' = [c \in Clients |-> IF HasRoom(c) THEN Append(notices[c], n) ELSE notices[c]]
  /\ UNCHANGED <<source, client, conn, after, wire>>

-----------------------------------------------------------------------------
(* The handler of a stream *)

\* The handler checks the membership and takes the client's cursor.
Admit(c) ==
  /\ start[c] # NoPage /\ conn[c] = "closed" /\ c \in members
  /\ conn' = [conn EXCEPT ![c] = "admitted"]
  /\ after' = [after EXCEPT ![c] = cursor[c]]
  /\ UNCHANGED <<source, client, notices, wire>>

Subscribe(c) ==
  /\ conn[c] = "admitted"
  /\ conn' = [conn EXCEPT ![c] = "replaying"]
  /\ notices' = [notices EXCEPT ![c] = <<>>]
  /\ UNCHANGED <<source, client, after, wire>>

\* The events of the next query of a replay.
Found(c) == IF last - after[c] < Batch THEN last - after[c] ELSE Batch

\* One query of a replay; a full batch asks for another.
ReplayBatch(c) ==
  /\ conn[c] = "replaying"
  /\ wire' = [wire EXCEPT ![c] = @ \o [i \in 1..Found(c) |-> after[c] + i]]
  /\ after' = [after EXCEPT ![c] = @ + Found(c)]
  /\ conn' = [conn EXCEPT ![c] = IF Found(c) < Batch THEN "live" ELSE @]
  /\ UNCHANGED <<source, client, notices>>

IsNext(c, n) == n = after[c] + 1

\* The next event is written as it is, an event written before is dropped, and
\* any other notice starts a replay.
TakeNotice(c) ==
  /\ conn[c] = "live" /\ notices[c] # <<>>
  /\ notices' = [notices EXCEPT ![c] = Tail(@)]
  /\ LET n == Head(notices[c]) IN
     \/ /\ n # Hint /\ IsNext(c, n)
        /\ wire' = [wire EXCEPT ![c] = Append(@, n)]
        /\ after' = [after EXCEPT ![c] = n]
        /\ UNCHANGED conn
     \/ /\ n # Hint /\ ~IsNext(c, n) /\ n <= after[c]
        /\ UNCHANGED <<conn, after, wire>>
     \/ /\ n = Hint \/ (~IsNext(c, n) /\ n > after[c])
        /\ conn' = [conn EXCEPT ![c] = "replaying"]
        /\ UNCHANGED <<after, wire>>
  /\ UNCHANGED <<source, client>>

\* Faulty: the log is queried only when a notice waits.
PollsOn(c) == conn[c] = "live" /\ notices[c] # <<>>

Polls(c) == conn[c] = "live"

Poll(c) ==
  /\ Polls(c)
  /\ conn' = [conn EXCEPT ![c] = "replaying"]
  /\ UNCHANGED <<source, client, after, notices, wire>>

\* The connection ends, and what it had not delivered is gone.
Closed(c) ==
  /\ conn' = [conn EXCEPT ![c] = "closed"]
  /\ wire' = [wire EXCEPT ![c] = <<>>]
  /\ notices' = [notices EXCEPT ![c] = <<>>]
  /\ UNCHANGED after

\* Faulty: the membership is captured when the stream opens.
LeaseNeverEnds(c) == FALSE

LeaseEnded(c) == conn[c] = "live" /\ c \notin members

\* The heartbeat ends the stream of a user who is no member any more.
Heartbeat(c) ==
  /\ LeaseEnded(c)
  /\ Closed(c)
  /\ UNCHANGED <<source, client>>

\* A failed read or write, or a restart of the server.
Disconnect(c) ==
  /\ conn[c] # "closed"
  /\ Closed(c)
  /\ UNCHANGED <<source, client>>

-----------------------------------------------------------------------------
(* The page *)

\* The bootstrap reads the log's sequence in the snapshot of everything else.
ReadBootstrap(c) ==
  /\ page[c] = NoPage /\ c \in members
  /\ page' = [page EXCEPT ![c] = last]
  /\ UNCHANGED <<source, start, cursor, stream>>

\* Faulty: the answer's cursor replaces the client's.
Restarted(c) == page[c]

Resumed(c) == IF page[c] < cursor[c] THEN cursor[c] ELSE page[c]

\* An answer with another cursor runs the hook again: it leaves its stream and
\* resumes from the later of the two cursors.
ApplyBootstrap(c) ==
  /\ page[c] # NoPage
  /\ page' = [page EXCEPT ![c] = NoPage]
  /\ start' = [start EXCEPT ![c] = page[c]]
  /\ IF page[c] = start[c]
       THEN UNCHANGED <<cursor, stream>>
       ELSE cursor' = [cursor EXCEPT ![c] = Resumed(c)] /\ Closed(c)
  /\ UNCHANGED source

\* An event the client has is skipped.  An event after a gap is applied as well,
\* after the task lists have been invalidated.
Receive(c) ==
  /\ wire[c] # <<>>
  /\ cursor' = [cursor EXCEPT ![c] = IF Head(wire[c]) <= @ THEN @ ELSE Head(wire[c])]
  /\ wire' = [wire EXCEPT ![c] = Tail(@)]
  /\ UNCHANGED <<source, page, start, conn, after, notices>>

-----------------------------------------------------------------------------
\* A page opens on a project with a history, with or without a bootstrap answer
\* in its query cache.
Init ==
  /\ last \in 0..MaxEvents
  /\ members = Clients
  /\ fanout \in {"redis", "database"}
  /\ page = [c \in Clients |-> NoPage]
  /\ start \in [Clients -> {NoPage} \cup 0..last]
  /\ cursor = [c \in Clients |-> IF start[c] = NoPage THEN 0 ELSE start[c]]
  /\ conn = [c \in Clients |-> "closed"]
  /\ after = [c \in Clients |-> 0]
  /\ notices = [c \in Clients |-> <<>>]
  /\ wire = [c \in Clients |-> <<>>]

Handle(c) ==
  Admit(c) \/ Subscribe(c) \/ ReplayBatch(c) \/ TakeNotice(c) \/ Poll(c) \/ Heartbeat(c)

Next ==
  \/ MutationCommits
  \/ Publish
  \/ \E n \in 1..MaxEvents : PublishEvent(n)
  \/ \E c \in Clients :
       \/ Suspend(c) \/ Reinstate(c)
       \/ Handle(c) \/ Disconnect(c)
       \/ ReadBootstrap(c) \/ ApplyBootstrap(c) \/ Receive(c)

Spec == Init /\ [][Next]_vars

\* The hook reconnects until it is admitted, the handler's loop runs, and its
\* select takes a ready ticker's case sooner or later whatever else is ready.
Fairness ==
  \A c \in Clients :
    /\ WF_vars(Admit(c)) /\ WF_vars(Subscribe(c)) /\ WF_vars(ReplayBatch(c))
    /\ WF_vars(Poll(c)) /\ SF_vars(Heartbeat(c)) /\ WF_vars(Receive(c))

FairSpec == Spec /\ Fairness

-----------------------------------------------------------------------------
(* Properties *)

\* The values every variable takes; a channel never holds more notices than it
\* has room for.
TypeOK ==
  /\ last \in 0..MaxEvents
  /\ members \subseteq Clients
  /\ fanout \in {"redis", "database"}
  /\ page \in [Clients -> {NoPage} \cup 0..MaxEvents]
  /\ start \in [Clients -> {NoPage} \cup 0..MaxEvents]
  /\ cursor \in [Clients -> 0..MaxEvents]
  /\ conn \in [Clients -> {"closed", "admitted", "replaying", "live"}]
  /\ after \in [Clients -> 0..MaxEvents]
  /\ notices \in [Clients -> Seq(0..MaxEvents)]
  /\ wire \in [Clients -> Seq(1..MaxEvents)]
  /\ \A c \in Clients : Len(notices[c]) <= QueueSize

\* What the handler has written and the client has not read are exactly the
\* events between their positions, in order, however the hub's notices came.
WireIsContiguous ==
  \A c \in Clients :
    /\ conn[c] = "closed" => wire[c] = <<>>
    /\ conn[c] # "closed" => after[c] = cursor[c] + Len(wire[c])
    /\ \A i \in 1..Len(wire[c]) : wire[c][i] = cursor[c] + i

\* Nothing a client has or is about to get is ahead of the log, and it has what
\* the snapshot it started from contains.
NothingInvented ==
  \A c \in Clients :
    /\ page[c] <= last
    /\ start[c] <= cursor[c] /\ cursor[c] <= last
    /\ conn[c] # "closed" => after[c] <= last
    /\ \A i \in 1..Len(notices[c]) : notices[c][i] <= last

\* The page moves through the log as the project promises.
Feed == INSTANCE ProjectFeed WITH seen <- cursor
ImplementsFeed == Feed!Spec

\* Once a client keeps its membership and its connection does not break any
\* more, it gets to every event, whatever notices the hub lost.
Settled(c) == <>[][~Disconnect(c) /\ ~Suspend(c)]_vars
StreamCatchesUp ==
  \A c \in Clients :
    Settled(c) /\ []<>(c \in members) =>
      \A n \in 1..MaxEvents : (start[c] # NoPage /\ last >= n) ~> (cursor[c] >= n)

\* The stream of a user who is not a member any more ends, unless the user
\* becomes one again.
RevokedStreamEnds ==
  \A c \in Clients : (c \notin members) ~> (c \in members \/ conn[c] = "closed")

=============================================================================
