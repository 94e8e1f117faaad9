-------------------------------- MODULE Outbox --------------------------------
(***************************************************************************)
(* How the events of the projects leave the database: mutations append     *)
(* them to the log, relays publish the rows of the log to a broker, and    *)
(* distributors hand the broker's messages to Redis.  A relay holds the    *)
(* lock of the row it publishes until it has marked it; what it had sent   *)
(* when it fails may be in the broker already, or arrive later.            *)
(***************************************************************************)
EXTENDS Integers, Sequences

CONSTANTS
  Projects, Writers, Relays, Distributors,
  Nobody,       \* no distributor
  MaxSequence,  \* bound: the events of a project
  MaxFaults     \* bound: failures and rebalances in a behaviour

ASSUME NobodyAssumption == Nobody \notin Distributors
ASSUME BoundsAssumption == MaxSequence \in Nat /\ MaxFaults \in Nat

VARIABLES
  lastSequence, \* project_streams.last_sequence, as committed
  rows,         \* the sequences of the committed rows of sync_events
  draft,        \* the event a writer's transaction has appended and not committed
  published,    \* the sequences whose published_at is set
  claim,        \* the row a relay has locked, and whether the broker has taken it
  orphan,       \* a message a failed relay left on its way to the broker
  broker,       \* the messages of each project's partition
  offset,       \* the offset the distributors' group has committed
  owner,        \* the distributor a partition is assigned to
  position,     \* the offset the owner has read up to
  hand,         \* the message a distributor works on, and whether Redis has it
  fanned,       \* the sequences Redis has been given
  faults

logVars == <<lastSequence, rows, draft>>
relayVars == <<published, claim, orphan, broker>>
groupVars == <<offset, owner, position, hand, fanned>>
outboxVars == <<logVars, relayVars, groupVars, faults>>

Idle == [phase |-> "idle"]

-----------------------------------------------------------------------------
(* The log *)

\* Faulty: the counter is read without the lock of its row.
NeverLocked(p) == FALSE

StreamLocked(p) == \E w \in Writers : draft[w] # Idle /\ draft[w].project = p

\* The increment locks the project's counter until the transaction ends.
AppendEvent(w, p) ==
  /\ draft[w] = Idle
  /\ ~StreamLocked(p)
  /\ lastSequence[p] < MaxSequence
  /\ draft' = [draft EXCEPT ![w] = [phase |-> "appended", project |-> p, seq |-> lastSequence[p] + 1]]
  /\ UNCHANGED <<lastSequence, rows, relayVars, groupVars, faults>>

CommitEvent(w) ==
  /\ draft[w] # Idle
  /\ LET p == draft[w].project IN
       /\ rows' = [rows EXCEPT ![p] = @ \cup {draft[w].seq}]
       /\ lastSequence' = [lastSequence EXCEPT ![p] = draft[w].seq]
  /\ draft' = [draft EXCEPT ![w] = Idle]
  /\ UNCHANGED <<relayVars, groupVars, faults>>

Rollback(w) ==
  /\ draft[w] # Idle
  /\ draft' = [draft EXCEPT ![w] = Idle]
  /\ UNCHANGED <<lastSequence, rows, relayVars, groupVars, faults>>

-----------------------------------------------------------------------------
(* Relays *)

RowLocked(p, n) ==
  \E r \in Relays : claim[r] # Idle /\ claim[r].project = p /\ claim[r].seq = n

\* Faulty: a later row is published while an earlier one is being published.
Unlocked(p, n) ==
  \A m \in rows[p] \ published[p] : m < n => RowLocked(p, m)

HasNoPredecessor(p, n) == \A m \in rows[p] : m < n => m \in published[p]

\* The query skips locked rows, and rows behind an unpublished one.
Claim(r, p, n) ==
  /\ claim[r] = Idle
  /\ n \in rows[p] \ published[p] /\ HasNoPredecessor(p, n) /\ ~RowLocked(p, n)
  /\ claim' = [claim EXCEPT ![r] = [phase |-> "claimed", project |-> p, seq |-> n]]
  /\ UNCHANGED <<logVars, published, orphan, broker, groupVars, faults>>

\* The broker acknowledges the message.
PublishRow(r) ==
  /\ claim[r].phase = "claimed"
  /\ broker' = [broker EXCEPT ![claim[r].project] = Append(@, claim[r].seq)]
  /\ claim' = [claim EXCEPT ![r].phase = "sent"]
  /\ UNCHANGED <<logVars, published, orphan, groupVars, faults>>

Acknowledged(r) == claim[r].phase = "sent"

\* published_at is set and the transaction commits.
Mark(r) ==
  /\ Acknowledged(r)
  /\ published' = [published EXCEPT ![claim[r].project] = @ \cup {claim[r].seq}]
  /\ claim' = [claim EXCEPT ![r] = Idle]
  /\ UNCHANGED <<logVars, orphan, broker, groupVars, faults>>

\* The publish, the update or the relay itself fails and the row's lock is gone.
\* A message not acknowledged may be lost or still on its way.
RelayFails(r) ==
  /\ faults < MaxFaults /\ faults' = faults + 1
  /\ claim[r] # Idle
  /\ claim' = [claim EXCEPT ![r] = Idle]
  /\ \/ UNCHANGED orphan
     \/ /\ claim[r].phase = "claimed"
        /\ orphan' = [orphan EXCEPT ![r] = [phase |-> "late", project |-> claim[r].project, seq |-> claim[r].seq]]
  /\ UNCHANGED <<logVars, published, broker, groupVars>>

\* A message whose relay has given up reaches the broker.
OrphanArrives(r) ==
  /\ orphan[r] # Idle
  /\ broker' = [broker EXCEPT ![orphan[r].project] = Append(@, orphan[r].seq)]
  /\ orphan' = [orphan EXCEPT ![r] = Idle]
  /\ UNCHANGED <<logVars, published, claim, groupVars, faults>>

-----------------------------------------------------------------------------
(* Distributors *)

ResumesAt(p) == offset[p]

\* The group assigns a partition; the reader starts where the group committed.
Assign(d, p) ==
  /\ owner[p] = Nobody
  /\ owner' = [owner EXCEPT ![p] = d]
  /\ position' = [position EXCEPT ![p] = ResumesAt(p)]
  /\ UNCHANGED <<logVars, relayVars, offset, hand, fanned, faults>>

\* A rebalance takes a partition from a distributor that goes on with what it
\* has in hand.
Rebalance(p) ==
  /\ faults < MaxFaults /\ faults' = faults + 1
  /\ owner[p] # Nobody
  /\ owner' = [owner EXCEPT ![p] = Nobody]
  /\ UNCHANGED <<logVars, relayVars, offset, position, hand, fanned>>

FetchMessage(d, p) ==
  /\ hand[d] = Idle /\ owner[p] = d /\ position[p] < Len(broker[p])
  /\ hand' = [hand EXCEPT ![d] = [phase |-> "fetched", project |-> p, index |-> position[p] + 1]]
  /\ position' = [position EXCEPT ![p] = @ + 1]
  /\ UNCHANGED <<logVars, relayVars, offset, owner, fanned, faults>>

PublishToRedis(d) ==
  /\ hand[d].phase = "fetched"
  /\ LET p == hand[d].project IN
       fanned' = [fanned EXCEPT ![p] = @ \cup {broker[p][hand[d].index]}]
  /\ hand' = [hand EXCEPT ![d].phase = "fanned"]
  /\ UNCHANGED <<logVars, relayVars, offset, owner, position, faults>>

\* Faulty: the offset is committed as soon as a message is fetched.
InHand(d) == hand[d] # Idle

FannedOut(d) == hand[d].phase = "fanned"

CommittedIndex(d) == hand[d].index

\* The group accepts the commit, also of a distributor that lost the partition.
CommitMessage(d) ==
  /\ FannedOut(d)
  /\ offset' = [offset EXCEPT ![hand[d].project] = CommittedIndex(d)]
  /\ hand' = [hand EXCEPT ![d] = Idle]
  /\ UNCHANGED <<logVars, relayVars, owner, position, fanned, faults>>

LeavesGroup(d) ==
  /\ hand' = [hand EXCEPT ![d] = Idle]
  /\ owner' = [p \in Projects |-> IF owner[p] = d THEN Nobody ELSE owner[p]]
  /\ UNCHANGED <<logVars, relayVars, offset, position, fanned>>

\* Or it refuses it, and the reader starts again.
CommitRefused(d) ==
  /\ FannedOut(d) /\ owner[hand[d].project] # d
  /\ LeavesGroup(d) /\ UNCHANGED faults

\* Redis, the broker or the process fails: the reader leaves the group.
DistributorFails(d) ==
  /\ faults < MaxFaults /\ faults' = faults + 1
  /\ LeavesGroup(d)

-----------------------------------------------------------------------------
OutboxInit ==
  /\ lastSequence = [p \in Projects |-> 0]
  /\ rows = [p \in Projects |-> {}]
  /\ draft = [w \in Writers |-> Idle]
  /\ published = [p \in Projects |-> {}]
  /\ claim = [r \in Relays |-> Idle]
  /\ orphan = [r \in Relays |-> Idle]
  /\ broker = [p \in Projects |-> <<>>]
  /\ offset = [p \in Projects |-> 0]
  /\ owner = [p \in Projects |-> Nobody]
  /\ position = [p \in Projects |-> 0]
  /\ hand = [d \in Distributors |-> Idle]
  /\ fanned = [p \in Projects |-> {}]
  /\ faults = 0

ClaimSome(r) == \E p \in Projects : \E n \in 1..MaxSequence : Claim(r, p, n)

AssignSome(p) == \E d \in Distributors : Assign(d, p)

FetchSome(d) == \E p \in Projects : FetchMessage(d, p)

Commits(d) == CommitMessage(d) \/ CommitRefused(d)

OutboxNext ==
  \/ \E w \in Writers :
       \/ \E p \in Projects : AppendEvent(w, p)
       \/ CommitEvent(w) \/ Rollback(w)
  \/ \E r \in Relays :
       ClaimSome(r) \/ PublishRow(r) \/ Mark(r) \/ RelayFails(r) \/ OrphanArrives(r)
  \/ \E p \in Projects : AssignSome(p) \/ Rebalance(p)
  \/ \E d \in Distributors :
       FetchSome(d) \/ PublishToRedis(d) \/ Commits(d) \/ DistributorFails(d)

OutboxSpec == OutboxInit /\ [][OutboxNext]_outboxVars

\* Relays and distributors are supervised: they poll, and start again when they
\* fail.
OutboxFairness ==
  /\ \A r \in Relays : WF_outboxVars(ClaimSome(r)) /\ WF_outboxVars(PublishRow(r)) /\ WF_outboxVars(Mark(r))
  /\ \A p \in Projects : WF_outboxVars(AssignSome(p))
  /\ \A d \in Distributors :
       WF_outboxVars(FetchSome(d)) /\ WF_outboxVars(PublishToRedis(d)) /\ WF_outboxVars(Commits(d))

OutboxFairSpec == OutboxSpec /\ OutboxFairness

-----------------------------------------------------------------------------
(* Properties *)

\* The values every variable takes; positions lie within their partition.
OutboxTypeOK ==
  /\ lastSequence \in [Projects -> 0..MaxSequence]
  /\ rows \in [Projects -> SUBSET (1..MaxSequence)]
  /\ draft \in [Writers -> {Idle} \cup [phase : {"appended"}, project : Projects, seq : 1..MaxSequence]]
  /\ published \in [Projects -> SUBSET (1..MaxSequence)]
  /\ claim \in [Relays -> {Idle} \cup [phase : {"claimed", "sent"}, project : Projects, seq : 1..MaxSequence]]
  /\ orphan \in [Relays -> {Idle} \cup [phase : {"late"}, project : Projects, seq : 1..MaxSequence]]
  /\ broker \in [Projects -> Seq(1..MaxSequence)]
  /\ offset \in [Projects -> Nat] /\ position \in [Projects -> Nat]
  /\ owner \in [Projects -> Distributors \cup {Nobody}]
  /\ hand \in [Distributors -> {Idle} \cup [phase : {"fetched", "fanned"}, project : Projects, index : Nat \ {0}]]
  /\ fanned \in [Projects -> SUBSET (1..MaxSequence)]
  /\ faults \in 0..MaxFaults
  /\ \A p \in Projects : offset[p] <= Len(broker[p]) /\ position[p] <= Len(broker[p])
  /\ \A d \in Distributors : hand[d] # Idle => hand[d].index <= Len(broker[hand[d].project])

\* A reader of the log sees every event up to the last: none becomes visible
\* below one that is visible already, so a cursor never passes an event by.
LogIsDense == \A p \in Projects : rows[p] = 1..lastSequence[p]

\* An event marked as published is in the broker, with every event before it.
NothingForgotten ==
  \A p \in Projects : \A n \in published[p] :
    \A m \in 1..n : m \in published[p] /\ \E i \in 1..Len(broker[p]) : broker[p][i] = m

\* The log and the broker are complete: no reader passes an event by, and none
\* is marked before the broker has it.
LogIsComplete == LogIsDense /\ NothingForgotten

\* Repeated or late, a message never overtakes the first copy of an earlier
\* event of its project.
BrokerInOrder ==
  \A p \in Projects : \A i \in 1..Len(broker[p]) :
    \A m \in 1..(broker[p][i] - 1) : \E j \in 1..(i - 1) : broker[p][j] = m

\* The group's offset only covers messages Redis has been given.
OffsetBehindFanout ==
  \A p \in Projects : \A i \in 1..offset[p] : broker[p][i] \in fanned[p]

\* Every committed event reaches Redis, whatever fails on the way.
EveryEventFansOut ==
  \A p \in Projects : \A n \in 1..MaxSequence : (n \in rows[p]) ~> (n \in fanned[p])

=============================================================================
