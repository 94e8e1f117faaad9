--------------------------- MODULE EventPathProofs ---------------------------
(***************************************************************************)
(* Proofs about the way of an event from the transaction that writes it to *)
(* the pages that show it.  The outbox: the log has no holes, the relays   *)
(* publish its prefix in order, and the group commits no message that      *)
(* Redis has not been given.  The event stream: what is on the wire is the *)
(* part of the log between the handler and the client, so the stream       *)
(* implements the feed the project promises.  And where the two meet: the  *)
(* hub is offered what the stream expects of it.                           *)
(***************************************************************************)
EXTENDS Outbox, EventFeed, SequenceTheorems, TLAPS

-----------------------------------------------------------------------------
(* The outbox *)

\* The values of the variables of each group.
LogTypeOK ==
  /\ lastSequence \in [Projects -> 0..MaxSequence]
  /\ rows \in [Projects -> SUBSET (1..MaxSequence)]
  /\ draft \in [Writers -> {Idle} \cup [phase : {"appended"}, project : Projects, seq : 1..MaxSequence]]

RelayTypeOK ==
  /\ published \in [Projects -> SUBSET (1..MaxSequence)]
  /\ claim \in [Relays -> {Idle} \cup [phase : {"claimed", "sent"}, project : Projects, seq : 1..MaxSequence]]
  /\ orphan \in [Relays -> {Idle} \cup [phase : {"late"}, project : Projects, seq : 1..MaxSequence]]
  /\ broker \in [Projects -> Seq(1..MaxSequence)]

GroupTypeOK ==
  /\ offset \in [Projects -> Nat] /\ position \in [Projects -> Nat]
  /\ owner \in [Projects -> Distributors \cup {Nobody}]
  /\ hand \in [Distributors -> {Idle} \cup [phase : {"fetched", "fanned"}, project : Projects, index : Nat \ {0}]]
  /\ fanned \in [Projects -> SUBSET (1..MaxSequence)]

WithinPartition ==
  /\ \A p \in Projects : offset[p] <= Len(broker[p]) /\ position[p] <= Len(broker[p])
  /\ \A d \in Distributors : hand[d] # Idle => hand[d].index <= Len(broker[hand[d].project])

\* A transaction that has appended an event holds the number after the last one,
\* and no other transaction holds one of the same project.
DraftsAreNext ==
  /\ \A w \in Writers : draft[w] # Idle => draft[w].seq = lastSequence[draft[w].project] + 1
  /\ \A v, w \in Writers :
       draft[v] # Idle /\ draft[w] # Idle /\ draft[v].project = draft[w].project => v = w

\* Every event before one that is published, claimed or late is published, and a
\* claim that has been acknowledged is in the broker.
InBroker(p, n) == \E i \in 1..Len(broker[p]) : broker[p][i] = n

RelaysFollow ==
  /\ \A r \in Relays : claim[r] # Idle => \A m \in 1..(claim[r].seq - 1) : m \in published[claim[r].project]
  /\ \A r \in Relays : claim[r].phase = "sent" => InBroker(claim[r].project, claim[r].seq)
  /\ \A r \in Relays : orphan[r] # Idle => \A m \in 1..(orphan[r].seq - 1) : m \in published[orphan[r].project]

\* Every message before the one a distributor has in hand has been fanned out,
\* and so has every message the owner of a partition has read, up to the one in
\* its hand.
HandsFollow ==
  \A d \in Distributors : hand[d] # Idle =>
    /\ \A j \in 1..(hand[d].index - 1) : broker[hand[d].project][j] \in fanned[hand[d].project]
    /\ hand[d].phase = "fanned" => broker[hand[d].project][hand[d].index] \in fanned[hand[d].project]

ReadersFollow ==
  \A p \in Projects : owner[p] # Nobody =>
    \A i \in 1..position[p] :
      \/ broker[p][i] \in fanned[p]
      \/ hand[owner[p]] # Idle /\ hand[owner[p]].project = p /\ hand[owner[p]].index = i

LogInv == LogTypeOK /\ LogIsDense /\ DraftsAreNext
RelayInv == RelayTypeOK /\ NothingForgotten /\ BrokerInOrder /\ RelaysFollow
GroupInv == GroupTypeOK /\ WithinPartition /\ OffsetBehindFanout /\ HandsFollow /\ ReadersFollow
OutboxInv == LogInv /\ RelayInv /\ GroupInv /\ faults \in 0..MaxFaults

\* The type invariant of the runs, by group.
LEMMA TypesSplit ==
  OutboxTypeOK <=> LogTypeOK /\ RelayTypeOK /\ GroupTypeOK /\ WithinPartition /\ faults \in 0..MaxFaults
  BY DEF OutboxTypeOK, LogTypeOK, RelayTypeOK, GroupTypeOK, WithinPartition

\* Nothing is on its way in the beginning.
LEMMA OutboxInvInit == OutboxInit => OutboxInv
  <1> SUFFICES ASSUME OutboxInit PROVE OutboxInv
    OBVIOUS
  <1>1. <<>> \in Seq(1..MaxSequence) /\ Len(<<>>) = 0
    BY EmptySeq
  <1>2. LogInv
    BY BoundsAssumption DEF OutboxInit, LogInv, LogTypeOK, LogIsDense, DraftsAreNext
  <1>3. RelayInv
    BY <1>1 DEF OutboxInit, RelayInv, RelayTypeOK, NothingForgotten, BrokerInOrder, RelaysFollow, Idle
  <1>4. GroupInv
    BY <1>1 DEF OutboxInit, GroupInv, GroupTypeOK, WithinPartition, OffsetBehindFanout, HandsFollow, ReadersFollow
  <1> QED
    BY <1>2, <1>3, <1>4, BoundsAssumption DEF OutboxInv, OutboxInit

-----------------------------------------------------------------------------
(* The log *)

\* The counter's lock gives every transaction the number after the last one.
LEMMA LogNext == LogInv /\ [OutboxNext]_outboxVars => LogInv'
  <1> SUFFICES ASSUME LogInv, [OutboxNext]_outboxVars PROVE LogInv'
    OBVIOUS
  <1> USE BoundsAssumption DEF LogInv
  <1>1. ASSUME NEW w \in Writers, NEW p \in Projects, AppendEvent(w, p) PROVE LogInv'
    <2>1. /\ draft' = [draft EXCEPT ![w] = [phase |-> "appended", project |-> p, seq |-> lastSequence[p] + 1]]
          /\ UNCHANGED <<lastSequence, rows>>
      BY <1>1 DEF AppendEvent
    <2>2. lastSequence[p] + 1 \in 1..MaxSequence
      BY <1>1 DEF AppendEvent, LogTypeOK
    <2>3. LogTypeOK'
      BY <2>1, <2>2 DEF LogTypeOK
    <2>4. LogIsDense'
      BY <2>1 DEF LogIsDense
    <2>5. \A v \in Writers : draft[v] # Idle => draft[v].project # p
      BY <1>1 DEF AppendEvent, StreamLocked
    <2>6. /\ draft'[w] = [phase |-> "appended", project |-> p, seq |-> lastSequence[p] + 1]
          /\ \A v \in Writers \ {w} : draft'[v] = draft[v]
      BY <2>1 DEF LogTypeOK
    <2>7. DraftsAreNext'
      <3>1. ASSUME NEW v \in Writers, draft'[v] # Idle PROVE draft'[v].seq = lastSequence'[draft'[v].project] + 1
        BY <2>1, <2>6, <3>1 DEF DraftsAreNext
      <3>2. ASSUME NEW u \in Writers, NEW v \in Writers, draft'[u] # Idle, draft'[v] # Idle,
                   draft'[u].project = draft'[v].project
            PROVE  u = v
        BY <2>5, <2>6, <3>2 DEF DraftsAreNext
      <3> QED
        BY <3>1, <3>2 DEF DraftsAreNext
    <2> QED
      BY <2>3, <2>4, <2>7
  <1>2. ASSUME NEW w \in Writers, CommitEvent(w) PROVE LogInv'
    <2> DEFINE p == draft[w].project
               n == draft[w].seq
    <2>1. p \in Projects /\ n \in 1..MaxSequence /\ n = lastSequence[p] + 1 /\ lastSequence[p] \in Nat
      BY <1>2 DEF CommitEvent, LogTypeOK, DraftsAreNext
    <2>2. /\ rows' = [rows EXCEPT ![p] = @ \cup {n}] /\ lastSequence' = [lastSequence EXCEPT ![p] = n]
          /\ draft' = [draft EXCEPT ![w] = Idle]
      BY <1>2 DEF CommitEvent
    <2>3. draft[w] # Idle
      BY <1>2 DEF CommitEvent
    <2>4. \A v \in Writers \ {w} : draft[v] # Idle => draft[v].project # p
      BY <2>3 DEF DraftsAreNext
    <2> HIDE DEF p, n
    <2>5. LogTypeOK'
      BY <2>1, <2>2 DEF LogTypeOK
    <2>6. LogIsDense'
      <3>1. (1..lastSequence[p]) \cup {n} = 1..n
        BY <2>1
      <3> QED
        BY <2>1, <2>2, <3>1 DEF LogIsDense, LogTypeOK
    <2>7. /\ draft'[w] = Idle
          /\ \A v \in Writers \ {w} : draft'[v] = draft[v]
      BY <2>2 DEF LogTypeOK
    <2>8. \A q \in Projects : q # p => lastSequence'[q] = lastSequence[q]
      BY <2>2 DEF LogTypeOK
    <2>9. \A v \in Writers : draft[v] # Idle => draft[v].project \in Projects
      BY DEF LogTypeOK
    <2>10. DraftsAreNext'
      BY <2>4, <2>7, <2>8, <2>9 DEF DraftsAreNext
    <2> QED
      BY <2>5, <2>6, <2>10
  <1>3. ASSUME NEW w \in Writers, Rollback(w) PROVE LogInv'
    <2>1. draft' = [draft EXCEPT ![w] = Idle] /\ UNCHANGED <<lastSequence, rows>>
      BY <1>3 DEF Rollback
    <2> QED
      BY <2>1 DEF LogTypeOK, LogIsDense, DraftsAreNext
  <1>4. ASSUME UNCHANGED logVars PROVE LogInv'
    BY <1>4 DEF logVars, LogTypeOK, LogIsDense, DraftsAreNext
  <1>5. CASE UNCHANGED outboxVars
    BY <1>4, <1>5 DEF outboxVars
  <1>6. ASSUME NEW r \in Relays,
               ClaimSome(r) \/ PublishRow(r) \/ Mark(r) \/ RelayFails(r) \/ OrphanArrives(r)
        PROVE  UNCHANGED logVars
    BY <1>6 DEF ClaimSome, Claim, PublishRow, Mark, RelayFails, OrphanArrives
  <1>7. ASSUME NEW p \in Projects, AssignSome(p) \/ Rebalance(p) PROVE UNCHANGED logVars
    BY <1>7 DEF AssignSome, Assign, Rebalance
  <1>8. ASSUME NEW d \in Distributors,
               FetchSome(d) \/ PublishToRedis(d) \/ Commits(d) \/ DistributorFails(d)
        PROVE  UNCHANGED logVars
    BY <1>8 DEF FetchSome, FetchMessage, PublishToRedis, Commits, CommitMessage, CommitRefused, LeavesGroup, DistributorFails
  <1> QED
    BY <1>1, <1>2, <1>3, <1>4, <1>5, <1>6, <1>7, <1>8 DEF OutboxNext

-----------------------------------------------------------------------------
(* The relays *)

\* Partitions only grow.
Grows ==
  /\ broker' \in [Projects -> Seq(1..MaxSequence)]
  /\ \A q \in Projects :
       /\ Len(broker[q]) \in Nat /\ Len(broker'[q]) \in Nat /\ Len(broker[q]) <= Len(broker'[q])
       /\ \A i \in 1..Len(broker[q]) : broker'[q][i] = broker[q][i]

\* A message appended behind all earlier events of its project keeps them in
\* order.
LEMMA Appended ==
  ASSUME RelayInv, NEW p \in Projects, NEW n \in 1..MaxSequence,
         \A m \in 1..(n - 1) : m \in published[p],
         broker' = [broker EXCEPT ![p] = Append(@, n)]
  PROVE  Grows /\ BrokerInOrder' /\ (\E i \in 1..Len(broker'[p]) : broker'[p][i] = n)
  <1>1. broker[p] \in Seq(1..MaxSequence) /\ broker'[p] = Append(broker[p], n)
    BY DEF RelayInv, RelayTypeOK
  <1>2. /\ broker'[p] \in Seq(1..MaxSequence)
        /\ Len(broker[p]) \in Nat /\ Len(broker'[p]) = Len(broker[p]) + 1
        /\ broker'[p][Len(broker[p]) + 1] = n
        /\ \A i \in 1..Len(broker[p]) : broker'[p][i] = broker[p][i]
    <2> DEFINE s == Append(broker[p], n)
    <2>1. /\ s \in Seq(1..MaxSequence)
          /\ Len(s) = Len(broker[p]) + 1
          /\ \A i \in 1..Len(broker[p]) : s[i] = broker[p][i]
          /\ s[Len(broker[p]) + 1] = n
      BY <1>1, AppendProperties
    <2>2. Len(broker[p]) \in Nat
      BY <1>1, LenProperties
    <2> HIDE DEF s
    <2>3. broker'[p] = s
      BY <1>1 DEF s
    <2> QED
      BY <2>1, <2>2, <2>3
  <1>3. \A q \in Projects : q # p => broker'[q] = broker[q]
    BY DEF RelayInv, RelayTypeOK
  <1>4. Grows
    <2>1. broker' \in [Projects -> Seq(1..MaxSequence)]
      BY <1>1, <1>2 DEF RelayInv, RelayTypeOK
    <2>2. \A q \in Projects : Len(broker[q]) \in Nat
      BY DEF RelayInv, RelayTypeOK
    <2> QED
      BY <1>2, <1>3, <2>1, <2>2 DEF Grows
  <1>5. \A m \in 1..(n - 1) : \E i \in 1..Len(broker[p]) : broker[p][i] = m
    <2> SUFFICES ASSUME NEW m \in 1..(n - 1)
                 PROVE  \E i \in 1..Len(broker[p]) : broker[p][i] = m
      OBVIOUS
    <2>1. m \in published[p] /\ m \in 1..m
      OBVIOUS
    <2> QED
      BY <2>1 DEF RelayInv, NothingForgotten
  <1>6. BrokerInOrder'
    <2> SUFFICES ASSUME NEW q \in Projects, NEW i \in 1..Len(broker'[q]),
                        NEW m \in 1..(broker'[q][i] - 1)
                 PROVE  \E j \in 1..(i - 1) : broker'[q][j] = m
      BY DEF BrokerInOrder
    <2>1. CASE q # p
      BY <1>3, <2>1 DEF RelayInv, BrokerInOrder
    <2>2. CASE q = p /\ i <= Len(broker[p])
      <3>1. i \in 1..Len(broker[p]) /\ m \in 1..(broker[p][i] - 1)
        BY <1>2, <2>2
      <3>2. PICK j \in 1..(i - 1) : broker[p][j] = m
        BY <3>1 DEF RelayInv, BrokerInOrder
      <3>3. j \in 1..Len(broker[p])
        BY <1>2, <3>1, <3>2
      <3> QED
        BY <1>2, <2>2, <3>2, <3>3
    <2>3. CASE q = p /\ i = Len(broker[p]) + 1
      <3>1. PICK j \in 1..Len(broker[p]) : broker[p][j] = m
        BY <1>2, <1>5, <2>3
      <3> QED
        BY <1>2, <2>3, <3>1
    <2> QED
      BY <1>2, <2>1, <2>2, <2>3
  <1>7. \E i \in 1..Len(broker'[p]) : broker'[p][i] = n
    BY <1>2 DEF InBroker
  <1> QED
    BY <1>4, <1>6, <1>7

\* What is in the broker stays there.
LEMMA StaysInBroker ==
  ASSUME Grows, NEW q \in Projects, NEW m, InBroker(q, m)
  PROVE  \E i \in 1..Len(broker'[q]) : broker'[q][i] = m
  BY DEF Grows, InBroker

\* A relay's row has only published predecessors, because it saw no other and
\* the log has no holes.
LEMMA RelayNext == LogInv /\ RelayInv /\ [OutboxNext]_outboxVars => RelayInv' /\ (Grows \/ UNCHANGED broker)
  <1> SUFFICES ASSUME LogInv, RelayInv, [OutboxNext]_outboxVars PROVE RelayInv' /\ (Grows \/ UNCHANGED broker)
    OBVIOUS
  <1>1. ASSUME NEW r \in Relays, NEW p \in Projects, NEW n \in 1..MaxSequence, Claim(r, p, n)
        PROVE  RelayInv' /\ UNCHANGED broker
    <2>1. /\ claim' = [claim EXCEPT ![r] = [phase |-> "claimed", project |-> p, seq |-> n]]
          /\ UNCHANGED <<published, orphan, broker>>
      BY <1>1 DEF Claim
    <2>2. \A m \in 1..(n - 1) : m \in published[p]
      <3> SUFFICES ASSUME NEW m \in 1..(n - 1) PROVE m \in published[p]
        OBVIOUS
      <3>1. n \in 1..lastSequence[p] /\ lastSequence[p] \in Nat
        BY <1>1 DEF Claim, LogInv, LogIsDense, LogTypeOK
      <3>2. m \in rows[p] /\ m < n
        BY <3>1 DEF LogInv, LogIsDense
      <3> QED
        BY <1>1, <3>2 DEF Claim, HasNoPredecessor
    <2>3. /\ claim'[r] = [phase |-> "claimed", project |-> p, seq |-> n]
          /\ \A q \in Relays \ {r} : claim'[q] = claim[q]
      BY <2>1 DEF RelayInv, RelayTypeOK
    <2>4. RelayTypeOK'
      BY <2>1 DEF RelayInv, RelayTypeOK
    <2>5. NothingForgotten' /\ BrokerInOrder'
      BY <2>1 DEF RelayInv, NothingForgotten, BrokerInOrder
    <2>6. RelaysFollow'
      <3>1. ASSUME NEW q \in Relays, claim'[q] # Idle
            PROVE  \A m \in 1..(claim'[q].seq - 1) : m \in published'[claim'[q].project]
        BY <2>1, <2>2, <2>3, <3>1 DEF RelayInv, RelaysFollow
      <3>2. ASSUME NEW q \in Relays, claim'[q].phase = "sent"
            PROVE  \E i \in 1..Len(broker'[claim'[q].project]) : broker'[claim'[q].project][i] = claim'[q].seq
        <4>1. q # r
          BY <2>3, <3>2
        <4>2. InBroker(claim[q].project, claim[q].seq)
          BY <2>3, <3>2, <4>1 DEF RelayInv, RelaysFollow
        <4> QED
          BY <2>1, <2>3, <4>1, <4>2 DEF InBroker
      <3>3. \A q \in Relays : orphan'[q] # Idle =>
              \A m \in 1..(orphan'[q].seq - 1) : m \in published'[orphan'[q].project]
        BY <2>1 DEF RelayInv, RelaysFollow
      <3> QED
        BY <3>1, <3>2, <3>3 DEF RelaysFollow, InBroker
    <2> QED
      BY <2>1, <2>4, <2>5, <2>6 DEF RelayInv
  <1>2. ASSUME NEW r \in Relays, PublishRow(r) PROVE RelayInv' /\ Grows
    <2> DEFINE p == claim[r].project
               n == claim[r].seq
    <2>1. /\ claim[r] \in [phase : {"claimed", "sent"}, project : Projects, seq : 1..MaxSequence]
          /\ claim[r] # Idle
      BY <1>2 DEF PublishRow, RelayInv, RelayTypeOK, Idle
    <2>2. p \in Projects /\ n \in 1..MaxSequence /\ \A m \in 1..(n - 1) : m \in published[p]
      BY <2>1 DEF RelayInv, RelaysFollow
    <2>3. /\ broker' = [broker EXCEPT ![p] = Append(@, n)]
          /\ claim' = [claim EXCEPT ![r].phase = "sent"]
          /\ UNCHANGED <<published, orphan>>
      BY <1>2 DEF PublishRow
    <2>4. claim'[r] = [phase |-> "sent", project |-> p, seq |-> n]
      BY <2>1, <2>3 DEF RelayInv, RelayTypeOK
    <2>5. \A q \in Relays \ {r} : claim'[q] = claim[q]
      BY <2>3 DEF RelayInv, RelayTypeOK
    <2> HIDE DEF p, n
    <2>6. Grows /\ BrokerInOrder' /\ (\E i \in 1..Len(broker'[p]) : broker'[p][i] = n)
      BY <2>2, <2>3, Appended
    <2>7. RelayTypeOK'
      <3>1. claim' \in [Relays -> {Idle} \cup [phase : {"claimed", "sent"}, project : Projects, seq : 1..MaxSequence]]
        BY <2>2, <2>3, <2>4, <2>5 DEF RelayInv, RelayTypeOK
      <3> QED
        BY <2>3, <2>6, <3>1 DEF RelayInv, RelayTypeOK, Grows
    <2>8. NothingForgotten'
      <3>1. ASSUME NEW q \in Projects, NEW k \in published[q], NEW m \in 1..k
            PROVE  m \in published[q] /\ InBroker(q, m)
        BY DEF RelayInv, NothingForgotten, InBroker
      <3>2. ASSUME NEW q \in Projects, NEW k \in published[q], NEW m \in 1..k
            PROVE  \E i \in 1..Len(broker'[q]) : broker'[q][i] = m
        BY <2>6, <3>1, StaysInBroker
      <3> QED
        BY <2>3, <3>1, <3>2 DEF NothingForgotten, InBroker
    <2>9. RelaysFollow'
      <3>1. ASSUME NEW q \in Relays, claim'[q] # Idle
            PROVE  \A m \in 1..(claim'[q].seq - 1) : m \in published'[claim'[q].project]
        BY <2>2, <2>3, <2>4, <2>5, <3>1 DEF RelayInv, RelaysFollow
      <3>2. ASSUME NEW q \in Relays, claim'[q].phase = "sent"
            PROVE  \E i \in 1..Len(broker'[claim'[q].project]) : broker'[claim'[q].project][i] = claim'[q].seq
        <4>1. CASE q = r
          BY <2>4, <2>6, <4>1 DEF InBroker
        <4>2. CASE q # r
          <5>1. claim[q].phase = "sent" /\ claim'[q] = claim[q]
            BY <2>5, <3>2, <4>2
          <5>2. claim[q].project \in Projects /\ InBroker(claim[q].project, claim[q].seq)
            BY <5>1 DEF RelayInv, RelaysFollow, RelayTypeOK, Idle
          <5> QED
            BY <2>6, <5>1, <5>2 DEF Grows, InBroker
        <4> QED
          BY <4>1, <4>2
      <3>3. \A q \in Relays : orphan'[q] # Idle =>
              \A m \in 1..(orphan'[q].seq - 1) : m \in published'[orphan'[q].project]
        BY <2>3 DEF RelayInv, RelaysFollow
      <3> QED
        BY <3>1, <3>2, <3>3 DEF RelaysFollow, InBroker
    <2> QED
      BY <2>6, <2>7, <2>8, <2>9 DEF RelayInv
  <1>3. ASSUME NEW r \in Relays, Mark(r) PROVE RelayInv' /\ UNCHANGED broker
    <2> DEFINE p == claim[r].project
               n == claim[r].seq
    <2>1. /\ claim[r] \in [phase : {"claimed", "sent"}, project : Projects, seq : 1..MaxSequence]
          /\ claim[r] # Idle /\ claim[r].phase = "sent"
      BY <1>3 DEF Mark, Acknowledged, RelayInv, RelayTypeOK, Idle
    <2>2. /\ p \in Projects /\ n \in 1..MaxSequence /\ InBroker(p, n)
          /\ \A m \in 1..(n - 1) : m \in published[p]
      BY <2>1 DEF RelayInv, RelaysFollow
    <2>3. /\ published' = [published EXCEPT ![p] = @ \cup {n}]
          /\ claim' = [claim EXCEPT ![r] = Idle]
          /\ UNCHANGED <<orphan, broker>>
      BY <1>3 DEF Mark
    <2> HIDE DEF p, n
    <2>4. published'[p] = published[p] \cup {n} /\ \A q \in Projects \ {p} : published'[q] = published[q]
      BY <2>2, <2>3 DEF RelayInv, RelayTypeOK
    <2>5. \A q \in Projects : published[q] \subseteq published'[q]
      BY <2>4
    <2>6. claim'[r] = Idle /\ \A q \in Relays \ {r} : claim'[q] = claim[q]
      BY <2>3 DEF RelayInv, RelayTypeOK
    <2>7. RelayTypeOK'
      BY <2>2, <2>3 DEF RelayInv, RelayTypeOK
    <2>8. NothingForgotten'
      <3> SUFFICES ASSUME NEW q \in Projects, NEW k \in published'[q], NEW m \in 1..k
                   PROVE  m \in published'[q] /\ \E i \in 1..Len(broker[q]) : broker[q][i] = m
        BY <2>3 DEF NothingForgotten
      <3>1. CASE k \in published[q]
        BY <2>5, <3>1 DEF RelayInv, NothingForgotten
      <3>2. CASE q = p /\ k = n /\ m = n
        BY <2>2, <2>4, <3>2 DEF InBroker
      <3>3. CASE q = p /\ k = n /\ m # n
        <4>1. m \in 1..(n - 1)
          BY <2>2, <3>3
        <4>2. m \in published[p] /\ m \in 1..m
          BY <2>2, <4>1
        <4> QED
          BY <2>5, <3>3, <4>2 DEF RelayInv, NothingForgotten
      <3> QED
        BY <2>4, <3>1, <3>2, <3>3
    <2>9. BrokerInOrder'
      BY <2>3 DEF RelayInv, BrokerInOrder
    <2>10. RelaysFollow'
      <3>1. ASSUME NEW q \in Relays, claim'[q] # Idle
            PROVE  /\ \A m \in 1..(claim'[q].seq - 1) : m \in published'[claim'[q].project]
        <4>1. claim'[q] = claim[q] /\ claim[q].project \in Projects
          BY <2>6, <3>1 DEF RelayInv, RelayTypeOK
        <4> QED
          BY <2>5, <3>1, <4>1 DEF RelayInv, RelaysFollow
      <3>2. ASSUME NEW q \in Relays, claim'[q].phase = "sent"
            PROVE  \E i \in 1..Len(broker'[claim'[q].project]) : broker'[claim'[q].project][i] = claim'[q].seq
        <4>1. claim'[q] = claim[q] /\ claim[q].phase = "sent"
          BY <2>6, <3>2 DEF Idle
        <4>2. InBroker(claim[q].project, claim[q].seq)
          BY <4>1 DEF RelayInv, RelaysFollow
        <4> QED
          BY <2>3, <4>1, <4>2 DEF InBroker
      <3>3. ASSUME NEW q \in Relays, orphan'[q] # Idle
            PROVE  \A m \in 1..(orphan'[q].seq - 1) : m \in published'[orphan'[q].project]
        <4>1. orphan'[q] = orphan[q] /\ orphan[q].project \in Projects
          BY <2>3, <3>3 DEF RelayInv, RelayTypeOK
        <4> QED
          BY <2>5, <3>3, <4>1 DEF RelayInv, RelaysFollow
      <3> QED
        BY <3>1, <3>2, <3>3 DEF RelaysFollow, InBroker
    <2> QED
      BY <2>3, <2>7, <2>8, <2>9, <2>10 DEF RelayInv
  <1>4. ASSUME NEW r \in Relays, RelayFails(r) PROVE RelayInv' /\ UNCHANGED broker
    <2>1. /\ claim' = [claim EXCEPT ![r] = Idle] /\ UNCHANGED <<published, broker>> /\ claim[r] # Idle
          /\ \/ UNCHANGED orphan
             \/ orphan' = [orphan EXCEPT ![r] =
                  [phase |-> "late", project |-> claim[r].project, seq |-> claim[r].seq]]
      BY <1>4 DEF RelayFails
    <2>2. claim'[r] = Idle /\ \A q \in Relays \ {r} : claim'[q] = claim[q]
      BY <2>1 DEF RelayInv, RelayTypeOK
    <2>3. /\ claim[r].project \in Projects /\ claim[r].seq \in 1..MaxSequence
          /\ \A m \in 1..(claim[r].seq - 1) : m \in published[claim[r].project]
      BY <2>1 DEF RelayInv, RelayTypeOK, RelaysFollow
    <2>4. RelayTypeOK'
      BY <2>1, <2>3 DEF RelayInv, RelayTypeOK
    <2>5. NothingForgotten' /\ BrokerInOrder'
      BY <2>1 DEF RelayInv, NothingForgotten, BrokerInOrder
    <2>6. RelaysFollow'
      <3>1. ASSUME NEW q \in Relays, claim'[q] # Idle
            PROVE  \A m \in 1..(claim'[q].seq - 1) : m \in published'[claim'[q].project]
        BY <2>1, <2>2, <3>1 DEF RelayInv, RelaysFollow
      <3>2. ASSUME NEW q \in Relays, claim'[q].phase = "sent"
            PROVE  \E i \in 1..Len(broker'[claim'[q].project]) : broker'[claim'[q].project][i] = claim'[q].seq
        <4>1. claim'[q] = claim[q] /\ claim[q].phase = "sent"
          BY <2>2, <3>2 DEF Idle
        <4>2. InBroker(claim[q].project, claim[q].seq)
          BY <4>1 DEF RelayInv, RelaysFollow
        <4> QED
          BY <2>1, <4>1, <4>2 DEF InBroker
      <3>3. ASSUME NEW q \in Relays, orphan'[q] # Idle
            PROVE  \A m \in 1..(orphan'[q].seq - 1) : m \in published'[orphan'[q].project]
        <4>1. \/ orphan'[q] = orphan[q]
              \/ orphan'[q] = [phase |-> "late", project |-> claim[r].project, seq |-> claim[r].seq]
          BY <2>1 DEF RelayInv, RelayTypeOK
        <4> QED
          BY <2>1, <2>3, <3>3, <4>1 DEF RelayInv, RelaysFollow
      <3> QED
        BY <3>1, <3>2, <3>3 DEF RelaysFollow, InBroker
    <2> QED
      BY <2>1, <2>4, <2>5, <2>6 DEF RelayInv
  <1>5. ASSUME NEW r \in Relays, OrphanArrives(r) PROVE RelayInv' /\ Grows
    <2> DEFINE p == orphan[r].project
               n == orphan[r].seq
    <2>1. /\ broker' = [broker EXCEPT ![p] = Append(@, n)] /\ orphan[r] # Idle
          /\ orphan' = [orphan EXCEPT ![r] = Idle]
          /\ UNCHANGED <<published, claim>>
      BY <1>5 DEF OrphanArrives
    <2>2. p \in Projects /\ n \in 1..MaxSequence /\ \A m \in 1..(n - 1) : m \in published[p]
      BY <2>1 DEF RelayInv, RelayTypeOK, RelaysFollow
    <2>3. orphan'[r] = Idle /\ \A q \in Relays \ {r} : orphan'[q] = orphan[q]
      BY <2>1 DEF RelayInv, RelayTypeOK
    <2> HIDE DEF p, n
    <2>4. Grows /\ BrokerInOrder'
      BY <2>1, <2>2, Appended
    <2>5. RelayTypeOK'
      BY <2>1, <2>4 DEF RelayInv, RelayTypeOK, Grows
    <2>6. NothingForgotten'
      <3>1. ASSUME NEW q \in Projects, NEW k \in published[q], NEW m \in 1..k
            PROVE  m \in published[q] /\ InBroker(q, m)
        BY DEF RelayInv, NothingForgotten, InBroker
      <3>2. ASSUME NEW q \in Projects, NEW k \in published[q], NEW m \in 1..k
            PROVE  \E i \in 1..Len(broker'[q]) : broker'[q][i] = m
        BY <2>4, <3>1, StaysInBroker
      <3> QED
        BY <2>1, <3>1, <3>2 DEF NothingForgotten, InBroker
    <2>7. RelaysFollow'
      <3>1. ASSUME NEW q \in Relays, claim'[q].phase = "sent"
            PROVE  \E i \in 1..Len(broker'[claim'[q].project]) : broker'[claim'[q].project][i] = claim'[q].seq
        <4>1. claim[q].phase = "sent" /\ claim'[q] = claim[q]
          BY <2>1, <3>1
        <4>2. claim[q].project \in Projects /\ InBroker(claim[q].project, claim[q].seq)
          BY <4>1 DEF RelayInv, RelaysFollow, RelayTypeOK, Idle
        <4>3. PICK i \in 1..Len(broker[claim[q].project]) : broker[claim[q].project][i] = claim[q].seq
          BY <4>2 DEF InBroker
        <4>4. /\ i \in 1..Len(broker'[claim[q].project])
              /\ broker'[claim[q].project][i] = claim[q].seq
          BY <2>4, <4>2, <4>3 DEF Grows
        <4> QED
          BY <4>1, <4>4
      <3>2. /\ \A q \in Relays : claim'[q] # Idle =>
                 \A m \in 1..(claim'[q].seq - 1) : m \in published'[claim'[q].project]
            /\ \A q \in Relays : orphan'[q] # Idle =>
                 \A m \in 1..(orphan'[q].seq - 1) : m \in published'[orphan'[q].project]
        BY <2>1, <2>3 DEF RelayInv, RelaysFollow
      <3> QED
        BY <3>1, <3>2 DEF RelaysFollow, InBroker
    <2> QED
      BY <2>4, <2>5, <2>6, <2>7 DEF RelayInv
  <1>6. ASSUME UNCHANGED relayVars PROVE RelayInv' /\ UNCHANGED broker
    BY <1>6 DEF relayVars, RelayInv, RelayTypeOK, NothingForgotten, BrokerInOrder, RelaysFollow, InBroker
  <1>7. ASSUME NEW w \in Writers, (\E p \in Projects : AppendEvent(w, p)) \/ CommitEvent(w) \/ Rollback(w)
        PROVE  UNCHANGED relayVars
    BY <1>7 DEF AppendEvent, CommitEvent, Rollback
  <1>8. ASSUME NEW p \in Projects, AssignSome(p) \/ Rebalance(p) PROVE UNCHANGED relayVars
    BY <1>8 DEF AssignSome, Assign, Rebalance
  <1>9. ASSUME NEW d \in Distributors,
               FetchSome(d) \/ PublishToRedis(d) \/ Commits(d) \/ DistributorFails(d)
        PROVE  UNCHANGED relayVars
    BY <1>9 DEF FetchSome, FetchMessage, PublishToRedis, Commits, CommitMessage, CommitRefused, LeavesGroup, DistributorFails
  <1>10. CASE UNCHANGED outboxVars
    BY <1>6, <1>10 DEF outboxVars
  <1> QED
    BY <1>1, <1>2, <1>3, <1>4, <1>5, <1>6, <1>7, <1>8, <1>9, <1>10 DEF OutboxNext, ClaimSome

-----------------------------------------------------------------------------
(* The distributors *)

\* What a distributor has in hand is a message of a partition.
LEMMA HandFacts ==
  ASSUME GroupTypeOK, NEW d \in Distributors, hand[d] # Idle
  PROVE  /\ hand[d].project \in Projects /\ hand[d].index \in Nat \ {0}
         /\ hand[d] = [phase |-> hand[d].phase, project |-> hand[d].project, index |-> hand[d].index]
  BY DEF GroupTypeOK

\* New messages change nothing of what the group has read.
LEMMA GroupKept ==
  ASSUME RelayTypeOK, GroupInv, UNCHANGED groupVars, Grows \/ UNCHANGED broker
  PROVE  GroupInv'
  <1>1. \A p \in Projects :
          /\ Len(broker[p]) \in Nat /\ Len(broker'[p]) \in Nat /\ Len(broker[p]) <= Len(broker'[p])
          /\ \A i \in 1..Len(broker[p]) : broker'[p][i] = broker[p][i]
    <2>1. CASE Grows
      BY <2>1 DEF Grows
    <2>2. CASE UNCHANGED broker
      <3>1. \A p \in Projects : Len(broker[p]) \in Nat
        BY LenProperties DEF RelayTypeOK
      <3> QED
        BY <2>2, <3>1
    <2> QED
      BY <2>1, <2>2
  <1>2. UNCHANGED <<offset, owner, position, hand, fanned>>
    BY DEF groupVars
  <1>3. \A p \in Projects : offset[p] \in Nat /\ position[p] \in Nat
    BY DEF GroupInv, GroupTypeOK
  <1>4. GroupTypeOK'
    BY <1>2 DEF GroupInv, GroupTypeOK
  <1>5. WithinPartition'
    <2>1. ASSUME NEW p \in Projects PROVE offset'[p] <= Len(broker'[p]) /\ position'[p] <= Len(broker'[p])
      BY <1>1, <1>2, <1>3 DEF GroupInv, WithinPartition
    <2>2. ASSUME NEW d \in Distributors, hand'[d] # Idle
          PROVE  hand'[d].index <= Len(broker'[hand'[d].project])
      <3>1. hand[d].project \in Projects /\ hand[d].index \in Nat
        BY <1>2, <2>2, HandFacts DEF GroupInv
      <3> QED
        BY <1>1, <1>2, <2>2, <3>1 DEF GroupInv, WithinPartition
    <2> QED
      BY <2>1, <2>2 DEF WithinPartition
  <1>6. OffsetBehindFanout'
    <2> SUFFICES ASSUME NEW p \in Projects, NEW i \in 1..offset[p] PROVE broker'[p][i] \in fanned[p]
      BY <1>2 DEF OffsetBehindFanout
    <2>1. i \in 1..Len(broker[p])
      BY <1>1, <1>3 DEF GroupInv, WithinPartition
    <2> QED
      BY <1>1, <2>1 DEF GroupInv, OffsetBehindFanout
  <1>7. HandsFollow'
    <2> SUFFICES ASSUME NEW d \in Distributors, hand[d] # Idle
                 PROVE  /\ \A j \in 1..(hand[d].index - 1) :
                             broker'[hand[d].project][j] \in fanned[hand[d].project]
                        /\ hand[d].phase = "fanned" =>
                             broker'[hand[d].project][hand[d].index] \in fanned[hand[d].project]
      BY <1>2 DEF HandsFollow
    <2>1. /\ hand[d].project \in Projects /\ hand[d].index \in Nat \ {0}
          /\ hand[d].index <= Len(broker[hand[d].project])
      BY HandFacts DEF GroupInv, WithinPartition
    <2>2. \A j \in 1..hand[d].index : broker'[hand[d].project][j] = broker[hand[d].project][j]
      BY <1>1, <2>1
    <2> QED
      BY <2>1, <2>2 DEF GroupInv, HandsFollow
  <1>8. ReadersFollow'
    <2> SUFFICES ASSUME NEW p \in Projects, owner[p] # Nobody, NEW i \in 1..position[p]
                 PROVE  \/ broker'[p][i] \in fanned[p]
                        \/ hand[owner[p]] # Idle /\ hand[owner[p]].project = p /\ hand[owner[p]].index = i
      BY <1>2 DEF ReadersFollow
    <2>1. i \in 1..Len(broker[p])
      BY <1>1, <1>3 DEF GroupInv, WithinPartition
    <2> QED
      BY <1>1, <2>1 DEF GroupInv, ReadersFollow
  <1> QED
    BY <1>4, <1>5, <1>6, <1>7, <1>8 DEF GroupInv

\* A distributor commits a message when it and every message before it have been
\* given to Redis.
LEMMA GroupNext ==
  ASSUME RelayTypeOK, GroupInv, [OutboxNext]_outboxVars, Grows \/ UNCHANGED broker
  PROVE  GroupInv'
  <1> USE DEF GroupInv
  <1>a. \A p \in Projects :
          /\ Len(broker[p]) \in Nat /\ offset[p] \in Nat /\ position[p] \in Nat
          /\ owner[p] \in Distributors \cup {Nobody} /\ fanned[p] \in SUBSET (1..MaxSequence)
          /\ \A i \in 1..Len(broker[p]) : broker[p][i] \in 1..MaxSequence
    BY LenProperties, ElementOfSeq DEF RelayTypeOK, GroupTypeOK
  <1>1. ASSUME NEW p \in Projects, NEW d \in Distributors, Assign(d, p) PROVE GroupInv'
    <2>1. /\ owner' = [owner EXCEPT ![p] = d] /\ position' = [position EXCEPT ![p] = offset[p]]
          /\ UNCHANGED <<broker, offset, hand, fanned>>
      BY <1>1 DEF Assign, ResumesAt, relayVars
    <2>2. /\ owner'[p] = d /\ \A q \in Projects \ {p} : owner'[q] = owner[q]
          /\ position'[p] = offset[p] /\ \A q \in Projects \ {p} : position'[q] = position[q]
      BY <2>1 DEF GroupTypeOK
    <2>3. GroupTypeOK'
      BY <1>a, <2>1 DEF GroupTypeOK
    <2>4. WithinPartition'
      BY <2>1, <2>2 DEF WithinPartition
    <2>5. OffsetBehindFanout' /\ HandsFollow'
      BY <2>1 DEF OffsetBehindFanout, HandsFollow
    <2>6. ReadersFollow'
      BY <2>1, <2>2 DEF ReadersFollow, OffsetBehindFanout
    <2> QED
      BY <2>3, <2>4, <2>5, <2>6
  <1>2. ASSUME NEW p \in Projects, Rebalance(p) PROVE GroupInv'
    <2>1. /\ owner' = [owner EXCEPT ![p] = Nobody]
          /\ UNCHANGED <<broker, offset, position, hand, fanned>>
      BY <1>2 DEF Rebalance, relayVars
    <2>2. owner'[p] = Nobody /\ \A q \in Projects \ {p} : owner'[q] = owner[q]
      BY <2>1 DEF GroupTypeOK
    <2>3. GroupTypeOK' /\ WithinPartition' /\ OffsetBehindFanout' /\ HandsFollow'
      BY <2>1 DEF GroupTypeOK, WithinPartition, OffsetBehindFanout, HandsFollow
    <2>4. ReadersFollow'
      BY <2>1, <2>2 DEF ReadersFollow
    <2> QED
      BY <2>3, <2>4
  <1>3. ASSUME NEW d \in Distributors, NEW p \in Projects, FetchMessage(d, p) PROVE GroupInv'
    <2> DEFINE k == position[p] + 1
    <2>1. /\ hand[d] = Idle /\ owner[p] = d /\ position[p] < Len(broker[p])
          /\ hand' = [hand EXCEPT ![d] = [phase |-> "fetched", project |-> p, index |-> k]]
          /\ position' = [position EXCEPT ![p] = k]
          /\ UNCHANGED <<broker, offset, owner, fanned>>
      BY <1>3 DEF FetchMessage, relayVars
    <2>2. /\ hand'[d] = [phase |-> "fetched", project |-> p, index |-> k] /\ hand'[d] # Idle
          /\ \A e \in Distributors \ {d} : hand'[e] = hand[e]
      BY <2>1 DEF GroupTypeOK, Idle
    <2>3. position'[p] = k /\ \A q \in Projects \ {p} : position'[q] = position[q]
      BY <2>1 DEF GroupTypeOK
    <2>4. k \in Nat \ {0} /\ k - 1 = position[p] /\ k <= Len(broker[p])
      BY <1>a, <2>1
    <2>5. \A q \in Projects : owner[q] = d => \A i \in 1..position[q] : broker[q][i] \in fanned[q]
      BY <2>1, NobodyAssumption DEF ReadersFollow
    <2> HIDE DEF k
    <2>6. GroupTypeOK'
      BY <2>1, <2>4 DEF GroupTypeOK
    <2>7. WithinPartition'
      BY <2>1, <2>2, <2>3, <2>4 DEF WithinPartition
    <2>8. OffsetBehindFanout'
      BY <2>1 DEF OffsetBehindFanout
    <2>9. HandsFollow'
      BY <2>1, <2>2, <2>4, <2>5 DEF HandsFollow
    <2>10. ReadersFollow'
      <3> SUFFICES ASSUME NEW q \in Projects, owner[q] # Nobody, NEW i \in 1..position'[q]
                   PROVE  \/ broker[q][i] \in fanned[q]
                          \/ /\ hand'[owner[q]] # Idle /\ hand'[owner[q]].project = q
                             /\ hand'[owner[q]].index = i
        BY <2>1 DEF ReadersFollow
      <3>1. CASE owner[q] # d
        <4>1. q # p /\ hand'[owner[q]] = hand[owner[q]] /\ i \in 1..position[q]
          BY <1>a, <2>1, <2>2, <2>3, <3>1
        <4> QED
          BY <4>1 DEF ReadersFollow
      <3>2. CASE owner[q] = d /\ i \in 1..position[q]
        BY <2>5, <3>2
      <3>3. CASE owner[q] = d /\ i \notin 1..position[q]
        <4>1. q = p
          BY <2>3, <3>3
        <4>2. i = k
          BY <1>a, <2>3, <2>4, <3>3, <4>1
        <4> QED
          BY <2>1, <2>2, <4>1, <4>2
      <3> QED
        BY <3>1, <3>2, <3>3
    <2> QED
      BY <2>6, <2>7, <2>8, <2>9, <2>10
  <1>4. ASSUME NEW d \in Distributors, PublishToRedis(d) PROVE GroupInv'
    <2> DEFINE p == hand[d].project
               k == hand[d].index
    <2>1. hand[d] # Idle
      BY <1>4 DEF PublishToRedis, Idle
    <2>2. p \in Projects /\ k \in Nat \ {0} /\ k <= Len(broker[p])
      BY <2>1, HandFacts DEF WithinPartition
    <2>3. /\ hand[d].phase = "fetched" /\ hand' = [hand EXCEPT ![d].phase = "fanned"]
          /\ fanned' = [fanned EXCEPT ![p] = @ \cup {broker[p][k]}]
          /\ UNCHANGED <<broker, offset, owner, position>>
      BY <1>4 DEF PublishToRedis, relayVars
    <2>4. hand[d] = [phase |-> "fetched", project |-> p, index |-> k]
      BY <2>1, <2>3, HandFacts
    <2>5. /\ hand'[d] = [phase |-> "fanned", project |-> p, index |-> k] /\ hand'[d] # Idle
          /\ \A e \in Distributors \ {d} : hand'[e] = hand[e]
      BY <2>3, <2>4 DEF GroupTypeOK, Idle
    <2>6. \A q \in Projects : fanned[q] \subseteq fanned'[q]
      BY <2>3 DEF GroupTypeOK
    <2>7. broker[p][k] \in fanned'[p] /\ broker[p][k] \in 1..MaxSequence
      BY <1>a, <2>2, <2>3 DEF GroupTypeOK
    <2>8. \A j \in 1..(k - 1) : broker[p][j] \in fanned[p]
      BY <2>1 DEF HandsFollow
    <2> HIDE DEF p, k
    <2>9. GroupTypeOK'
      <3>1. hand' \in [Distributors -> {Idle} \cup [phase : {"fetched", "fanned"}, project : Projects, index : Nat \ {0}]]
        BY <2>2, <2>3, <2>5 DEF GroupTypeOK
      <3>2. fanned' \in [Projects -> SUBSET (1..MaxSequence)]
        BY <2>3, <2>7 DEF GroupTypeOK
      <3> QED
        BY <2>3, <3>1, <3>2 DEF GroupTypeOK
    <2>10. WithinPartition'
      <3>1. \A e \in Distributors : hand'[e] # Idle => hand'[e].index <= Len(broker[hand'[e].project])
        BY <2>2, <2>5 DEF WithinPartition
      <3> QED
        BY <2>3, <3>1 DEF WithinPartition
    <2>11. OffsetBehindFanout'
      BY <2>3, <2>6 DEF OffsetBehindFanout
    <2>12. HandsFollow'
      <3> SUFFICES ASSUME NEW e \in Distributors, hand'[e] # Idle
                   PROVE  /\ \A j \in 1..(hand'[e].index - 1) :
                               broker[hand'[e].project][j] \in fanned'[hand'[e].project]
                          /\ hand'[e].phase = "fanned" =>
                               broker[hand'[e].project][hand'[e].index] \in fanned'[hand'[e].project]
        BY <2>3 DEF HandsFollow
      <3>1. CASE e = d
        BY <2>2, <2>5, <2>6, <2>7, <2>8, <3>1
      <3>2. CASE e # d
        <4>1. hand'[e] = hand[e] /\ hand[e] # Idle
          BY <2>5, <3>2
        <4>2. hand[e].project \in Projects
          BY <4>1, HandFacts
        <4> QED
          BY <2>6, <4>1, <4>2 DEF HandsFollow
      <3> QED
        BY <3>1, <3>2
    <2>13. ReadersFollow'
      <3> SUFFICES ASSUME NEW q \in Projects, owner[q] # Nobody, NEW i \in 1..position[q]
                   PROVE  \/ broker[q][i] \in fanned'[q]
                          \/ /\ hand'[owner[q]] # Idle /\ hand'[owner[q]].project = q
                             /\ hand'[owner[q]].index = i
        BY <2>3 DEF ReadersFollow
      <3>1. \/ broker[q][i] \in fanned[q]
            \/ hand[owner[q]] # Idle /\ hand[owner[q]].project = q /\ hand[owner[q]].index = i
        BY DEF ReadersFollow
      <3>2. CASE owner[q] = d
        BY <2>4, <2>5, <2>6, <3>1, <3>2
      <3>3. CASE owner[q] # d
        BY <1>a, <2>5, <2>6, <3>1, <3>3
      <3> QED
        BY <3>2, <3>3
    <2> QED
      BY <2>9, <2>10, <2>11, <2>12, <2>13
  <1>5. ASSUME NEW d \in Distributors, CommitMessage(d) PROVE GroupInv'
    <2> DEFINE p == hand[d].project
               k == hand[d].index
    <2>1. hand[d] # Idle /\ hand[d].phase = "fanned"
      BY <1>5 DEF CommitMessage, FannedOut, Idle
    <2>2. p \in Projects /\ k \in Nat \ {0} /\ k <= Len(broker[p])
      BY <2>1, HandFacts DEF WithinPartition
    <2>3. /\ offset' = [offset EXCEPT ![p] = k]
          /\ hand' = [hand EXCEPT ![d] = Idle]
          /\ UNCHANGED <<broker, owner, position, fanned>>
      BY <1>5 DEF CommitMessage, CommittedIndex, relayVars
    <2>4. \A j \in 1..k : broker[p][j] \in fanned[p]
      BY <2>1, <2>2 DEF HandsFollow
    <2>5. hand'[d] = Idle /\ \A e \in Distributors \ {d} : hand'[e] = hand[e]
      BY <2>3 DEF GroupTypeOK
    <2>6. /\ offset'[p] = k \/ offset'[p] = offset[p]
          /\ \A q \in Projects \ {p} : offset'[q] = offset[q]
      BY <2>2, <2>3 DEF GroupTypeOK
    <2>7. ASSUME NEW q \in Projects, NEW i \in 1..position[q], owner[q] # Nobody
          PROVE  \/ broker[q][i] \in fanned[q]
                 \/ /\ hand'[owner[q]] # Idle /\ hand'[owner[q]].project = q
                    /\ hand'[owner[q]].index = i
      <3>1. \/ broker[q][i] \in fanned[q]
            \/ hand[owner[q]] # Idle /\ hand[owner[q]].project = q /\ hand[owner[q]].index = i
        BY <2>7 DEF ReadersFollow
      <3>2. CASE owner[q] = d /\ hand[d].project = q /\ hand[d].index = i
        BY <2>2, <2>4, <3>2
      <3>3. CASE owner[q] # d
        BY <1>a, <2>5, <2>7, <3>1, <3>3
      <3> QED
        BY <3>1, <3>2, <3>3
    <2> HIDE DEF p, k
    <2>8. GroupTypeOK'
      BY <2>2, <2>3 DEF GroupTypeOK
    <2>9. WithinPartition'
      <3>1. \A q \in Projects : offset'[q] <= Len(broker[q])
        BY <2>2, <2>6 DEF WithinPartition
      <3> QED
        BY <2>3, <2>5, <3>1 DEF WithinPartition
    <2>10. OffsetBehindFanout'
      <3>1. ASSUME NEW q \in Projects, NEW i \in 1..offset'[q] PROVE broker[q][i] \in fanned[q]
        BY <2>4, <2>6 DEF OffsetBehindFanout
      <3> QED
        BY <2>3, <3>1 DEF OffsetBehindFanout
    <2>11. HandsFollow'
      BY <2>3, <2>5 DEF HandsFollow
    <2>12. ReadersFollow'
      BY <2>3, <2>7 DEF ReadersFollow
    <2> QED
      BY <2>8, <2>9, <2>10, <2>11, <2>12
  <1>6. ASSUME NEW d \in Distributors, LeavesGroup(d) PROVE GroupInv'
    <2>1. /\ hand' = [hand EXCEPT ![d] = Idle]
          /\ owner' = [p \in Projects |-> IF owner[p] = d THEN Nobody ELSE owner[p]]
          /\ UNCHANGED <<broker, offset, position, fanned>>
      BY <1>6 DEF LeavesGroup, relayVars
    <2>2. hand'[d] = Idle /\ \A e \in Distributors \ {d} : hand'[e] = hand[e]
      BY <2>1 DEF GroupTypeOK
    <2>3. GroupTypeOK'
      BY <1>a, <2>1 DEF GroupTypeOK
    <2>4. WithinPartition' /\ OffsetBehindFanout' /\ HandsFollow'
      BY <2>1, <2>2 DEF WithinPartition, OffsetBehindFanout, HandsFollow
    <2>5. ASSUME NEW p \in Projects, owner'[p] # Nobody
          PROVE  owner'[p] = owner[p] /\ hand'[owner[p]] = hand[owner[p]]
      BY <1>a, <2>1, <2>2, <2>5
    <2>6. ReadersFollow'
      BY <2>1, <2>5 DEF ReadersFollow
    <2> QED
      BY <2>3, <2>4, <2>6
  <1>7. ASSUME NEW w \in Writers, (\E p \in Projects : AppendEvent(w, p)) \/ CommitEvent(w) \/ Rollback(w)
        PROVE  UNCHANGED groupVars
    BY <1>7 DEF AppendEvent, CommitEvent, Rollback
  <1>8. ASSUME NEW r \in Relays,
               ClaimSome(r) \/ PublishRow(r) \/ Mark(r) \/ RelayFails(r) \/ OrphanArrives(r)
        PROVE  UNCHANGED groupVars
    BY <1>8 DEF ClaimSome, Claim, PublishRow, Mark, RelayFails, OrphanArrives
  <1>9. UNCHANGED groupVars => GroupInv'
    BY GroupKept
  <1>10. UNCHANGED outboxVars => UNCHANGED groupVars
    BY DEF outboxVars
  <1> QED
    BY <1>1, <1>2, <1>3, <1>4, <1>5, <1>6, <1>7, <1>8, <1>9, <1>10
    DEF OutboxNext, AssignSome, FetchSome, Commits, CommitRefused, DistributorFails

\* Only failures count as faults.
LEMMA FaultsNext == faults \in 0..MaxFaults /\ [OutboxNext]_outboxVars => faults' \in 0..MaxFaults
  <1> SUFFICES ASSUME faults \in 0..MaxFaults, [OutboxNext]_outboxVars PROVE faults' \in 0..MaxFaults
    OBVIOUS
  <1>1. ASSUME NEW r \in Relays, RelayFails(r) PROVE faults' \in 0..MaxFaults
    BY <1>1, BoundsAssumption DEF RelayFails
  <1>2. ASSUME NEW p \in Projects, Rebalance(p) PROVE faults' \in 0..MaxFaults
    BY <1>2, BoundsAssumption DEF Rebalance
  <1>3. ASSUME NEW d \in Distributors, DistributorFails(d) PROVE faults' \in 0..MaxFaults
    BY <1>3, BoundsAssumption DEF DistributorFails
  <1>4. ASSUME NEW w \in Writers, (\E p \in Projects : AppendEvent(w, p)) \/ CommitEvent(w) \/ Rollback(w)
        PROVE  faults' = faults
    BY <1>4 DEF AppendEvent, CommitEvent, Rollback
  <1>5. ASSUME NEW r \in Relays, ClaimSome(r) \/ PublishRow(r) \/ Mark(r) \/ OrphanArrives(r)
        PROVE  faults' = faults
    BY <1>5 DEF ClaimSome, Claim, PublishRow, Mark, OrphanArrives
  <1>6. ASSUME NEW p \in Projects, AssignSome(p) PROVE faults' = faults
    BY <1>6 DEF AssignSome, Assign
  <1>7. ASSUME NEW d \in Distributors, FetchSome(d) \/ PublishToRedis(d) \/ Commits(d)
        PROVE  faults' = faults
    BY <1>7 DEF FetchSome, FetchMessage, PublishToRedis, Commits, CommitMessage, CommitRefused
  <1>8. UNCHANGED outboxVars => faults' = faults
    BY DEF outboxVars
  <1> QED
    BY <1>1, <1>2, <1>3, <1>4, <1>5, <1>6, <1>7, <1>8 DEF OutboxNext

-----------------------------------------------------------------------------
(* The theorems *)

\* The strengthened invariant holds in every reachable state.
LEMMA OutboxInvAlways == OutboxSpec => []OutboxInv
  <1>1. OutboxInit => OutboxInv
    BY OutboxInvInit
  <1>2. OutboxInv /\ [OutboxNext]_outboxVars => OutboxInv'
    <2> SUFFICES ASSUME OutboxInv, [OutboxNext]_outboxVars PROVE OutboxInv'
      OBVIOUS
    <2>1. LogInv /\ RelayInv /\ GroupInv /\ faults \in 0..MaxFaults
      BY DEF OutboxInv
    <2>2. LogInv'
      BY <2>1, LogNext
    <2>3. RelayInv' /\ (Grows \/ UNCHANGED broker)
      BY <2>1, RelayNext
    <2>4. RelayTypeOK
      BY <2>1 DEF RelayInv
    <2>5. GroupInv'
      BY <2>1, <2>3, <2>4, GroupNext
    <2>6. faults' \in 0..MaxFaults
      BY <2>1, FaultsNext
    <2> QED
      BY <2>2, <2>3, <2>5, <2>6 DEF OutboxInv
  <1> QED
    BY <1>1, <1>2, PTL DEF OutboxSpec

\* Every variable keeps its values, for any number of writers, relays,
\* distributors, projects, events and failures.
THEOREM OutboxTypeCorrect == OutboxSpec => []OutboxTypeOK
  <1>1. OutboxInv => OutboxTypeOK
    BY TypesSplit DEF OutboxInv, LogInv, RelayInv, GroupInv
  <1> QED
    BY <1>1, OutboxInvAlways, PTL

\* The lock of a project's counter keeps the committed log free of holes: a
\* reader that has seen sequence n never misses a smaller one.
THEOREM LogStaysDense == OutboxSpec => []LogIsDense
  <1>1. OutboxInv => LogIsDense
    BY DEF OutboxInv, LogInv
  <1> QED
    BY <1>1, OutboxInvAlways, PTL

\* A row is marked as published only when it and all rows before it are in the
\* broker, whichever relays fail.
THEOREM NothingIsForgotten == OutboxSpec => []NothingForgotten
  <1>1. OutboxInv => NothingForgotten
    BY DEF OutboxInv, RelayInv
  <1> QED
    BY <1>1, OutboxInvAlways, PTL

\* So the log is complete for its readers, and its marks for the relays.
THEOREM LogStaysComplete == OutboxSpec => []LogIsComplete
  <1>1. LogIsDense /\ NothingForgotten => LogIsComplete
    BY DEF LogIsComplete
  <1> QED
    BY <1>1, LogStaysDense, NothingIsForgotten, PTL

\* Repetitions and late messages included, no message overtakes the first copy
\* of an earlier event of its project.
THEOREM MessagesInOrder == OutboxSpec => []BrokerInOrder
  <1>1. OutboxInv => BrokerInOrder
    BY DEF OutboxInv, RelayInv
  <1> QED
    BY <1>1, OutboxInvAlways, PTL

\* The committed offset never passes a message Redis has not been given, across
\* rebalances and distributors that lost their partition.
THEOREM OffsetsFollow == OutboxSpec => []OffsetBehindFanout
  <1>1. OutboxInv => OffsetBehindFanout
    BY DEF OutboxInv, GroupInv
  <1> QED
    BY <1>1, OutboxInvAlways, PTL


-----------------------------------------------------------------------------
(* The event stream *)

\* The assumptions on the constants, by one name.
LEMMA Constants == QueueSize \in Nat \ {0} /\ Batch \in Nat \ {0} /\ MaxEvents \in Nat
  BY QueueSizeAssumption, BatchAssumption, MaxEventsAssumption

IInv == TypeOK /\ WireIsContiguous /\ NothingInvented

-----------------------------------------------------------------------------
(* Sequences of consecutive events *)

\* A sequence of events that starts right after a.
Follows(s, a) == \A i \in 1..Len(s) : s[i] = a + i

\* Appending the next event keeps a sequence consecutive.
LEMMA FollowsAppend ==
  ASSUME NEW s \in Seq(1..MaxEvents), NEW a \in Int, Follows(s, a),
         NEW n \in 1..MaxEvents, n = a + Len(s) + 1
  PROVE  /\ Append(s, n) \in Seq(1..MaxEvents)
         /\ Len(Append(s, n)) = Len(s) + 1
         /\ Follows(Append(s, n), a)
  BY DEF Follows

\* Reading the first event of a consecutive sequence moves its origin by one.
LEMMA FollowsTail ==
  ASSUME NEW s \in Seq(1..MaxEvents), NEW a \in Int, Follows(s, a), s # <<>>
  PROVE  /\ Head(s) = a + 1
         /\ Tail(s) \in Seq(1..MaxEvents)
         /\ Len(Tail(s)) = Len(s) - 1
         /\ Follows(Tail(s), a + 1)
  BY DEF Follows

\* The events a replay appends continue a consecutive sequence.
LEMMA FollowsConcat ==
  ASSUME NEW s \in Seq(1..MaxEvents), NEW a \in Nat, Follows(s, a),
         NEW t \in Seq(1..MaxEvents), Follows(t, a + Len(s))
  PROVE  /\ s \o t \in Seq(1..MaxEvents)
         /\ Len(s \o t) = Len(s) + Len(t)
         /\ Follows(s \o t, a)
  <1>1. /\ s \o t \in Seq(1..MaxEvents)
        /\ Len(s \o t) = Len(s) + Len(t)
        /\ Len(s) \in Nat /\ Len(t) \in Nat
    OBVIOUS
  <1>2. ASSUME NEW i \in 1..Len(s \o t) PROVE (s \o t)[i] = a + i
    <2>1. CASE i <= Len(s)
      BY <1>1, <2>1 DEF Follows
    <2>2. CASE i > Len(s)
      <3>1. (s \o t)[i] = t[i - Len(s)] /\ i - Len(s) \in 1..Len(t)
        BY <1>1, <2>2
      <3> QED
        BY <1>1, <3>1 DEF Follows
    <2> QED
      BY <1>1, <2>1, <2>2
  <1> QED
    BY <1>1, <1>2 DEF Follows

-----------------------------------------------------------------------------
(* The invariant *)

\* The values of one client's variables.
LEMMA Types ==
  ASSUME IInv, NEW c \in Clients
  PROVE  /\ last \in Int /\ last \in 0..MaxEvents
         /\ page[c] \in Int /\ start[c] \in Int /\ cursor[c] \in Int /\ after[c] \in Int
         /\ cursor[c] \in 0..MaxEvents /\ after[c] \in 0..MaxEvents
         /\ wire[c] \in Seq(1..MaxEvents) /\ Len(wire[c]) \in Nat
         /\ notices[c] \in Seq(0..MaxEvents) /\ Len(notices[c]) \in Nat
         /\ \A i \in 1..Len(notices[c]) : notices[c][i] \in Int
  <1>1. last \in 0..MaxEvents /\ cursor[c] \in 0..MaxEvents /\ after[c] \in 0..MaxEvents
    BY DEF IInv, TypeOK
  <1>2. page[c] \in {NoPage} \cup 0..MaxEvents /\ start[c] \in {NoPage} \cup 0..MaxEvents
    BY DEF IInv, TypeOK
  <1>3. wire[c] \in Seq(1..MaxEvents) /\ notices[c] \in Seq(0..MaxEvents)
    BY DEF IInv, TypeOK
  <1>4. Len(wire[c]) \in Nat /\ Len(notices[c]) \in Nat
        /\ \A i \in 1..Len(notices[c]) : notices[c][i] \in Int
    BY <1>3, Constants
  <1> QED
    BY <1>1, <1>2, <1>3, <1>4, Constants DEF NoPage

\* What a closed stream leaves behind.
StreamEnded(c) ==
  /\ conn' \in [Clients -> {"closed", "admitted", "replaying", "live"}]
  /\ notices' \in [Clients -> Seq(0..MaxEvents)]
  /\ wire' \in [Clients -> Seq(1..MaxEvents)]
  /\ conn'[c] = "closed" /\ wire'[c] = <<>> /\ notices'[c] = <<>>
  /\ Len(notices'[c]) = 0 /\ Len(wire'[c]) = 0
  /\ \A d \in Clients \ {c} :
       conn'[d] = conn[d] /\ wire'[d] = wire[d] /\ notices'[d] = notices[d]
  /\ after' = after

\* Closing a stream empties its channel and its wire and touches no other.
LEMMA ClosedStream ==
  ASSUME NEW c \in Clients, IInv, Closed(c)
  PROVE  StreamEnded(c)
  <1>1. <<>> \in Seq(0..MaxEvents) /\ <<>> \in Seq(1..MaxEvents) /\ Len(<<>>) = 0
    BY EmptySeq
  <1> QED
    BY <1>1 DEF StreamEnded, IInv, TypeOK, Closed

\* A step that ends the stream of c and leaves the other clients' cursors alone
\* keeps the wires in order.
LEMMA EndedIsSafe ==
  ASSUME IInv, NEW c \in Clients, StreamEnded(c), UNCHANGED source,
         page' \in [Clients -> {NoPage} \cup 0..MaxEvents],
         start' \in [Clients -> {NoPage} \cup 0..MaxEvents],
         cursor' \in [Clients -> 0..MaxEvents],
         \A d \in Clients \ {c} : cursor'[d] = cursor[d]
  PROVE  TypeOK' /\ WireIsContiguous'
  <1>1. TypeOK'
    <2>1. ASSUME NEW d \in Clients PROVE Len(notices'[d]) <= QueueSize
      <3>1. CASE d = c
        BY <3>1, Constants DEF StreamEnded
      <3>2. CASE d # c
        BY <3>2 DEF StreamEnded, IInv, TypeOK
      <3> QED
        BY <3>1, <3>2
    <2>2. UNCHANGED <<last, members, fanout, after>>
      BY DEF source, StreamEnded
    <2>3. /\ conn' \in [Clients -> {"closed", "admitted", "replaying", "live"}]
          /\ notices' \in [Clients -> Seq(0..MaxEvents)]
          /\ wire' \in [Clients -> Seq(1..MaxEvents)]
      BY DEF StreamEnded
    <2> QED
      BY <2>1, <2>2, <2>3 DEF IInv, TypeOK
  <1>2. ASSUME NEW d \in Clients PROVE WireIsContiguous!(d)'
    <2>1. CASE d = c
      BY <2>1 DEF StreamEnded
    <2>2. CASE d # c
      <3>1. conn'[d] = conn[d] /\ wire'[d] = wire[d] /\ after'[d] = after[d] /\ cursor'[d] = cursor[d]
        BY <2>2 DEF StreamEnded
      <3>2. WireIsContiguous!(d)
        BY DEF IInv, WireIsContiguous
      <3> QED
        BY <3>1, <3>2
    <2> QED
      BY <2>1, <2>2
  <1> QED
    BY <1>1, <1>2 DEF WireIsContiguous

\* Every client starts without a stream, at its cached snapshot or nowhere.
LEMMA InvInit == Init => IInv
  <1> SUFFICES ASSUME Init PROVE IInv
    OBVIOUS
  <1>1. <<>> \in Seq(0..MaxEvents) /\ <<>> \in Seq(1..MaxEvents) /\ Len(<<>>) = 0
    BY EmptySeq
  <1> QED
    BY <1>1, Constants DEF Init, IInv, TypeOK, WireIsContiguous, NothingInvented, NoPage

\* Each step of the log, the hub, a handler or a client keeps the invariant.
LEMMA InvNext == IInv /\ [Next]_vars => IInv'
  <1> SUFFICES ASSUME IInv, [Next]_vars PROVE IInv'
    OBVIOUS
  <1> USE Constants DEF NoPage, Hint
  <1>1. CASE MutationCommits
    <2>1. TypeOK'
      BY <1>1 DEF MutationCommits, IInv, TypeOK, client, stream
    <2>2. WireIsContiguous'
      BY <1>1 DEF MutationCommits, IInv, WireIsContiguous, client, stream
    <2>3. NothingInvented'
      <3>1. last \in Int /\ last' = last + 1 /\ UNCHANGED <<page, start, cursor, conn, after, notices>>
        BY <1>1 DEF MutationCommits, IInv, TypeOK, client, stream
      <3>2. \A c \in Clients : page[c] \in Int /\ cursor[c] \in Int /\ after[c] \in Int
        BY DEF IInv, TypeOK
      <3>3. \A c \in Clients : \A i \in 1..Len(notices[c]) : notices[c][i] \in Int
        BY DEF IInv, TypeOK
      <3> QED
        BY <3>1, <3>2, <3>3 DEF IInv, NothingInvented
    <2> QED
      BY <2>1, <2>2, <2>3 DEF IInv
  <1>2. CASE Publish
    <2>1. <<Hint>> \in Seq(0..MaxEvents) /\ Len(<<Hint>>) = 1 /\ <<Hint>>[1] = Hint
      OBVIOUS
    <2>2. notices' \in [Clients -> Seq(0..MaxEvents)]
      BY <1>2, <2>1 DEF Publish, IInv, TypeOK
    <2>3. \A c \in Clients : notices'[c] = notices[c] \/ notices'[c] = <<Hint>>
      BY <1>2 DEF Publish
    <2>4. TypeOK'
      BY <1>2, <2>1, <2>2, <2>3 DEF Publish, IInv, TypeOK, source, client
    <2>5. WireIsContiguous'
      BY <1>2 DEF Publish, IInv, WireIsContiguous, client
    <2>6. NothingInvented'
      BY <1>2, <2>1, <2>3 DEF Publish, IInv, TypeOK, NothingInvented, source, client
    <2> QED
      BY <2>4, <2>5, <2>6 DEF IInv
  <1>3. ASSUME NEW n \in 1..MaxEvents, PublishEvent(n) PROVE IInv'
    <2>1. \A c \in Clients :
            \/ notices'[c] = notices[c]
            \/ notices'[c] = Append(notices[c], n) /\ Len(notices[c]) < QueueSize
      BY <1>3 DEF PublishEvent, HasRoom
    <2>2. \A c \in Clients :
            /\ Append(notices[c], n) \in Seq(0..MaxEvents)
            /\ Len(Append(notices[c], n)) = Len(notices[c]) + 1
            /\ \A i \in 1..(Len(notices[c]) + 1) :
                 Append(notices[c], n)[i] = IF i <= Len(notices[c]) THEN notices[c][i] ELSE n
      BY DEF IInv, TypeOK
    <2>3. notices' \in [Clients -> Seq(0..MaxEvents)]
      BY <1>3, <2>2 DEF PublishEvent, IInv, TypeOK
    <2>4. TypeOK'
      BY <1>3, <2>1, <2>2, <2>3 DEF PublishEvent, IInv, TypeOK, source, client
    <2>5. WireIsContiguous'
      BY <1>3 DEF PublishEvent, IInv, WireIsContiguous, client
    <2>6. NothingInvented'
      <3> SUFFICES ASSUME NEW c \in Clients, NEW i \in 1..Len(notices'[c])
                   PROVE  notices'[c][i] <= last
        BY <1>3 DEF PublishEvent, IInv, NothingInvented, source, client
      <3>1. notices[c] \in Seq(0..MaxEvents) /\ n <= last
        BY <1>3 DEF IInv, TypeOK, PublishEvent, Committed
      <3>2. CASE notices'[c] = notices[c]
        BY <3>2 DEF IInv, NothingInvented
      <3>3. CASE notices'[c] = Append(notices[c], n)
        <4>1. i \in 1..(Len(notices[c]) + 1) /\ Len(notices[c]) \in Nat
          BY <2>2, <3>1, <3>3
        <4>2. notices'[c][i] = IF i <= Len(notices[c]) THEN notices[c][i] ELSE n
          BY <2>2, <3>3, <4>1
        <4> QED
          BY <3>1, <4>1, <4>2 DEF IInv, NothingInvented
      <3> QED
        BY <2>1, <3>2, <3>3
    <2> QED
      BY <2>4, <2>5, <2>6 DEF IInv
  <1>4. ASSUME NEW c \in Clients, Suspend(c) \/ Reinstate(c) PROVE IInv'
    <2>1. TypeOK'
      BY <1>4 DEF Suspend, Reinstate, IInv, TypeOK, client, stream
    <2>2. WireIsContiguous'
      BY <1>4 DEF Suspend, Reinstate, IInv, WireIsContiguous, client, stream
    <2>3. NothingInvented'
      BY <1>4 DEF Suspend, Reinstate, IInv, NothingInvented, client, stream
    <2> QED
      BY <2>1, <2>2, <2>3 DEF IInv
  <1>5. ASSUME NEW c \in Clients, Admit(c) PROVE IInv'
    <2>1. Len(wire[c]) = 0
      BY <1>5, EmptySeq DEF Admit, IInv, WireIsContiguous
    <2>2. TypeOK'
      BY <1>5 DEF Admit, IInv, TypeOK, source, client
    <2>3. WireIsContiguous'
      BY <1>5, <2>1 DEF Admit, IInv, TypeOK, WireIsContiguous, client
    <2>4. NothingInvented'
      BY <1>5 DEF Admit, IInv, TypeOK, NothingInvented, source, client
    <2> QED
      BY <2>2, <2>3, <2>4 DEF IInv
  <1>6. ASSUME NEW c \in Clients, Subscribe(c) PROVE IInv'
    <2>1. <<>> \in Seq(0..MaxEvents) /\ Len(<<>>) = 0
      BY EmptySeq
    <2>2. TypeOK'
      BY <1>6, <2>1 DEF Subscribe, IInv, TypeOK, source, client
    <2>3. WireIsContiguous'
      BY <1>6 DEF Subscribe, IInv, TypeOK, WireIsContiguous, client
    <2>4. NothingInvented'
      BY <1>6, <2>1 DEF Subscribe, IInv, TypeOK, NothingInvented, source, client
    <2> QED
      BY <2>2, <2>3, <2>4 DEF IInv
  <1>7. ASSUME NEW c \in Clients, ReplayBatch(c) PROVE IInv'
    <2> DEFINE t == [i \in 1..Found(c) |-> after[c] + i]
    <2>1. /\ last \in Nat /\ after[c] \in Nat /\ cursor[c] \in Nat /\ last <= MaxEvents
          /\ wire[c] \in Seq(1..MaxEvents) /\ Follows(wire[c], cursor[c])
          /\ after[c] = cursor[c] + Len(wire[c]) /\ after[c] <= last
      BY <1>7 DEF ReplayBatch, IInv, TypeOK, WireIsContiguous, NothingInvented, Follows
    <2>2. Found(c) \in Nat /\ after[c] + Found(c) <= last
      BY <2>1 DEF Found
    <2>3. t \in Seq(1..MaxEvents) /\ Len(t) = Found(c) /\ Follows(t, cursor[c] + Len(wire[c]))
      <3>1. t \in [1..Found(c) -> 1..MaxEvents]
        BY <2>1, <2>2
      <3>2. t \in Seq(1..MaxEvents)
        BY <2>2, <3>1, SeqDef
      <3>3. Len(t) = Found(c)
        BY <2>2, <3>1
      <3> QED
        BY <2>1, <3>2, <3>3 DEF Follows
    <2>4. wire' = [wire EXCEPT ![c] = @ \o t]
      BY <1>7 DEF ReplayBatch
    <2> HIDE DEF t
    <2>5. /\ wire[c] \o t \in Seq(1..MaxEvents)
          /\ Len(wire[c] \o t) = Len(wire[c]) + Found(c)
          /\ Follows(wire[c] \o t, cursor[c])
      BY <2>1, <2>3, FollowsConcat
    <2>6. /\ wire'[c] \in Seq(1..MaxEvents) /\ Follows(wire'[c], cursor[c])
          /\ Len(wire'[c]) = Len(wire[c]) + Found(c) /\ Len(wire[c]) \in Nat
          /\ \A d \in Clients \ {c} : wire'[d] = wire[d]
      BY <2>1, <2>4, <2>5 DEF IInv, TypeOK
    <2>7. TypeOK'
      <3>1. wire' \in [Clients -> Seq(1..MaxEvents)]
        BY <2>4, <2>5 DEF IInv, TypeOK
      <3>2. after' \in [Clients -> 0..MaxEvents]
        BY <1>7, <2>1, <2>2 DEF ReplayBatch, IInv, TypeOK
      <3> QED
        BY <1>7, <3>1, <3>2 DEF ReplayBatch, IInv, TypeOK, source, client
    <2>8. cursor' = cursor /\ after'[c] = after[c] + Found(c) /\ conn'[c] # "closed"
      BY <1>7 DEF ReplayBatch, IInv, TypeOK, client
    <2>9. ASSUME NEW d \in Clients \ {c} PROVE conn'[d] = conn[d] /\ after'[d] = after[d]
      BY <1>7 DEF ReplayBatch, IInv, TypeOK
    <2>10. WireIsContiguous'
      <3> SUFFICES ASSUME NEW d \in Clients PROVE WireIsContiguous!(d)'
        BY DEF WireIsContiguous
      <3>1. CASE d = c
        BY <2>1, <2>2, <2>6, <2>8, <3>1 DEF Follows
      <3>2. CASE d # c
        BY <2>6, <2>8, <2>9, <3>2 DEF IInv, WireIsContiguous
      <3> QED
        BY <3>1, <3>2
    <2>11. NothingInvented'
      BY <1>7, <2>1, <2>2 DEF ReplayBatch, IInv, TypeOK, NothingInvented, source, client
    <2> QED
      BY <2>7, <2>10, <2>11 DEF IInv
  <1>8. ASSUME NEW c \in Clients, TakeNotice(c) PROVE IInv'
    <2> DEFINE n == Head(notices[c])
    <2>1. /\ notices[c] \in Seq(0..MaxEvents) /\ notices[c] # <<>>
          /\ n \in 0..MaxEvents /\ n <= last
          /\ Tail(notices[c]) \in Seq(0..MaxEvents)
          /\ Len(Tail(notices[c])) = Len(notices[c]) - 1
          /\ \A i \in 1..Len(Tail(notices[c])) : Tail(notices[c])[i] = notices[c][i + 1]
      BY <1>8 DEF TakeNotice, IInv, TypeOK, NothingInvented
    <2>2. /\ last \in Nat /\ after[c] \in Nat /\ cursor[c] \in Nat /\ last <= MaxEvents
          /\ wire[c] \in Seq(1..MaxEvents) /\ Follows(wire[c], cursor[c])
          /\ after[c] = cursor[c] + Len(wire[c]) /\ after[c] <= last
      BY <1>8 DEF TakeNotice, IInv, TypeOK, WireIsContiguous, NothingInvented, Follows
    <2>3. UNCHANGED <<source, client>> /\ notices' = [notices EXCEPT ![c] = Tail(@)]
      BY <1>8 DEF TakeNotice
    <2>4. \A d \in Clients : \A i \in 1..Len(notices'[d]) : notices'[d][i] <= last
      BY <2>1, <2>3 DEF IInv, TypeOK, NothingInvented
    <2>5. notices' \in [Clients -> Seq(0..MaxEvents)] /\ \A d \in Clients : Len(notices'[d]) <= QueueSize
      BY <2>1, <2>3 DEF IInv, TypeOK
    <2>6. CASE n # Hint /\ IsNext(c, n) /\ wire' = [wire EXCEPT ![c] = Append(@, n)]
               /\ after' = [after EXCEPT ![c] = n] /\ UNCHANGED conn
      <3>1. /\ Append(wire[c], n) \in Seq(1..MaxEvents)
            /\ Len(Append(wire[c], n)) = Len(wire[c]) + 1
            /\ Follows(Append(wire[c], n), cursor[c])
        BY <2>1, <2>2, <2>6, FollowsAppend DEF IsNext
      <3>2. TypeOK'
        BY <2>1, <2>3, <2>5, <2>6, <3>1 DEF IInv, TypeOK, source, client
      <3>3. WireIsContiguous'
        <4>1. /\ Follows(wire'[c], cursor[c])
              /\ Len(wire'[c]) = Len(wire[c]) + 1 /\ Len(wire[c]) \in Nat
              /\ after'[c] = after[c] + 1 /\ conn'[c] = "live"
          BY <1>8, <2>2, <2>6, <3>1 DEF TakeNotice, IInv, TypeOK, IsNext
        <4>2. ASSUME NEW d \in Clients \ {c} PROVE wire'[d] = wire[d] /\ after'[d] = after[d]
          BY <2>6 DEF IInv, TypeOK
        <4> SUFFICES ASSUME NEW d \in Clients PROVE WireIsContiguous!(d)'
          BY DEF WireIsContiguous
        <4>3. CASE d = c
          <5>1. after'[c] = cursor'[c] + Len(wire'[c])
            BY <2>2, <2>3, <4>1 DEF client
          <5>2. \A i \in 1..Len(wire'[c]) : wire'[c][i] = cursor'[c] + i
            BY <2>3, <4>1 DEF Follows, client
          <5> QED
            BY <4>1, <4>3, <5>1, <5>2
        <4>4. CASE d # c
          BY <2>3, <2>6, <4>2, <4>4 DEF IInv, WireIsContiguous, client
        <4> QED
          BY <4>3, <4>4
      <3>4. NothingInvented'
        BY <2>1, <2>3, <2>4, <2>6 DEF IInv, TypeOK, NothingInvented, source, client
      <3> QED
        BY <3>2, <3>3, <3>4 DEF IInv
    <2>7. CASE UNCHANGED <<after, wire>> /\ (UNCHANGED conn \/ conn' = [conn EXCEPT ![c] = "replaying"])
      <3>1. TypeOK'
        BY <2>3, <2>5, <2>7 DEF IInv, TypeOK, source, client
      <3>2. WireIsContiguous'
        BY <1>8, <2>3, <2>7 DEF TakeNotice, IInv, TypeOK, WireIsContiguous, client
      <3>3. NothingInvented'
        BY <1>8, <2>3, <2>4, <2>7 DEF TakeNotice, IInv, TypeOK, NothingInvented, source, client
      <3> QED
        BY <3>1, <3>2, <3>3 DEF IInv
    <2> QED
      BY <1>8, <2>6, <2>7 DEF TakeNotice
  <1>9. ASSUME NEW c \in Clients, Poll(c) PROVE IInv'
    BY <1>9 DEF Poll, Polls, IInv, TypeOK, WireIsContiguous, NothingInvented, source, client
  <1>10. ASSUME NEW c \in Clients, Heartbeat(c) \/ Disconnect(c) PROVE IInv'
    <2>1. Closed(c) /\ UNCHANGED <<source, client>>
      BY <1>10 DEF Heartbeat, Disconnect
    <2>2. StreamEnded(c)
      BY <2>1, ClosedStream
    <2>3. TypeOK' /\ WireIsContiguous'
      BY <2>1, <2>2, EndedIsSafe DEF source, client, IInv, TypeOK
    <2>4. NothingInvented'
      <3> SUFFICES ASSUME NEW d \in Clients PROVE NothingInvented!(d)'
        BY DEF NothingInvented
      <3>1. NothingInvented!(d)
        BY DEF IInv, NothingInvented
      <3>2. UNCHANGED <<last, page, start, cursor, after>>
        BY <2>1, <2>2 DEF StreamEnded, source, client
      <3>3. CASE d = c
        BY <2>2, <3>1, <3>2, <3>3 DEF StreamEnded
      <3>4. CASE d # c
        BY <2>2, <3>1, <3>2, <3>4 DEF StreamEnded
      <3> QED
        BY <3>3, <3>4
    <2> QED
      BY <2>3, <2>4 DEF IInv
  <1>11. ASSUME NEW c \in Clients, ReadBootstrap(c) PROVE IInv'
    BY <1>11 DEF ReadBootstrap, IInv, TypeOK, WireIsContiguous, NothingInvented, source, stream
  <1>12. ASSUME NEW c \in Clients, ApplyBootstrap(c) PROVE IInv'
    <2>1. CASE page[c] = start[c]
      BY <1>12, <2>1 DEF ApplyBootstrap, IInv, TypeOK, WireIsContiguous, NothingInvented, source, stream
    <2>2. CASE page[c] # start[c]
      <3>1. Closed(c) /\ cursor' = [cursor EXCEPT ![c] = Resumed(c)]
        BY <1>12, <2>2 DEF ApplyBootstrap
      <3>2. Resumed(c) \in 0..MaxEvents /\ page[c] <= Resumed(c) /\ Resumed(c) <= last
        BY <1>12 DEF ApplyBootstrap, Resumed, IInv, TypeOK, NothingInvented
      <3>3. StreamEnded(c)
        BY <3>1, ClosedStream
      <3>4. TypeOK' /\ WireIsContiguous'
        <4>1. cursor' \in [Clients -> 0..MaxEvents] /\ \A d \in Clients \ {c} : cursor'[d] = cursor[d]
          BY <3>1, <3>2 DEF IInv, TypeOK
        <4>2. /\ page' \in [Clients -> {NoPage} \cup 0..MaxEvents]
              /\ start' \in [Clients -> {NoPage} \cup 0..MaxEvents]
          BY <1>12 DEF ApplyBootstrap, IInv, TypeOK
        <4>3. UNCHANGED source
          BY <1>12 DEF ApplyBootstrap
        <4> QED
          BY <3>3, <4>1, <4>2, <4>3, EndedIsSafe
      <3>6. NothingInvented'
        <4>1. /\ page' = [page EXCEPT ![c] = NoPage] /\ start' = [start EXCEPT ![c] = page[c]]
              /\ last' = last /\ last \in Nat
          BY <1>12 DEF ApplyBootstrap, source, IInv, TypeOK
        <4> SUFFICES ASSUME NEW d \in Clients PROVE NothingInvented!(d)'
          BY DEF NothingInvented
        <4>2. CASE d = c
          BY <3>1, <3>2, <3>3, <4>1, <4>2 DEF StreamEnded, IInv, TypeOK
        <4>3. CASE d # c
          BY <3>1, <3>3, <4>1, <4>3 DEF StreamEnded, IInv, TypeOK, NothingInvented
        <4> QED
          BY <4>2, <4>3
      <3> QED
        BY <3>4, <3>6 DEF IInv
    <2> QED
      BY <2>1, <2>2
  <1>13. ASSUME NEW c \in Clients, Receive(c) PROVE IInv'
    <2>1. /\ after[c] \in Nat /\ cursor[c] \in Nat /\ last \in Nat /\ last <= MaxEvents
          /\ wire[c] \in Seq(1..MaxEvents) /\ wire[c] # <<>> /\ Follows(wire[c], cursor[c])
          /\ conn[c] # "closed"
          /\ after[c] = cursor[c] + Len(wire[c]) /\ after[c] <= last
      BY <1>13 DEF Receive, IInv, TypeOK, WireIsContiguous, NothingInvented, Follows
    <2>2. /\ Head(wire[c]) = cursor[c] + 1
          /\ Tail(wire[c]) \in Seq(1..MaxEvents)
          /\ Len(Tail(wire[c])) = Len(wire[c]) - 1
          /\ Follows(Tail(wire[c]), cursor[c] + 1)
      <3>1. cursor[c] \in Int
        BY <2>1
      <3> QED
        BY <2>1, <3>1, FollowsTail
    <2>3. Len(wire[c]) \in Nat \ {0}
      BY <2>1, EmptySeq
    <2>4. cursor' = [cursor EXCEPT ![c] = cursor[c] + 1] /\ wire' = [wire EXCEPT ![c] = Tail(wire[c])]
      <3>1. ~(Head(wire[c]) <= cursor[c])
        BY <2>1, <2>2
      <3> QED
        BY <1>13, <2>2, <3>1 DEF Receive
    <2>5. UNCHANGED <<last, members, fanout, page, start, conn, after, notices>>
      BY <1>13 DEF Receive, source
    <2>6. /\ cursor'[c] = cursor[c] + 1 /\ wire'[c] \in Seq(1..MaxEvents)
          /\ Follows(wire'[c], cursor[c] + 1) /\ Len(wire'[c]) = Len(wire[c]) - 1
          /\ \A d \in Clients \ {c} : cursor'[d] = cursor[d] /\ wire'[d] = wire[d]
          /\ cursor[c] + 1 <= last
      BY <2>1, <2>2, <2>3, <2>4 DEF IInv, TypeOK
    <2>7. TypeOK'
      <3>1. cursor' \in [Clients -> 0..MaxEvents]
        BY <2>1, <2>4, <2>6 DEF IInv, TypeOK
      <3>2. wire' \in [Clients -> Seq(1..MaxEvents)]
        BY <2>2, <2>4 DEF IInv, TypeOK
      <3> QED
        BY <2>5, <3>1, <3>2 DEF IInv, TypeOK
    <2>8. WireIsContiguous'
      <3> SUFFICES ASSUME NEW d \in Clients PROVE WireIsContiguous!(d)'
        BY DEF WireIsContiguous
      <3>1. CASE d = c
        <4>1. conn'[c] # "closed" /\ after'[c] = cursor'[c] + Len(wire'[c])
          <5>1. conn'[c] = conn[c] /\ after'[c] = after[c]
            BY <2>5
          <5>2. after[c] = cursor[c] + 1 + (Len(wire[c]) - 1)
            <6>1. after[c] = cursor[c] + Len(wire[c])
              BY <2>1
            <6>2. cursor[c] \in Int /\ Len(wire[c]) \in Int
              BY Types
            <6> QED
              BY <6>1, <6>2
          <5>3. cursor'[c] = cursor[c] + 1 /\ Len(wire'[c]) = Len(wire[c]) - 1
            BY <2>6
          <5> QED
            BY <2>1, <5>1, <5>2, <5>3
        <4>2. \A i \in 1..Len(wire'[c]) : wire'[c][i] = cursor'[c] + i
          BY <2>6 DEF Follows
        <4> QED
          BY <3>1, <4>1, <4>2
      <3>2. CASE d # c
        BY <2>5, <2>6, <3>2 DEF IInv, WireIsContiguous
      <3> QED
        BY <3>1, <3>2
    <2>9. NothingInvented'
      <3> SUFFICES ASSUME NEW d \in Clients PROVE NothingInvented!(d)'
        BY DEF NothingInvented
      <3>1. start[c] <= cursor[c] + 1
        <4>1. start[c] <= cursor[c] /\ start[c] \in Int /\ cursor[c] \in Int
          BY Types DEF IInv, NothingInvented
        <4> QED
          BY <4>1
      <3>2. CASE d = c
        BY <2>1, <2>5, <2>6, <3>1, <3>2 DEF IInv, NothingInvented
      <3>3. CASE d # c
        BY <2>5, <2>6, <3>3 DEF IInv, NothingInvented
      <3> QED
        BY <3>2, <3>3
    <2> QED
      BY <2>7, <2>8, <2>9 DEF IInv
  <1>14. CASE UNCHANGED vars
    BY <1>14 DEF vars, source, client, stream, IInv, TypeOK, WireIsContiguous, NothingInvented
  <1> QED
    BY <1>1, <1>2, <1>3, <1>4, <1>5, <1>6, <1>7, <1>8, <1>9, <1>10, <1>11, <1>12, <1>13, <1>14
    DEF Next, Handle

LEMMA InvAlways == Spec => []IInv
  BY InvInit, InvNext, PTL DEF Spec

\* TypeOK of the runs, for every set of clients and every size of the hub's
\* channels, the replay's batches and the log.
THEOREM TypeCorrect == Spec => []TypeOK
  <1>1. IInv => TypeOK
    BY DEF IInv
  <1> QED
    BY <1>1, InvAlways, PTL

\* WireIsContiguous of the runs: whatever the hub drops, repeats or reorders,
\* a stream carries the log's next events in order.
THEOREM StreamsAreContiguous == Spec => []WireIsContiguous
  <1>1. IInv => WireIsContiguous
    BY DEF IInv
  <1> QED
    BY <1>1, InvAlways, PTL

\* NothingInvented of the runs.
THEOREM PositionsExist == Spec => []NothingInvented
  <1>1. IInv => NothingInvented
    BY DEF IInv
  <1> QED
    BY <1>1, InvAlways, PTL

-----------------------------------------------------------------------------
(* The refinement *)

\* The event stream implements the feed: a client gets the next event, or the
\* snapshot it loaded.
THEOREM Implements == Spec => ImplementsFeed
  <1>1. Init => Feed!Init
    BY Constants DEF Init, Feed!Init, NoPage, Feed!NoPage
  <1>2. ASSUME IInv, [Next]_vars PROVE [Feed!Next]_(Feed!feedVars)
    <2> USE Constants DEF NoPage, Feed!NoPage
    <2>1. CASE MutationCommits
      BY <2>1 DEF MutationCommits, client, Feed!Next, Feed!Append
    <2>2. ASSUME UNCHANGED <<last, page, cursor>> PROVE [Feed!Next]_(Feed!feedVars)
      BY <2>2 DEF Feed!feedVars
    <2>3. ASSUME NEW c \in Clients, ReadBootstrap(c) PROVE Feed!Next
      BY <2>3 DEF ReadBootstrap, source, Feed!Next, Feed!Load
    <2>4. ASSUME NEW c \in Clients, ApplyBootstrap(c) PROVE Feed!Next
      <3>1. cursor' = [cursor EXCEPT ![c] = IF @ < page[c] THEN page[c] ELSE @]
        BY <1>2, <2>4 DEF ApplyBootstrap, Resumed, stream, IInv, TypeOK, NothingInvented
      <3> QED
        BY <2>4, <3>1 DEF ApplyBootstrap, source, Feed!Next, Feed!Show
    <2>5. ASSUME NEW c \in Clients, Receive(c) PROVE Feed!Next
      <3>1. /\ cursor[c] \in Nat /\ after[c] \in Nat /\ last \in Nat /\ wire[c] # <<>>
            /\ wire[c] \in Seq(1..MaxEvents) /\ Follows(wire[c], cursor[c])
            /\ after[c] = cursor[c] + Len(wire[c]) /\ after[c] <= last
        BY <1>2, <2>5 DEF Receive, IInv, TypeOK, WireIsContiguous, NothingInvented, Follows
      <3>2. Head(wire[c]) = cursor[c] + 1 /\ Len(wire[c]) \in Nat \ {0}
        BY <3>1, FollowsTail, EmptySeq
      <3>3. ~(Head(wire[c]) <= cursor[c]) /\ cursor[c] < last
        BY <3>1, <3>2
      <3>4. cursor' = [cursor EXCEPT ![c] = cursor[c] + 1]
        BY <2>5, <3>2, <3>3 DEF Receive
      <3> QED
        BY <2>5, <3>3, <3>4 DEF Receive, source, Feed!Next, Feed!Deliver
    <2>6. CASE UNCHANGED vars
      BY <2>2, <2>6 DEF vars, source, client
    <2>7. CASE Publish \/ \E n \in 1..MaxEvents : PublishEvent(n)
      BY <2>2, <2>7 DEF Publish, PublishEvent, source, client
    <2>8. ASSUME NEW c \in Clients,
                 Suspend(c) \/ Reinstate(c) \/ Handle(c) \/ Disconnect(c)
          PROVE  UNCHANGED <<last, page, cursor>>
      BY <2>8 DEF Suspend, Reinstate, Handle, Disconnect, Admit, Subscribe, ReplayBatch, TakeNotice,
                  Poll, Heartbeat, source, client
    <2> QED
      BY <1>2, <2>1, <2>2, <2>3, <2>4, <2>5, <2>6, <2>7, <2>8 DEF Next
  <1> QED
    BY <1>1, <1>2, InvAlways, PTL DEF Spec, ImplementsFeed, Feed!Spec

-----------------------------------------------------------------------------
(* Where the two meet *)

\* What is claimed, late, in the broker or in Redis is an event that has been
\* committed.
OnlyCommitted ==
  /\ \A r \in Relays : claim[r] # Idle => claim[r].seq \in rows[claim[r].project]
  /\ \A r \in Relays : orphan[r] # Idle => orphan[r].seq \in rows[orphan[r].project]
  /\ \A p \in Projects :
       /\ \A i \in 1..Len(broker[p]) : broker[p][i] \in rows[p]
       /\ fanned[p] \subseteq rows[p]

\* What the outbox promises the event stream: a project's log grows by one event
\* at a time, and Redis is given events of the log only.
HubIsOfferedTheLog ==
  [][\A p \in Projects :
       /\ lastSequence'[p] \in {lastSequence[p], lastSequence[p] + 1}
       /\ \A n \in fanned'[p] : n \in 1..lastSequence[p]]_outboxVars

\* A row that has been committed stays.
LEMMA RowsStay ==
  ASSUME OutboxInv, [OutboxNext]_outboxVars, NEW p \in Projects
  PROVE  rows[p] \subseteq rows'[p] /\ lastSequence'[p] \in {lastSequence[p], lastSequence[p] + 1}
  <1>1. ASSUME NEW w \in Writers, CommitEvent(w)
        PROVE  rows[p] \subseteq rows'[p] /\ lastSequence'[p] \in {lastSequence[p], lastSequence[p] + 1}
    <2>1. draft[w] # Idle /\ draft[w].project \in Projects
          /\ draft[w].seq = lastSequence[draft[w].project] + 1
      BY <1>1 DEF CommitEvent, OutboxInv, LogInv, LogTypeOK, DraftsAreNext
    <2> QED
      BY <1>1, <2>1 DEF CommitEvent, OutboxInv, LogInv, LogTypeOK
  <1>2. ASSUME UNCHANGED <<rows, lastSequence>>
        PROVE  rows[p] \subseteq rows'[p] /\ lastSequence'[p] \in {lastSequence[p], lastSequence[p] + 1}
    BY <1>2
  <1>3. ASSUME NEW w \in Writers, Rollback(w) \/ \E q \in Projects : AppendEvent(w, q)
        PROVE  UNCHANGED <<rows, lastSequence>>
    BY <1>3 DEF AppendEvent, Rollback
  <1>4. ASSUME NEW r \in Relays,
               ClaimSome(r) \/ PublishRow(r) \/ Mark(r) \/ RelayFails(r) \/ OrphanArrives(r)
        PROVE  UNCHANGED <<rows, lastSequence>>
    BY <1>4 DEF ClaimSome, Claim, PublishRow, Mark, RelayFails, OrphanArrives, logVars
  <1>5. ASSUME NEW q \in Projects, AssignSome(q) \/ Rebalance(q)
        PROVE  UNCHANGED <<rows, lastSequence>>
    BY <1>5 DEF AssignSome, Assign, Rebalance, logVars
  <1>6. ASSUME NEW d \in Distributors,
               FetchSome(d) \/ PublishToRedis(d) \/ Commits(d) \/ DistributorFails(d)
        PROVE  UNCHANGED <<rows, lastSequence>>
    BY <1>6 DEF FetchSome, FetchMessage, PublishToRedis, Commits, CommitMessage, CommitRefused,
                LeavesGroup, DistributorFails, logVars
  <1>7. CASE UNCHANGED outboxVars
    BY <1>2, <1>7 DEF outboxVars, logVars
  <1> QED
    BY <1>1, <1>2, <1>3, <1>4, <1>5, <1>6, <1>7 DEF OutboxNext

\* Only a claimed row is sent, and only a sent one is handed to Redis.
LEMMA CommittedNext == OutboxInv /\ OnlyCommitted /\ [OutboxNext]_outboxVars => OnlyCommitted'
  <1> SUFFICES ASSUME OutboxInv, OnlyCommitted, [OutboxNext]_outboxVars
               PROVE  OnlyCommitted'
    OBVIOUS
  <1>0. \A p \in Projects : rows[p] \subseteq rows'[p]
    BY RowsStay
  <1>t. /\ claim \in [Relays -> {Idle} \cup [phase : {"claimed", "sent"}, project : Projects, seq : 1..MaxSequence]]
        /\ orphan \in [Relays -> {Idle} \cup [phase : {"late"}, project : Projects, seq : 1..MaxSequence]]
        /\ broker \in [Projects -> Seq(1..MaxSequence)]
        /\ fanned \in [Projects -> SUBSET (1..MaxSequence)]
        /\ hand \in [Distributors -> {Idle} \cup [phase : {"fetched", "fanned"}, project : Projects, index : Nat \ {0}]]
    BY DEF OutboxInv, RelayInv, RelayTypeOK, GroupInv, GroupTypeOK
  <1>1. ASSUME UNCHANGED <<claim, orphan, broker, fanned>>
        PROVE  OnlyCommitted'
    BY <1>0, <1>1, <1>t DEF OnlyCommitted
  <1>2. ASSUME NEW r \in Relays, NEW p \in Projects, NEW n \in 1..MaxSequence, Claim(r, p, n)
        PROVE  OnlyCommitted'
    <2>1. claim' = [claim EXCEPT ![r] = [phase |-> "claimed", project |-> p, seq |-> n]] /\ n \in rows[p]
          /\ UNCHANGED <<orphan, broker, fanned>>
      BY <1>2 DEF Claim, groupVars
    <2> QED
      BY <1>0, <1>t, <2>1 DEF OnlyCommitted
  <1>3. ASSUME NEW r \in Relays, PublishRow(r)
        PROVE  OnlyCommitted'
    <2>1. /\ claim[r] # Idle
          /\ claim' = [claim EXCEPT ![r].phase = "sent"]
          /\ broker' = [broker EXCEPT ![claim[r].project] = Append(@, claim[r].seq)]
          /\ UNCHANGED <<orphan, fanned>>
      BY <1>3 DEF PublishRow, groupVars, Idle
    <2>2. PICK p \in Projects, n \in 1..MaxSequence : claim[r].project = p /\ claim[r].seq = n
      BY <1>t, <2>1
    <2>3. n \in rows[p]
      BY <2>1, <2>2 DEF OnlyCommitted
    <2>4. ASSUME NEW q \in Relays, claim'[q] # Idle PROVE claim'[q].seq \in rows'[claim'[q].project]
      <3>1. claim[q] # Idle /\ claim'[q].seq = claim[q].seq /\ claim'[q].project = claim[q].project
            /\ claim[q].project \in Projects
        BY <1>t, <2>1, <2>4
      <3> QED
        BY <1>0, <3>1 DEF OnlyCommitted
    <2>5. ASSUME NEW q \in Projects, NEW i \in 1..Len(broker'[q]) PROVE broker'[q][i] \in rows'[q]
      <3>1. CASE q = p
        <4>1. broker'[q] = Append(broker[q], n) /\ broker[q] \in Seq(1..MaxSequence)
          BY <1>t, <2>1, <2>2, <3>1
        <4>2. Len(broker[q]) \in Nat /\ (i \in 1..Len(broker[q]) \/ broker'[q][i] = n)
              /\ (i \in 1..Len(broker[q]) => broker'[q][i] = broker[q][i])
          BY <4>1, <2>5
        <4> QED
          BY <1>0, <2>3, <3>1, <4>2 DEF OnlyCommitted
      <3>2. CASE q # p
        BY <1>0, <1>t, <2>1, <2>2, <2>5, <3>2 DEF OnlyCommitted
      <3> QED
        BY <3>1, <3>2
    <2> QED
      BY <1>0, <1>t, <2>1, <2>4, <2>5 DEF OnlyCommitted
  <1>4. ASSUME NEW r \in Relays, Mark(r)
        PROVE  OnlyCommitted'
    <2>1. claim' = [claim EXCEPT ![r] = Idle] /\ UNCHANGED <<orphan, broker, fanned>>
      BY <1>4 DEF Mark, groupVars
    <2> QED
      BY <1>0, <1>t, <2>1 DEF OnlyCommitted
  <1>5. ASSUME NEW r \in Relays, RelayFails(r)
        PROVE  OnlyCommitted'
    <2>1. /\ claim[r] # Idle /\ claim' = [claim EXCEPT ![r] = Idle]
          /\ \/ orphan' = orphan
             \/ orphan' = [orphan EXCEPT ![r] = [phase |-> "late", project |-> claim[r].project, seq |-> claim[r].seq]]
          /\ UNCHANGED <<broker, fanned>>
      BY <1>5 DEF RelayFails, groupVars
    <2>2. claim[r].project \in Projects /\ claim[r].seq \in rows[claim[r].project]
      BY <1>t, <2>1 DEF OnlyCommitted
    <2>3. ASSUME NEW q \in Relays, orphan'[q] # Idle PROVE orphan'[q].seq \in rows'[orphan'[q].project]
      <3>1. CASE orphan'[q] = orphan[q]
        BY <1>0, <1>t, <2>3, <3>1 DEF OnlyCommitted
      <3>2. CASE orphan'[q] # orphan[q]
        BY <1>0, <1>t, <2>1, <2>2, <3>2
      <3> QED
        BY <3>1, <3>2
    <2> QED
      BY <1>0, <1>t, <2>1, <2>3 DEF OnlyCommitted
  <1>6. ASSUME NEW r \in Relays, OrphanArrives(r)
        PROVE  OnlyCommitted'
    <2>1. /\ orphan[r] # Idle
          /\ orphan' = [orphan EXCEPT ![r] = Idle]
          /\ broker' = [broker EXCEPT ![orphan[r].project] = Append(@, orphan[r].seq)]
          /\ UNCHANGED <<claim, fanned>>
      BY <1>6 DEF OrphanArrives, groupVars
    <2>2. PICK p \in Projects, n \in 1..MaxSequence : orphan[r].project = p /\ orphan[r].seq = n
      BY <1>t, <2>1
    <2>3. n \in rows[p]
      BY <2>1, <2>2 DEF OnlyCommitted
    <2>4. ASSUME NEW q \in Projects, NEW i \in 1..Len(broker'[q]) PROVE broker'[q][i] \in rows'[q]
      <3>1. CASE q = p
        <4>1. broker'[q] = Append(broker[q], n) /\ broker[q] \in Seq(1..MaxSequence)
          BY <1>t, <2>1, <2>2, <3>1
        <4>2. Len(broker[q]) \in Nat /\ (i \in 1..Len(broker[q]) \/ broker'[q][i] = n)
              /\ (i \in 1..Len(broker[q]) => broker'[q][i] = broker[q][i])
          BY <4>1, <2>4
        <4> QED
          BY <1>0, <2>3, <3>1, <4>2 DEF OnlyCommitted
      <3>2. CASE q # p
        BY <1>0, <1>t, <2>1, <2>2, <2>4, <3>2 DEF OnlyCommitted
      <3> QED
        BY <3>1, <3>2
    <2> QED
      BY <1>0, <1>t, <2>1, <2>4 DEF OnlyCommitted
  <1>7. ASSUME NEW d \in Distributors, PublishToRedis(d)
        PROVE  OnlyCommitted'
    <2>1. PICK p \in Projects, i \in Nat : hand[d] # Idle /\ hand[d].project = p /\ hand[d].index = i /\ i > 0
      BY <1>7, <1>t DEF PublishToRedis, Idle
    <2>2. i <= Len(broker[p])
      BY <2>1 DEF OutboxInv, GroupInv, WithinPartition
    <2>3. Len(broker[p]) \in Nat
      BY <1>t
    <2>4. broker[p][i] \in rows[p]
      BY <2>1, <2>2, <2>3 DEF OnlyCommitted
    <2>5. fanned' = [fanned EXCEPT ![p] = @ \cup {broker[p][i]}] /\ UNCHANGED <<claim, orphan, broker>>
      BY <1>7, <2>1 DEF PublishToRedis, relayVars
    <2>6. ASSUME NEW q \in Projects PROVE fanned'[q] \subseteq rows'[q]
      BY <1>0, <1>t, <2>4, <2>5 DEF OnlyCommitted
    <2> QED
      BY <1>0, <1>t, <2>5, <2>6 DEF OnlyCommitted
  <1>8. ASSUME NEW w \in Writers,
               Rollback(w) \/ CommitEvent(w) \/ \E q \in Projects : AppendEvent(w, q)
        PROVE  UNCHANGED <<claim, orphan, broker, fanned>>
    BY <1>8 DEF AppendEvent, CommitEvent, Rollback, relayVars, groupVars
  <1>9. ASSUME NEW q \in Projects, AssignSome(q) \/ Rebalance(q)
        PROVE  UNCHANGED <<claim, orphan, broker, fanned>>
    BY <1>9 DEF AssignSome, Assign, Rebalance, relayVars
  <1>10. ASSUME NEW d \in Distributors, FetchSome(d) \/ Commits(d) \/ DistributorFails(d)
         PROVE  UNCHANGED <<claim, orphan, broker, fanned>>
    BY <1>10 DEF FetchSome, FetchMessage, Commits, CommitMessage, CommitRefused, LeavesGroup,
                 DistributorFails, relayVars
  <1>11. CASE UNCHANGED outboxVars
    BY <1>1, <1>11 DEF outboxVars, relayVars, groupVars
  <1> QED
    BY <1>1, <1>2, <1>3, <1>4, <1>5, <1>6, <1>7, <1>8, <1>9, <1>10, <1>11 DEF OutboxNext, ClaimSome

\* The outbox gives the hub what the event stream takes for granted: one event
\* of a project after the other is committed, and only committed ones are
\* offered, however often and in whatever order.
THEOREM OutboxOffersTheLog == OutboxSpec => HubIsOfferedTheLog
  <1>1. OutboxInit => OnlyCommitted
    <2>1. <<>> \in Seq(1..MaxSequence) /\ Len(<<>>) = 0
      BY EmptySeq
    <2> QED
      BY <2>1 DEF OutboxInit, OnlyCommitted
  <1>2. ASSUME OutboxInv, OutboxInv', OnlyCommitted', [OutboxNext]_outboxVars, OnlyCommitted, NEW p \in Projects
        PROVE  /\ lastSequence'[p] \in {lastSequence[p], lastSequence[p] + 1}
               /\ \A n \in fanned'[p] : n \in 1..lastSequence[p]
    <2>1. fanned[p] \subseteq rows[p] /\ rows[p] = 1..lastSequence[p]
      BY <1>2 DEF OnlyCommitted, OutboxInv, LogInv, LogIsDense
    <2>2. fanned'[p] \subseteq rows'[p] /\ rows'[p] = 1..lastSequence'[p]
      BY <1>2 DEF OnlyCommitted, OutboxInv, LogInv, LogIsDense
    <2>3. lastSequence'[p] = lastSequence[p] \/ fanned'[p] = fanned[p]
      <3>1. ASSUME NEW d \in Distributors, PublishToRedis(d) PROVE lastSequence' = lastSequence
        BY <3>1 DEF PublishToRedis, logVars
      <3>2. ASSUME NEW w \in Writers,
                   Rollback(w) \/ CommitEvent(w) \/ \E q \in Projects : AppendEvent(w, q)
            PROVE  fanned' = fanned
        BY <3>2 DEF AppendEvent, CommitEvent, Rollback, groupVars
      <3>3. ASSUME NEW r \in Relays,
                   ClaimSome(r) \/ PublishRow(r) \/ Mark(r) \/ RelayFails(r) \/ OrphanArrives(r)
            PROVE  fanned' = fanned
        BY <3>3 DEF ClaimSome, Claim, PublishRow, Mark, RelayFails, OrphanArrives, groupVars
      <3>4. ASSUME NEW q \in Projects, AssignSome(q) \/ Rebalance(q) PROVE fanned' = fanned
        BY <3>4 DEF AssignSome, Assign, Rebalance
      <3>5. ASSUME NEW d \in Distributors, FetchSome(d) \/ Commits(d) \/ DistributorFails(d)
            PROVE  fanned' = fanned
        BY <3>5 DEF FetchSome, FetchMessage, Commits, CommitMessage, CommitRefused, LeavesGroup,
                    DistributorFails
      <3>6. UNCHANGED outboxVars => fanned' = fanned
        BY DEF outboxVars, groupVars
      <3> QED
        BY <1>2, <3>1, <3>2, <3>3, <3>4, <3>5, <3>6 DEF OutboxNext
    <2>4. lastSequence'[p] \in {lastSequence[p], lastSequence[p] + 1}
      BY <1>2, RowsStay
    <2>5. \A n \in fanned'[p] : n \in 1..lastSequence[p]
      BY <2>1, <2>2, <2>3
    <2> QED
      BY <2>4, <2>5
  <1>3. ASSUME OutboxInv, OutboxInv', OnlyCommitted, OnlyCommitted', [OutboxNext]_outboxVars
        PROVE  [\A p \in Projects :
                  /\ lastSequence'[p] \in {lastSequence[p], lastSequence[p] + 1}
                  /\ \A n \in fanned'[p] : n \in 1..lastSequence[p]]_outboxVars
    BY <1>2, <1>3
  <1> QED
    BY <1>1, <1>3, CommittedNext, OutboxInvAlways, PTL DEF OutboxSpec, HubIsOfferedTheLog

=============================================================================
