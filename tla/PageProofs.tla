---------------------------- MODULE PageProofs ----------------------------
(***************************************************************************)
(* Proofs about the page: that the shell stays where the user's moves lead *)
(* (Workspace), that the panel of a task drops nothing that others wrote   *)
(* into it (TaskPanel), and that the in-memory workspace the page runs on  *)
(* without a server pages, undoes and counts as it should (MockWorkspace). *)
(***************************************************************************)
EXTENDS Workspace, TaskPanel, MockWorkspace, FiniteSetTheorems, TLAPS

-----------------------------------------------------------------------------
(* The panel of a task: types *)

Values == [Fields -> SUBSET Items]
Pages == [version : Nat, value : Values]
Renders == [version : Nat, people : SUBSET Items, mounted : BOOLEAN]

SentUpdates ==
  [kind : {"update"}, update : {TRUE}, field : Fields, value : SUBSET Items, expected : Nat,
   previous : Pages, phase : {"sent"}, mounted : BOOLEAN]
SentReplays ==
  [kind : {"undo", "redo"}, update : {FALSE}, field : Fields, value : SUBSET Items,
   expected : Nat, previous : Pages, phase : {"sent"}, mounted : BOOLEAN]
Answered == [phase : {"ok", "failed"}, update : BOOLEAN, mounted : BOOLEAN, task : Pages]

Operations ==
  [kind : {"applied", "undone"}, field : Fields, before : SUBSET Items, after : SUBSET Items,
   version : Nat]
Additions ==
  [kind : {"mounted"}, item : Items] \cup [kind : {"left"}, item : Items, page : Renders]

PanelTypes ==
  /\ server \in [version : Nat, value : Values, touched : [Fields -> Nat]]
  /\ op \in {NoOp} \cup Operations
  /\ cached \in Pages
  /\ draft \in [set : BOOLEAN, value : SUBSET Items]
  /\ requests \subseteq SentUpdates \cup SentReplays \cup Answered
  /\ joining \in {NoAddition} \cup Additions
  /\ kept \in SUBSET (Fields \X Items)

\* What is held of field f since version `at`: if nobody wrote the field since,
\* it has all that is to be kept.
Holds(f, value, at) ==
  /\ at <= server.version
  /\ server.touched[f] <= at => \A i \in Items : <<f, i>> \in kept => i \in value

Fits(page) == \A f \in Fields : Holds(f, page.value[f], page.version)

RequestFits(r) ==
  IF r.phase = "sent"
    THEN Fits(r.previous) /\ (r.kind = "update" => Holds(r.field, r.value, r.expected))
    ELSE Fits(r.task)

AdditionFits ==
  joining.kind = "left" => Holds("people", joining.page.people, joining.page.version)

\* The user's operation knows what it left, unless the field was written since.
OperationFits ==
  op # NoOp /\ server.touched[op.field] = op.version =>
    server.value[op.field] = IF op.kind = "applied" THEN op.after ELSE op.before

PanelInv ==
  /\ PanelTypes
  /\ \A f \in Fields : Holds(f, server.value[f], server.version)
  /\ \A f \in Fields : server.touched[f] <= server.version
  /\ op # NoOp => op.version <= server.version
  /\ Fits(cached)
  /\ \A r \in requests : RequestFits(r)
  /\ AdditionFits
  /\ OperationFits

\* What every step does for a field: it leaves its version and keeps no more
\* than before, or the field is written at a version nobody has seen.
FieldStays(f) == server'.touched[f] = server.touched[f] /\ \A i \in Items : <<f, i>> \in kept' => <<f, i>> \in kept
FieldWritten(f) == server'.touched[f] > server.version

PanelMoves ==
  /\ server'.version >= server.version
  /\ \A f \in Fields : FieldStays(f) \/ FieldWritten(f)

\* What was held of a field is still held after any step.
LEMMA HoldsStays ==
  ASSUME PanelTypes, PanelTypes', PanelMoves, NEW f \in Fields, NEW value, NEW at \in Nat,
         Holds(f, value, at)
  PROVE  Holds(f, value, at)'
  <1>1. at <= server'.version
    BY DEF PanelTypes, PanelMoves, Holds
  <1>2. CASE FieldWritten(f)
    BY <1>1, <1>2 DEF PanelTypes, FieldWritten, Holds
  <1>3. CASE FieldStays(f)
    BY <1>1, <1>3 DEF PanelTypes, FieldStays, Holds
  <1> QED
    BY <1>2, <1>3 DEF PanelMoves

LEMMA FitsStays ==
  ASSUME PanelTypes, PanelTypes', PanelMoves, NEW page \in Pages, Fits(page)
  PROVE  Fits(page)'
  <1> SUFFICES ASSUME NEW f \in Fields PROVE Holds(f, page.value[f], page.version)'
    BY DEF Fits
  <1>1. Holds(f, page.value[f], page.version)
    BY DEF Fits
  <1>2. page.version \in Nat
    BY DEF Pages
  <1> QED
    BY <1>1, <1>2, HoldsStays

LEMMA RequestStays ==
  ASSUME PanelTypes, PanelTypes', PanelMoves, NEW r \in requests, RequestFits(r)
  PROVE  RequestFits(r)'
  <1>1. r \in SentUpdates \cup SentReplays \cup Answered
    BY DEF PanelTypes
  <1>2. CASE r \in SentUpdates
    <2>1. r.phase = "sent" /\ r.kind = "update" /\ r.previous \in Pages /\ r.field \in Fields
          /\ r.expected \in Nat
      BY <1>2 DEF SentUpdates
    <2> QED
      BY <2>1, FitsStays, HoldsStays DEF RequestFits
  <1>3. CASE r \in SentReplays
    <2>1. r.phase = "sent" /\ r.kind # "update" /\ r.previous \in Pages
      BY <1>3 DEF SentReplays
    <2> QED
      BY <2>1, FitsStays DEF RequestFits
  <1>4. CASE r \in Answered
    <2>1. r.phase # "sent" /\ r.task \in Pages
      BY <1>4 DEF Answered
    <2> QED
      BY <2>1, FitsStays DEF RequestFits
  <1> QED
    BY <1>1, <1>2, <1>3, <1>4


-----------------------------------------------------------------------------
(* The panel of a task: one lemma for what the steps have in common *)

\* A step that leaves the server alone, and keeps no more than before.
ServerStays == server' = server /\ op' = op /\ kept' \subseteq kept

LEMMA StayingMoves ==
  ASSUME PanelInv, ServerStays
  PROVE  PanelMoves
  BY DEF PanelInv, PanelTypes, ServerStays, PanelMoves, FieldStays

\* Then what the panel shows, its requests and its picker remain to be looked at.
LEMMA StayingInv ==
  ASSUME PanelInv, PanelTypes', ServerStays, Fits(cached)', AdditionFits',
         \A r \in requests' : r \in requests \/ RequestFits(r)'
  PROVE  PanelInv'
  <1>1. PanelMoves
    BY StayingMoves
  <1>2. \A f \in Fields : Holds(f, server.value[f], server.version)'
    <2> SUFFICES ASSUME NEW f \in Fields PROVE Holds(f, server.value[f], server.version)'
      OBVIOUS
    <2>1. Holds(f, server.value[f], server.version) /\ server.version \in Nat
      BY DEF PanelInv, PanelTypes
    <2> QED
      BY <2>1 DEF ServerStays, Holds
  <1>3. \A r \in requests' : RequestFits(r)'
    <2> SUFFICES ASSUME NEW r \in requests, RequestFits(r) PROVE RequestFits(r)'
      BY DEF PanelInv
    <2> QED
      BY <1>1, RequestStays DEF PanelInv
  <1> QED
    BY <1>2, <1>3 DEF PanelInv, ServerStays, OperationFits

\* A step that writes field f of the task.
LEMMA WritingInv ==
  ASSUME PanelInv, PanelTypes', NEW f \in Fields, NEW value \in SUBSET Items, Write(f, value),
         \A g \in Fields, i \in Items : g # f /\ <<g, i>> \in kept' => <<g, i>> \in kept,
         \A i \in Items : <<f, i>> \in kept' => i \in value,
         op' # NoOp => op'.version <= server'.version,
         OperationFits', cached' = cached, joining' = joining,
         \A r \in requests' : r \in requests \/ RequestFits(r)'
  PROVE  PanelInv'
  <1>1. /\ server'.version = server.version + 1 /\ server.version \in Nat
        /\ server'.touched[f] = server.version + 1 /\ server'.value[f] = value
        /\ \A g \in Fields \ {f} : /\ server'.touched[g] = server.touched[g]
                                   /\ server'.value[g] = server.value[g]
    BY DEF PanelInv, PanelTypes, Values, Write
  <1>2. PanelMoves
    BY <1>1 DEF PanelMoves, FieldStays, FieldWritten
  <1>3. \A g \in Fields : Holds(g, server.value[g], server.version)'
    <2> SUFFICES ASSUME NEW g \in Fields PROVE Holds(g, server.value[g], server.version)'
      OBVIOUS
    <2>1. CASE g = f
      BY <1>1, <2>1 DEF Holds
    <2>2. CASE g # f
      <3>1. Holds(g, server.value[g], server.version) /\ server.touched[g] <= server.version
        BY DEF PanelInv
      <3> QED
        BY <1>1, <2>2, <3>1 DEF Holds
    <2> QED
      BY <2>1, <2>2
  <1>4. \A g \in Fields : server'.touched[g] <= server'.version
    <2> SUFFICES ASSUME NEW g \in Fields PROVE server'.touched[g] <= server'.version
      OBVIOUS
    <2>1. server.touched[g] <= server.version /\ server.touched[g] \in Nat
      BY DEF PanelInv, PanelTypes
    <2> QED
      BY <1>1, <2>1
  <1>5. Fits(cached)'
    BY <1>2, FitsStays DEF PanelInv, PanelTypes
  <1>6. \A r \in requests' : RequestFits(r)'
    <2> SUFFICES ASSUME NEW r \in requests, RequestFits(r) PROVE RequestFits(r)'
      BY DEF PanelInv
    <2> QED
      BY <1>2, RequestStays DEF PanelInv
  <1>7. AdditionFits'
    <2> SUFFICES ASSUME joining.kind = "left"
                 PROVE  Holds("people", joining.page.people, joining.page.version)'
      BY DEF AdditionFits
    <2>1. joining.page.version \in Nat /\ "people" \in Fields
      BY DEF PanelInv, PanelTypes, NoAddition, Additions, Renders, Fields
    <2>2. Holds("people", joining.page.people, joining.page.version)
      BY DEF PanelInv, AdditionFits
    <2> QED
      BY <1>2, <2>1, <2>2, HoldsStays DEF PanelInv
  <1> QED
    BY <1>3, <1>4, <1>5, <1>6, <1>7 DEF PanelInv

-----------------------------------------------------------------------------
(* The panel of a task: the server's steps *)

LEMMA OthersAddKeeps ==
  ASSUME PanelInv, NEW f \in Fields, NEW i \in Theirs, OthersAdd(f, i)
  PROVE  PanelInv'
  <1>1. i \in Items /\ server.value[f] \cup {i} \in SUBSET Items
    BY DEF PanelInv, PanelTypes, Values, Items
  <1>2. Write(f, server.value[f] \cup {i}) /\ kept' = kept \cup {<<f, i>>}
        /\ UNCHANGED <<op, cached, draft, requests, joining>>
    BY DEF OthersAdd
  <1>3. PanelTypes'
    BY <1>1, <1>2 DEF PanelInv, PanelTypes, Values, Write
  <1>4. \A j \in Items : <<f, j>> \in kept' => j \in server.value[f] \cup {i}
    BY <1>2 DEF PanelInv, Holds
  <1>5. \A g \in Fields, j \in Items : g # f /\ <<g, j>> \in kept' => <<g, j>> \in kept
    BY <1>2
  <1>6. server'.version = server.version + 1 /\ server.version \in Nat
        /\ server'.touched[f] = server.version + 1
        /\ \A g \in Fields \ {f} : /\ server'.touched[g] = server.touched[g]
                                   /\ server'.value[g] = server.value[g]
    BY <1>2 DEF PanelInv, PanelTypes, Values, Write
  <1>7. op # NoOp => op.version \in Nat /\ op.field \in Fields /\ op.version <= server.version
    BY DEF PanelInv, PanelTypes, Operations
  <1>8. OperationFits'
    BY <1>2, <1>6, <1>7 DEF PanelInv, OperationFits
  <1> QED
    BY <1>1, <1>2, <1>3, <1>4, <1>5, <1>6, <1>7, <1>8, WritingInv

\* A request that was sent, taken apart.
LEMMA SentTypes ==
  ASSUME PanelInv, NEW r \in requests, r.phase = "sent"
  PROVE  /\ r \in SentUpdates \cup SentReplays
         /\ r.update \in BOOLEAN /\ r.mounted \in BOOLEAN /\ r.previous \in Pages
         /\ Fits(r.previous)
  BY DEF PanelInv, PanelTypes, SentUpdates, SentReplays, Answered, RequestFits

LEMMA RefuseKeeps ==
  ASSUME PanelInv, NEW r \in requests, r.phase = "sent", Refuse(r),
         UNCHANGED <<cached, draft, joining>>
  PROVE  PanelInv'
  <1> DEFINE answer == [phase |-> "failed", update |-> r.update, mounted |-> r.mounted,
                        task |-> r.previous]
  <1>1. r.update \in BOOLEAN /\ r.mounted \in BOOLEAN /\ r.previous \in Pages /\ Fits(r.previous)
        /\ r \in SentUpdates \cup SentReplays
    BY SentTypes
  <1>2. r.update = (r.kind = "update")
    BY <1>1 DEF SentUpdates, SentReplays
  <1>3. requests' = (requests \ {r}) \cup {answer}
    BY <1>2 DEF Refuse, Answer
  <1>4. answer \in Answered
    BY <1>1 DEF Answered
  <1>5. ServerStays
    BY DEF Refuse, ServerStays
  <1>6. PanelTypes'
    BY <1>3, <1>4 DEF Refuse, PanelInv, PanelTypes
  <1>7. PanelMoves
    BY <1>5, StayingMoves
  <1>8. Fits(cached)' /\ Fits(r.previous)'
    <2>1. Fits(r.previous)'
      BY <1>1, <1>6, <1>7, FitsStays DEF PanelInv
    <2>2. Fits(cached)'
      BY <1>6, <1>7, FitsStays DEF PanelInv, PanelTypes
    <2> QED
      BY <2>1, <2>2
  <1>9. AdditionFits'
    BY <1>5 DEF PanelInv, AdditionFits, ServerStays, Holds
  <1>10. \A q \in requests' : q \in requests \/ RequestFits(q)'
    BY <1>3, <1>8 DEF RequestFits
  <1> HIDE DEF answer
  <1> QED
    BY <1>5, <1>6, <1>8, <1>9, <1>10, StayingInv

\* The answer that agrees holds the task as it is then.
LEMMA AgreeFits ==
  ASSUME server' \in [version : Nat, value : Values, touched : [Fields -> Nat]],
         \A g \in Fields : Holds(g, server.value[g], server.version)',
         NEW r \in requests, r.update \in BOOLEAN, r.mounted \in BOOLEAN,
         r.update = (r.kind = "update"),
         Agree(r, server')
  PROVE  \E a \in Answered : /\ requests' = (requests \ {r}) \cup {a}
                             /\ RequestFits(a)'
  <1>1. PICK t : t = TaskOf(server')
    OBVIOUS
  <1>2. t \in Pages /\ t.version = server'.version /\ t.value = server'.value
    BY <1>1 DEF Pages, TaskOf
  <1>3. PICK a : a = [phase |-> "ok", update |-> r.update, mounted |-> r.mounted, task |-> t]
    OBVIOUS
  <1>4. a \in Answered /\ a.phase = "ok" /\ a.task = t
    BY <1>2, <1>3 DEF Answered
  <1>5. requests' = (requests \ {r}) \cup {a}
    BY <1>1, <1>3 DEF Agree, Answer
  <1>6. Fits(t)'
    BY <1>2 DEF Fits
  <1>7. RequestFits(a)'
    BY <1>4, <1>6 DEF RequestFits
  <1> QED
    BY <1>4, <1>5, <1>7

\* After a write the task holds everything that is to be kept.
LEMMA WrittenHolds ==
  ASSUME PanelInv, NEW f \in Fields, NEW value \in SUBSET Items, Write(f, value),
         \A g \in Fields, i \in Items : g # f /\ <<g, i>> \in kept' => <<g, i>> \in kept,
         \A i \in Items : <<f, i>> \in kept' => i \in value
  PROVE  /\ server' \in [version : Nat, value : Values, touched : [Fields -> Nat]]
         /\ server'.version = server.version + 1 /\ server.version \in Nat
         /\ server'.touched[f] = server.version + 1 /\ server'.value[f] = value
         /\ \A g \in Fields \ {f} : /\ server'.touched[g] = server.touched[g]
                                    /\ server'.value[g] = server.value[g]
         /\ \A g \in Fields : Holds(g, server.value[g], server.version)'
  <1>1. server' \in [version : Nat, value : Values, touched : [Fields -> Nat]]
    BY DEF PanelInv, PanelTypes, Values, Write
  <1>2. /\ server'.version = server.version + 1 /\ server.version \in Nat
        /\ server'.touched[f] = server.version + 1 /\ server'.value[f] = value
        /\ \A g \in Fields \ {f} : /\ server'.touched[g] = server.touched[g]
                                   /\ server'.value[g] = server.value[g]
    BY DEF PanelInv, PanelTypes, Values, Write
  <1>3. \A g \in Fields : Holds(g, server.value[g], server.version)'
    <2> SUFFICES ASSUME NEW g \in Fields PROVE Holds(g, server.value[g], server.version)'
      OBVIOUS
    <2>1. CASE g = f
      BY <1>2, <2>1 DEF Holds
    <2>2. CASE g # f
      <3>1. Holds(g, server.value[g], server.version) /\ server.touched[g] <= server.version
        BY DEF PanelInv
      <3> QED
        BY <1>2, <2>2, <3>1 DEF Holds
    <2> QED
      BY <2>1, <2>2
  <1> QED
    BY <1>1, <1>2, <1>3

\* An update that is accepted was made from the field's last value, so what it
\* writes has all that is to be kept.
LEMMA ServeUpdateKeeps ==
  ASSUME PanelInv, NEW r \in requests, ServeUpdate(r)
  PROVE  PanelInv'
  <1>1. r.phase = "sent" /\ r.kind = "update" /\ UNCHANGED <<cached, draft, joining>>
    BY DEF ServeUpdate
  <1>2. CASE server.touched[r.field] > r.expected
    BY <1>1, <1>2, RefuseKeeps DEF ServeUpdate
  <1>3. CASE ~(server.touched[r.field] > r.expected)
    <2> DEFINE f == r.field
               made == [kind |-> "applied", field |-> f, before |-> server.value[f],
                        after |-> r.value, version |-> server.version + 1]
    <2>1. r \in SentUpdates
      BY <1>1, SentTypes DEF SentReplays
    <2>2. f \in Fields /\ r.value \in SUBSET Items /\ r.expected \in Nat
          /\ r.update = (r.kind = "update") /\ r.update \in BOOLEAN /\ r.mounted \in BOOLEAN
      BY <1>1, <2>1 DEF SentUpdates
    <2>3. Write(f, r.value) /\ op' = made /\ Agree(r, server')
          /\ kept' = kept \cup {<<f, i>> : i \in r.value \cap Mine}
      BY <1>3 DEF ServeUpdate
    <2>4. Holds(f, r.value, r.expected) /\ server.touched[f] \in Nat
      BY <1>1, <2>2 DEF PanelInv, RequestFits, PanelTypes
    <2>5. \A i \in Items : <<f, i>> \in kept' => i \in r.value
      BY <1>3, <2>2, <2>3, <2>4 DEF Holds
    <2>6. \A g \in Fields, i \in Items : g # f /\ <<g, i>> \in kept' => <<g, i>> \in kept
      BY <2>3
    <2>7. made \in Operations /\ server.value[f] \in SUBSET Items /\ server.version \in Nat
      BY <2>2 DEF PanelInv, PanelTypes, Values, Operations
    <2>8. /\ server' \in [version : Nat, value : Values, touched : [Fields -> Nat]]
          /\ server'.version = server.version + 1
          /\ server'.touched[f] = server.version + 1 /\ server'.value[f] = r.value
          /\ \A g \in Fields : Holds(g, server.value[g], server.version)'
      BY <2>2, <2>3, <2>5, <2>6, WrittenHolds
    <2>9. kept' \in SUBSET (Fields \X Items)
      BY <2>2, <2>3 DEF PanelInv, PanelTypes
    <2>10. OperationFits' /\ (op' # NoOp => op'.version <= server'.version)
      BY <2>3, <2>7, <2>8 DEF OperationFits
    <2>11. PanelTypes' /\ \A q \in requests' : q \in requests \/ RequestFits(q)'
      <3>1. PICK a \in Answered : requests' = (requests \ {r}) \cup {a} /\ RequestFits(a)'
        BY <2>2, <2>3, <2>8, AgreeFits
      <3>2. PanelTypes'
        BY <1>1, <2>3, <2>7, <2>8, <2>9, <3>1 DEF PanelInv, PanelTypes
      <3> QED
        BY <3>1, <3>2
    <2> HIDE DEF made
    <2> QED
      BY <1>1, <2>2, <2>3, <2>5, <2>6, <2>10, <2>11, WritingInv
  <1> QED
    BY <1>2, <1>3

\* Undo and redo put back a value only where nobody wrote since, and take what
\* they drop out of what is to be kept.
LEMMA ServeReplayKeeps ==
  ASSUME PanelInv, NEW r \in requests, ServeReplay(r)
  PROVE  PanelInv'
  <1> DEFINE undo == r.kind = "undo"
             refused == \/ op.kind # (IF undo THEN "applied" ELSE "undone")
                        \/ server.touched[op.field] # op.version
             from == IF undo THEN op.after ELSE op.before
             to == IF undo THEN op.before ELSE op.after
  <1>1. r.phase = "sent" /\ r.kind # "update" /\ UNCHANGED <<cached, draft, joining>>
    BY DEF ServeReplay
  <1>2. CASE refused
    <2>1. Refuse(r)
      BY <1>2 DEF ServeReplay
    <2> QED
      BY <1>1, <2>1, RefuseKeeps
  <1>3. CASE ~refused
    <2> DEFINE f == op.field
               made == [op EXCEPT !.kind = IF undo THEN "undone" ELSE "applied",
                                  !.version = server.version + 1]
    <2>1. r \in SentReplays
      BY <1>1, SentTypes DEF SentUpdates
    <2>2. r.update = (r.kind = "update") /\ r.update \in BOOLEAN /\ r.mounted \in BOOLEAN
      BY <1>1, <2>1 DEF SentReplays
    <2>3. op \in Operations /\ op # NoOp /\ op.kind = (IF undo THEN "applied" ELSE "undone")
          /\ server.touched[f] = op.version
      BY <1>3 DEF PanelInv, PanelTypes, NoOp
    <2>4. f \in Fields /\ from \in SUBSET Items /\ to \in SUBSET Items
      BY <2>3 DEF Operations
    <2>5. server.value[f] = from
      BY <2>3 DEF PanelInv, OperationFits
    <2>6. Write(f, to) /\ op' = made /\ kept' = kept \ {<<f, i>> : i \in from \ to}
          /\ Agree(r, server')
      BY <1>3 DEF ServeReplay
    <2>7. \A i \in Items : <<f, i>> \in kept => i \in from
      BY <2>4, <2>5 DEF PanelInv, Holds
    <2>8. \A i \in Items : <<f, i>> \in kept' => i \in to
      BY <2>6, <2>7
    <2>9. \A g \in Fields, i \in Items : g # f /\ <<g, i>> \in kept' => <<g, i>> \in kept
      BY <2>6
    <2>10. made \in Operations /\ made.field = f /\ made.version = server.version + 1
           /\ made.before = op.before /\ made.after = op.after
           /\ made.kind = (IF undo THEN "undone" ELSE "applied") /\ server.version \in Nat
      <3>1. server.version \in Nat
        BY DEF PanelInv, PanelTypes
      <3> DEFINE next == IF undo THEN "undone" ELSE "applied"
      <3>2. next \in {"applied", "undone"} /\ server.version + 1 \in Nat
        BY <3>1
      <3>3. made = [op EXCEPT !.kind = next, !.version = server.version + 1]
        OBVIOUS
      <3> HIDE DEF next, made
      <3>4. /\ made \in Operations /\ made.field = f /\ made.version = server.version + 1
            /\ made.before = op.before /\ made.after = op.after /\ made.kind = next
        BY <2>3, <3>2, <3>3 DEF Operations
      <3> QED
        BY <3>1, <3>4 DEF next
    <2>11. /\ server' \in [version : Nat, value : Values, touched : [Fields -> Nat]]
           /\ server'.version = server.version + 1
           /\ server'.touched[f] = server.version + 1 /\ server'.value[f] = to
           /\ \A g \in Fields : Holds(g, server.value[g], server.version)'
      BY <2>4, <2>6, <2>8, <2>9, WrittenHolds
    <2>12. kept' \in SUBSET (Fields \X Items)
      BY <2>6 DEF PanelInv, PanelTypes
    <2>13. OperationFits' /\ (op' # NoOp => op'.version <= server'.version)
      BY <2>6, <2>10, <2>11 DEF OperationFits
    <2>14. PanelTypes' /\ \A q \in requests' : q \in requests \/ RequestFits(q)'
      <3>1. PICK a \in Answered : requests' = (requests \ {r}) \cup {a} /\ RequestFits(a)'
        BY <2>2, <2>6, <2>11, AgreeFits
      <3>2. PanelTypes'
        BY <1>1, <2>6, <2>10, <2>11, <2>12, <3>1 DEF PanelInv, PanelTypes
      <3> QED
        BY <3>1, <3>2
    <2> HIDE DEF made, from, to
    <2> QED
      BY <1>1, <2>4, <2>6, <2>8, <2>9, <2>13, <2>14, WritingInv
  <1> QED
    BY <1>2, <1>3

LEMMA FailKeeps ==
  ASSUME PanelInv, NEW r \in requests, Fail(r)
  PROVE  PanelInv'
  BY RefuseKeeps DEF Fail

-----------------------------------------------------------------------------
(* The panel of a task: the user's steps *)

\* The same of what is kept after a step that leaves the server alone.
HoldsThen(f, value, at) ==
  /\ at <= server.version
  /\ server.touched[f] <= at => \A i \in Items : <<f, i>> \in kept' => i \in value

\* An edit of field f, made from what some page showed.
LEMMA MutateKeeps ==
  ASSUME PanelInv, NEW f \in Fields, NEW v \in SUBSET Items, NEW page,
         page.version \in Nat, page.mounted \in BOOLEAN,
         Mutate(f, v, page), server' = server, op' = op, draft' = draft,
         joining' \in {joining, NoAddition}, kept' \subseteq kept,
         HoldsThen(f, v, page.version), HoldsThen(f, v, cached.version)
  PROVE  PanelInv'
  <1>1. PICK q : q = Request("update", f, v, page.version, page.mounted)
    OBVIOUS
  <1>2. requests' = requests \cup {q} /\ cached' = [cached EXCEPT !.value[f] = v]
    BY <1>1 DEF Mutate, Expected
  <1>3. cached \in Pages /\ q \in SentUpdates
    BY <1>1 DEF PanelInv, PanelTypes, Request, SentUpdates
  <1>4. cached' \in Pages /\ cached'.version = cached.version /\ cached'.value[f] = v
        /\ \A g \in Fields \ {f} : cached'.value[g] = cached.value[g]
    BY <1>2, <1>3 DEF Pages, Values
  <1>5. PanelTypes'
    BY <1>2, <1>3, <1>4 DEF PanelInv, PanelTypes
  <1>6. ServerStays /\ PanelMoves
    BY StayingMoves DEF ServerStays
  <1>7. Fits(cached)'
    <2> SUFFICES ASSUME NEW g \in Fields PROVE Holds(g, cached.value[g], cached.version)'
      BY DEF Fits
    <2>1. Holds(g, cached.value[g], cached.version)
      BY DEF PanelInv, Fits
    <2>2. CASE g = f
      BY <1>4, <2>2 DEF Holds, HoldsThen
    <2>3. CASE g # f
      BY <1>4, <2>1, <2>3 DEF Holds
    <2> QED
      BY <2>2, <2>3
  <1>8. AdditionFits'
    <2> SUFFICES ASSUME joining' = joining, joining.kind = "left" PROVE AdditionFits'
      BY DEF AdditionFits, NoAddition
    <2> QED
      BY DEF PanelInv, AdditionFits, Holds
  <1>9. RequestFits(q)'
    <2>1. q.phase = "sent" /\ q.previous = cached /\ q.field = f /\ q.value = v
          /\ q.expected = page.version
      BY <1>1 DEF Request
    <2>2. Fits(q.previous)
      BY <2>1 DEF PanelInv
    <2>3. Fits(q.previous)'
      BY <1>3, <1>5, <1>6, <2>1, <2>2, FitsStays DEF PanelInv
    <2> QED
      BY <2>1, <2>3 DEF RequestFits, Holds, HoldsThen
  <1> QED
    BY <1>2, <1>5, <1>6, <1>7, <1>8, <1>9, StayingInv

\* What the panel shows, as the edits are made from it.
LEMMA ShownHolds ==
  ASSUME PanelInv
  PROVE  /\ cached \in Pages /\ "people" \in Fields /\ "custom" \in Fields
         /\ cached.value["people"] \in SUBSET Items /\ cached.value["custom"] \in SUBSET Items
         /\ Holds("people", cached.value["people"], cached.version)
         /\ Holds("custom", cached.value["custom"], cached.version)
         /\ Render.version = cached.version /\ Render.mounted = TRUE /\ cached.version \in Nat
  BY DEF PanelInv, PanelTypes, Fits, Fields, Pages, Values, Render

LEMMA ToggleKeeps ==
  ASSUME PanelInv, NEW i \in Items, Toggle(i)
  PROVE  PanelInv'
  <1>1. PICK page : page = Render
    OBVIOUS
  <1>2. page.version = cached.version /\ page.mounted = TRUE
    BY <1>1 DEF Render
  <1>3. UNCHANGED <<server, op, draft, joining>>
    BY DEF Toggle
  <1>4. CASE i \in cached.value["people"]
    <2>1. PICK v : v = cached.value["people"] \ {i}
      OBVIOUS
    <2>2. Mutate("people", v, page) /\ kept' = kept \ {<<"people", i>>}
      BY <1>1, <1>4, <2>1 DEF Toggle
    <2>3. v \in SUBSET Items /\ HoldsThen("people", v, cached.version)
      BY <2>1, <2>2, ShownHolds DEF Holds, HoldsThen
    <2> QED
      BY <1>2, <1>3, <2>2, <2>3, ShownHolds, MutateKeeps
  <1>5. CASE i \notin cached.value["people"]
    <2>1. PICK v : v = cached.value["people"] \cup {i}
      OBVIOUS
    <2>2. Mutate("people", v, page) /\ kept' = kept
      BY <1>1, <1>5, <2>1 DEF Toggle
    <2>3. v \in SUBSET Items /\ HoldsThen("people", v, cached.version)
      BY <2>1, <2>2, ShownHolds DEF Holds, HoldsThen
    <2> QED
      BY <1>2, <1>3, <2>2, <2>3, ShownHolds, MutateKeeps
  <1> QED
    BY <1>4, <1>5

LEMMA AddTagKeeps ==
  ASSUME PanelInv, NEW i \in Items, AddTag(i)
  PROVE  PanelInv'
  <1>1. PICK page : page = Render
    OBVIOUS
  <1>2. page.version = cached.version /\ page.mounted = TRUE
    BY <1>1 DEF Render
  <1>3. PICK v : v = cached.value["people"] \cup {i}
    OBVIOUS
  <1>4. Mutate("people", v, page) /\ UNCHANGED <<server, op, draft, joining, kept>>
    BY <1>1, <1>3 DEF AddTag
  <1>5. v \in SUBSET Items /\ HoldsThen("people", v, cached.version)
    BY <1>3, <1>4, ShownHolds DEF Holds, HoldsThen
  <1> QED
    BY <1>2, <1>4, <1>5, ShownHolds, MutateKeeps

\* A draft is saved whole: what it does not have counts as taken out.
LEMMA SaveFieldsKeeps ==
  ASSUME PanelInv, SaveFields
  PROVE  PanelInv'
  <1>1. PICK page : page = Render
    OBVIOUS
  <1>2. page.version = cached.version /\ page.mounted = TRUE
    BY <1>1 DEF Render
  <1>3. PICK v : v = Shown
    OBVIOUS
  <1>4. /\ Mutate("custom", v, page) /\ UNCHANGED <<server, op, draft, joining>>
        /\ kept' = kept \ {<<"custom", i>> : i \in cached.value["custom"] \ v}
    BY <1>1, <1>3 DEF SaveFields
  <1>5. v \in SUBSET Items
    BY <1>3, ShownHolds DEF PanelInv, PanelTypes, Shown
  <1>6. HoldsThen("custom", v, cached.version)
    BY <1>4, ShownHolds DEF Holds, HoldsThen
  <1> QED
    BY <1>2, <1>4, <1>5, <1>6, ShownHolds, MutateKeeps

\* The picker sends the people it was last rendered with and the new member.
LEMMA MemberAddedKeeps ==
  ASSUME PanelInv, MemberAdded
  PROVE  PanelInv'
  <1>1. PICK page : page = IF joining.kind = "mounted" THEN Render ELSE joining.page
    OBVIOUS
  <1>2. PICK v : v = page.people \cup {joining.item}
    OBVIOUS
  <1>3. /\ Mutate("people", v, page) /\ UNCHANGED <<server, op, draft>>
        /\ joining' = NoAddition
        /\ kept' = kept \ {<<"people", i>> : i \in cached.value["people"] \ v}
    BY <1>1, <1>2 DEF MemberAdded
  <1>4. joining \in Additions
    BY DEF MemberAdded, PanelInv, PanelTypes
  <1>5. /\ page.version \in Nat /\ page.mounted \in BOOLEAN /\ page.people \in SUBSET Items
        /\ Holds("people", page.people, page.version)
    <2>1. CASE joining.kind = "mounted"
      BY <1>1, <2>1, ShownHolds DEF Render
    <2>2. CASE joining.kind # "mounted"
      <3>1. joining.kind = "left" /\ joining.page \in Renders
        BY <1>4, <2>2 DEF Additions
      <3> QED
        BY <1>1, <2>2, <3>1 DEF PanelInv, AdditionFits, Renders
    <2> QED
      BY <2>1, <2>2
  <1>6. v \in SUBSET Items
    BY <1>2, <1>4, <1>5 DEF Additions
  <1>7. HoldsThen("people", v, page.version)
    BY <1>2, <1>3, <1>5 DEF Holds, HoldsThen
  <1>8. HoldsThen("people", v, cached.version)
    BY <1>3, ShownHolds DEF Holds, HoldsThen
  <1>9. kept' \subseteq kept
    BY <1>3
  <1> QED
    BY <1>3, <1>5, <1>6, <1>7, <1>8, <1>9, ShownHolds, MutateKeeps

\* The steps that write neither the cache nor what is to be kept.
LEMMA CacheStaysInv ==
  ASSUME PanelInv, PanelTypes', UNCHANGED <<server, op, cached, kept>>, AdditionFits',
         \A r \in requests' : r \in requests \/ RequestFits(r)'
  PROVE  PanelInv'
  <1>1. ServerStays
    BY DEF ServerStays
  <1>2. Fits(cached)'
    BY DEF PanelInv, Fits, Holds
  <1> QED
    BY <1>1, <1>2, StayingInv

LEMMA AddFieldKeeps ==
  ASSUME PanelInv, NEW i \in Items, AddField(i)
  PROVE  PanelInv'
  <1>1. draft' = [set |-> TRUE, value |-> Shown \cup {i}]
        /\ UNCHANGED <<server, op, cached, requests, joining, kept>>
    BY DEF AddField
  <1>2. Shown \in SUBSET Items
    BY ShownHolds DEF PanelInv, PanelTypes, Shown
  <1>3. PanelTypes'
    BY <1>1, <1>2 DEF PanelInv, PanelTypes
  <1>4. AdditionFits'
    BY <1>1 DEF PanelInv, AdditionFits, Holds
  <1> QED
    BY <1>1, <1>3, <1>4, CacheStaysInv

LEMMA ReplayKeeps ==
  ASSUME PanelInv, NEW k \in {"undo", "redo"}, Replay(k)
  PROVE  PanelInv'
  <1>1. PICK q : q = Request(k, "people", {}, 0, TRUE)
    OBVIOUS
  <1>2. requests' = requests \cup {q} /\ UNCHANGED <<server, op, cached, draft, joining, kept>>
    BY <1>1 DEF Replay
  <1>3. q \in SentReplays /\ q.phase = "sent" /\ q.kind # "update" /\ q.previous = cached
    BY <1>1, ShownHolds DEF Request, SentReplays
  <1>4. PanelTypes'
    BY <1>2, <1>3 DEF PanelInv, PanelTypes
  <1>5. AdditionFits'
    BY <1>2 DEF PanelInv, AdditionFits, Holds
  <1>6. RequestFits(q)'
    BY <1>2, <1>3 DEF PanelInv, RequestFits, Fits, Holds
  <1> QED
    BY <1>2, <1>4, <1>5, <1>6, CacheStaysInv

LEMMA AddMemberKeeps ==
  ASSUME PanelInv, NEW i \in Items, AddMember(i)
  PROVE  PanelInv'
  <1>1. joining' = [kind |-> "mounted", item |-> i]
        /\ UNCHANGED <<server, op, cached, draft, requests, kept>>
    BY DEF AddMember
  <1>2. PanelTypes'
    BY <1>1 DEF PanelInv, PanelTypes, Additions
  <1>3. AdditionFits'
    BY <1>1 DEF AdditionFits
  <1> QED
    BY <1>1, <1>2, <1>3, CacheStaysInv

LEMMA MemberRefusedKeeps ==
  ASSUME PanelInv, MemberRefused
  PROVE  PanelInv'
  <1>1. joining' = NoAddition /\ UNCHANGED <<server, op, cached, draft, requests, kept>>
    BY DEF MemberRefused
  <1>2. PanelTypes' /\ AdditionFits'
    BY <1>1 DEF PanelInv, PanelTypes, AdditionFits, NoAddition
  <1> QED
    BY <1>1, <1>2, CacheStaysInv

-----------------------------------------------------------------------------
(* The panel of a task: what comes back *)

\* The cache is set to a task that some answer or edit held.
LEMMA CacheSetInv ==
  ASSUME PanelInv, NEW page \in Pages, Fits(page), cached' = page,
         draft' \in [set : BOOLEAN, value : SUBSET Items], requests' \subseteq requests,
         UNCHANGED <<server, op, joining, kept>>
  PROVE  PanelInv'
  <1>1. PanelTypes'
    BY DEF PanelInv, PanelTypes
  <1>2. ServerStays
    BY DEF ServerStays
  <1>3. Fits(cached)'
    BY DEF Fits, Holds
  <1>4. AdditionFits'
    BY DEF PanelInv, AdditionFits, Holds
  <1> QED
    BY <1>1, <1>2, <1>3, <1>4, StayingInv

LEMMA AnsweredTypes ==
  ASSUME PanelInv, NEW r \in requests, r.phase # "sent"
  PROVE  r \in Answered /\ r.task \in Pages /\ Fits(r.task)
  BY DEF PanelInv, PanelTypes, SentUpdates, SentReplays, Answered, RequestFits

LEMMA SavedKeeps ==
  ASSUME PanelInv, NEW r \in requests, Saved(r)
  PROVE  PanelInv'
  <1>1. r.task \in Pages /\ Fits(r.task)
    BY AnsweredTypes DEF Saved
  <1>2. /\ cached' = r.task /\ requests' \subseteq requests
        /\ UNCHANGED <<server, op, joining, kept>>
        /\ draft' = IF r.mounted /\ r.update THEN [set |-> TRUE, value |-> r.task.value["custom"]]
                                             ELSE draft
    BY DEF Saved
  <1>3. r.task.value["custom"] \in SUBSET Items
    BY <1>1 DEF Pages, Values, Fields
  <1>4. draft' \in [set : BOOLEAN, value : SUBSET Items]
    BY <1>2, <1>3 DEF PanelInv, PanelTypes
  <1> QED
    BY <1>1, <1>2, <1>4, CacheSetInv

LEMMA RefusedKeeps ==
  ASSUME PanelInv, NEW r \in requests, Refused(r)
  PROVE  PanelInv'
  <1>1. r.task \in Pages /\ Fits(r.task) /\ cached \in Pages /\ Fits(cached)
    BY AnsweredTypes DEF Refused, PanelInv, PanelTypes
  <1>2. /\ cached' = IF r.update THEN r.task ELSE cached
        /\ requests' \subseteq requests /\ UNCHANGED <<server, op, draft, joining, kept>>
    BY DEF Refused
  <1>3. draft' \in [set : BOOLEAN, value : SUBSET Items]
    BY <1>2 DEF PanelInv, PanelTypes
  <1>4. PICK page \in Pages : Fits(page) /\ cached' = page
    BY <1>1, <1>2
  <1> QED
    BY <1>2, <1>3, <1>4, CacheSetInv

LEMMA LearnKeeps ==
  ASSUME PanelInv, Learn
  PROVE  PanelInv'
  <1>1. PICK page : page = TaskOf(server)
    OBVIOUS
  <1>2. page \in Pages /\ Fits(page)
    BY <1>1 DEF PanelInv, PanelTypes, Pages, TaskOf, Fits
  <1>3. cached' = page /\ UNCHANGED <<server, op, draft, requests, joining, kept>>
    BY <1>1 DEF Learn
  <1>4. draft' \in [set : BOOLEAN, value : SUBSET Items]
    BY <1>3 DEF PanelInv, PanelTypes
  <1> QED
    BY <1>2, <1>3, <1>4, CacheSetInv

\* The picker that is left keeps the people it was last rendered with.
LEMMA ReopenKeeps ==
  ASSUME PanelInv, Reopen
  PROVE  PanelInv'
  <1>1. /\ draft' = NoDraft /\ requests' = {[r EXCEPT !.mounted = FALSE] : r \in requests}
        /\ joining' = IF joining.kind = "mounted"
                      THEN [kind |-> "left", item |-> joining.item,
                            page |-> [Render EXCEPT !.mounted = FALSE]]
                      ELSE joining
        /\ UNCHANGED <<server, op, cached, kept>>
    BY DEF Reopen
  <1>2. \A r \in requests : /\ [r EXCEPT !.mounted = FALSE] \in SentUpdates \cup SentReplays \cup Answered
                            /\ RequestFits([r EXCEPT !.mounted = FALSE])
    <2> SUFFICES ASSUME NEW r \in requests, NEW q, q = [r EXCEPT !.mounted = FALSE]
                 PROVE  q \in SentUpdates \cup SentReplays \cup Answered /\ RequestFits(q)
      OBVIOUS
    <2>1. RequestFits(r) /\ r \in SentUpdates \cup SentReplays \cup Answered
      BY DEF PanelInv, PanelTypes
    <2>2. CASE r \in SentUpdates
      <3>1. q \in SentUpdates /\ q.phase = r.phase /\ q.previous = r.previous /\ q.kind = r.kind
            /\ q.field = r.field /\ q.value = r.value /\ q.expected = r.expected
            /\ r.phase = "sent"
        BY <2>2 DEF SentUpdates
      <3> QED
        BY <2>1, <3>1 DEF RequestFits
    <2>3. CASE r \in SentReplays
      <3>1. q \in SentReplays /\ q.phase = r.phase /\ q.previous = r.previous /\ q.kind = r.kind
            /\ r.phase = "sent" /\ r.kind # "update"
        BY <2>3 DEF SentReplays
      <3> QED
        BY <2>1, <3>1 DEF RequestFits
    <2>4. CASE r \in Answered
      <3>1. q \in Answered /\ q.phase = r.phase /\ q.task = r.task /\ r.phase # "sent"
        BY <2>4 DEF Answered
      <3> QED
        BY <2>1, <3>1 DEF RequestFits
    <2> QED
      BY <2>1, <2>2, <2>3, <2>4
  <1>3. joining' \in {NoAddition} \cup Additions /\ AdditionFits'
    <2>1. PICK page : page = [Render EXCEPT !.mounted = FALSE]
      OBVIOUS
    <2>2. page \in Renders /\ page.version = cached.version /\ page.people = cached.value["people"]
      BY <2>1, ShownHolds DEF Render, Renders
    <2>3. CASE joining.kind = "mounted"
      <3>1. joining.item \in Items
        BY <2>3 DEF PanelInv, PanelTypes, NoAddition, Additions
      <3>2. joining' = [kind |-> "left", item |-> joining.item, page |-> page]
        BY <1>1, <2>1, <2>3
      <3>3. joining' \in Additions
        BY <2>2, <3>1, <3>2 DEF Additions
      <3>4. Holds("people", cached.value["people"], cached.version)
        BY ShownHolds
      <3>5. Holds("people", page.people, page.version)'
        BY <1>1, <2>2, <3>4 DEF Holds
      <3> QED
        BY <3>2, <3>3, <3>5 DEF AdditionFits
    <2>4. CASE joining.kind # "mounted"
      BY <1>1, <2>4 DEF PanelInv, PanelTypes, AdditionFits, Holds
    <2> QED
      BY <2>3, <2>4
  <1>4. PanelTypes'
    BY <1>1, <1>2, <1>3 DEF PanelInv, PanelTypes, NoDraft
  <1>5. \A q \in requests' : RequestFits(q)'
    <2> SUFFICES ASSUME NEW r \in requests, NEW q, q = [r EXCEPT !.mounted = FALSE]
                 PROVE  RequestFits(q)'
      BY <1>1
    <2>1. RequestFits(q)
      BY <1>2
    <2> QED
      BY <1>1, <2>1 DEF RequestFits, Fits, Holds
  <1> QED
    BY <1>1, <1>3, <1>4, <1>5, CacheStaysInv

-----------------------------------------------------------------------------
(* The panel of a task: the theorem *)

LEMMA PanelInvInit == PanelInit => PanelInv
  <1> SUFFICES ASSUME PanelInit PROVE PanelInv
    OBVIOUS
  <1>1. NewTask \in Values /\ \A f \in Fields : NewTask[f] = {}
    BY DEF NewTask, Values
  <1>2. /\ server = [version |-> 1, value |-> NewTask, touched |-> [f \in Fields |-> 1]]
        /\ cached = TaskOf(server) /\ op = NoOp /\ draft = NoDraft
        /\ requests = {} /\ joining = NoAddition /\ kept = {}
    BY DEF PanelInit
  <1>3. PanelTypes
    BY <1>1, <1>2 DEF PanelTypes, TaskOf, Pages, NoDraft
  <1>4. \A f \in Fields : \A value : Holds(f, value, 1)
    BY <1>2 DEF Holds
  <1>5. Fits(cached) /\ cached.version = 1
    BY <1>2, <1>4 DEF Fits, TaskOf
  <1> QED
    BY <1>2, <1>3, <1>4, <1>5 DEF PanelInv, AdditionFits, OperationFits, NoAddition

LEMMA PanelInvNext == PanelInv /\ [PanelNext]_panelVars => PanelInv'
  <1> SUFFICES ASSUME PanelInv, [PanelNext]_panelVars PROVE PanelInv'
    OBVIOUS
  <1>1. ASSUME NEW f \in Fields, NEW i \in Theirs, OthersAdd(f, i) PROVE PanelInv'
    BY <1>1, OthersAddKeeps
  <1>2. ASSUME NEW r \in requests,
               ServeUpdate(r) \/ ServeReplay(r) \/ Fail(r) \/ Saved(r) \/ Refused(r)
        PROVE  PanelInv'
    BY <1>2, ServeUpdateKeeps, ServeReplayKeeps, FailKeeps, SavedKeeps, RefusedKeeps
  <1>3. ASSUME NEW i \in Items, Toggle(i) \/ AddTag(i) \/ AddField(i) \/ AddMember(i)
        PROVE  PanelInv'
    BY <1>3, ToggleKeeps, AddTagKeeps, AddFieldKeeps, AddMemberKeeps
  <1>4. CASE SaveFields \/ MemberAdded \/ MemberRefused \/ Learn \/ Reopen
    BY <1>4, SaveFieldsKeeps, MemberAddedKeeps, MemberRefusedKeeps, LearnKeeps, ReopenKeeps
  <1>5. CASE Replay("undo") \/ Replay("redo")
    BY <1>5, ReplayKeeps
  <1>6. CASE UNCHANGED panelVars
    <2>1. PanelTypes' /\ AdditionFits'
      BY <1>6 DEF panelVars, PanelInv, PanelTypes, AdditionFits, Holds
    <2> QED
      BY <1>6, <2>1, CacheStaysInv DEF panelVars
  <1> QED
    BY <1>1, <1>2, <1>3, <1>4, <1>5, <1>6 DEF PanelNext

\* Whoever wrote an item finds it in the task until a user takes it out or undoes
\* it, whatever the pages showed from which saves, undos and pickers were sent
\* (onMutate, saveFields and assign in task-detail-panel.tsx).
THEOREM PanelDropsNothing == PanelSpec => []NothingIsDropped
  <1>1. PanelInv => NothingIsDropped
    BY DEF PanelInv, Holds, NothingIsDropped
  <1> QED
    BY <1>1, PanelInvInit, PanelInvNext, PTL DEF PanelSpec

-----------------------------------------------------------------------------
(* The shell: types *)

Creations == [for : Projects, from : Addresses \cup {None}]

ShellTypes ==
  /\ TypeOK
  /\ creations \subseteq Creations
  /\ served \in Seq(Projects) /\ served # <<>>
  /\ adding \in Projects \cup {None}

\* The only part that an address asked for may lack: a search that is in the box
\* still, which the effect writes once the address is shown.
Rewrites == asked.place = shown.place /\ box = wanted.q /\ ~armed

\* What was asked for is what the user wants, or else what is shown; but for
\* what was overtaken, and for a search that is still to be written.
AskedAsWanted ==
  Pending => \A f \in Parts \ overtaken : asked[f] = wanted[f] \/ (f = "q" /\ Rewrites)
ShownAsWanted ==
  ~Pending => \A f \in Parts \ overtaken : shown[f] = wanted[f] \/ (f = "q" /\ armed)
OnlySearchOvertaken == ~Pending => overtaken \subseteq {"q"}

ShellInv == ShellTypes /\ AskedAsWanted /\ ShownAsWanted /\ OnlySearchOvertaken

LEMMA AddressFields ==
  ASSUME NEW a \in Addresses
  PROVE  /\ a.place \in Places /\ a.q \in Texts /\ a.status \in {All, "todo"}
         /\ a.view \in {"list", "board"} /\ a # None
  BY NoneIsNoAddress DEF Addresses

\* An address is made from its parts.
LEMMA AddressOf ==
  ASSUME NEW a, DOMAIN a = Parts, a = [f \in Parts |-> a[f]],
         a["place"] \in Places, a["q"] \in Texts, a["status"] \in {All, "todo"},
         a["view"] \in {"list", "board"}
  PROVE  a \in Addresses
  BY DEF Parts, Addresses

LEMMA PlainAddress ==
  ASSUME NEW place \in Places
  PROVE  /\ Plain(place) \in Addresses /\ Plain(place).place = place /\ Plain(place).q = ""
         /\ Plain(place).status = All /\ Plain(place).view = "list"
  BY DEF Plain, Addresses, Texts

\* An address with one part changed.
LEMMA PlaceChanged ==
  ASSUME NEW a \in Addresses, NEW place \in Places
  PROVE  LET b == [a EXCEPT !.place = place]
         IN  /\ b \in Addresses /\ b.place = place
             /\ b.q = a.q /\ b.status = a.status /\ b.view = a.view
  BY DEF Addresses

LEMMA SearchChanged ==
  ASSUME NEW a \in Addresses, NEW text \in Texts
  PROVE  LET b == [a EXCEPT !.q = text]
         IN  /\ b \in Addresses /\ b.q = text
             /\ b.place = a.place /\ b.status = a.status /\ b.view = a.view
  BY DEF Addresses

LEMMA StatusChanged ==
  ASSUME NEW a \in Addresses, NEW value \in {All, "todo"}
  PROVE  LET b == [a EXCEPT !.status = value]
         IN  /\ b \in Addresses /\ b.status = value
             /\ b.place = a.place /\ b.q = a.q /\ b.view = a.view
  BY DEF Addresses

LEMMA ViewChanged ==
  ASSUME NEW a \in Addresses, NEW view \in {"list", "board"}
  PROVE  LET b == [a EXCEPT !.view = view]
         IN  /\ b \in Addresses /\ b.view = view
             /\ b.place = a.place /\ b.q = a.q /\ b.status = a.status
  BY DEF Addresses

LEMMA PartsAre ==
  ASSUME NEW f \in Parts
  PROVE  f = "place" \/ f = "q" \/ f = "status" \/ f = "view"
  BY DEF Parts

-----------------------------------------------------------------------------
(* The shell: the router *)

\* A request for an address brings about that what is asked for is what is
\* wanted, if that holds of the parts just chosen, and of the others whenever the
\* request is in its turn.
LEMMA AskInv ==
  ASSUME NEW address \in Addresses, NEW chosen, NEW outOfTurn \in BOOLEAN,
         Ask(address, chosen, outOfTurn),
         \A f \in Parts \cap chosen : address[f] = wanted'[f],
         ~outOfTurn => \A f \in Parts \ (chosen \cup overtaken) :
                         address[f] = wanted'[f] \/ (f = "q" /\ Rewrites')
  PROVE  /\ asked' = address /\ Pending'
         /\ AskedAsWanted' /\ ShownAsWanted' /\ OnlySearchOvertaken'
         /\ overtaken \subseteq Parts => overtaken' \subseteq Parts
  <1>1. /\ asked' = address
        /\ overtaken' = (overtaken \ chosen) \cup
             {f \in Parts \ chosen : outOfTurn /\ address[f] # wanted'[f]}
    BY DEF Ask
  <1>2. Pending'
    BY <1>1, NoneIsNoAddress DEF Pending
  <1>3. ASSUME NEW f \in Parts, f \notin overtaken'
        PROVE  asked'[f] = wanted'[f] \/ (f = "q" /\ Rewrites')
    <2>1. CASE f \in chosen
      BY <1>1, <2>1
    <2>2. CASE f \notin chosen
      BY <1>1, <1>3, <2>2
    <2> QED
      BY <2>1, <2>2
  <1>4. AskedAsWanted'
    BY <1>3 DEF AskedAsWanted
  <1> QED
    BY <1>1, <1>2, <1>4 DEF ShownAsWanted, OnlySearchOvertaken

\* When nothing is under way, the page is as the user wants it, but perhaps for
\* the search.
LEMMA InTurn ==
  ASSUME ShellInv, ~Pending
  PROVE  /\ shown.place = wanted.place /\ shown.status = wanted.status /\ shown.view = wanted.view
         /\ overtaken \subseteq {"q"}
         /\ ~armed /\ "q" \notin overtaken => shown.q = wanted.q
  <1>1. \A f \in Parts \ overtaken : shown[f] = wanted[f] \/ (f = "q" /\ armed)
    BY DEF ShellInv, ShownAsWanted
  <1>2. overtaken \subseteq {"q"}
    BY DEF ShellInv, OnlySearchOvertaken
  <1>3. shown["place"] = wanted["place"] /\ shown["status"] = wanted["status"]
        /\ shown["view"] = wanted["view"]
    BY <1>1, <1>2 DEF Parts
  <1>4. ~armed /\ "q" \notin overtaken => shown["q"] = wanted["q"]
    BY <1>1 DEF Parts
  <1> QED
    BY <1>2, <1>3, <1>4

LEMMA NavigateInv ==
  ASSUME ShellInv, NEW address \in Addresses, NEW wish \in Addresses, NEW chosen,
         Navigate(address, wish, chosen), quick' \in {"closed", "text", "found"},
         \A f \in Parts \cap chosen : address[f] = wish[f],
         ~Pending /\ ~armed => \A f \in Parts \ (chosen \cup overtaken) :
           address[f] = wish[f] \/ (f = "q" /\ address.place = shown.place /\ box = wish.q)
  PROVE  ShellInv'
  <1>1. /\ moves < MaxMoves /\ moves' = moves + 1 /\ wanted' = wish
        /\ Ask(address, chosen, Pending \/ armed)
        /\ UNCHANGED <<shown, box, armed, dialog, creations, home, projects, served, reading, adding>>
    BY DEF Navigate, Move, lists
  <1>2. asked' = address
    BY <1>1 DEF Ask
  <1>3. (Pending \/ armed) \in BOOLEAN
    BY DEF Pending, ShellInv, ShellTypes, TypeOK
  <1>4. \A f \in Parts \cap chosen : address[f] = wanted'[f]
    BY <1>1
  <1>5. ~(Pending \/ armed) => \A f \in Parts \ (chosen \cup overtaken) :
           address[f] = wanted'[f] \/ (f = "q" /\ Rewrites')
    BY <1>1, <1>2 DEF Rewrites
  <1>6. AskedAsWanted' /\ ShownAsWanted' /\ OnlySearchOvertaken'
        /\ (overtaken \subseteq Parts => overtaken' \subseteq Parts)
    BY <1>1, <1>3, <1>4, <1>5, AskInv
  <1>7. moves' \in 0..MaxMoves
    BY <1>1, WorkspaceAssumption DEF ShellInv, ShellTypes, TypeOK
  <1>8. ShellTypes'
    BY <1>1, <1>2, <1>6, <1>7 DEF ShellInv, ShellTypes, TypeOK
  <1> QED
    BY <1>6, <1>8 DEF ShellInv

\* A request that changes the place alone, and keeps the filters.
LEMMA PlaceInv ==
  ASSUME ShellInv, NEW place \in Places,
         Navigate(InProject(place), [wanted EXCEPT !.place = place], {"place"}), UNCHANGED quick
  PROVE  ShellInv'
  <1>1. PICK address : address = InProject(place)
    OBVIOUS
  <1>2. PICK wish : wish = [wanted EXCEPT !.place = place]
    OBVIOUS
  <1>3. /\ address \in Addresses /\ address.place = place
        /\ address.q = shown.q /\ address.status = shown.status /\ address.view = shown.view
    BY <1>1, PlaceChanged DEF InProject, ShellInv, ShellTypes, TypeOK
  <1>4. /\ wish \in Addresses /\ wish.place = place
        /\ wish.q = wanted.q /\ wish.status = wanted.status /\ wish.view = wanted.view
    BY <1>2, PlaceChanged DEF ShellInv, ShellTypes, TypeOK
  <1>5. address["place"] = wish["place"]
    BY <1>3, <1>4
  <1>6. ASSUME ~Pending, ~armed, NEW f \in Parts \ ({"place"} \cup overtaken)
        PROVE  address[f] = wish[f]
    <2>1. f = "q" \/ f = "status" \/ f = "view"
      BY <1>6, PartsAre
    <2>2. shown.status = wanted.status /\ shown.view = wanted.view
          /\ ("q" \notin overtaken => shown.q = wanted.q)
      BY <1>6, InTurn
    <2> QED
      BY <1>3, <1>4, <1>6, <2>1, <2>2
  <1>7. quick' \in {"closed", "text", "found"}
    BY DEF ShellInv, ShellTypes, TypeOK
  <1>8. Navigate(address, wish, {"place"})
    BY <1>1, <1>2
  <1> QED
    BY <1>3, <1>4, <1>5, <1>6, <1>7, <1>8, NavigateInv

\* A link or a task found opens a place without a query; where it is the place
\* that is shown, the text in the box is written again.
LEMMA FollowInv ==
  ASSUME ShellInv, NEW place \in Places, Follow(place), quick' \in {"closed", "text", "found"}
  PROVE  ShellInv'
  <1>1. PICK address : address = Plain(place)
    OBVIOUS
  <1>2. PICK text : text = IF place = shown.place THEN box ELSE ""
    OBVIOUS
  <1>3. PICK wish : wish = [address EXCEPT !.q = text]
    OBVIOUS
  <1>4. PICK chosen : chosen = {f \in Parts : address[f] = wish[f]}
    OBVIOUS
  <1>5. Navigate(address, wish, chosen)
    BY <1>1, <1>2, <1>3, <1>4 DEF Follow
  <1>6. text \in Texts
    BY <1>2 DEF ShellInv, ShellTypes, TypeOK, Texts
  <1>7. address \in Addresses /\ address.place = place
    BY <1>1, PlainAddress
  <1>8. /\ wish \in Addresses /\ wish.q = text /\ wish.place = address.place
        /\ wish.status = address.status /\ wish.view = address.view
    BY <1>3, <1>6, <1>7, SearchChanged
  <1>9. address.q = ""
    BY <1>1, PlainAddress
  <1>10. \A f \in Parts : address[f] = wish[f] \/ (f = "q" /\ place = shown.place /\ box = wish.q)
    <2> SUFFICES ASSUME NEW f \in Parts
                 PROVE  address[f] = wish[f] \/ (f = "q" /\ place = shown.place /\ box = wish.q)
      OBVIOUS
    <2>1. f = "place" \/ f = "q" \/ f = "status" \/ f = "view"
      BY PartsAre
    <2> QED
      BY <1>2, <1>8, <1>9, <2>1
  <1>11. \A f \in Parts \cap chosen : address[f] = wish[f]
    BY <1>4
  <1> QED
    BY <1>5, <1>7, <1>8, <1>10, <1>11, NavigateInv

\* The router shows what it was asked for: another place mounts another shell,
\* which takes its search from the address; the same place keeps what is typed,
\* and the effect of the search box writes it again when the query changes.
LEMMA CommitInv ==
  ASSUME ShellInv, Commit
  PROVE  ShellInv'
  <1>1. /\ asked # None /\ shown' = asked /\ asked' = None /\ (Mounted \/ Rerendered)
        /\ UNCHANGED <<home, projects, served, reading, adding, moves>>
    BY DEF Commit, Pending, lists
  <1>2. asked \in Addresses /\ shown \in Addresses /\ wanted \in Addresses /\ ~Pending'
    BY <1>1 DEF ShellInv, ShellTypes, TypeOK, Pending
  <1>3. asked.place \in Places /\ asked.q \in Texts /\ asked.status \in {All, "todo"}
        /\ asked.view \in {"list", "board"} /\ wanted.q \in Texts
    BY <1>2, AddressFields
  <1>4. \A f \in Parts \ overtaken : asked[f] = wanted[f] \/ (f = "q" /\ Rewrites)
    BY <1>1 DEF ShellInv, AskedAsWanted, Pending
  <1>5. ASSUME NEW lost, NEW text \in Texts, Accept(lost, text), overtaken \subseteq lost
        PROVE  /\ wanted' \in Addresses
               /\ \A f \in Parts \ {"q"} : wanted'[f] = asked[f]
               /\ wanted'["q"] = IF "q" \in lost THEN text ELSE wanted["q"]
    <2>1. wanted' = [f \in Parts |-> IF f \notin lost THEN wanted[f]
                                     ELSE IF f = "q" THEN text ELSE asked[f]]
      BY <1>5 DEF Accept
    <2>2. \A f \in Parts \ {"q"} : wanted'[f] = asked[f]
      BY <1>4, <1>5, <2>1
    <2>3. wanted'["q"] = IF "q" \in lost THEN text ELSE wanted["q"]
      BY <2>1 DEF Parts
    <2>4. wanted'["place"] \in Places /\ wanted'["status"] \in {All, "todo"}
          /\ wanted'["view"] \in {"list", "board"} /\ wanted'["q"] \in Texts
      BY <1>3, <1>5, <2>2, <2>3 DEF Parts
    <2>5. PICK w : w = wanted'
      OBVIOUS
    <2>6. DOMAIN w = Parts /\ w = [f \in Parts |-> w[f]]
      BY <2>1, <2>5
    <2>7. w \in Addresses
      BY <2>4, <2>5, <2>6, AddressOf
    <2> QED
      BY <2>2, <2>3, <2>5, <2>7
  <1>6. CASE Mounted
    <2>1. /\ box' = asked.q /\ armed' = FALSE /\ quick' = "closed" /\ dialog' = None
          /\ creations' = {IF c.from = None THEN [c EXCEPT !.from = shown] ELSE c : c \in creations}
          /\ overtaken' = {}
      BY <1>6 DEF Mounted
    <2>2. PICK gone : gone = IF armed THEN overtaken \cup {"q"} ELSE overtaken
      OBVIOUS
    <2>3. Accept(gone, asked.q) /\ overtaken \subseteq gone
      BY <1>6, <2>2 DEF Mounted
    <2>4. /\ wanted' \in Addresses
          /\ \A f \in Parts \ {"q"} : wanted'[f] = asked[f]
          /\ wanted'["q"] = IF "q" \in gone THEN asked.q ELSE wanted["q"]
      BY <1>3, <1>5, <2>3
    <2>5. wanted'["q"] = asked.q
      <3>1. CASE "q" \in gone
        BY <2>4, <3>1
      <3>2. CASE "q" \notin gone
        <4>1. "q" \notin overtaken /\ ~armed /\ ~Rewrites
          BY <1>6, <2>2, <3>2 DEF Mounted, Rewrites
        <4>2. asked["q"] = wanted["q"]
          BY <1>4, <4>1 DEF Parts
        <4> QED
          BY <2>4, <3>2, <4>2
      <3> QED
        BY <3>1, <3>2
    <2>6. creations' \subseteq Creations
      <3> SUFFICES ASSUME NEW c \in creations
                   PROVE  (IF c.from = None THEN [c EXCEPT !.from = shown] ELSE c) \in Creations
        BY <2>1
      <3>1. c \in Creations
        BY DEF ShellInv, ShellTypes
      <3> QED
        BY <1>2, <3>1 DEF Creations
    <2>7. ShellTypes'
      BY <1>1, <1>2, <1>3, <2>1, <2>4, <2>6 DEF ShellInv, ShellTypes, TypeOK
    <2>8. \A f \in Parts : shown'[f] = wanted'[f]
      BY <1>1, <2>4, <2>5
    <2> QED
      BY <1>2, <2>1, <2>7, <2>8 DEF ShellInv, AskedAsWanted, ShownAsWanted, OnlySearchOvertaken
  <1>7. CASE Rerendered
    <2>1. /\ asked.place = shown.place
          /\ armed' = IF asked # shown THEN box # asked.q ELSE armed
          /\ Accept(overtaken, box)
          /\ overtaken' = IF asked = shown /\ ~armed /\ box # asked.q THEN {"q"} ELSE {}
          /\ UNCHANGED <<box, quick, dialog, creations>>
      BY <1>7 DEF Rerendered, Rerun
    <2>2. box \in Texts /\ armed \in BOOLEAN
      BY DEF ShellInv, ShellTypes, TypeOK
    <2>3. /\ wanted' \in Addresses
          /\ \A f \in Parts \ {"q"} : wanted'[f] = asked[f]
          /\ wanted'["q"] = IF "q" \in overtaken THEN box ELSE wanted["q"]
      BY <1>5, <2>1, <2>2
    <2>4. ASSUME ~armed', "q" \notin overtaken' PROVE wanted'["q"] = asked.q
      <3>1. box = asked.q
        BY <2>1, <2>4, <2>2
      <3>2. CASE "q" \in overtaken
        BY <2>3, <3>1, <3>2
      <3>3. CASE "q" \notin overtaken
        <4>1. asked["q"] = wanted["q"] \/ Rewrites
          BY <1>4, <3>3 DEF Parts
        <4> QED
          BY <2>3, <3>1, <3>3, <4>1 DEF Rewrites
      <3> QED
        BY <3>2, <3>3
    <2>5. ShellTypes'
      BY <1>1, <1>2, <2>1, <2>2, <2>3 DEF ShellInv, ShellTypes, TypeOK, Parts
    <2>6. ShownAsWanted'
      BY <1>1, <2>3, <2>4 DEF ShownAsWanted
    <2> QED
      BY <1>2, <2>1, <2>5, <2>6 DEF ShellInv, AskedAsWanted, OnlySearchOvertaken
  <1> QED
    BY <1>1, <1>6, <1>7

-----------------------------------------------------------------------------
(* The shell: the search box, the filters and the places *)

LEMMA TypeSearchInv ==
  ASSUME ShellInv, NEW text \in Texts, TypeSearch(text)
  PROVE  ShellInv'
  <1>1. /\ moves < MaxMoves /\ moves' = moves + 1
        /\ box' = text /\ armed' = (text # shown.q) /\ wanted' = [wanted EXCEPT !.q = text]
        /\ overtaken' = IF Pending THEN overtaken \cup {"q"} ELSE overtaken \ {"q"}
        /\ UNCHANGED <<shown, asked, quick, dialog, creations, home, projects, served, reading, adding>>
    BY DEF TypeSearch, Move, lists
  <1>2. PICK w : w = [wanted EXCEPT !.q = text]
    OBVIOUS
  <1>3. /\ w \in Addresses /\ w.q = text
        /\ w.place = wanted.place /\ w.status = wanted.status /\ w.view = wanted.view
    BY <1>2, SearchChanged DEF ShellInv, ShellTypes, TypeOK
  <1>4. wanted' = w /\ \A f \in Parts \ {"q"} : w[f] = wanted[f]
    BY <1>1, <1>2, <1>3, PartsAre
  <1>5. moves' \in 0..MaxMoves
    BY <1>1, WorkspaceAssumption DEF ShellInv, ShellTypes, TypeOK
  <1>6. ShellTypes'
    BY <1>1, <1>3, <1>4, <1>5 DEF ShellInv, ShellTypes, TypeOK, Parts
  <1>7. Pending' = Pending
    BY <1>1 DEF Pending
  <1>8. AskedAsWanted'
    BY <1>1, <1>4, <1>7 DEF ShellInv, AskedAsWanted
  <1>9. ShownAsWanted'
    <2> SUFFICES ASSUME ~Pending, NEW f \in Parts, f \notin overtaken'
                 PROVE  shown[f] = w[f] \/ (f = "q" /\ armed')
      BY <1>1, <1>4, <1>7 DEF ShownAsWanted
    <2>1. CASE f = "q"
      BY <1>1, <1>3, <2>1
    <2>2. CASE f # "q"
      BY <1>1, <1>4, <2>2 DEF ShellInv, ShownAsWanted
    <2> QED
      BY <2>1, <2>2
  <1>10. OnlySearchOvertaken'
    BY <1>1, <1>7 DEF ShellInv, OnlySearchOvertaken
  <1> QED
    BY <1>6, <1>8, <1>9, <1>10 DEF ShellInv

LEMMA WriteSearchInv ==
  ASSUME ShellInv, WriteSearch
  PROVE  ShellInv'
  <1>1. PICK address : address = [shown EXCEPT !.q = box]
    OBVIOUS
  <1>2. PICK chosen : chosen = IF box = wanted.q THEN {"q"} ELSE {}
    OBVIOUS
  <1>3. /\ armed' = FALSE /\ Ask(address, chosen, Pending \/ box # wanted.q)
        /\ UNCHANGED <<shown, box, quick, dialog, creations, home, projects, served, reading, adding,
                       moves, wanted>>
    BY <1>1, <1>2 DEF WriteSearch, lists
  <1>4. /\ address \in Addresses /\ address.q = box
        /\ address.place = shown.place /\ address.status = shown.status /\ address.view = shown.view
    BY <1>1, SearchChanged DEF ShellInv, ShellTypes, TypeOK
  <1>5. (Pending \/ box # wanted.q) \in BOOLEAN
    BY DEF Pending
  <1>6. \A f \in Parts \cap chosen : address[f] = wanted'[f]
    BY <1>2, <1>3, <1>4
  <1>7. ASSUME ~(Pending \/ box # wanted.q), NEW f \in Parts \ (chosen \cup overtaken)
        PROVE  address[f] = wanted'[f]
    <2>1. f = "place" \/ f = "status" \/ f = "view"
      BY <1>2, <1>7, PartsAre
    <2>2. shown.place = wanted.place /\ shown.status = wanted.status /\ shown.view = wanted.view
      BY <1>7, InTurn
    <2> QED
      BY <1>3, <1>4, <2>1, <2>2
  <1>8. /\ asked' = address /\ AskedAsWanted' /\ ShownAsWanted' /\ OnlySearchOvertaken'
        /\ overtaken \subseteq Parts => overtaken' \subseteq Parts
    BY <1>3, <1>4, <1>5, <1>6, <1>7, AskInv
  <1>9. ShellTypes'
    BY <1>3, <1>4, <1>8 DEF ShellInv, ShellTypes, TypeOK
  <1> QED
    BY <1>8, <1>9 DEF ShellInv

LEMMA SetFilterInv ==
  ASSUME ShellInv, NEW value \in {All, "todo"}, SetFilter(value)
  PROVE  ShellInv'
  <1>1. PICK address : address = [shown EXCEPT !.status = value]
    OBVIOUS
  <1>2. PICK wish : wish = [wanted EXCEPT !.status = value]
    OBVIOUS
  <1>3. Navigate(address, wish, {"status"}) /\ quick' = quick
    BY <1>1, <1>2 DEF SetFilter
  <1>4. /\ address \in Addresses /\ address.status = value
        /\ address.place = shown.place /\ address.q = shown.q /\ address.view = shown.view
    BY <1>1, StatusChanged DEF ShellInv, ShellTypes, TypeOK
  <1>5. /\ wish \in Addresses /\ wish.status = value
        /\ wish.place = wanted.place /\ wish.q = wanted.q /\ wish.view = wanted.view
    BY <1>2, StatusChanged DEF ShellInv, ShellTypes, TypeOK
  <1>6. \A f \in Parts \cap {"status"} : address[f] = wish[f]
    BY <1>4, <1>5
  <1>7. ASSUME ~Pending, ~armed, NEW f \in Parts \ ({"status"} \cup overtaken)
        PROVE  address[f] = wish[f]
    <2>1. f = "place" \/ f = "q" \/ f = "view"
      BY <1>7, PartsAre
    <2>2. shown.place = wanted.place /\ shown.view = wanted.view
          /\ ("q" \notin overtaken => shown.q = wanted.q)
      BY <1>7, InTurn
    <2> QED
      BY <1>4, <1>5, <1>7, <2>1, <2>2
  <1>8. quick' \in {"closed", "text", "found"}
    BY <1>3 DEF ShellInv, ShellTypes, TypeOK
  <1> QED
    BY <1>3, <1>4, <1>5, <1>6, <1>7, <1>8, NavigateInv

LEMMA SetViewInv ==
  ASSUME ShellInv, NEW view \in {"list", "board"}, SetView(view)
  PROVE  ShellInv'
  <1>1. PICK address : address = [shown EXCEPT !.view = view]
    OBVIOUS
  <1>2. PICK wish : wish = [wanted EXCEPT !.view = view]
    OBVIOUS
  <1>3. Navigate(address, wish, {"view"}) /\ quick' = quick
    BY <1>1, <1>2 DEF SetView
  <1>4. /\ address \in Addresses /\ address.view = view
        /\ address.place = shown.place /\ address.q = shown.q /\ address.status = shown.status
    BY <1>1, ViewChanged DEF ShellInv, ShellTypes, TypeOK
  <1>5. /\ wish \in Addresses /\ wish.view = view
        /\ wish.place = wanted.place /\ wish.q = wanted.q /\ wish.status = wanted.status
    BY <1>2, ViewChanged DEF ShellInv, ShellTypes, TypeOK
  <1>6. \A f \in Parts \cap {"view"} : address[f] = wish[f]
    BY <1>4, <1>5
  <1>7. ASSUME ~Pending, ~armed, NEW f \in Parts \ ({"view"} \cup overtaken)
        PROVE  address[f] = wish[f]
    <2>1. f = "place" \/ f = "q" \/ f = "status"
      BY <1>7, PartsAre
    <2>2. shown.place = wanted.place /\ shown.status = wanted.status
          /\ ("q" \notin overtaken => shown.q = wanted.q)
      BY <1>7, InTurn
    <2> QED
      BY <1>4, <1>5, <1>7, <2>1, <2>2
  <1>8. quick' \in {"closed", "text", "found"}
    BY <1>3 DEF ShellInv, ShellTypes, TypeOK
  <1> QED
    BY <1>3, <1>4, <1>5, <1>6, <1>7, <1>8, NavigateInv

\* The project of a page that is in the shell, and the places in it.
LEMMA InShellPlaces ==
  ASSUME ShellInv, InShell
  PROVE  /\ Project \in Projects
         /\ \A k \in Tasks \cup {None, Activity} : <<Project, k>> \in Places
  <1>1. shown.place \in Places
    BY AddressFields DEF ShellInv, ShellTypes, TypeOK
  <1>2. Project \in Projects
    BY <1>1 DEF Places, Project, InShell
  <1> QED
    BY <1>2 DEF Places

LEMMA OpenTaskInv ==
  ASSUME ShellInv, NEW t \in Tasks, OpenTask(t)
  PROVE  ShellInv'
  <1>1. PICK place : place = <<Project, t>>
    OBVIOUS
  <1>2. place \in Places
    BY <1>1, InShellPlaces DEF OpenTask, OnTasks
  <1> QED
    BY <1>1, <1>2, PlaceInv DEF OpenTask

LEMMA CloseTaskInv ==
  ASSUME ShellInv, CloseTask
  PROVE  ShellInv'
  <1>1. PICK place : place = <<Project, None>>
    OBVIOUS
  <1>2. place \in Places
    BY <1>1, InShellPlaces DEF CloseTask, OnTasks
  <1> QED
    BY <1>1, <1>2, PlaceInv DEF CloseTask

LEMMA ClickInv ==
  ASSUME ShellInv, NEW place \in Places, Click(place)
  PROVE  ShellInv'
  BY FollowInv DEF Click, ShellInv, ShellTypes, TypeOK

LEMMA LinksInv ==
  ASSUME ShellInv,
         \/ \E p \in Projects : FollowProject(p)
         \/ \E t \in Tasks : OpenNotification(t) \/ OpenSearchResult(t)
         \/ FollowActivity \/ SignOut \/ SignIn
  PROVE  ShellInv'
  <1>1. ASSUME NEW p \in Projects, FollowProject(p) PROVE ShellInv'
    <2>1. <<p, None>> \in Places
      BY DEF Places
    <2> QED
      BY <1>1, <2>1, ClickInv DEF FollowProject
  <1>2. ASSUME NEW t \in Tasks, OpenNotification(t) PROVE ShellInv'
    <2>1. PICK place : place = <<Project, t>>
      OBVIOUS
    <2>2. place \in Places /\ Click(place)
      BY <1>2, <2>1, InShellPlaces DEF OpenNotification, Click
    <2> QED
      BY <2>2, ClickInv
  <1>3. ASSUME NEW t \in Tasks, OpenSearchResult(t) PROVE ShellInv'
    <2>1. PICK place : place = <<home[t], t>>
      OBVIOUS
    <2>2. home[t] \in Projects
      BY <1>3 DEF OpenSearchResult, Found, ShellInv, ShellTypes, TypeOK
    <2>3. place \in Places /\ Follow(place) /\ quick' = "closed"
      BY <1>3, <2>1, <2>2 DEF OpenSearchResult, Places
    <2> QED
      BY <2>3, FollowInv
  <1>4. CASE FollowActivity
    <2>1. PICK place : place = <<Project, Activity>>
      OBVIOUS
    <2>2. place \in Places /\ Click(place)
      BY <1>4, <2>1, InShellPlaces DEF FollowActivity, Click
    <2> QED
      BY <2>2, ClickInv
  <1>5. CASE SignOut
    <2>1. SignInPage.place = <<None, None>> /\ <<None, None>> \in Places
      BY DEF SignInPage, Plain, Places
    <2> QED
      BY <1>5, <2>1, ClickInv DEF SignOut
  <1>6. CASE SignIn
    <2>1. PICK place : place = <<served[1], None>>
      OBVIOUS
    <2>2. served[1] \in Projects
      BY DEF ShellInv, ShellTypes
    <2>3. place \in Places /\ Follow(place) /\ quick' = quick
      BY <1>6, <2>1, <2>2 DEF SignIn, Places
    <2> QED
      BY <2>3, FollowInv DEF ShellInv, ShellTypes, TypeOK
  <1> QED
    BY <1>1, <1>2, <1>3, <1>4, <1>5, <1>6

-----------------------------------------------------------------------------
(* The shell: dialogs, creations and the lists of projects *)

\* The steps that ask nothing of the router and leave what is typed.
LEMMA ElsewhereInv ==
  ASSUME ShellInv, ShellTypes', UNCHANGED <<shown, asked, box, armed, wanted, overtaken>>
  PROVE  ShellInv'
  BY DEF ShellInv, AskedAsWanted, ShownAsWanted, OnlySearchOvertaken, Pending, Rewrites

LEMMA MovesBounded ==
  ASSUME ShellInv, Move
  PROVE  moves' \in 0..MaxMoves
  BY WorkspaceAssumption DEF ShellInv, ShellTypes, TypeOK, Move

LEMMA DialogsInv ==
  ASSUME ShellInv,
         \/ OpenGlobalSearch \/ CloseGlobalSearch \/ FindTasks
         \/ OpenCreateTask \/ CancelCreateTask
  PROVE  ShellInv'
  <1>1. /\ UNCHANGED <<shown, asked, box, armed, wanted, overtaken, creations, home, served, adding>>
        /\ quick' \in {"closed", "text", "found"} /\ dialog' \in Projects \cup {None}
    BY InShellPlaces DEF OpenGlobalSearch, CloseGlobalSearch, FindTasks, OpenCreateTask,
       CancelCreateTask, lists, ShellInv, ShellTypes, TypeOK
  <1>2. moves' \in 0..MaxMoves
    BY MovesBounded DEF OpenGlobalSearch, CloseGlobalSearch, FindTasks, OpenCreateTask,
       CancelCreateTask, ShellInv, ShellTypes, TypeOK
  <1>3. ShellTypes'
    BY <1>1, <1>2 DEF ShellInv, ShellTypes, TypeOK
  <1> QED
    BY <1>1, <1>3, ElsewhereInv

LEMMA SubmitTaskInv ==
  ASSUME ShellInv, NEW p \in Projects, SubmitTask(p)
  PROVE  ShellInv'
  <1>1. /\ creations' = creations \cup {[for |-> p, from |-> None]} /\ dialog' = p
        /\ UNCHANGED <<shown, asked, box, armed, quick, home, served, adding, wanted, overtaken>>
    BY DEF SubmitTask, lists
  <1>2. moves' \in 0..MaxMoves
    BY MovesBounded DEF SubmitTask
  <1>3. ShellTypes'
    BY <1>1, <1>2 DEF ShellInv, ShellTypes, TypeOK, Creations
  <1> QED
    BY <1>1, <1>3, ElsewhereInv

LEMMA TaskRefusedInv ==
  ASSUME ShellInv, NEW c \in creations, TaskRefused(c)
  PROVE  ShellInv'
  <1>1. /\ creations' \subseteq creations
        /\ UNCHANGED <<shown, asked, box, armed, quick, dialog, home, served, adding, moves, wanted,
                       overtaken>>
    BY DEF TaskRefused, lists, shell
  <1>2. ShellTypes'
    BY <1>1 DEF ShellInv, ShellTypes, TypeOK
  <1> QED
    BY <1>1, <1>2, ElsewhereInv

LEMMA ProjectListsInv ==
  ASSUME ShellInv,
         ReadProjects \/ ShowProjects \/ \E p \in Projects : SubmitProject(p)
  PROVE  ShellInv'
  <1>1. ASSUME NEW p \in Projects, SubmitProject(p) PROVE ShellInv'
    <2>1. /\ adding' = p /\ served' = Append(served, p)
          /\ UNCHANGED <<shown, asked, box, armed, quick, dialog, creations, home, wanted, overtaken>>
      BY <1>1 DEF SubmitProject, createProject, shell
    <2>2. moves' \in 0..MaxMoves
      BY <1>1, MovesBounded DEF SubmitProject
    <2>3. served' \in Seq(Projects) /\ served' # <<>>
      BY <2>1 DEF ShellInv, ShellTypes
    <2>4. ShellTypes'
      BY <2>1, <2>2, <2>3 DEF ShellInv, ShellTypes, TypeOK
    <2> QED
      BY <2>1, <2>4, ElsewhereInv
  <1>2. CASE ReadProjects \/ ShowProjects
    <2>1. UNCHANGED <<shown, asked, box, armed, quick, dialog, creations, home, served, adding, moves,
                      wanted, overtaken>>
      BY <1>2 DEF ReadProjects, ShowProjects, shell
    <2>2. ShellTypes'
      BY <2>1 DEF ShellInv, ShellTypes, TypeOK
    <2> QED
      BY <2>1, <2>2, ElsewhereInv
  <1> QED
    BY <1>1, <1>2

\* The answer to a creation opens the task, from the page its shell had last.
LEMMA TaskCreatedInv ==
  ASSUME ShellInv, NEW c \in creations, NEW t \in Tasks, TaskCreated(c, t)
  PROVE  ShellInv'
  <1>1. PICK page : page = IF c.from = None THEN shown ELSE c.from
    OBVIOUS
  <1>2. PICK place : place = <<c.for, t>>
    OBVIOUS
  <1>3. PICK address : address = Opened(page, place)
    OBVIOUS
  <1>4. PICK wish : wish = IF c.for = wanted.place[1] THEN [wanted EXCEPT !.place = place] ELSE Plain(place)
    OBVIOUS
  <1>5. PICK late \in BOOLEAN : late = (Pending \/ armed \/ c.from # None)
    BY DEF Pending, ShellInv, ShellTypes, TypeOK
  <1>6. /\ home' = [home EXCEPT ![t] = c.for] /\ creations' = creations \ {c}
        /\ dialog' = (IF c.from = None THEN None ELSE dialog)
        /\ wanted' = wish /\ Ask(address, {"place"}, late)
        /\ UNCHANGED <<shown, box, armed, quick, projects, served, reading, adding, moves>>
    BY <1>1, <1>2, <1>3, <1>4, <1>5 DEF TaskCreated, lists
  <1>7. c \in Creations
    BY DEF ShellInv, ShellTypes
  <1>8. page \in Addresses /\ place \in Places /\ c.for \in Projects /\ wanted \in Addresses
        /\ shown \in Addresses
    BY <1>1, <1>2, <1>7 DEF Creations, Places, ShellInv, ShellTypes, TypeOK
  <1>9. address \in Addresses /\ address.place = place
        /\ IF place[1] = page.place[1]
             THEN address.q = page.q /\ address.status = page.status /\ address.view = page.view
             ELSE address.q = "" /\ address.status = All /\ address.view = "list"
    <2>1. CASE place[1] = page.place[1]
      <3>1. address = [page EXCEPT !.place = place]
        BY <1>3, <2>1 DEF Opened
      <3> QED
        BY <1>8, <2>1, <3>1, PlaceChanged
    <2>2. CASE place[1] # page.place[1]
      <3>1. address = Plain(place)
        BY <1>3, <2>2 DEF Opened
      <3> QED
        BY <1>8, <2>2, <3>1, PlainAddress
    <2> QED
      BY <2>1, <2>2
  <1>10. wish \in Addresses /\ wish.place = place
         /\ IF place[1] = wanted.place[1]
              THEN wish.q = wanted.q /\ wish.status = wanted.status /\ wish.view = wanted.view
              ELSE wish.q = "" /\ wish.status = All /\ wish.view = "list"
    <2> place[1] = c.for
      BY <1>2
    <2>1. CASE c.for = wanted.place[1]
      <3>1. wish = [wanted EXCEPT !.place = place]
        BY <1>4, <2>1
      <3> QED
        BY <1>8, <2>1, <3>1, PlaceChanged
    <2>2. CASE c.for # wanted.place[1]
      <3>1. wish = Plain(place)
        BY <1>4, <2>2
      <3> QED
        BY <1>8, <2>2, <3>1, PlainAddress
    <2> QED
      BY <2>1, <2>2
  <1>11. \A f \in Parts \cap {"place"} : address[f] = wanted'[f]
    BY <1>6, <1>9, <1>10
  <1>12. ASSUME ~late, NEW f \in Parts \ ({"place"} \cup overtaken)
         PROVE  address[f] = wanted'[f]
    <2>1. f = "q" \/ f = "status" \/ f = "view"
      BY <1>12, PartsAre
    <2>2. page = shown /\ shown.place = wanted.place
          /\ shown.status = wanted.status /\ shown.view = wanted.view
          /\ ("q" \notin overtaken => shown.q = wanted.q)
      BY <1>1, <1>5, <1>12, InTurn
    <2>3. CASE place[1] = shown.place[1]
      <3>1. /\ address.q = shown.q /\ address.status = shown.status /\ address.view = shown.view
            /\ wish.q = wanted.q /\ wish.status = wanted.status /\ wish.view = wanted.view
        BY <1>9, <1>10, <2>2, <2>3
      <3> QED
        BY <1>6, <1>12, <2>1, <2>2, <3>1
    <2>4. CASE place[1] # shown.place[1]
      <3>1. address.q = wish.q /\ address.status = wish.status /\ address.view = wish.view
        BY <1>9, <1>10, <2>2, <2>4
      <3> QED
        BY <1>6, <2>1, <3>1
    <2> QED
      BY <2>3, <2>4
  <1>13. /\ asked' = address /\ AskedAsWanted' /\ ShownAsWanted' /\ OnlySearchOvertaken'
         /\ overtaken \subseteq Parts => overtaken' \subseteq Parts
    BY <1>6, <1>9, <1>11, <1>12, AskInv
  <1>14. ShellTypes'
    <2>1. dialog' \in Projects \cup {None} /\ home' \in [Tasks -> Projects \cup {None}]
      BY <1>6, <1>8 DEF ShellInv, ShellTypes, TypeOK
    <2>2. creations' \subseteq Creations
      BY <1>6 DEF ShellInv, ShellTypes
    <2> QED
      BY <1>6, <1>9, <1>10, <1>13, <2>1, <2>2 DEF ShellInv, ShellTypes, TypeOK
  <1> QED
    BY <1>13, <1>14 DEF ShellInv

LEMMA ProjectCreatedInv ==
  ASSUME ShellInv, ProjectCreated
  PROVE  ShellInv'
  <1>1. PICK address : address = Plain(<<adding, None>>)
    OBVIOUS
  <1>2. PICK late \in BOOLEAN : late = (Pending \/ armed)
    BY DEF Pending, ShellInv, ShellTypes, TypeOK
  <1>3. /\ adding # None /\ adding' = None /\ wanted' = address /\ Ask(address, Parts, late)
        /\ UNCHANGED <<shown, box, armed, quick, dialog, creations, home, served, reading, moves>>
    BY <1>1, <1>2 DEF ProjectCreated, shell
  <1>4. adding \in Projects
    BY <1>3 DEF ShellInv, ShellTypes
  <1>5. <<adding, None>> \in Places
    BY <1>4 DEF Places
  <1>6. address \in Addresses
    BY <1>1, <1>5, PlainAddress
  <1>7. /\ asked' = address /\ AskedAsWanted' /\ ShownAsWanted' /\ OnlySearchOvertaken'
        /\ overtaken \subseteq Parts => overtaken' \subseteq Parts
    BY <1>3, <1>6, AskInv
  <1>8. ShellTypes'
    BY <1>3, <1>6, <1>7 DEF ShellInv, ShellTypes, TypeOK
  <1> QED
    BY <1>7, <1>8 DEF ShellInv

-----------------------------------------------------------------------------
(* The shell: the theorems *)

LEMMA ShellInvInit == Init => ShellInv
  <1> SUFFICES ASSUME Init PROVE ShellInv
    OBVIOUS
  <1>1. /\ shown = Plain(<<FirstProject, None>>) /\ asked = None /\ box = "" /\ armed = FALSE
        /\ dialog = None /\ creations = {} /\ quick = "closed" /\ adding = None
        /\ home = [t \in Tasks |-> IF t = FirstTask THEN FirstProject ELSE None]
        /\ served = <<FirstProject>> /\ moves = 0 /\ wanted = shown /\ overtaken = {}
    BY DEF Init, ShellInit, SidebarInit
  <1>2. <<FirstProject, None>> \in Places
    BY WorkspaceAssumption DEF Places
  <1>3. shown \in Addresses
    BY <1>1, <1>2, PlainAddress
  <1>4. home \in [Tasks -> Projects \cup {None}]
    BY <1>1, WorkspaceAssumption
  <1>5. served \in Seq(Projects) /\ served # <<>>
    <2>1. FirstProject \in Projects
      BY WorkspaceAssumption
    <2>2. served = <<FirstProject>>
      BY DEF Init
    <2> QED
      BY <2>1, <2>2
  <1>6. moves \in 0..MaxMoves
    <2>1. MaxMoves \in Nat
      BY WorkspaceAssumption
    <2>2. moves = 0
      BY DEF Init
    <2> QED
      BY <2>1, <2>2
  <1>7. ShellTypes
    BY <1>1, <1>3, <1>4, <1>5, <1>6 DEF ShellTypes, TypeOK, Texts
  <1> QED
    BY <1>1, <1>7 DEF ShellInv, AskedAsWanted, ShownAsWanted, OnlySearchOvertaken, Pending

LEMMA ShellInvNext == ShellInv /\ [Next]_vars => ShellInv'
  <1> SUFFICES ASSUME ShellInv, [Next]_vars PROVE ShellInv'
    OBVIOUS
  <1>1. CASE Commit \/ WriteSearch
    BY <1>1, CommitInv, WriteSearchInv
  <1>2. ASSUME NEW text \in Texts, TypeSearch(text) PROVE ShellInv'
    BY <1>2, TypeSearchInv
  <1>3. ASSUME NEW value \in {All, "todo"}, SetFilter(value) PROVE ShellInv'
    BY <1>3, SetFilterInv
  <1>4. ASSUME NEW view \in {"list", "board"}, SetView(view) PROVE ShellInv'
    BY <1>4, SetViewInv
  <1>5. ASSUME NEW t \in Tasks, OpenTask(t) PROVE ShellInv'
    BY <1>5, OpenTaskInv
  <1>6. CASE \/ \E p \in Projects : FollowProject(p)
             \/ \E t \in Tasks : OpenNotification(t) \/ OpenSearchResult(t)
             \/ FollowActivity \/ SignOut \/ SignIn
    BY <1>6, LinksInv
  <1>7. CASE \/ OpenGlobalSearch \/ CloseGlobalSearch \/ FindTasks
             \/ OpenCreateTask \/ CancelCreateTask
    BY <1>7, DialogsInv
  <1>8. CASE CloseTask \/ ProjectCreated
    BY <1>8, CloseTaskInv, ProjectCreatedInv
  <1>9. ASSUME NEW p \in Projects, SubmitTask(p) PROVE ShellInv'
    BY <1>9, SubmitTaskInv
  <1>10. CASE ReadProjects \/ ShowProjects \/ \E p \in Projects : SubmitProject(p)
    BY <1>10, ProjectListsInv
  <1>11. ASSUME NEW c \in creations, TaskRefused(c) \/ \E t \in Tasks : TaskCreated(c, t)
         PROVE  ShellInv'
    BY <1>11, TaskRefusedInv, TaskCreatedInv
  <1>12. CASE UNCHANGED vars
    <2>1. ShellTypes'
      BY <1>12 DEF vars, shell, lists, ShellInv, ShellTypes, TypeOK
    <2> QED
      BY <1>12, <2>1, ElsewhereInv DEF vars, shell
  <1> QED
    BY <1>1, <1>2, <1>3, <1>4, <1>5, <1>6, <1>7, <1>8, <1>9, <1>10, <1>11, <1>12 DEF Next

\* The shell's variables keep their types: what is shown and asked of the router
\* are addresses with a place there is, and None is never asked for.
THEOREM ShellTypeCorrect == Spec => []TypeOK
  <1>1. ShellInv => TypeOK
    BY DEF ShellInv, ShellTypes
  <1> QED
    BY <1>1, ShellInvInit, ShellInvNext, PTL DEF Spec

\* When the router and the search box have come to rest, the page is where the
\* user's moves lead, but for what a request made from an older page took back
\* (the navigations of workspace-shell.tsx and project-sidebar.tsx).
THEOREM ChoicesStay == Spec => []ChoicesAreKept
  <1>1. ShellInv => ChoicesAreKept
    BY DEF ShellInv, ShownAsWanted, ChoicesAreKept
  <1> QED
    BY <1>1, ShellInvInit, ShellInvNext, PTL DEF Spec

-----------------------------------------------------------------------------
(* The in-memory workspace: sequences that are filtered *)

At(items, those) == {i \in DOMAIN items : items[i] \in those}

RankIn(at, i) == Cardinality({j \in at : j <= i})

\* Ranks number the members of a finite set of naturals from 1, in their order.
LEMMA RanksNumber ==
  ASSUME NEW n \in Nat, NEW at, at \subseteq 1..n
  PROVE  /\ IsFiniteSet(at) /\ Cardinality(at) \in Nat
         /\ \A i \in at : RankIn(at, i) \in 1..Cardinality(at)
         /\ \A i, j \in at : i < j => RankIn(at, i) < RankIn(at, j)
         /\ \A k \in 1..Cardinality(at) : \E i \in at : RankIn(at, i) = k
  <1>1. IsFiniteSet(at) /\ Cardinality(at) \in Nat
    <2>1. IsFiniteSet(1..n)
      BY FS_Interval
    <2>2. IsFiniteSet(at)
      BY <2>1, FS_Subset
    <2> QED
      BY <2>2, FS_CardinalityType
  <1> DEFINE Up(i) == {j \in at : j <= i}
  <1>2. \A i \in at : IsFiniteSet(Up(i)) /\ Cardinality(Up(i)) \in Nat /\ Cardinality(Up(i)) <= Cardinality(at)
    BY <1>1, FS_Subset, FS_CardinalityType
  <1>3. \A i \in at : Cardinality(Up(i)) # 0
    BY <1>2, FS_EmptySet
  <1>4. ASSUME NEW i \in at, NEW j \in at, i < j
        PROVE  Cardinality(Up(i)) < Cardinality(Up(j))
    <2>0. \A x \in at : x \in Int
      OBVIOUS
    <2>1. /\ \A x \in at : x <= i => x <= j
          /\ j <= j /\ ~(j <= i)
      BY <2>0, <1>4
    <2>3. Up(i) \subseteq Up(j) /\ j \in Up(j) /\ j \notin Up(i)
      BY <2>1, Zenon
    <2>2. Cardinality(Up(i)) <= Cardinality(Up(j)) /\ Cardinality(Up(i)) # Cardinality(Up(j))
      BY <2>3, <1>2, FS_Subset
    <2> QED
      BY <2>2, <1>2
  <1>5. \A k \in 1..Cardinality(at) : \E i \in at : Cardinality(Up(i)) = k
    <2> DEFINE T == 1..Cardinality(at)
               f == [i \in at |-> Cardinality(Up(i))]
    <2>1. \A i \in at : f[i] \in T
      BY <1>1, <1>2, <1>3
    <2>2. \A i, j \in at : f[i] = f[j] => i = j
      <3>1. \A i, j \in at : f[i] = f[j] => ~(i < j) /\ ~(j < i)
        BY <1>4, <1>2
      <3> QED
        BY <3>1
    <2>3. f \in Injection(at, T)
      <3> HIDE DEF T
      <3> QED
        BY <2>1, <2>2, Zenon DEF Injection, IsInjective
    <2>4. IsFiniteSet(T) /\ Cardinality(T) = Cardinality(at)
      BY <1>1, FS_Interval
    <2>5. f \in Surjection(at, T)
      <3> HIDE DEF f, T
      <3> QED
        BY <2>3, <2>4, FS_Injection
    <2> QED
      BY <2>5 DEF Surjection
  <1> QED
    BY <1>1, <1>2, <1>3, <1>4, <1>5 DEF RankIn

LEMMA OnlyIs ==
  ASSUME NEW S, NEW items \in Seq(S), NEW those
  PROVE  /\ Only(items, those) \in Seq(S)
         /\ Len(Only(items, those)) = Cardinality(At(items, those))
         /\ \A k \in DOMAIN Only(items, those) :
              \E i \in At(items, those) :
                RankIn(At(items, those), i) = k /\ Only(items, those)[k] = items[i]
         /\ \A i \in At(items, those) :
              /\ RankIn(At(items, those), i) \in DOMAIN Only(items, those)
              /\ Only(items, those)[RankIn(At(items, those), i)] = items[i]
  <1> DEFINE at == At(items, those)
             n == Cardinality(at)
             Nth(k) == CHOOSE i \in at : RankIn(at, i) = k
  <1>1. at \subseteq 1..Len(items) /\ Len(items) \in Nat
    BY DEF At
  <1>2. /\ n \in Nat
        /\ \A i \in at : RankIn(at, i) \in 1..n
        /\ \A i, j \in at : i < j => RankIn(at, i) < RankIn(at, j)
        /\ \A k \in 1..n : \E i \in at : RankIn(at, i) = k
    <2> HIDE DEF at
    <2> QED
      BY <1>1, RanksNumber
  <1>3. Only(items, those) = [k \in 1..n |-> items[Nth(k)]]
    BY DEF Only, At, RankIn
  <1> HIDE DEF at, n
  <1>4. \A k \in 1..n : Nth(k) \in at /\ RankIn(at, Nth(k)) = k
    BY <1>2
  <1>5. \A i \in at : Nth(RankIn(at, i)) = i
    <2> SUFFICES ASSUME NEW i \in at PROVE Nth(RankIn(at, i)) = i
      OBVIOUS
    <2>1. RankIn(at, i) \in 1..n
      BY <1>2
    <2>2. Nth(RankIn(at, i)) \in at /\ RankIn(at, Nth(RankIn(at, i))) = RankIn(at, i)
      BY <2>1, <1>4
    <2> DEFINE m == Nth(RankIn(at, i))
    <2> HIDE DEF m
    <2>3. m \in at /\ RankIn(at, m) = RankIn(at, i)
      BY <2>2 DEF m
    <2>4. ~(m < i) /\ ~(i < m)
      BY <2>3, <2>1, <1>2
    <2>5. m = i
      BY <2>4, <2>3, <1>1
    <2> QED
      BY <2>5 DEF m
  <1>6. \A i \in at : items[i] \in S
    BY <1>1
  <1> DEFINE r == [k \in 1..n |-> items[Nth(k)]]
  <1>7. r \in Seq(S) /\ Len(r) = n /\ DOMAIN r = 1..n
    BY <1>2, <1>4, <1>6
  <1>8. \A k \in 1..n : r[k] = items[Nth(k)]
    OBVIOUS
  <1>11. Only(items, those) = r
    BY <1>3
  <1> HIDE DEF r, Nth
  <1>9. \A k \in DOMAIN r : \E i \in at : RankIn(at, i) = k /\ r[k] = items[i]
    BY <1>4, <1>7, <1>8
  <1>10. \A i \in at : RankIn(at, i) \in DOMAIN r /\ r[RankIn(at, i)] = items[i]
    BY <1>2, <1>5, <1>7, <1>8
  <1> QED
    BY <1>11, <1>7, <1>9, <1>10 DEF at, n

LEMMA OnlyMembers ==
  ASSUME NEW S, NEW items \in Seq(S), NEW those
  PROVE  ToSet(Only(items, those)) = ToSet(items) \cap those
  <1> DEFINE at == At(items, those)
             r == Only(items, those)
  <1>1. /\ \A k \in DOMAIN r : \E i \in at : r[k] = items[i]
        /\ \A i \in at : RankIn(at, i) \in DOMAIN r /\ r[RankIn(at, i)] = items[i]
    BY OnlyIs
  <1>2. at = {i \in DOMAIN items : items[i] \in those}
    BY DEF At
  <1> HIDE DEF at, r
  <1>3. \A x : x \in ToSet(r) => x \in ToSet(items) /\ x \in those
    BY <1>1, <1>2 DEF ToSet
  <1>4. \A x : x \in ToSet(items) /\ x \in those => x \in ToSet(r)
    <2> SUFFICES ASSUME NEW i \in DOMAIN items, items[i] \in those
                 PROVE  items[i] \in ToSet(r)
      BY DEF ToSet
    <2>1. i \in at
      BY <1>2
    <2> QED
      BY <2>1, <1>1 DEF ToSet
  <1> QED
    BY <1>3, <1>4 DEF r

\* Filtering keeps the order.
LEMMA OnlyOrder ==
  ASSUME NEW S, NEW items \in Seq(S), NEW those,
         NEW k \in DOMAIN Only(items, those), NEW l \in DOMAIN Only(items, those), k < l
  PROVE  \E i, j \in DOMAIN items :
           i < j /\ items[i] = Only(items, those)[k] /\ items[j] = Only(items, those)[l]
  <1> DEFINE at == At(items, those)
             r == Only(items, those)
  <1>1. at \subseteq 1..Len(items) /\ Len(items) \in Nat /\ at \subseteq DOMAIN items
    BY DEF At
  <1>2. \A x, y \in at : x < y => RankIn(at, x) < RankIn(at, y)
    <2> HIDE DEF at
    <2> QED
      BY <1>1, RanksNumber
  <1>3. PICK i \in at : RankIn(at, i) = k /\ r[k] = items[i]
    BY OnlyIs
  <1>4. PICK j \in at : RankIn(at, j) = l /\ r[l] = items[j]
    BY OnlyIs
  <1>5. k \in Nat /\ l \in Nat
    BY OnlyIs
  <1> HIDE DEF at
  <1>6. i < j
    <2>1. i = j => k = l
      BY <1>3, <1>4
    <2>2. ~(j < i)
      BY <1>2, <1>3, <1>4, <1>5
    <2> QED
      BY <2>1, <2>2, <1>1, <1>5
  <1> QED
    BY <1>6, <1>3, <1>4, <1>1

LEMMA OnlyInjective ==
  ASSUME NEW S, NEW items \in Seq(S), NEW those, IsInjective(items)
  PROVE  IsInjective(Only(items, those))
  <1> DEFINE r == Only(items, those)
  <1>1. r \in Seq(S)
    BY OnlyIs
  <1>2. \A k, l \in DOMAIN r : k < l => \E i, j \in DOMAIN items : i < j /\ items[i] = r[k] /\ items[j] = r[l]
    BY OnlyOrder
  <1> HIDE DEF r
  <1>3. \A k, l \in DOMAIN r : k < l => r[k] # r[l]
    BY <1>1, <1>2 DEF IsInjective
  <1>4. \A k, l \in DOMAIN r : r[k] = r[l] => k = l
    BY <1>3, <1>1
  <1>5. IsInjective(r)
    BY <1>4 DEF IsInjective
  <1> QED
    BY <1>5 DEF r

-----------------------------------------------------------------------------
(* Positions *)

\* What two lists have in common is in the same order in both.
SameOrder(q, r) ==
  \A i, j \in DOMAIN q, a, b \in DOMAIN r : i < j /\ r[a] = q[i] /\ r[b] = q[j] => a < b

\* What remains of a list has not moved back.
LEMMA PositionsShrink ==
  ASSUME NEW S, NEW r \in Seq(S), NEW q \in Seq(S), IsInjective(r), IsInjective(q),
         ToSet(q) \subseteq ToSet(r), SameOrder(q, r),
         NEW k \in DOMAIN r, NEW l \in DOMAIN q, r[k] = q[l]
  PROVE  l <= k
  <1> DEFINE f == [i \in 1..l |-> CHOOSE a \in DOMAIN r : r[a] = q[i]]
  <1>1. /\ DOMAIN r = 1..Len(r) /\ DOMAIN q = 1..Len(q) /\ Len(r) \in Nat /\ Len(q) \in Nat
        /\ k \in Nat /\ l \in Nat /\ 1..l \subseteq DOMAIN q
    OBVIOUS
  <1>2. \A i \in 1..l : f[i] \in DOMAIN r /\ r[f[i]] = q[i]
    BY <1>1 DEF ToSet
  <1> HIDE DEF f
  <1>3. \A i \in 1..l : f[i] \in 1..k
    <2> SUFFICES ASSUME NEW i \in 1..l PROVE f[i] \in 1..k
      OBVIOUS
    <2>1. i < l => f[i] < k
      BY <1>1, <1>2 DEF SameOrder
    <2>2. i = l => f[i] = k
      BY <1>1, <1>2 DEF IsInjective
    <2> QED
      BY <2>1, <2>2, <1>1, <1>2
  <1>4. \A i, j \in 1..l : f[i] = f[j] => i = j
    BY <1>1, <1>2 DEF IsInjective
  <1>5. f \in Injection(1..l, 1..k)
    <2>1. f \in [1..l -> 1..k]
      BY <1>3 DEF f
    <2> DEFINE A == 1..l
               B == 1..k
    <2> HIDE DEF A, B
    <2>2. f \in [A -> B] /\ \A i, j \in A : f[i] = f[j] => i = j
      BY <2>1, <1>4 DEF A, B
    <2>3. f \in Injection(A, B)
      BY <2>2, Zenon DEF Injection, IsInjective
    <2> QED
      BY <2>3 DEF A, B
  <1>6. Cardinality(1..l) = l /\ Cardinality(1..k) = k /\ IsFiniteSet(1..k)
    BY <1>1, FS_Interval
  <1> QED
    BY <1>5, <1>6, FS_Injection

-----------------------------------------------------------------------------
(* The inductive invariant *)

TaskShape ==
  /\ list \in Seq(TaskIds) /\ IsInjective(list)
  /\ task \in [TaskIds -> MockTask]
  /\ \A t \in TaskIds : Exists(t) \/ t \in ToSet(Seeded) => task[t].version # 0

RecordShape ==
  /\ operations \in [TaskIds -> Seq(MockTaskOperation)]
  /\ \A t \in TaskIds : \A i \in DOMAIN operations[t] :
       DOMAIN operations[t][i].before = DOMAIN operations[t][i].after
  /\ history \in [TaskIds -> Entry(AssignmentHistoryItem)]
  /\ \A t \in TaskIds : task[t].version = 0 => history[t] \in {Missing, <<<<>>>>}

\* What the active operations before the n-th leave in a field.
ActiveOn(ops, f, n) ==
  {i \in DOMAIN ops : i < n /\ ops[i].state = "ACTIVE" /\ f \in DOMAIN ops[i].after}

LastBefore(ops, f, n) ==
  LET on == ActiveOn(ops, f, n)
  IN  IF on = {} THEN SeedTask[f] ELSE ops[CHOOSE i \in on : \A j \in on : j <= i].after[f]

\* An active operation gives back what the active ones before it left.
FieldExplained(showing, ops, f) ==
  /\ showing = LastBefore(ops, f, Len(ops) + 1)
  /\ \A i \in ActiveOn(ops, f, Len(ops) + 1) : ops[i].before[f] = LastBefore(ops, f, i)

EditsExplained ==
  \A t \in ToSet(Seeded) \ redone : \A f \in EditFields :
    FieldExplained(task[t][f], operations[t], f)

WalkShape == walk = NoWalk \/ walk \in Page

\* If none came to match, what was shown is behind the cursor; if none ceased
\* to, what is behind the cursor was shown.
BehindCursor(rows, n) ==
  /\ walk.came = {} => \A k \in DOMAIN rows : rows[k] \in ToSet(walk.rows) => k <= n
  /\ walk.left = {} => \A k \in DOMAIN rows : rows[k] \in walk.first /\ k <= n => rows[k] \in ToSet(walk.rows)

WalkHolds ==
  walk # NoWalk =>
    /\ walk.came = {} => IsInjective(walk.rows)
    /\ walk.left = {} => walk.first \subseteq ToSet(Rows(walk.filter))
    /\ IF walk.cursor = <<>>
         THEN walk.left = {} => walk.first \subseteq ToSet(walk.rows)
         ELSE BehindCursor(Rows(walk.filter), walk.cursor[1])

TalkShape ==
  /\ comments \in [TaskIds -> Entry(CommentItem)]
  /\ notifications \in Entry(NotificationItem)
  /\ created \subseteq TaskIds \X AllComments /\ IsFiniteSet(created)

ThreadClosed(thread) ==
  /\ \A i, j \in DOMAIN thread : thread[i].id = thread[j].id => i = j
  /\ \A i \in DOMAIN thread :
       thread[i].parent = "none" \/ \E j \in DOMAIN thread : j < i /\ thread[j].id = thread[i].parent

\* A task that was not deleted: what was posted to it is in its thread.
Undeleted(t) == Exists(t) \/ task[t].version = 0

CountsHold ==
  \A t \in TaskIds :
    /\ t \in ToSet(Seeded) => task[t].commentCount = 3 + Cardinality({c \in created : c[1] = t})
    /\ \A id \in AllComments :
         <<t, id>> \in created /\ Undeleted(t) => id \in IdsOf(CommentsFor(t))

\* Of what was told of a task that is there, the comment is in its thread and it
\* was told once; the user was told of the example only.
NoticesFit(told, there, ids) ==
  \A i \in DOMAIN told :
    /\ told[i].user # Me /\ told[i].task \in there => told[i].comment \in ids[told[i].task]
    /\ \A j \in DOMAIN told :
         /\ told[i].task \in there
         /\ told[i].user = told[j].user /\ told[i].task = told[j].task
         /\ told[i].comment = told[j].comment
         => i = j
    /\ \A j \in DOMAIN told : told[i].user = Me /\ told[j].user = Me => i = j

ThreadIds == [t \in TaskIds |-> IdsOf(CommentsFor(t))]

TasksThere == {t \in TaskIds : Undeleted(t)}

NoticesHold == NoticesFit(Got(notifications, <<>>), TasksThere, ThreadIds)

TalkHolds ==
  /\ \A t \in TaskIds : ThreadClosed(CommentsFor(t))
  /\ CountsHold /\ NoticesHold

MockInv ==
  /\ TaskShape /\ RecordShape /\ EditsExplained /\ HistoryEndsInAssignees
  /\ WalkShape /\ WalkHolds
  /\ TalkShape /\ TalkHolds

-----------------------------------------------------------------------------
(* Tasks and their fields *)

LEMMA InputFields ==
  ASSUME NEW input \in UpdateTaskInput
  PROVE  /\ DOMAIN input \subseteq {"status", "assigneeIds"}
         /\ "status" \in DOMAIN input => input["status"] \in Statuses
         /\ "assigneeIds" \in DOMAIN input => input["assigneeIds"] \in Seq(Members)
         /\ input = [f \in DOMAIN input |-> input[f]]
  <1>1. CASE input \in [status : Statuses]
    BY <1>1
  <1>2. CASE input \in [assigneeIds : Seq(Members)]
    BY <1>2
  <1>3. CASE input \in [status : Statuses, assigneeIds : Seq(Members)]
    BY <1>3
  <1> QED
    BY <1>1, <1>2, <1>3 DEF UpdateTaskInput

LEMMA EditFieldsAre == EditFields \subseteq {"status", "assigneeIds"}
  BY InputAssumption, InputFields DEF EditFields

LEMMA MockTaskFields ==
  ASSUME NEW k \in MockTask
  PROVE  /\ DOMAIN k = {"status", "assigneeIds", "dependencyIds", "commentCount", "version"}
         /\ k["status"] \in Statuses /\ k["assigneeIds"] \in Seq(Members)
         /\ k["dependencyIds"] \in SUBSET TaskIds
         /\ k["commentCount"] \in Nat /\ k["version"] \in Nat
  BY DEF MockTask

LEMMA AppliedEffect ==
  ASSUME task \in [TaskIds -> MockTask], NEW t \in TaskIds, NEW input \in UpdateTaskInput
  PROVE  /\ Applied(t, input) \in MockTask
         /\ \A f \in {"status", "assigneeIds"} :
              Applied(t, input)[f] = IF f \in DOMAIN input THEN input[f] ELSE task[t][f]
         /\ Applied(t, input).commentCount = task[t].commentCount
         /\ Applied(t, input).version = task[t].version + 1
  <1> DEFINE a == Applied(t, input)
  <1>1. task[t] \in MockTask
    OBVIOUS
  <1>2. DOMAIN a = {"status", "assigneeIds", "dependencyIds", "commentCount", "version"}
    BY <1>1, MockTaskFields DEF Applied
  <1>3. \A f \in DOMAIN a :
          a[f] = IF f \in DOMAIN input THEN input[f]
                 ELSE IF f = "version" THEN task[t].version + 1 ELSE task[t][f]
    BY DEF Applied
  <1>4. a = [f \in DOMAIN a |-> a[f]]
    BY DEF Applied
  <1> HIDE DEF a
  <1>5. DOMAIN input \subseteq {"status", "assigneeIds"}
    BY InputFields
  <1>6. /\ a["status"] = IF "status" \in DOMAIN input THEN input["status"] ELSE task[t]["status"]
        /\ a["assigneeIds"] =
             IF "assigneeIds" \in DOMAIN input THEN input["assigneeIds"] ELSE task[t]["assigneeIds"]
        /\ a["dependencyIds"] = task[t]["dependencyIds"]
        /\ a["commentCount"] = task[t]["commentCount"]
        /\ a["version"] = task[t].version + 1
    BY <1>2, <1>3, <1>5
  <1>7. a["status"] \in Statuses /\ a["assigneeIds"] \in Seq(Members)
        /\ a["dependencyIds"] \in SUBSET TaskIds /\ a["commentCount"] \in Nat /\ a["version"] \in Nat
    BY <1>1, <1>6, InputFields, MockTaskFields
  <1>8. a = [status |-> a["status"], assigneeIds |-> a["assigneeIds"],
             dependencyIds |-> a["dependencyIds"], commentCount |-> a["commentCount"],
             version |-> a["version"]]
    BY <1>2, <1>4
  <1>9. a \in MockTask
    BY <1>7, <1>8 DEF MockTask
  <1> QED
    BY <1>6, <1>9 DEF a

-----------------------------------------------------------------------------
(* Pages *)

LEMMA SetToSeqIs ==
  ASSUME NEW S, IsFiniteSet(S)
  PROVE  SetToSeq(S) \in Seq(S) /\ IsInjective(SetToSeq(S))
  <1> DEFINE n == Cardinality(S)
  <1>1. n \in Nat /\ ExistsBijection(1..n, S)
    BY FS_CardinalityType
  <1>2. \E f \in [1..n -> S] : IsInjective(f)
    BY <1>1, Zenon DEF ExistsBijection, Bijection, Injection
  <1>3. SetToSeq(S) = CHOOSE f \in [1..n -> S] : IsInjective(f)
    BY DEF SetToSeq
  <1>4. SetToSeq(S) \in [1..n -> S] /\ IsInjective(SetToSeq(S))
    BY <1>2, <1>3, Zenon
  <1> QED
    BY <1>1, <1>4

LEMMA SameOrderBack ==
  ASSUME NEW S, NEW q \in Seq(S), NEW r \in Seq(S), IsInjective(q), IsInjective(r), SameOrder(q, r)
  PROVE  SameOrder(r, q)
  <1> SUFFICES ASSUME NEW i \in DOMAIN r, NEW j \in DOMAIN r, NEW a \in DOMAIN q, NEW b \in DOMAIN q,
                      i < j, q[a] = r[i], q[b] = r[j]
               PROVE  a < b
    BY DEF SameOrder
  <1>1. a # b
    BY DEF IsInjective
  <1>2. ~(b < a)
    BY DEF SameOrder
  <1> QED
    BY <1>1, <1>2

LEMMA OnlySameOrder ==
  ASSUME NEW S, NEW p \in Seq(S), NEW s \in Seq(S), IsInjective(p), IsInjective(s), SameOrder(p, s),
         NEW J, NEW K
  PROVE  SameOrder(Only(p, J), Only(s, K))
  <1> DEFINE q == Only(p, J)
             r == Only(s, K)
  <1>1. q \in Seq(S) /\ r \in Seq(S)
    BY OnlyIs
  <1>2. \A k, l \in DOMAIN q : k < l => \E i, j \in DOMAIN p : i < j /\ p[i] = q[k] /\ p[j] = q[l]
    BY OnlyOrder
  <1>3. \A k, l \in DOMAIN r : k < l => \E i, j \in DOMAIN s : i < j /\ s[i] = r[k] /\ s[j] = r[l]
    BY OnlyOrder
  <1> HIDE DEF q, r
  <1>4. SameOrder(q, r)
    <2> SUFFICES ASSUME NEW i \in DOMAIN q, NEW j \in DOMAIN q, NEW a \in DOMAIN r, NEW b \in DOMAIN r,
                        i < j, r[a] = q[i], r[b] = q[j]
                 PROVE  a < b
      BY DEF SameOrder
    <2>1. PICK x, y \in DOMAIN p : x < y /\ p[x] = q[i] /\ p[y] = q[j]
      BY <1>2
    <2>2. a # b
      BY <2>1 DEF IsInjective
    <2>3. ASSUME b < a PROVE FALSE
      <3>1. PICK u, v \in DOMAIN s : u < v /\ s[u] = r[b] /\ s[v] = r[a]
        BY <1>3, <2>3
      <3>2. v < u
        BY <2>1, <3>1 DEF SameOrder
      <3> QED
        BY <3>1, <3>2
    <2> QED
      BY <2>2, <2>3, <1>1
  <1> QED
    BY <1>4 DEF q, r

Filters == TaskFilters \cup MemberFilters

LEMMA RowsShape ==
  ASSUME NEW ls \in Seq(TaskIds), IsInjective(ls), NEW ts, NEW filter \in Filters
  PROVE  RowsOf(ls, ts, filter) \in Seq(TaskIds \cup Members) /\ IsInjective(RowsOf(ls, ts, filter))
  <1>1. CASE filter \in TaskFilters
    <2>1. Filtered(ls, ts, filter) \in Seq(TaskIds) /\ IsInjective(Filtered(ls, ts, filter))
      BY OnlyIs, OnlyInjective DEF Filtered
    <2>2. Seq(TaskIds) \subseteq Seq(TaskIds \cup Members)
      OBVIOUS
    <2> QED
      BY <1>1, <2>1, <2>2 DEF RowsOf
  <1>2. CASE filter \notin TaskFilters
    <2>1. filter = "anybody" \/ filter \in Members
      BY <1>2 DEF Filters, MemberFilters
    <2> DEFINE S == IF filter = "anybody" THEN Members ELSE {filter}
    <2>2. S \subseteq Members /\ IsFiniteSet(S)
      BY <2>1, MockAssumption, FS_Singleton
    <2> HIDE DEF S
    <2>3. SetToSeq(S) \in Seq(S) /\ IsInjective(SetToSeq(S))
      BY <2>2, SetToSeqIs
    <2>4. Seq(S) \subseteq Seq(TaskIds \cup Members)
      BY <2>2
    <2> QED
      BY <1>2, <2>3, <2>4 DEF RowsOf, MembersFound, S
  <1> QED
    BY <1>1, <1>2

\* The rows of a filter stay in their order as long as the list does.
LEMMA RowsSameOrder ==
  ASSUME NEW p \in Seq(TaskIds), NEW s \in Seq(TaskIds), IsInjective(p), IsInjective(s),
         SameOrder(p, s), NEW ts, NEW us, NEW filter \in Filters
  PROVE  SameOrder(RowsOf(p, ts, filter), RowsOf(s, us, filter))
  <1>1. CASE filter \in TaskFilters
    BY <1>1, OnlySameOrder DEF RowsOf, Filtered
  <1>2. CASE filter \notin TaskFilters
    <2> DEFINE r == RowsOf(p, ts, filter)
    <2>1. RowsOf(s, us, filter) = r
      BY <1>2 DEF RowsOf
    <2>2. r \in Seq(TaskIds \cup Members) /\ IsInjective(r)
      BY RowsShape
    <2> HIDE DEF r
    <2>3. SameOrder(r, r)
      BY <2>2 DEF SameOrder, IsInjective
    <2> QED
      BY <2>1, <2>3 DEF r
  <1> QED
    BY <1>1, <1>2

LEMMA PageIs ==
  ASSUME NEW S, NEW rows \in Seq(S), NEW offset \in Nat
  PROVE  /\ PageAt(rows, offset) \in Seq(S)
         /\ \A i \in DOMAIN PageAt(rows, offset) :
              /\ offset + i \in DOMAIN rows /\ i <= PageSize
              /\ PageAt(rows, offset)[i] = rows[offset + i]
         /\ \A k \in DOMAIN rows :
              offset < k /\ k <= offset + PageSize =>
                k - offset \in DOMAIN PageAt(rows, offset)
  <1> DEFINE last == IF offset + PageSize < Len(rows) THEN offset + PageSize ELSE Len(rows)
  <1>1. PageSize \in Nat /\ Len(rows) \in Nat
    BY MockAssumption
  <1>2. last \in Nat /\ last <= Len(rows) /\ last <= offset + PageSize
    BY <1>1
  <1>3. \A k \in DOMAIN rows : k <= offset + PageSize => k <= last
    BY <1>1
  <1>4. PageAt(rows, offset) = SubSeq(rows, offset + 1, last)
    BY DEF PageAt
  <1> HIDE DEF last
  <1>5. CASE offset < last
    BY <1>1, <1>2, <1>3, <1>4, <1>5
  <1>6. CASE ~(offset < last)
    <2>1. SubSeq(rows, offset + 1, last) = <<>>
      BY <1>1, <1>2, <1>6
    <2> QED
      BY <1>1, <1>2, <1>3, <1>4, <1>6, <2>1
  <1> QED
    BY <1>5, <1>6

LEMMA WalkFields ==
  ASSUME NEW w \in Page
  PROVE  /\ w # NoWalk /\ w.filter \in Filters
         /\ w.rows \in Seq(TaskIds \cup Members)
         /\ w.cursor = <<>> \/ (w.cursor \in [1..1 -> Nat] /\ w.cursor # <<>> /\ w.cursor[1] \in Nat)
         /\ w.first \subseteq TaskIds \cup Members
         /\ w.came \subseteq TaskIds \cup Members /\ w.left \subseteq TaskIds \cup Members
  BY DEF Page, NoWalk, Filters, Missing

\* The rows as they are, and as they will be when the list keeps its order.
LEMMA WatchKeeps ==
  ASSUME TaskShape, WalkShape, WalkHolds, Watch,
         list' \in Seq(TaskIds), IsInjective(list'), SameOrder(list', list)
  PROVE  WalkShape' /\ WalkHolds'
  <1>1. CASE walk = NoWalk
    BY <1>1 DEF Watch, WalkShape, WalkHolds
  <1>2. CASE walk # NoWalk
    <2> DEFINE r == Rows(walk.filter)
               q == RowsOf(list', task', walk.filter)
    <2>1. walk \in Page /\ walk.filter \in Filters
      BY <1>2, WalkFields DEF WalkShape
    <2>2. r \in Seq(TaskIds \cup Members) /\ IsInjective(r)
      BY <2>1, RowsShape DEF TaskShape, Rows
    <2>3. q \in Seq(TaskIds \cup Members) /\ IsInjective(q)
      BY <2>1, RowsShape
    <2>4. SameOrder(q, r)
      BY <2>1, RowsSameOrder DEF TaskShape, Rows
    <2>5. walk' = [walk EXCEPT !.came = @ \cup (ToSet(q) \ ToSet(r)),
                               !.left = @ \cup (ToSet(r) \ ToSet(q))]
      BY <1>2 DEF Watch
    <2>6. q = Rows(walk.filter)'
      BY <1>2, <2>1, <2>5 DEF Rows, Page
    <2> HIDE DEF r, q
    <2>7. SameOrder(r, q)
      BY <2>2, <2>3, <2>4, SameOrderBack
    <2>8. ToSet(q) \subseteq TaskIds \cup Members /\ ToSet(r) \subseteq TaskIds \cup Members
      BY <2>2, <2>3 DEF ToSet
    <2>9. /\ walk' \in Page /\ walk'.filter = walk.filter /\ walk'.rows = walk.rows
          /\ walk'.cursor = walk.cursor /\ walk'.first = walk.first
          /\ walk'.came = walk.came \cup (ToSet(q) \ ToSet(r))
          /\ walk'.left = walk.left \cup (ToSet(r) \ ToSet(q))
      BY <2>1, <2>5, <2>8 DEF Page
    <2>10. walk'.came = {} => walk.came = {} /\ ToSet(q) \subseteq ToSet(r)
      BY <2>9
    <2>11. walk'.left = {} => walk.left = {} /\ ToSet(r) \subseteq ToSet(q)
      BY <2>9
    <2>12. /\ walk.came = {} => IsInjective(walk.rows)
           /\ walk.left = {} => walk.first \subseteq ToSet(r)
           /\ IF walk.cursor = <<>>
                THEN walk.left = {} => walk.first \subseteq ToSet(walk.rows)
                ELSE BehindCursor(r, walk.cursor[1])
      BY <1>2 DEF WalkHolds, r
    <2>13. ASSUME walk.cursor # <<>>, walk'.came = {}, NEW l \in DOMAIN q, q[l] \in ToSet(walk.rows)
           PROVE  l <= walk.cursor[1]
      <3>1. PICK k \in DOMAIN r : r[k] = q[l]
        BY <2>10, <2>13 DEF ToSet
      <3>2. l <= k
        BY <3>1, <2>2, <2>3, <2>4, <2>10, <2>13, PositionsShrink
      <3>3. k <= walk.cursor[1]
        BY <3>1, <2>10, <2>12, <2>13 DEF BehindCursor
      <3>4. k \in Nat /\ l \in Nat /\ walk.cursor[1] \in Nat
        BY <2>1, <2>2, <2>3, <2>13, WalkFields
      <3> QED
        BY <3>2, <3>3, <3>4
    <2>14. ASSUME walk.cursor # <<>>, walk'.left = {}, NEW l \in DOMAIN q, q[l] \in walk.first,
                  l <= walk.cursor[1]
           PROVE  q[l] \in ToSet(walk.rows)
      <3>1. PICK k \in DOMAIN r : r[k] = q[l]
        BY <2>11, <2>12, <2>14 DEF ToSet
      <3>2. k <= l
        BY <3>1, <2>2, <2>3, <2>7, <2>11, <2>14, PositionsShrink
      <3>3. k \in Nat /\ l \in Nat /\ walk.cursor[1] \in Nat
        BY <2>1, <2>2, <2>3, <2>14, WalkFields
      <3>4. k <= walk.cursor[1]
        BY <3>2, <3>3, <2>14
      <3> QED
        BY <3>1, <3>4, <2>11, <2>12, <2>14 DEF BehindCursor
    <2>15. /\ walk'.came = {} => IsInjective(walk'.rows)
           /\ walk'.left = {} => walk'.first \subseteq ToSet(q)
           /\ walk'.cursor = <<>> => (walk'.left = {} => walk'.first \subseteq ToSet(walk'.rows))
      BY <2>9, <2>10, <2>11, <2>12
    <2>16. walk'.cursor # <<>> =>
             /\ walk'.came = {} => \A k \in DOMAIN q : q[k] \in ToSet(walk'.rows) => k <= walk'.cursor[1]
             /\ walk'.left = {} =>
                  \A k \in DOMAIN q : q[k] \in walk'.first /\ k <= walk'.cursor[1] => q[k] \in ToSet(walk'.rows)
      BY <2>9, <2>13, <2>14
    <2>17. (Rows(walk.filter))' = q
      BY <2>6
    <2>18. walk' # NoWalk
      BY <2>9, WalkFields
    <2> QED
      BY <2>9, <2>15, <2>16, <2>17, <2>18 DEF WalkShape, WalkHolds, BehindCursor
  <1> QED
    BY <1>1, <1>2

\* Nothing a filter looks at has changed.
LEMMA WalkStays ==
  ASSUME TaskShape, WalkShape, WalkHolds, UNCHANGED <<list, walk>>,
         \A t \in TaskIds : task'[t].status = task[t].status
  PROVE  WalkShape' /\ WalkHolds'
  <1>1. WalkShape'
    BY DEF WalkShape
  <1>2. \A filter : Rows(filter)' = Rows(filter)
    <2>1. \A filter : {t \in TaskIds : Matches(task'[t], filter)} = {t \in TaskIds : Matches(task[t], filter)}
      BY DEF Matches
    <2> QED
      BY <2>1 DEF Rows, RowsOf, Filtered
  <1>3. (Rows(walk.filter))' = Rows(walk.filter)
    BY <1>2 DEF Rows, RowsOf, Filtered
  <1> QED
    BY <1>1, <1>3 DEF WalkHolds, BehindCursor

LEMMA NextCursorIs ==
  ASSUME NEW offset \in Nat, NEW total \in Nat
  PROVE  /\ NextCursor(offset, total) \in {Missing} \cup [1..1 -> Nat]
         /\ NextCursor(offset, total) # <<>> => NextCursor(offset, total)[1] = offset + PageSize
         /\ NextCursor(offset, total) = <<>> => total <= offset + PageSize
  <1>1. PageSize \in Nat
    BY MockAssumption
  <1> QED
    BY <1>1 DEF NextCursor, Missing

LEMMA FirstPageKeeps ==
  ASSUME TaskShape, NEW filter \in Filters, FirstPage(filter)
  PROVE  WalkShape' /\ WalkHolds'
  <1> DEFINE r == Rows(filter)
             page == PageAt(r, 0)
             cursor == NextCursor(0, Len(r))
  <1>1. r \in Seq(TaskIds \cup Members) /\ IsInjective(r)
    BY RowsShape DEF TaskShape, Rows
  <1>2. walk' = [filter |-> filter, rows |-> page, cursor |-> cursor,
                 first |-> ToSet(r), came |-> {}, left |-> {}]
    BY DEF FirstPage
  <1>3. UNCHANGED <<list, task>>
    BY DEF FirstPage, editVars
  <1> HIDE DEF r
  <1>4. /\ page \in Seq(TaskIds \cup Members)
        /\ \A i \in DOMAIN page : i \in DOMAIN r /\ i <= PageSize /\ page[i] = r[i]
        /\ \A k \in DOMAIN r : k <= PageSize => k \in DOMAIN page
    <2>1. PageSize \in Nat /\ Len(r) \in Nat
      BY <1>1, MockAssumption
    <2>2. /\ page \in Seq(TaskIds \cup Members)
          /\ \A i \in DOMAIN page : 0 + i \in DOMAIN r /\ i <= PageSize /\ page[i] = r[0 + i]
          /\ \A k \in DOMAIN r : 0 < k /\ k <= 0 + PageSize => k - 0 \in DOMAIN page
      BY <1>1, PageIs
    <2> HIDE DEF page
    <2> QED
      BY <1>1, <2>1, <2>2
  <1>5. /\ cursor \in {Missing} \cup [1..1 -> Nat]
        /\ cursor # <<>> => cursor[1] = PageSize
        /\ cursor = <<>> => Len(r) <= PageSize
    <2>1. PageSize \in Nat /\ Len(r) \in Nat
      BY <1>1, MockAssumption
    <2>2. 0 + PageSize = PageSize
      BY <2>1
    <2> QED
      BY <2>1, <2>2, NextCursorIs
  <1> HIDE DEF page, cursor
  <1>6. ToSet(r) \subseteq TaskIds \cup Members
    BY <1>1 DEF ToSet
  <1>7. walk' \in Page
    BY <1>2, <1>4, <1>5, <1>6 DEF Page, Filters
  <1>8. walk'.filter = filter /\ walk'.rows = page /\ walk'.cursor = cursor /\ walk'.first = ToSet(r)
    BY <1>2
  <1>9. IsInjective(page)
    BY <1>1, <1>4 DEF IsInjective
  <1>10. \A k \in DOMAIN r : r[k] \in ToSet(page) => k <= PageSize
    BY <1>1, <1>4 DEF IsInjective, ToSet
  <1>11. \A k \in DOMAIN r : k <= PageSize => r[k] \in ToSet(page)
    BY <1>4 DEF ToSet
  <1>12. cursor = <<>> => ToSet(r) \subseteq ToSet(page)
    <2> SUFFICES ASSUME cursor = <<>>, NEW k \in DOMAIN r PROVE r[k] \in ToSet(page)
      BY DEF ToSet
    <2>1. k <= PageSize
      BY <1>1, <1>5, MockAssumption
    <2> QED
      BY <2>1, <1>11
  <1>13. (Rows(walk.filter))' = r
    BY <1>3, <1>8 DEF Rows, r
  <1> QED
    BY <1>5, <1>7, <1>8, <1>9, <1>10, <1>11, <1>12, <1>13 DEF WalkShape, WalkHolds, BehindCursor

LEMMA NextPageKeeps ==
  ASSUME TaskShape, WalkShape, WalkHolds, NextPage
  PROVE  WalkShape' /\ WalkHolds'
  <1> DEFINE r == Rows(walk.filter)
             n == walk.cursor[1]
             page == PageAt(r, n)
             cursor == NextCursor(n, Len(r))
             rows == walk.rows \o page
  <1>1. walk \in Page /\ walk.cursor # <<>>
    BY DEF NextPage, WalkShape
  <1>2. /\ walk.filter \in Filters /\ walk.rows \in Seq(TaskIds \cup Members)
        /\ n \in Nat /\ Head(walk.cursor) = n
    BY <1>1, WalkFields
  <1>3. r \in Seq(TaskIds \cup Members) /\ IsInjective(r) /\ Len(r) \in Nat
    BY <1>2, RowsShape DEF TaskShape, Rows
  <1>4. walk' = [walk EXCEPT !.rows = @ \o page, !.cursor = cursor]
    BY <1>2 DEF NextPage
  <1>5. UNCHANGED <<list, task>>
    BY DEF NextPage, editVars
  <1>6. /\ walk.came = {} => IsInjective(walk.rows)
        /\ walk.left = {} => walk.first \subseteq ToSet(r)
        /\ BehindCursor(r, n)
    BY <1>1 DEF WalkHolds, NextPage
  <1>7. /\ page \in Seq(TaskIds \cup Members)
        /\ \A i \in DOMAIN page : n + i \in DOMAIN r /\ i <= PageSize /\ page[i] = r[n + i]
        /\ \A k \in DOMAIN r : n < k /\ k <= n + PageSize => k - n \in DOMAIN page
    BY <1>2, <1>3, PageIs
  <1>8. /\ cursor \in {Missing} \cup [1..1 -> Nat]
        /\ cursor # <<>> => cursor[1] = n + PageSize
        /\ cursor = <<>> => Len(r) <= n + PageSize
    BY <1>2, <1>3, NextCursorIs
  <1> HIDE DEF r, page, cursor, n
  <1>9. PageSize \in Nat
    BY MockAssumption
  <1>10. /\ rows \in Seq(TaskIds \cup Members)
         /\ \A i \in DOMAIN rows :
              \/ i \in DOMAIN walk.rows /\ rows[i] = walk.rows[i]
              \/ i - Len(walk.rows) \in DOMAIN page /\ rows[i] = page[i - Len(walk.rows)]
                   /\ i > Len(walk.rows)
         /\ ToSet(rows) = ToSet(walk.rows) \cup ToSet(page)
    <2>1. rows \in Seq(TaskIds \cup Members) /\ Len(rows) = Len(walk.rows) + Len(page)
      BY <1>2, <1>7
    <2>2. /\ \A i \in DOMAIN walk.rows : i \in DOMAIN rows /\ rows[i] = walk.rows[i]
          /\ \A i \in DOMAIN page : Len(walk.rows) + i \in DOMAIN rows /\ rows[Len(walk.rows) + i] = page[i]
      BY <1>2, <1>7
    <2>3. \A i \in DOMAIN rows :
              \/ i \in DOMAIN walk.rows /\ rows[i] = walk.rows[i]
              \/ i - Len(walk.rows) \in DOMAIN page /\ rows[i] = page[i - Len(walk.rows)]
                   /\ i > Len(walk.rows)
      BY <1>2, <1>7
    <2> HIDE DEF rows
    <2>5. \A i \in DOMAIN rows : rows[i] \in ToSet(walk.rows) \/ rows[i] \in ToSet(page)
      BY <2>3 DEF ToSet
    <2>6. /\ \A i \in DOMAIN walk.rows : walk.rows[i] \in ToSet(rows)
          /\ \A i \in DOMAIN page : page[i] \in ToSet(rows)
      BY <2>2 DEF ToSet
    <2>4. ToSet(rows) = ToSet(walk.rows) \cup ToSet(page)
      <3>1. ToSet(rows) \subseteq ToSet(walk.rows) \cup ToSet(page)
        BY <2>5 DEF ToSet
      <3>2. ToSet(walk.rows) \subseteq ToSet(rows) /\ ToSet(page) \subseteq ToSet(rows)
        BY <2>6 DEF ToSet
      <3> QED
        BY <3>1, <3>2
    <2> QED
      BY <2>1, <2>3, <2>4
  <1> HIDE DEF rows
  <1>11. /\ walk' \in Page /\ walk'.filter = walk.filter /\ walk'.rows = rows
         /\ walk'.cursor = cursor /\ walk'.first = walk.first
         /\ walk'.came = walk.came /\ walk'.left = walk.left
    BY <1>1, <1>4, <1>8, <1>10 DEF Page, rows
  <1>12. (Rows(walk.filter))' = r
    BY <1>5, <1>11 DEF Rows, r
  <1>13. \A i \in DOMAIN page : walk.came = {} => page[i] \notin ToSet(walk.rows)
    <2> SUFFICES ASSUME NEW i \in DOMAIN page, walk.came = {}, page[i] \in ToSet(walk.rows) PROVE FALSE
      OBVIOUS
    <2>1. n + i <= n
      BY <1>6, <1>7 DEF BehindCursor
    <2>2. i \in Nat /\ i > 0
      BY <1>7
    <2> QED
      BY <1>2, <2>1, <2>2 DEF n
  <1>14. \A i, j \in DOMAIN page : page[i] = page[j] => i = j
    <2> SUFFICES ASSUME NEW i \in DOMAIN page, NEW j \in DOMAIN page, page[i] = page[j] PROVE i = j
      OBVIOUS
    <2>1. n + i = n + j
      BY <1>3, <1>7 DEF IsInjective
    <2>2. i \in Nat /\ j \in Nat /\ n \in Nat
      BY <1>2, <1>7 DEF n
    <2> QED
      BY <2>1, <2>2
  <1>15. walk.came = {} => IsInjective(rows)
    <2> SUFFICES ASSUME walk.came = {}, NEW i \in DOMAIN rows, NEW j \in DOMAIN rows, rows[i] = rows[j]
                 PROVE  i = j
      BY DEF IsInjective
    <2>1. i \in Nat /\ j \in Nat /\ Len(walk.rows) \in Nat
      BY <1>2, <1>10
    <2>2. \A x \in DOMAIN walk.rows : walk.rows[x] \in ToSet(walk.rows)
      BY DEF ToSet
    <2>3. CASE i \in DOMAIN walk.rows /\ rows[i] = walk.rows[i]
      <3>1. j \in DOMAIN walk.rows /\ rows[j] = walk.rows[j]
        BY <2>2, <2>3, <1>10, <1>13
      <3> QED
        BY <2>3, <3>1, <1>6 DEF IsInjective
    <2>4. CASE /\ i - Len(walk.rows) \in DOMAIN page
               /\ rows[i] = page[i - Len(walk.rows)]
      <3>1. j - Len(walk.rows) \in DOMAIN page /\ rows[j] = page[j - Len(walk.rows)]
        BY <2>2, <2>4, <1>10, <1>13
      <3>2. i - Len(walk.rows) = j - Len(walk.rows)
        BY <2>4, <3>1, <1>14
      <3> QED
        BY <2>1, <3>2
    <2> QED
      BY <2>3, <2>4, <1>10
  <1>16. ASSUME walk.came = {}, NEW k \in DOMAIN r, r[k] \in ToSet(rows)
         PROVE  k <= n + PageSize
    <2>1. k \in Nat /\ n \in Nat
      BY <1>2, <1>3 DEF n
    <2>2. CASE r[k] \in ToSet(walk.rows)
      BY <2>1, <2>2, <1>6, <1>9, <1>16 DEF BehindCursor
    <2>3. CASE r[k] \in ToSet(page)
      <3>1. PICK i \in DOMAIN page : page[i] = r[k]
        BY <2>3 DEF ToSet
      <3>2. k = n + i /\ i <= PageSize /\ i \in Nat
        BY <3>1, <1>3, <1>7 DEF IsInjective
      <3> QED
        BY <3>2, <2>1, <1>9
    <2> QED
      BY <2>2, <2>3, <1>10, <1>16
  <1>17. ASSUME walk.left = {}, NEW k \in DOMAIN r, r[k] \in walk.first, k <= n + PageSize
         PROVE  r[k] \in ToSet(rows)
    <2>1. k \in Nat /\ n \in Nat
      BY <1>2, <1>3 DEF n
    <2>2. CASE k <= n
      BY <2>2, <1>6, <1>10, <1>17 DEF BehindCursor
    <2>3. CASE n < k
      <3>1. k - n \in DOMAIN page
        BY <2>3, <1>7, <1>17
      <3>2. page[k - n] = r[n + (k - n)] /\ n + (k - n) = k
        BY <3>1, <2>1, <1>7
      <3> QED
        BY <3>1, <3>2, <1>10 DEF ToSet
    <2> QED
      BY <2>1, <2>2, <2>3
  <1>18. walk.left = {} /\ cursor = <<>> => walk.first \subseteq ToSet(rows)
    <2> SUFFICES ASSUME walk.left = {}, cursor = <<>>, NEW x \in walk.first PROVE x \in ToSet(rows)
      OBVIOUS
    <2>1. PICK k \in DOMAIN r : r[k] = x
      BY <1>6 DEF ToSet
    <2>2. k <= n + PageSize
      BY <1>2, <1>3, <1>8, <1>9 DEF n
    <2> QED
      BY <2>1, <2>2, <1>17
  <1>19. walk' # NoWalk
    BY <1>11, WalkFields
  <1>20. /\ walk'.came = {} => IsInjective(walk'.rows)
         /\ walk'.left = {} => walk'.first \subseteq ToSet(r)
         /\ walk'.cursor = <<>> => (walk'.left = {} => walk'.first \subseteq ToSet(walk'.rows))
    BY <1>6, <1>11, <1>15, <1>18
  <1>21. walk'.cursor # <<>> =>
           /\ walk'.came = {} => \A k \in DOMAIN r : r[k] \in ToSet(walk'.rows) => k <= walk'.cursor[1]
           /\ walk'.left = {} =>
                \A k \in DOMAIN r : r[k] \in walk'.first /\ k <= walk'.cursor[1] => r[k] \in ToSet(walk'.rows)
    BY <1>8, <1>11, <1>16, <1>17
  <1> QED
    BY <1>11, <1>12, <1>19, <1>20, <1>21 DEF WalkShape, WalkHolds, BehindCursor

-----------------------------------------------------------------------------
(* The operations of a task *)

LEMMA GreatestIs ==
  ASSUME NEW n \in Nat, NEW at, at \subseteq 1..n, at # {}
  PROVE  \E i \in at : \A j \in at : j <= i
  <1>1. /\ IsFiniteSet(at) /\ Cardinality(at) \in Nat
        /\ \A i \in at : RankIn(at, i) \in 1..Cardinality(at)
        /\ \A i, j \in at : i < j => RankIn(at, i) < RankIn(at, j)
        /\ \A k \in 1..Cardinality(at) : \E i \in at : RankIn(at, i) = k
    BY RanksNumber
  <1>2. Cardinality(at) # 0
    BY <1>1, FS_EmptySet
  <1>3. PICK i \in at : RankIn(at, i) = Cardinality(at)
    BY <1>1, <1>2
  <1>4. \A j \in at : ~(i < j)
    BY <1>1, <1>3
  <1> QED
    BY <1>4

LEMMA LeastIs ==
  ASSUME NEW n \in Nat, NEW at, at \subseteq 1..n, at # {}
  PROVE  \E i \in at : \A j \in at : i <= j
  <1>1. /\ IsFiniteSet(at) /\ Cardinality(at) \in Nat
        /\ \A i \in at : RankIn(at, i) \in 1..Cardinality(at)
        /\ \A i, j \in at : i < j => RankIn(at, i) < RankIn(at, j)
        /\ \A k \in 1..Cardinality(at) : \E i \in at : RankIn(at, i) = k
    BY RanksNumber
  <1>2. Cardinality(at) # 0
    BY <1>1, FS_EmptySet
  <1>3. PICK i \in at : RankIn(at, i) = 1
    BY <1>1, <1>2
  <1>4. \A j \in at : ~(j < i)
    BY <1>1, <1>3
  <1> QED
    BY <1>4

\* The last operation of a set of them.
LEMMA LastIs ==
  ASSUME NEW n \in Nat, NEW on, on \subseteq 1..n, on # {}
  PROVE  /\ (CHOOSE i \in on : \A j \in on : j <= i) \in on
         /\ \A j \in on : j <= (CHOOSE i \in on : \A k \in on : k <= i)
  BY GreatestIs

LEMMA LastSame ==
  ASSUME NEW ops, NEW other, NEW f, NEW n, NEW m, NEW size \in Nat,
         ActiveOn(ops, f, n) = ActiveOn(other, f, m), ActiveOn(ops, f, n) \subseteq 1..size,
         \A i \in ActiveOn(ops, f, n) : ops[i].after[f] = other[i].after[f]
  PROVE  LastBefore(ops, f, n) = LastBefore(other, f, m)
  <1> DEFINE on == ActiveOn(ops, f, n)
             last == CHOOSE i \in on : \A j \in on : j <= i
  <1>1. CASE on = {}
    BY <1>1 DEF LastBefore
  <1>2. CASE on # {}
    <2>1. last \in on
      <3> HIDE DEF on
      <3> QED
        BY <1>2, LastIs DEF on
    <2>2. LastBefore(ops, f, n) = ops[last].after[f] /\ LastBefore(other, f, m) = other[last].after[f]
      BY <1>2 DEF LastBefore
    <2> HIDE DEF last
    <2> QED
      BY <2>1, <2>2
  <1> QED
    BY <1>1, <1>2

\* If one operation is the last, it is the one that shows.
LEMMA LastShows ==
  ASSUME NEW ops, NEW f, NEW n, NEW size \in Nat, ActiveOn(ops, f, n) \subseteq 1..size,
         NEW k \in ActiveOn(ops, f, n), \A i \in ActiveOn(ops, f, n) : i <= k
  PROVE  LastBefore(ops, f, n) = ops[k].after[f]
  <1> DEFINE on == ActiveOn(ops, f, n)
             last == CHOOSE i \in on : \A j \in on : j <= i
  <1>1. last \in on /\ \A j \in on : j <= last
    <2> HIDE DEF on
    <2> QED
      BY LastIs DEF on
  <1>2. LastBefore(ops, f, n) = ops[last].after[f]
    BY DEF LastBefore
  <1> HIDE DEF last
  <1>3. last = k
    BY <1>1
  <1> QED
    BY <1>2, <1>3

Invalidated(ops) ==
  [i \in DOMAIN ops |-> IF ops[i].state = "UNDONE" THEN [ops[i] EXCEPT !.state = "INVALIDATED"] ELSE ops[i]]

LEMMA OperationFields ==
  ASSUME NEW ops \in Seq(MockTaskOperation)
  PROVE  /\ DOMAIN ops = 1..Len(ops) /\ Len(ops) \in Nat
         /\ \A i \in DOMAIN ops :
              /\ ops[i] \in MockTaskOperation
              /\ ops[i].before \in UpdateTaskInput /\ ops[i].after \in UpdateTaskInput
  <1>1. \A o \in MockTaskOperation : o.before \in UpdateTaskInput /\ o.after \in UpdateTaskInput
    BY DEF MockTaskOperation
  <1> QED
    BY <1>1

LEMMA InvalidatedIs ==
  ASSUME NEW ops \in Seq(MockTaskOperation), NEW b \in UpdateTaskInput, NEW a \in UpdateTaskInput
  PROVE  LET new == Append(Invalidated(ops), [before |-> b, after |-> a, state |-> "ACTIVE"]) IN
         /\ new \in Seq(MockTaskOperation) /\ Len(new) = Len(ops) + 1
         /\ \A i \in DOMAIN ops :
              /\ i \in DOMAIN new
              /\ new[i].after = ops[i].after /\ new[i].before = ops[i].before
              /\ new[i].state = "ACTIVE" <=> ops[i].state = "ACTIVE"
         /\ new[Len(ops) + 1] = [before |-> b, after |-> a, state |-> "ACTIVE"]
  <1> DEFINE o == [before |-> b, after |-> a, state |-> "ACTIVE"]
             inv == Invalidated(ops)
             new == Append(inv, o)
  <1>1. \A x \in MockTaskOperation :
          /\ [x EXCEPT !.state = "INVALIDATED"] \in MockTaskOperation
          /\ [x EXCEPT !.state = "INVALIDATED"].after = x.after
          /\ [x EXCEPT !.state = "INVALIDATED"].before = x.before
          /\ [x EXCEPT !.state = "INVALIDATED"].state = "INVALIDATED"
    BY DEF MockTaskOperation
  <1>2. \A i \in DOMAIN ops :
          /\ inv[i] \in MockTaskOperation
          /\ inv[i].after = ops[i].after /\ inv[i].before = ops[i].before
          /\ inv[i].state = "ACTIVE" <=> ops[i].state = "ACTIVE"
    BY <1>1, OperationFields DEF Invalidated
  <1>3. DOMAIN inv = 1..Len(ops) /\ inv = [i \in 1..Len(ops) |-> inv[i]] /\ Len(ops) \in Nat
    BY OperationFields DEF Invalidated
  <1> HIDE DEF inv
  <1>4. inv \in Seq(MockTaskOperation) /\ Len(inv) = Len(ops)
    <2>1. \A i \in 1..Len(ops) : inv[i] \in MockTaskOperation
      BY <1>2, OperationFields
    <2>2. [i \in 1..Len(ops) |-> inv[i]] \in Seq(MockTaskOperation)
      BY <1>3, <2>1
    <2> QED
      BY <1>3, <2>2
  <1>5. o \in MockTaskOperation
    BY DEF MockTaskOperation
  <1> HIDE DEF o
  <1>6. /\ new \in Seq(MockTaskOperation) /\ Len(new) = Len(ops) + 1
        /\ \A i \in DOMAIN ops : i \in DOMAIN new /\ new[i] = inv[i]
        /\ new[Len(ops) + 1] = o
    BY <1>3, <1>4, <1>5
  <1> QED
    BY <1>2, <1>6 DEF o, inv

LEMMA UpdateExplained ==
  ASSUME NEW ops \in Seq(MockTaskOperation), NEW f, NEW showing, FieldExplained(showing, ops, f),
         NEW b \in UpdateTaskInput, NEW a \in UpdateTaskInput, f \in DOMAIN a => b[f] = showing
  PROVE  FieldExplained(IF f \in DOMAIN a THEN a[f] ELSE showing,
                        Append(Invalidated(ops), [before |-> b, after |-> a, state |-> "ACTIVE"]), f)
  <1> DEFINE o == [before |-> b, after |-> a, state |-> "ACTIVE"]
             new == Append(Invalidated(ops), o)
             n == Len(ops)
  <1>1. /\ new \in Seq(MockTaskOperation) /\ Len(new) = n + 1
        /\ \A i \in DOMAIN ops :
             /\ i \in DOMAIN new
             /\ new[i].after = ops[i].after /\ new[i].before = ops[i].before
             /\ new[i].state = "ACTIVE" <=> ops[i].state = "ACTIVE"
        /\ new[n + 1] = o
    BY InvalidatedIs
  <1>2. o.before = b /\ o.after = a /\ o.state = "ACTIVE"
    OBVIOUS
  <1>3. DOMAIN ops = 1..n /\ n \in Nat /\ DOMAIN new = 1..(n + 1)
    BY <1>1, OperationFields
  <1> HIDE DEF o, new, n
  <1>4. \A m \in 1..(n + 1) : ActiveOn(new, f, m) = ActiveOn(ops, f, m)
    BY <1>1, <1>3 DEF ActiveOn
  <1>5. \A m : ActiveOn(ops, f, m) \subseteq 1..n /\ ActiveOn(ops, f, m) \subseteq DOMAIN ops
    BY <1>3 DEF ActiveOn
  <1>6. \A m \in 1..(n + 1) : LastBefore(new, f, m) = LastBefore(ops, f, m)
    <2> SUFFICES ASSUME NEW m \in 1..(n + 1) PROVE LastBefore(new, f, m) = LastBefore(ops, f, m)
      OBVIOUS
    <2>1. \A i \in ActiveOn(new, f, m) : new[i].after[f] = ops[i].after[f]
      BY <1>1, <1>4, <1>5
    <2> QED
      BY <2>1, <1>3, <1>4, <1>5, LastSame
  <1>7. /\ showing = LastBefore(ops, f, n + 1)
        /\ \A i \in ActiveOn(ops, f, n + 1) : ops[i].before[f] = LastBefore(ops, f, i)
    BY DEF FieldExplained, n
  <1>8. ActiveOn(new, f, n + 2) = IF f \in DOMAIN a THEN ActiveOn(ops, f, n + 1) \cup {n + 1}
                                  ELSE ActiveOn(ops, f, n + 1)
    <2>1. \A i \in DOMAIN new : i \in DOMAIN ops \/ i = n + 1
      BY <1>3
    <2> QED
      BY <2>1, <1>1, <1>2, <1>3 DEF ActiveOn
  <1>9. ActiveOn(new, f, n + 2) \subseteq 1..(n + 1)
    BY <1>3 DEF ActiveOn
  <1>10. LastBefore(new, f, n + 2) = IF f \in DOMAIN a THEN a[f] ELSE showing
    <2>1. CASE f \in DOMAIN a
      <3>1. n + 1 \in ActiveOn(new, f, n + 2) /\ \A i \in ActiveOn(new, f, n + 2) : i <= n + 1
        BY <2>1, <1>3, <1>8, <1>9
      <3>2. LastBefore(new, f, n + 2) = new[n + 1].after[f]
        BY <3>1, <1>3, <1>9, LastShows, n + 1 \in Nat
      <3> QED
        BY <2>1, <3>2, <1>1, <1>2
    <2>2. CASE f \notin DOMAIN a
      <3>1. \A i \in ActiveOn(new, f, n + 2) : new[i].after[f] = ops[i].after[f]
        BY <2>2, <1>1, <1>5, <1>8
      <3>2. ActiveOn(new, f, n + 2) = ActiveOn(ops, f, n + 1)
        BY <2>2, <1>8
      <3>3. LastBefore(new, f, n + 2) = LastBefore(ops, f, n + 1)
        BY <3>1, <3>2, <1>3, <1>5, LastSame
      <3> QED
        BY <2>2, <3>3, <1>7
    <2> QED
      BY <2>1, <2>2
  <1>11. ASSUME NEW i \in ActiveOn(new, f, n + 2)
         PROVE  new[i].before[f] = LastBefore(new, f, i)
    <2>1. CASE i \in ActiveOn(ops, f, n + 1)
      <3>1. i \in DOMAIN ops /\ i \in 1..(n + 1)
        BY <2>1, <1>3, <1>5
      <3> QED
        BY <2>1, <3>1, <1>1, <1>6, <1>7
    <2>2. CASE f \in DOMAIN a /\ i = n + 1
      <3>1. new[i].before[f] = showing
        BY <2>2, <1>1, <1>2
      <3> QED
        BY <2>2, <3>1, <1>3, <1>6, <1>7
    <2> QED
      BY <2>1, <2>2, <1>8
  <1>12. Len(new) + 1 = n + 2
    BY <1>1, <1>3
  <1>13. FieldExplained(IF f \in DOMAIN a THEN a[f] ELSE showing, new, f)
    BY <1>10, <1>11, <1>12 DEF FieldExplained
  <1> QED
    BY <1>13 DEF new, o

LEMMA UndoneIs ==
  ASSUME NEW ops \in Seq(MockTaskOperation), NEW k \in DOMAIN ops,
         NEW state \in {"ACTIVE", "UNDONE"}, NEW new, new = [ops EXCEPT ![k].state = state]
  PROVE  /\ new \in Seq(MockTaskOperation) /\ Len(new) = Len(ops) /\ DOMAIN new = DOMAIN ops
         /\ \A i \in DOMAIN ops : new[i].after = ops[i].after /\ new[i].before = ops[i].before
         /\ \A i \in DOMAIN ops : i # k => new[i].state = ops[i].state
         /\ new[k].state = state
  <1>1. \A x \in MockTaskOperation :
          /\ [x EXCEPT !.state = state] \in MockTaskOperation
          /\ [x EXCEPT !.state = state].after = x.after
          /\ [x EXCEPT !.state = state].before = x.before
          /\ [x EXCEPT !.state = state].state = state
    BY DEF MockTaskOperation
  <1>2. DOMAIN ops = 1..Len(ops) /\ Len(ops) \in Nat /\ \A i \in DOMAIN ops : ops[i] \in MockTaskOperation
    BY OperationFields
  <1>3. /\ DOMAIN new = DOMAIN ops
        /\ \A i \in DOMAIN ops : new[i] = IF i = k THEN [ops[i] EXCEPT !.state = state] ELSE ops[i]
        /\ new = [i \in DOMAIN ops |-> new[i]]
    OBVIOUS
  <1>4. \A i \in DOMAIN ops : new[i] \in MockTaskOperation
    BY <1>1, <1>2, <1>3
  <1>5. new \in Seq(MockTaskOperation) /\ Len(new) = Len(ops)
    BY <1>2, <1>3, <1>4
  <1> QED
    BY <1>1, <1>2, <1>3, <1>5

LEMMA UndoExplained ==
  ASSUME NEW ops \in Seq(MockTaskOperation), NEW f, NEW showing, FieldExplained(showing, ops, f),
         NEW k \in DOMAIN ops, ops[k].state = "ACTIVE",
         \A i \in DOMAIN ops : ops[i].state = "ACTIVE" => i <= k
  PROVE  FieldExplained(IF f \in DOMAIN ops[k].after THEN ops[k].before[f] ELSE showing,
                        [ops EXCEPT ![k].state = "UNDONE"], f)
  <1> DEFINE new == [ops EXCEPT ![k].state = "UNDONE"]
             n == Len(ops)
  <1>1. /\ new \in Seq(MockTaskOperation) /\ Len(new) = n /\ DOMAIN new = DOMAIN ops
        /\ \A i \in DOMAIN ops : new[i].after = ops[i].after /\ new[i].before = ops[i].before
        /\ \A i \in DOMAIN ops : i # k => new[i].state = ops[i].state
        /\ new[k].state = "UNDONE"
    <2> HIDE DEF new
    <2>1. new = [ops EXCEPT ![k].state = "UNDONE"]
      BY DEF new
    <2> QED
      BY <2>1, UndoneIs
  <1>2. DOMAIN ops = 1..n /\ n \in Nat /\ k \in Nat
    BY OperationFields
  <1> HIDE DEF new, n
  <1>3. \A m : ActiveOn(new, f, m) \subseteq 1..n /\ ActiveOn(new, f, m) \subseteq DOMAIN ops
    BY <1>1, <1>2 DEF ActiveOn
  <1>4. \A m, x : ActiveOn(new, f, m) = ActiveOn(ops, f, x) =>
                    LastBefore(new, f, m) = LastBefore(ops, f, x)
    <2> SUFFICES ASSUME NEW m, NEW x, ActiveOn(new, f, m) = ActiveOn(ops, f, x)
                 PROVE  LastBefore(new, f, m) = LastBefore(ops, f, x)
      OBVIOUS
    <2>1. \A i \in ActiveOn(new, f, m) : new[i].after[f] = ops[i].after[f]
      BY <1>1, <1>3
    <2> QED
      BY <2>1, <1>2, <1>3, LastSame
  <1>5. /\ showing = LastBefore(ops, f, n + 1)
        /\ \A i \in ActiveOn(ops, f, n + 1) : ops[i].before[f] = LastBefore(ops, f, i)
    BY DEF FieldExplained, n
  <1>6. \A m \in 1..k : ActiveOn(new, f, m) = ActiveOn(ops, f, m)
    BY <1>1, <1>2 DEF ActiveOn
  <1>7. ActiveOn(new, f, n + 1) = ActiveOn(ops, f, k)
    BY <1>1, <1>2 DEF ActiveOn
  <1>8. f \notin DOMAIN ops[k].after => ActiveOn(ops, f, k) = ActiveOn(ops, f, n + 1)
    <2> SUFFICES ASSUME f \notin DOMAIN ops[k].after
                 PROVE  ActiveOn(ops, f, k) = ActiveOn(ops, f, n + 1)
      OBVIOUS
    <2>1. \A i \in DOMAIN ops : ops[i].state = "ACTIVE" /\ f \in DOMAIN ops[i].after => i < k /\ i < n + 1
      BY <1>2
    <2>2. \A i \in DOMAIN ops : i < n + 1
      BY <1>2
    <2> QED
      BY <2>1, <2>2 DEF ActiveOn
  <1>9. f \in DOMAIN ops[k].after => k \in ActiveOn(ops, f, n + 1)
    BY <1>2 DEF ActiveOn
  <1>10. LastBefore(new, f, n + 1) = IF f \in DOMAIN ops[k].after THEN ops[k].before[f] ELSE showing
    <2>1. LastBefore(new, f, n + 1) = LastBefore(ops, f, k)
      BY <1>4, <1>7
    <2>2. CASE f \in DOMAIN ops[k].after
      BY <2>1, <2>2, <1>5, <1>9
    <2>3. CASE f \notin DOMAIN ops[k].after
      <3>1. ActiveOn(new, f, n + 1) = ActiveOn(ops, f, n + 1)
        BY <2>3, <1>7, <1>8
      <3> QED
        BY <2>3, <3>1, <1>4, <1>5
    <2> QED
      BY <2>2, <2>3
  <1>11. ASSUME NEW i \in ActiveOn(new, f, n + 1)
         PROVE  new[i].before[f] = LastBefore(new, f, i)
    <2>1. i \in DOMAIN ops /\ i < k /\ i \in ActiveOn(ops, f, n + 1)
      BY <1>2, <1>7 DEF ActiveOn
    <2>2. i \in 1..k
      BY <2>1, <1>2
    <2> QED
      BY <2>1, <2>2, <1>1, <1>4, <1>5, <1>6
  <1>12. FieldExplained(IF f \in DOMAIN ops[k].after THEN ops[k].before[f] ELSE showing, new, f)
    BY <1>1, <1>10, <1>11 DEF FieldExplained
  <1> QED
    BY <1>12 DEF new

-----------------------------------------------------------------------------
(* The assignment history *)

LEMMA EntriesAre ==
  ASSUME NEW users \in Seq(Members), NEW operation \in {"ASSIGNED", "UNASSIGNED"}
  PROVE  /\ Entries(users, operation) \in Seq(AssignmentHistoryItem)
         /\ DOMAIN Entries(users, operation) = DOMAIN users
         /\ Len(Entries(users, operation)) = Len(users)
         /\ \A i \in DOMAIN users :
              Entries(users, operation)[i] = [user |-> users[i], operation |-> operation]
  <1> DEFINE e == Entries(users, operation)
  <1>1. DOMAIN users = 1..Len(users) /\ Len(users) \in Nat /\ \A i \in DOMAIN users : users[i] \in Members
    OBVIOUS
  <1>2. e = [i \in 1..Len(users) |-> [user |-> users[i], operation |-> operation]]
    BY <1>1 DEF Entries
  <1>3. \A i \in 1..Len(users) : [user |-> users[i], operation |-> operation] \in AssignmentHistoryItem
    BY <1>1 DEF AssignmentHistoryItem
  <1> QED
    BY <1>1, <1>2, <1>3

\* The first entry that satisfies something.
LEMMA FirstEntry ==
  ASSUME NEW S, NEW s \in Seq(S), NEW at, at \subseteq DOMAIN s, at # {}
  PROVE  \E i \in at : \A j \in 1..(i - 1) : j \notin at
  <1>1. at \subseteq 1..Len(s) /\ Len(s) \in Nat
    OBVIOUS
  <1>2. PICK i \in at : \A j \in at : i <= j
    BY <1>1, LeastIs
  <1>3. \A j \in 1..(i - 1) : j \notin at
    BY <1>1, <1>2
  <1> QED
    BY <1>3

LEMMA WithoutIs ==
  ASSUME NEW users \in Seq(Members), NEW rest \in Seq(Members)
  PROVE  /\ Without(users, rest) \in Seq(Members)
         /\ ToSet(Without(users, rest)) = ToSet(users) \ ToSet(rest)
  <1>1. ToSet(users) \subseteq Members
    BY DEF ToSet
  <1>2. ToSet(Without(users, rest)) = ToSet(users) \cap (Members \ ToSet(rest))
    BY OnlyMembers DEF Without
  <1> QED
    BY <1>1, <1>2, OnlyIs DEF Without

\* A history begins with the assignees of that moment.
LEMMA HistoryBegins ==
  ASSUME NEW users \in Seq(Members)
  PROVE  AssignedBy(Entries(users, "ASSIGNED")) = ToSet(users)
  <1> DEFINE e == Entries(users, "ASSIGNED")
  <1>1. /\ DOMAIN e = DOMAIN users
        /\ \A i \in DOMAIN users : e[i] = [user |-> users[i], operation |-> "ASSIGNED"]
    BY EntriesAre
  <1>2. DOMAIN users = 1..Len(users) /\ Len(users) \in Nat /\ \A i \in DOMAIN users : users[i] \in Members
    OBVIOUS
  <1> HIDE DEF e
  <1>3. ASSUME NEW u \in AssignedBy(e) PROVE u \in ToSet(users)
    BY <1>1 DEF AssignedBy, ToSet
  <1>4. ASSUME NEW u \in ToSet(users) PROVE u \in AssignedBy(e)
    <2> DEFINE at == {i \in DOMAIN users : users[i] = u}
    <2>1. at # {} /\ at \subseteq DOMAIN users /\ u \in Members
      BY <1>2 DEF ToSet
    <2>2. PICK i \in at : \A j \in 1..(i - 1) : j \notin at
      <3> HIDE DEF at
      <3> QED
        BY <2>1, FirstEntry
    <2>3. \A j \in 1..(i - 1) : j \in DOMAIN users /\ e[j].user # u
      BY <2>2, <1>1, <1>2
    <2> QED
      BY <2>1, <2>2, <2>3, <1>1 DEF AssignedBy
  <1> QED
    BY <1>3, <1>4 DEF e

\* A change puts its entries before those there are.
LEMMA HistoryGoesOn ==
  ASSUME NEW previous \in Seq(Members), NEW next \in Seq(Members),
         NEW h \in Seq(AssignmentHistoryItem), AssignedBy(h) = ToSet(previous)
  PROVE  /\ AssignmentChanges(previous, next) \o h \in Seq(AssignmentHistoryItem)
         /\ AssignedBy(AssignmentChanges(previous, next) \o h) = ToSet(next)
  <1> DEFINE new == Without(next, previous)
             gone == Without(previous, next)
             c == AssignmentChanges(previous, next)
             all == c \o h
             m == Len(new)
             n == Len(c)
  <1>1. /\ new \in Seq(Members) /\ ToSet(new) = ToSet(next) \ ToSet(previous)
        /\ gone \in Seq(Members) /\ ToSet(gone) = ToSet(previous) \ ToSet(next)
    BY WithoutIs
  <1>2. c = Entries(new, "ASSIGNED") \o Entries(gone, "UNASSIGNED")
    BY DEF AssignmentChanges
  <1> HIDE DEF new, gone, c, all
  <1>3. /\ Entries(new, "ASSIGNED") \in Seq(AssignmentHistoryItem) /\ Len(Entries(new, "ASSIGNED")) = m
        /\ Entries(gone, "UNASSIGNED") \in Seq(AssignmentHistoryItem)
        /\ Len(Entries(gone, "UNASSIGNED")) = Len(gone)
        /\ \A i \in DOMAIN new : Entries(new, "ASSIGNED")[i] = [user |-> new[i], operation |-> "ASSIGNED"]
        /\ \A i \in DOMAIN gone : Entries(gone, "UNASSIGNED")[i] = [user |-> gone[i], operation |-> "UNASSIGNED"]
    BY <1>1, EntriesAre
  <1>4. m \in Nat /\ Len(gone) \in Nat /\ DOMAIN new = 1..m /\ DOMAIN gone = 1..Len(gone)
    BY <1>1
  <1>5. /\ c \in Seq(AssignmentHistoryItem) /\ n = m + Len(gone) /\ n \in Nat
        /\ \A i \in 1..m : c[i] = [user |-> new[i], operation |-> "ASSIGNED"]
        /\ \A i \in (m + 1)..n :
             i - m \in DOMAIN gone /\ c[i] = [user |-> gone[i - m], operation |-> "UNASSIGNED"]
    <2> DEFINE a == Entries(new, "ASSIGNED")
               b == Entries(gone, "UNASSIGNED")
    <2> HIDE DEF a, b, m
    <2>1. a \in Seq(AssignmentHistoryItem) /\ b \in Seq(AssignmentHistoryItem) /\ Len(a) = m /\ Len(b) = Len(gone)
      BY <1>3 DEF a, b
    <2>5. a \in Seq(AssignmentHistoryItem) /\ b \in Seq(AssignmentHistoryItem)
      BY <2>1
    <2>2. /\ c \in Seq(AssignmentHistoryItem) /\ n = m + Len(gone)
          /\ \A i \in 1..m : c[i] = a[i]
          /\ \A i \in 1..Len(gone) : c[m + i] = b[i]
      <3>1. c = a \o b
        BY <1>2 DEF a, b
      <3>2. /\ a \o b \in Seq(AssignmentHistoryItem) /\ Len(a \o b) = Len(a) + Len(b)
            /\ \A i \in 1..Len(a) : (a \o b)[i] = a[i]
            /\ \A i \in 1..Len(b) : (a \o b)[Len(a) + i] = b[i]
        BY <2>5
      <3> QED
        BY <2>1, <3>1, <3>2, Zenon
    <2>3. \A i \in 1..m : c[i] = [user |-> new[i], operation |-> "ASSIGNED"]
      BY <2>2, <1>3, <1>4 DEF a
    <2>4. ASSUME NEW i \in (m + 1)..n
          PROVE  i - m \in DOMAIN gone /\ c[i] = [user |-> gone[i - m], operation |-> "UNASSIGNED"]
      <3>1. i - m \in 1..Len(gone) /\ m + (i - m) = i
        BY <2>2, <1>4
      <3>2. c[m + (i - m)] = b[i - m]
        BY <3>1, <2>2
      <3> QED
        BY <3>1, <3>2, <1>3, <1>4 DEF b
    <2> QED
      BY <2>2, <2>3, <2>4, <1>4
  <1>6. /\ all \in Seq(AssignmentHistoryItem) /\ Len(all) = n + Len(h) /\ Len(h) \in Nat
        /\ DOMAIN all = 1..(n + Len(h)) /\ DOMAIN h = 1..Len(h)
        /\ \A i \in 1..n : all[i] = c[i]
        /\ \A i \in 1..Len(h) : all[n + i] = h[i]
    <2> HIDE DEF n
    <2>1. Len(c) = n
      BY DEF n
    <2>4. /\ c \o h \in Seq(AssignmentHistoryItem) /\ Len(c \o h) = Len(c) + Len(h)
          /\ DOMAIN (c \o h) = 1..(Len(c) + Len(h))
          /\ \A i \in 1..Len(c) : (c \o h)[i] = c[i]
          /\ \A i \in 1..Len(h) : (c \o h)[Len(c) + i] = h[i]
      BY <1>5
    <2>2. /\ c \o h \in Seq(AssignmentHistoryItem) /\ Len(c \o h) = n + Len(h)
          /\ DOMAIN (c \o h) = 1..(n + Len(h))
          /\ \A i \in 1..n : (c \o h)[i] = c[i]
          /\ \A i \in 1..Len(h) : (c \o h)[n + i] = h[i]
      BY <2>1, <2>4, Zenon
    <2>3. DOMAIN h = 1..Len(h) /\ Len(h) \in Nat
      OBVIOUS
    <2> QED
      BY <2>2, <2>3 DEF all
  <1>7. \A i \in 1..n :
          /\ i \in DOMAIN all
          /\ \/ all[i].operation = "ASSIGNED" /\ all[i].user \in ToSet(next) \ ToSet(previous)
             \/ all[i].operation = "UNASSIGNED" /\ all[i].user \in ToSet(previous) \ ToSet(next)
    <2> SUFFICES ASSUME NEW i \in 1..n
                 PROVE  /\ i \in DOMAIN all
                        /\ \/ all[i].operation = "ASSIGNED" /\ all[i].user \in ToSet(next) \ ToSet(previous)
                           \/ all[i].operation = "UNASSIGNED" /\ all[i].user \in ToSet(previous) \ ToSet(next)
      OBVIOUS
    <2>1. \A x \in DOMAIN new : new[x] \in ToSet(next) \ ToSet(previous)
      BY <1>1 DEF ToSet
    <2>2. \A x \in DOMAIN gone : gone[x] \in ToSet(previous) \ ToSet(next)
      BY <1>1 DEF ToSet
    <2>5. i \in DOMAIN all /\ all[i] = c[i] /\ i \in Nat
      BY <1>5, <1>6
    <2>3. CASE i <= m
      <3>1. i \in 1..m /\ i \in DOMAIN new
        BY <2>3, <2>5, <1>4
      <3>3. c[i] = [user |-> new[i], operation |-> "ASSIGNED"]
        BY <3>1, <1>5, Zenon
      <3>2. c[i].operation = "ASSIGNED" /\ c[i].user = new[i]
        BY <3>3
      <3> QED
        BY <2>1, <2>5, <3>1, <3>2
    <2>4. CASE m < i
      <3>1. i \in (m + 1)..n
        BY <2>4, <2>5, <1>4, <1>5
      <3>3. i - m \in DOMAIN gone /\ c[i] = [user |-> gone[i - m], operation |-> "UNASSIGNED"]
        BY <3>1, <1>5, Zenon
      <3>2. i - m \in DOMAIN gone /\ c[i].operation = "UNASSIGNED" /\ c[i].user = gone[i - m]
        BY <3>3
      <3> QED
        BY <2>2, <2>5, <3>2
    <2> QED
      BY <2>3, <2>4, <2>5, <1>4
  <1>8. ASSUME NEW u \in AssignedBy(all) PROVE u \in ToSet(next)
    <2>1. PICK i \in DOMAIN all : /\ all[i] = [user |-> u, operation |-> "ASSIGNED"]
                                  /\ \A j \in 1..(i - 1) : all[j].user # u
      BY DEF AssignedBy
    <2>2. all[i].user = u /\ all[i].operation = "ASSIGNED" /\ i \in Nat
      BY <2>1, <1>6
    <2>3. CASE i <= n
      BY <2>2, <2>3, <1>5, <1>6, <1>7
    <2>4. CASE n < i
      <3>1. i - n \in DOMAIN h /\ h[i - n] = [user |-> u, operation |-> "ASSIGNED"]
        <4>1. i - n \in 1..Len(h) /\ n + (i - n) = i
          BY <2>2, <2>4, <1>5, <1>6
        <4>2. all[n + (i - n)] = h[i - n]
          BY <4>1, <1>6
        <4> QED
          BY <4>1, <4>2, <2>1, <1>6
      <3>2. \A j \in 1..(i - n - 1) : h[j].user # u
        <4> SUFFICES ASSUME NEW j \in 1..(i - n - 1) PROVE h[j].user # u
          OBVIOUS
        <4>1. j \in 1..Len(h) /\ n + j \in 1..(i - 1)
          BY <2>2, <2>4, <1>5, <1>6
        <4>2. all[n + j] = h[j] /\ all[n + j].user # u
          BY <4>1, <2>1, <1>6
        <4> QED
          BY <4>2
      <3>3. u \in ToSet(previous)
        BY <3>1, <3>2 DEF AssignedBy
      <3>4. \A j \in 1..n : all[j].user # u
        BY <2>1, <2>2, <2>4, <1>5
      <3>5. u \notin ToSet(gone)
        <4> SUFFICES ASSUME NEW x \in DOMAIN gone, gone[x] = u PROVE FALSE
          BY DEF ToSet
        <4>1. m + x \in (m + 1)..n /\ m + x \in 1..n /\ (m + x) - m = x
          BY <1>4, <1>5
        <4>2. c[m + x] = [user |-> gone[x], operation |-> "UNASSIGNED"]
          BY <4>1, <1>5
        <4>3. all[m + x].user = u
          BY <4>1, <4>2, <1>6
        <4> QED
          BY <4>1, <4>3, <3>4
      <3> QED
        BY <3>3, <3>5, <1>1
    <2> QED
      BY <2>2, <2>3, <2>4, <1>5
  <1>9. ASSUME NEW u \in ToSet(next) PROVE u \in AssignedBy(all)
    <2>1. u \in Members
      BY DEF ToSet
    <2>2. CASE u \notin ToSet(previous)
      <3> DEFINE at == {i \in DOMAIN new : new[i] = u}
      <3>1. at # {} /\ at \subseteq DOMAIN new
        <4>1. u \in ToSet(new)
          BY <2>2, <1>1
        <4>2. PICK i \in DOMAIN new : new[i] = u
          BY <4>1 DEF ToSet
        <4> QED
          BY <4>2
      <3>2. PICK i \in at : \A j \in 1..(i - 1) : j \notin at
        <4> HIDE DEF at
        <4> QED
          BY <3>1, <1>1, FirstEntry
      <3>3. i \in 1..m /\ new[i] = u /\ i \in 1..n
        BY <3>2, <1>4, <1>5
      <3>4. i \in DOMAIN all /\ all[i] = [user |-> u, operation |-> "ASSIGNED"]
        BY <3>3, <1>5, <1>6, <1>7
      <3>5. \A j \in 1..(i - 1) : all[j].user # u
        <4> SUFFICES ASSUME NEW j \in 1..(i - 1) PROVE all[j].user # u
          OBVIOUS
        <4>1. j \in 1..m /\ j \in 1..n /\ j \in DOMAIN new
          BY <3>3, <1>4, <1>5
        <4>2. new[j] # u
          BY <4>1, <3>2
        <4>3. all[j].user = new[j]
          <5>1. c[j].user = new[j] /\ all[j] = c[j]
            <6>1. c[j] = [user |-> new[j], operation |-> "ASSIGNED"] /\ all[j] = c[j]
              BY <4>1, <1>5, <1>6, Zenon
            <6> QED
              BY <6>1
          <5> QED
            BY <5>1
        <4> QED
          BY <4>2, <4>3
      <3> QED
        BY <2>1, <3>4, <3>5 DEF AssignedBy
    <2>3. CASE u \in ToSet(previous)
      <3>1. PICK i \in DOMAIN h : /\ h[i] = [user |-> u, operation |-> "ASSIGNED"]
                                  /\ \A j \in 1..(i - 1) : h[j].user # u
        BY <2>3 DEF AssignedBy
      <3>2. i \in 1..Len(h) /\ n + i \in DOMAIN all /\ i \in Nat
        BY <1>5, <1>6
      <3>3. all[n + i] = [user |-> u, operation |-> "ASSIGNED"]
        BY <3>1, <3>2, <1>6
      <3>4. \A j \in 1..((n + i) - 1) : all[j].user # u
        <4> SUFFICES ASSUME NEW j \in 1..((n + i) - 1) PROVE all[j].user # u
          OBVIOUS
        <4>1. CASE j <= n
          <5>1. j \in 1..n
            BY <4>1, <1>5
          <5> QED
            BY <5>1, <2>3, <1>7
        <4>2. CASE n < j
          <5>1. j - n \in 1..(i - 1) /\ j - n \in 1..Len(h) /\ n + (j - n) = j
            BY <4>2, <3>2, <1>5, <1>6
          <5>2. all[n + (j - n)] = h[j - n] /\ h[j - n].user # u
            BY <5>1, <3>1, <1>6
          <5> QED
            BY <5>1, <5>2
        <4> QED
          BY <4>1, <4>2, <1>5
      <3> QED
        BY <2>1, <3>2, <3>3, <3>4 DEF AssignedBy
    <2> QED
      BY <2>2, <2>3
  <1> QED
    BY <1>6, <1>8, <1>9 DEF all, c

-----------------------------------------------------------------------------
(* The discussion *)

\* An entry of a map that may be missing.
LEMMA EntryIs ==
  ASSUME NEW items
  PROVE  /\ Missing \in Entry(items)
         /\ \A x \in Seq(items) : /\ <<x>> \in Entry(items) /\ <<x>> # Missing
                                  /\ <<x>>[1] = x
                                  /\ \A d : Got(<<x>>, d) = x
         /\ \A entry \in Entry(items) :
              /\ entry # Missing => entry \in [1..1 -> Seq(items)] /\ entry[1] \in Seq(items)
              /\ \A d \in Seq(items) : Got(entry, d) \in Seq(items)
  <1>1. ASSUME NEW x \in Seq(items)
        PROVE  <<x>> \in [1..1 -> Seq(items)] /\ <<x>> # <<>> /\ <<x>>[1] = x
    OBVIOUS
  <1> QED
    BY <1>1 DEF Entry, Missing, Got

LEMMA ExampleIds ==
  /\ Examples \in Seq(CommentItem) /\ ThreadClosed(Examples) /\ IdsOf(Examples) \subseteq AllComments
  /\ "example-1" \in IdsOf(Examples)
  <1>1. /\ Len(Examples) = 3 /\ DOMAIN Examples = 1..3
        /\ Examples[1] = [id |-> "example-1", parent |-> "none"]
        /\ Examples[2] = [id |-> "example-2", parent |-> "example-1"]
        /\ Examples[3] = [id |-> "example-3", parent |-> "example-2"]
    BY DEF Examples, Comment
  <1>2. \A i \in 1..3 : i = 1 \/ i = 2 \/ i = 3
    OBVIOUS
  <1>3. IdsOf(Examples) \subseteq AllComments
    BY DEF AllComments
  <1>4. \A i \in 1..3 : Examples[i].id \in AllComments
    BY <1>1, <1>3 DEF IdsOf
  <1>5. Examples[1] \in CommentItem /\ Examples[2] \in CommentItem /\ Examples[3] \in CommentItem
    <2>1. "example-1" \in AllComments /\ "example-2" \in AllComments /\ "example-3" \in AllComments
      BY <1>1, <1>4
    <2> QED
      BY <1>1, <2>1 DEF CommentItem
  <1>6. Examples \in Seq(CommentItem)
    BY <1>5 DEF Examples
  <1>7. ThreadClosed(Examples)
    BY <1>1, <1>2 DEF ThreadClosed
  <1>8. "example-1" \in IdsOf(Examples)
    BY <1>1 DEF IdsOf
  <1> QED
    BY <1>3, <1>6, <1>7, <1>8

LEMMA CommentsForIs ==
  ASSUME TalkShape, NEW t \in TaskIds
  PROVE  /\ CommentsFor(t) \in Seq(CommentItem)
         /\ IdsOf(CommentsFor(t)) \subseteq AllComments
  <1>1. CommentsFor(t) \in Seq(CommentItem)
    BY EntryIs, ExampleIds DEF CommentsFor, TalkShape
  <1>2. \A c \in CommentItem : c.id \in AllComments
    BY DEF CommentItem
  <1> HIDE DEF CommentsFor
  <1> QED
    BY <1>1, <1>2 DEF IdsOf

\* A thread is given what it is.
LEMMA ThreadSet ==
  ASSUME TalkShape, NEW t \in TaskIds, NEW thread \in Seq(CommentItem),
         comments' = [comments EXCEPT ![t] = <<thread>>]
  PROVE  /\ comments' \in [TaskIds -> Entry(CommentItem)]
         /\ CommentsFor(t)' = thread
         /\ \A u \in TaskIds : u # t => CommentsFor(u)' = CommentsFor(u)
  <1>1. comments \in [TaskIds -> Entry(CommentItem)] /\ <<thread>> \in Entry(CommentItem)
    BY EntryIs DEF TalkShape
  <1>2. comments' \in [TaskIds -> Entry(CommentItem)] /\ comments'[t] = <<thread>>
    BY <1>1
  <1>3. CommentsFor(t)' = thread
    BY <1>2, EntryIs DEF CommentsFor
  <1>4. \A u \in TaskIds : u # t => CommentsFor(u)' = CommentsFor(u)
    BY <1>1 DEF CommentsFor
  <1> QED
    BY <1>2, <1>3, <1>4

LEMMA ThreadGoesOn ==
  ASSUME NEW thread \in Seq(CommentItem), ThreadClosed(thread),
         NEW id \in AllComments, id \notin IdsOf(thread),
         NEW parent, parent \in IdsOf(thread) \cup {"none"}, IdsOf(thread) \subseteq AllComments
  PROVE  /\ Append(thread, Comment(id, parent)) \in Seq(CommentItem)
         /\ ThreadClosed(Append(thread, Comment(id, parent)))
         /\ IdsOf(Append(thread, Comment(id, parent))) = IdsOf(thread) \cup {id}
  <1> DEFINE c == Comment(id, parent)
             new == Append(thread, c)
             n == Len(thread)
  <1>1. c \in CommentItem /\ c.id = id /\ c.parent = parent
    BY DEF Comment, CommentItem
  <1> HIDE DEF c
  <1>2. /\ new \in Seq(CommentItem) /\ DOMAIN new = 1..(n + 1) /\ n \in Nat /\ DOMAIN thread = 1..n
        /\ \A i \in 1..n : new[i] = thread[i]
        /\ new[n + 1] = c
    BY <1>1
  <1> HIDE DEF new, n
  <1>3. \A i \in 1..(n + 1) : i \in 1..n \/ i = n + 1
    BY <1>2
  <1>4. \A i \in 1..n : thread[i].id # id
    BY <1>2 DEF IdsOf
  <1>5. \A i, j \in DOMAIN new : new[i].id = new[j].id => i = j
    BY <1>1, <1>2, <1>3, <1>4 DEF ThreadClosed
  <1>6. ASSUME NEW i \in DOMAIN new
        PROVE  new[i].parent = "none" \/ \E j \in DOMAIN new : j < i /\ new[j].id = new[i].parent
    <2>1. CASE i \in 1..n
      <3>1. thread[i].parent = "none" \/ \E j \in DOMAIN thread : j < i /\ thread[j].id = thread[i].parent
        BY <2>1, <1>2 DEF ThreadClosed
      <3>2. \A j \in DOMAIN thread : j \in DOMAIN new /\ new[j] = thread[j]
        BY <1>2
      <3> QED
        BY <2>1, <3>1, <3>2, <1>2
    <2>2. CASE i = n + 1
      <3>1. CASE parent = "none"
        BY <2>2, <3>1, <1>1, <1>2
      <3>2. CASE parent \in IdsOf(thread)
        <4>1. PICK j \in 1..n : thread[j].id = parent
          BY <3>2, <1>2 DEF IdsOf
        <4>2. j \in DOMAIN new /\ j < i /\ new[j].id = new[i].parent
          BY <4>1, <2>2, <1>1, <1>2
        <4> QED
          BY <4>2
      <3> QED
        BY <3>1, <3>2
    <2> QED
      BY <2>1, <2>2, <1>2, <1>3
  <1>7. IdsOf(new) = IdsOf(thread) \cup {id}
    <2>1. \A i \in DOMAIN new : new[i].id \in IdsOf(thread) \cup {id}
      BY <1>1, <1>2, <1>3 DEF IdsOf
    <2>2. \A i \in DOMAIN thread : i \in DOMAIN new /\ new[i].id = thread[i].id
      BY <1>2
    <2>3. n + 1 \in DOMAIN new /\ new[n + 1].id = id
      BY <1>1, <1>2
    <2>4. IdsOf(new) \subseteq IdsOf(thread) \cup {id}
      BY <2>1 DEF IdsOf
    <2>5. IdsOf(thread) \subseteq IdsOf(new)
      BY <2>2 DEF IdsOf
    <2>6. id \in IdsOf(new)
      BY <2>3 DEF IdsOf
    <2> QED
      BY <2>4, <2>5, <2>6
  <1> QED
    BY <1>2, <1>5, <1>6, <1>7 DEF ThreadClosed, new, c

LEMMA ToldIs ==
  ASSUME TalkShape
  PROVE  /\ Got(notifications, <<>>) \in Seq(NotificationItem)
         /\ \A i \in DOMAIN Got(notifications, <<>>) :
              /\ Got(notifications, <<>>)[i] \in NotificationItem
              /\ Got(notifications, <<>>)[i].task \in TaskIds
  <1>1. <<>> \in Seq(NotificationItem)
    OBVIOUS
  <1>2. Got(notifications, <<>>) \in Seq(NotificationItem)
    BY <1>1, EntryIs DEF TalkShape
  <1>3. \A x \in NotificationItem : x.task \in TaskIds
    BY DEF NotificationItem
  <1> QED
    BY <1>2, <1>3

LEMMA NoticesStay ==
  ASSUME NEW told \in Seq(NotificationItem), NEW there, NEW here, NEW ids, NEW more,
         NoticesFit(told, there, ids), here \subseteq there, \A u \in here : ids[u] \subseteq more[u]
  PROVE  NoticesFit(told, here, more)
  BY DEF NoticesFit

\* Notices of a new comment are put before those there are.
LEMMA NoticesAdded ==
  ASSUME NEW told \in Seq(NotificationItem), NEW there, NEW ids, NEW more,
         NoticesFit(told, there, ids), \A u \in there : ids[u] \subseteq more[u],
         NEW t, NEW id, t \in there => id \notin ids[t] /\ id \in more[t],
         NEW m \in Seq(NotificationItem),
         \A i \in DOMAIN m : m[i].user # Me /\ m[i].task = t /\ m[i].comment = id,
         \A i, j \in DOMAIN m : m[i].user = m[j].user => i = j
  PROVE  m \o told \in Seq(NotificationItem) /\ NoticesFit(m \o told, there, more)
  <1> DEFINE all == m \o told
             n == Len(m)
  <1>1. /\ all \in Seq(NotificationItem) /\ n \in Nat
        /\ \A i \in DOMAIN all :
             \/ i \in DOMAIN m /\ all[i] = m[i]
             \/ i - n \in DOMAIN told /\ all[i] = told[i - n] /\ i \in Nat
    OBVIOUS
  <1>2. \A i \in DOMAIN told :
          /\ told[i].user # Me /\ told[i].task \in there => told[i].comment \in ids[told[i].task]
          /\ \A j \in DOMAIN told :
               /\ told[i].task \in there
               /\ told[i].user = told[j].user /\ told[i].task = told[j].task
               /\ told[i].comment = told[j].comment
               => i = j
          /\ \A j \in DOMAIN told : told[i].user = Me /\ told[j].user = Me => i = j
    BY DEF NoticesFit
  <1> HIDE DEF all, n
  <1>3. ASSUME NEW i \in DOMAIN all, all[i].user # Me, all[i].task \in there
        PROVE  all[i].comment \in more[all[i].task]
    <2>1. CASE i \in DOMAIN m /\ all[i] = m[i]
      BY <1>3, <2>1
    <2>2. CASE i - n \in DOMAIN told /\ all[i] = told[i - n]
      BY <1>2, <1>3, <2>2
    <2> QED
      BY <1>1, <2>1, <2>2
  <1>4. ASSUME NEW i \in DOMAIN all, NEW j \in DOMAIN all, all[i].task \in there,
               all[i].user = all[j].user, all[i].task = all[j].task, all[i].comment = all[j].comment
        PROVE  i = j
    <2>1. CASE (i \in DOMAIN m /\ all[i] = m[i]) /\ (j \in DOMAIN m /\ all[j] = m[j])
      BY <1>4, <2>1
    <2>2. CASE (i \in DOMAIN m /\ all[i] = m[i]) /\ (j - n \in DOMAIN told /\ all[j] = told[j - n])
      BY <1>2, <1>4, <2>2
    <2>3. CASE (j \in DOMAIN m /\ all[j] = m[j]) /\ (i - n \in DOMAIN told /\ all[i] = told[i - n])
      BY <1>2, <1>4, <2>3
    <2>4. CASE /\ i - n \in DOMAIN told /\ all[i] = told[i - n] /\ i \in Nat
               /\ j - n \in DOMAIN told /\ all[j] = told[j - n] /\ j \in Nat
      <3>1. i - n = j - n
        BY <1>2, <1>4, <2>4
      <3> QED
        BY <1>1, <2>4, <3>1
    <2> QED
      BY <1>1, <2>1, <2>2, <2>3, <2>4
  <1>5. ASSUME NEW i \in DOMAIN all, NEW j \in DOMAIN all, all[i].user = Me, all[j].user = Me
        PROVE  i = j
    <2>1. /\ i - n \in DOMAIN told /\ all[i] = told[i - n] /\ i \in Nat
          /\ j - n \in DOMAIN told /\ all[j] = told[j - n] /\ j \in Nat
      BY <1>1, <1>5
    <2>2. i - n = j - n
      BY <1>2, <1>5, <2>1
    <2> QED
      BY <1>1, <2>1, <2>2
  <1> QED
    BY <1>1, <1>3, <1>4, <1>5 DEF NoticesFit, all

LEMMA NoticesKeep ==
  ASSUME TalkShape, NoticesHold, UNCHANGED notifications,
         \A u \in TaskIds : Undeleted(u)' => Undeleted(u) /\ CommentsFor(u)' = CommentsFor(u)
  PROVE  NoticesHold'
  <1> DEFINE told == Got(notifications, <<>>)
  <1>1. told \in Seq(NotificationItem) /\ told' = told
    BY ToldIs
  <1>2. TasksThere' \subseteq TasksThere
    BY DEF TasksThere
  <1>3. \A u \in TasksThere' : ThreadIds[u] \subseteq ThreadIds'[u]
    BY DEF TasksThere, ThreadIds
  <1>4. NoticesFit(told, TasksThere, ThreadIds)
    BY DEF NoticesHold
  <1> HIDE DEF told
  <1>5. NoticesFit(told, TasksThere', ThreadIds')
    BY <1>1, <1>2, <1>3, <1>4, NoticesStay
  <1> QED
    BY <1>1, <1>5 DEF NoticesHold, told

\* The threads stay, whatever else changes.
LEMMA ThreadsStay ==
  ASSUME TalkShape, TalkHolds, UNCHANGED <<comments, notifications, created>>,
         \A t \in TaskIds : /\ t \in ToSet(Seeded) => task'[t].commentCount = task[t].commentCount
                            /\ Undeleted(t)' => Undeleted(t)
  PROVE  TalkShape' /\ TalkHolds'
  <1>1. TalkShape'
    BY DEF TalkShape
  <1>2. \A t : CommentsFor(t)' = CommentsFor(t)
    BY DEF CommentsFor
  <1>3. CountsHold'
    BY <1>2 DEF TalkHolds, CountsHold
  <1>4. NoticesHold'
    BY <1>2, NoticesKeep DEF TalkHolds
  <1> QED
    BY <1>1, <1>2, <1>3, <1>4 DEF TalkHolds

\* The thread of a task that is deleted begins again.
LEMMA ThreadBeginsAgain ==
  ASSUME TalkShape, TalkHolds, UNCHANGED <<notifications, created>>, NEW t \in TaskIds,
         comments' = [comments EXCEPT ![t] = Missing], ~Undeleted(t)',
         \A u \in TaskIds : /\ task'[u] = task[u]
                            /\ u # t => (Undeleted(u)' => Undeleted(u))
  PROVE  TalkShape' /\ TalkHolds'
  <1>1. TalkShape'
    BY EntryIs DEF TalkShape
  <1>2. \A u \in TaskIds : CommentsFor(u)' = IF u = t THEN Examples ELSE CommentsFor(u)
    BY DEF CommentsFor, TalkShape, Got
  <1>3. \A u \in TaskIds : ThreadClosed(CommentsFor(u)')
    BY <1>2, ExampleIds DEF TalkHolds
  <1>4. CountsHold'
    BY <1>2 DEF TalkHolds, CountsHold
  <1>5. NoticesHold'
    <2>1. ~Undeleted(t)' /\ \A u \in TaskIds : u # t => CommentsFor(u)' = CommentsFor(u)
      BY <1>2
    <2> QED
      BY <2>1, NoticesKeep DEF TalkHolds
  <1> QED
    BY <1>1, <1>3, <1>4, <1>5 DEF TalkHolds

\* A thread that is read, or that a refused reply has asked for, stays what it is.
LEMMA ThreadIsRead ==
  ASSUME TalkShape, TalkHolds, UNCHANGED <<list, task, notifications, created>>, NEW t \in TaskIds,
         comments' = [comments EXCEPT ![t] = <<CommentsFor(t)>>]
  PROVE  TalkShape' /\ TalkHolds'
  <1>1. CommentsFor(t) \in Seq(CommentItem)
    BY CommentsForIs
  <1>2. /\ comments' \in [TaskIds -> Entry(CommentItem)]
        /\ \A u \in TaskIds : CommentsFor(u)' = CommentsFor(u)
    BY <1>1, ThreadSet
  <1>3. TalkShape'
    BY <1>2 DEF TalkShape
  <1>4. \A u : Undeleted(u)' <=> Undeleted(u)
    BY DEF Undeleted, Exists
  <1>5. CountsHold'
    BY <1>2, <1>4 DEF TalkHolds, CountsHold
  <1>6. NoticesHold'
    BY <1>2, <1>4, NoticesKeep DEF TalkHolds
  <1> QED
    BY <1>2, <1>3, <1>5, <1>6 DEF TalkHolds

\* The notices a comment makes: of members the body mentions, each once.
LEMMA MentionedIs ==
  ASSUME NEW t \in TaskIds, NEW id \in AllComments, NEW mentions \in SUBSET Members
  PROVE  /\ Mentioned(t, id, mentions) \in Seq(NotificationItem)
         /\ \A i \in DOMAIN Mentioned(t, id, mentions) :
              /\ Mentioned(t, id, mentions)[i].user # Me
              /\ Mentioned(t, id, mentions)[i].task = t /\ Mentioned(t, id, mentions)[i].comment = id
         /\ \A i, j \in DOMAIN Mentioned(t, id, mentions) :
              Mentioned(t, id, mentions)[i].user = Mentioned(t, id, mentions)[j].user => i = j
  <1> DEFINE S == mentions \ {Me}
             s == SetToSeq(S)
             m == Mentioned(t, id, mentions)
  <1>1. IsFiniteSet(S) /\ S \subseteq Members
    BY MockAssumption, FS_Subset
  <1>2. s \in Seq(S) /\ IsInjective(s)
    <2> HIDE DEF S
    <2> QED
      BY <1>1, SetToSeqIs
  <1>3. m = [i \in DOMAIN s |-> [user |-> s[i], task |-> t, comment |-> id, read |-> FALSE]]
    BY DEF Mentioned, Notification
  <1> HIDE DEF s, m
  <1>4. DOMAIN s = 1..Len(s) /\ Len(s) \in Nat /\ \A i \in DOMAIN s : s[i] \in Members /\ s[i] # Me
    BY <1>1, <1>2
  <1>5. \A i \in DOMAIN s : [user |-> s[i], task |-> t, comment |-> id, read |-> FALSE] \in NotificationItem
    BY <1>4 DEF NotificationItem
  <1>6. m \in Seq(NotificationItem) /\ DOMAIN m = DOMAIN s
    BY <1>3, <1>4, <1>5
  <1>7. \A i \in DOMAIN m : m[i].user = s[i] /\ m[i].task = t /\ m[i].comment = id
    BY <1>3
  <1> QED
    BY <1>2, <1>4, <1>6, <1>7 DEF IsInjective, m

LEMMA NewestIs ==
  ASSUME NEW S, NEW items \in Seq(S)
  PROVE  /\ Newest(items) \in Seq(S) /\ Len(Newest(items)) \in Nat
         /\ Len(Newest(items)) <= Kept /\ DOMAIN Newest(items) \subseteq DOMAIN items
         /\ \A i \in DOMAIN Newest(items) : Newest(items)[i] = items[i]
  <1> DEFINE n == IF Len(items) < Kept THEN Len(items) ELSE Kept
  <1>1. Kept \in Nat /\ Len(items) \in Nat /\ DOMAIN items = 1..Len(items)
    BY MockAssumption
  <1>2. n \in Nat /\ n <= Len(items) /\ n <= Kept
    BY <1>1
  <1> HIDE DEF n
  <1>3. SubSeq(items, 1, n) \in Seq(S) /\ Len(SubSeq(items, 1, n)) = n
        /\ \A i \in 1..n : SubSeq(items, 1, n)[i] = items[i]
    BY <1>1, <1>2
  <1>4. Newest(items) = SubSeq(items, 1, n)
    BY DEF Newest, n
  <1> HIDE DEF Newest
  <1> QED
    BY <1>1, <1>2, <1>3, <1>4

\* A comment that is added is in its thread, in its count and told once.
LEMMA CommentAdded ==
  ASSUME TalkShape, TalkHolds, TaskShape, UNCHANGED list,
         NEW t \in TaskIds, NEW id \in AllComments, NEW parent, NEW mentions \in SUBSET Members,
         ~Posted(t, id), ParentExists(t, parent),
         comments' = [comments EXCEPT ![t] = <<Append(CommentsFor(t), Comment(id, parent))>>],
         task' = IF Exists(t) THEN [task EXCEPT ![t].commentCount = @ + 1] ELSE task,
         notifications' = <<Newest(Mentioned(t, id, mentions) \o Got(notifications, <<>>))>>,
         created' = IF Exists(t) THEN created \cup {<<t, id>>} ELSE created
  PROVE  TalkShape' /\ TalkHolds'
  <1> DEFINE thread == CommentsFor(t)
             new == Append(thread, Comment(id, parent))
  <1>1. /\ new \in Seq(CommentItem) /\ ThreadClosed(new) /\ IdsOf(new) = IdsOf(thread) \cup {id}
    <2>1. thread \in Seq(CommentItem) /\ IdsOf(thread) \subseteq AllComments /\ ThreadClosed(thread)
      BY CommentsForIs DEF TalkHolds
    <2>2. id \notin IdsOf(thread) /\ parent \in IdsOf(thread) \cup {"none"}
      BY DEF Posted, ParentExists
    <2> HIDE DEF thread
    <2> QED
      BY <2>1, <2>2, ThreadGoesOn
  <1>2. /\ comments' \in [TaskIds -> Entry(CommentItem)]
        /\ CommentsFor(t)' = new
        /\ \A u \in TaskIds : u # t => CommentsFor(u)' = CommentsFor(u)
    <2> HIDE DEF new
    <2>1. comments' = [comments EXCEPT ![t] = <<new>>]
      BY DEF new
    <2> QED
      BY <1>1, <2>1, ThreadSet
  <1> HIDE DEF new
  <1>3. \A u \in TaskIds : IdsOf(CommentsFor(u)) \subseteq IdsOf(CommentsFor(u)')
    BY <1>1, <1>2
  <1>4. \A u \in TaskIds : ThreadClosed(CommentsFor(u)')
    BY <1>1, <1>2 DEF TalkHolds
  <1>5. \A u \in TaskIds :
          /\ task'[u].version = task[u].version /\ (Exists(u)' <=> Exists(u))
          /\ task'[u].commentCount =
               IF u = t /\ Exists(t) THEN task[u].commentCount + 1 ELSE task[u].commentCount
    BY DEF TaskShape, MockTask, Exists
  <1>6. \A u \in TaskIds : Undeleted(u)' <=> Undeleted(u)
    BY <1>5 DEF Undeleted
  <1>7. created' \subseteq TaskIds \X AllComments /\ IsFiniteSet(created')
    <2>1. IsFiniteSet(created) /\ IsFiniteSet(created \cup {<<t, id>>})
      BY FS_AddElement DEF TalkShape
    <2>2. created' = created \/ created' = created \cup {<<t, id>>}
      OBVIOUS
    <2>3. created \subseteq TaskIds \X AllComments
      BY DEF TalkShape
    <2> QED
      BY <2>1, <2>2, <2>3
  <1>8. CountsHold'
    <2>1. ASSUME NEW u \in TaskIds, u \in ToSet(Seeded)
          PROVE  task'[u].commentCount = 3 + Cardinality({c \in created' : c[1] = u})
      <3> DEFINE old == {c \in created : c[1] = u}
      <3>1. task[u].commentCount = 3 + Cardinality(old)
        BY <2>1 DEF TalkHolds, CountsHold
      <3>2. IsFiniteSet(old) /\ Cardinality(old) \in Nat
        BY FS_Subset, FS_CardinalityType DEF TalkShape
      <3>3. CASE u = t /\ Exists(t)
        <4>1. {c \in created' : c[1] = u} = old \cup {<<t, id>>}
          BY <3>3
        <4>2. <<t, id>> \notin created
          BY <3>3 DEF TalkHolds, CountsHold, Undeleted, Posted
        <4> HIDE DEF old
        <4>3. Cardinality(old \cup {<<t, id>>}) = Cardinality(old) + 1
          BY <3>2, <4>2, FS_AddElement DEF old
        <4>4. task'[u].commentCount = task[u].commentCount + 1
          BY <3>3, <1>5
        <4>5. Cardinality(old) \in Nat /\ task[u].commentCount = 3 + Cardinality(old)
          BY <3>1, <3>2 DEF old
        <4>6. Cardinality({c \in created' : c[1] = u}) = Cardinality(old) + 1
          BY <4>1, <4>3, Zenon
        <4> DEFINE more == Cardinality({c \in created' : c[1] = u})
        <4>7. more = Cardinality(old) + 1
          BY <4>6
        <4> HIDE DEF more
        <4>8. task'[u].commentCount = 3 + more
          BY <4>4, <4>5, <4>7
        <4> QED
          BY <4>8 DEF more
      <3>4. CASE ~(u = t /\ Exists(t))
        <4>1. {c \in created' : c[1] = u} = old
          BY <3>4
        <4> QED
          BY <3>1, <3>4, <4>1, <1>5
      <3> QED
        BY <3>3, <3>4
    <2>2. ASSUME NEW u \in TaskIds, NEW i \in AllComments, <<u, i>> \in created', Undeleted(u)'
          PROVE  i \in IdsOf(CommentsFor(u)')
      <3>1. CASE <<u, i>> \in created
        BY <2>2, <3>1, <1>3, <1>6 DEF TalkHolds, CountsHold
      <3>2. CASE u = t /\ i = id
        BY <3>2, <1>1, <1>2
      <3> QED
        BY <2>2, <3>1, <3>2
    <2> QED
      BY <2>1, <2>2 DEF CountsHold
  <1> DEFINE m == Mentioned(t, id, mentions)
             told == Got(notifications, <<>>)
  <1>9. /\ m \in Seq(NotificationItem)
        /\ \A i \in DOMAIN m : m[i].user # Me /\ m[i].task = t /\ m[i].comment = id
        /\ \A i, j \in DOMAIN m : m[i].user = m[j].user => i = j
    BY MentionedIs
  <1>10. told \in Seq(NotificationItem) /\ NoticesFit(told, TasksThere, ThreadIds)
    BY ToldIs DEF TalkHolds, NoticesHold
  <1>11. notifications' = <<Newest(m \o told)>>
    OBVIOUS
  <1>12. TasksThere' = TasksThere
    BY <1>6 DEF TasksThere
  <1>13. \A u \in TasksThere : ThreadIds[u] \subseteq ThreadIds'[u]
    BY <1>3 DEF TasksThere, ThreadIds
  <1>14. id \notin ThreadIds[t] /\ id \in ThreadIds'[t]
    BY <1>1, <1>2 DEF ThreadIds, Posted
  <1> HIDE DEF m, told
  <1>15. m \o told \in Seq(NotificationItem) /\ NoticesFit(m \o told, TasksThere, ThreadIds')
    BY <1>9, <1>10, <1>13, <1>14, NoticesAdded
  <1> DEFINE all == Newest(m \o told)
  <1>19. all \in Seq(NotificationItem) /\ NoticesFit(all, TasksThere, ThreadIds')
    <2> DEFINE items == m \o told
    <2>1. items \in Seq(NotificationItem) /\ NoticesFit(items, TasksThere, ThreadIds')
      BY <1>15
    <2> HIDE DEF items
    <2>2. /\ Newest(items) \in Seq(NotificationItem) /\ DOMAIN Newest(items) \subseteq DOMAIN items
          /\ \A i \in DOMAIN Newest(items) : Newest(items)[i] = items[i]
      BY <2>1, NewestIs
    <2>3. NoticesFit(Newest(items), TasksThere, ThreadIds')
      BY <2>1, <2>2 DEF NoticesFit
    <2> QED
      BY <2>2, <2>3 DEF items
  <1> HIDE DEF all
  <1>16. notifications' \in Entry(NotificationItem) /\ Got(notifications', <<>>) = all
    <2>1. all \in Seq(NotificationItem) /\ notifications' = <<all>>
      BY <1>11, <1>19 DEF all
    <2> QED
      BY <2>1, EntryIs
  <1>17. TalkShape'
    BY <1>2, <1>7, <1>16 DEF TalkShape
  <1>18. NoticesHold'
    BY <1>12, <1>16, <1>19 DEF NoticesHold
  <1> QED
    BY <1>4, <1>8, <1>17, <1>18 DEF TalkHolds

\* The example is told when nothing is.
LEMMA ExampleTold ==
  ASSUME TalkShape, TalkHolds, TaskShape, UNCHANGED <<list, task, comments, created>>,
         Head(Seeded) \in TaskIds, notifications' = <<NotificationsShown>>
  PROVE  TalkShape' /\ TalkHolds'
  <1> DEFINE told == Got(notifications, <<>>)
             n == Notification(Me, Head(Seeded), "example-1")
  <1>1. told \in Seq(NotificationItem)
    BY ToldIs
  <1>2. n \in NotificationItem /\ n.user = Me
    BY ExampleIds, MockAssumption DEF Notification, NotificationItem
  <1>3. NotificationsShown = IF told = <<>> THEN Append(told, n) ELSE told
    BY DEF NotificationsShown, ExampleDue
  <1>4. \A u : (Undeleted(u)' <=> Undeleted(u)) /\ CommentsFor(u)' = CommentsFor(u)
    BY DEF Undeleted, Exists, CommentsFor
  <1> HIDE DEF told, n
  <1>5. NotificationsShown \in Seq(NotificationItem)
    BY <1>1, <1>2, <1>3
  <1>6. notifications' \in Entry(NotificationItem) /\ Got(notifications, <<>>)' = NotificationsShown
    <2> HIDE DEF NotificationsShown
    <2> QED
      BY <1>5, EntryIs
  <1>7. TalkShape'
    BY <1>6 DEF TalkShape
  <1>8. NoticesHold'
    <2>1. CASE told = <<>>
      <3>1. DOMAIN NotificationsShown = {1} /\ NotificationsShown[1] = n
        BY <2>1, <1>2, <1>3
      <3>2. NotificationsShown[1].user = Me
        BY <1>2, <3>1
      <3> DEFINE showing == NotificationsShown
      <3> HIDE DEF showing
      <3>3. NoticesFit(showing, TasksThere', ThreadIds')
        BY <3>1, <3>2 DEF NoticesFit, showing
      <3> QED
        BY <3>3, <1>6 DEF NoticesHold, showing
    <2>2. CASE told # <<>>
      <3>1. Got(notifications', <<>>) = told
        BY <2>2, <1>3, <1>6
      <3>2. TasksThere' = TasksThere /\ ThreadIds' = ThreadIds
        BY <1>4 DEF TasksThere, ThreadIds
      <3> QED
        BY <3>1, <3>2 DEF TalkHolds, NoticesHold, told
    <2> QED
      BY <2>1, <2>2
  <1>9. CountsHold'
    BY <1>4 DEF TalkHolds, CountsHold
  <1> QED
    BY <1>4, <1>7, <1>8, <1>9 DEF TalkHolds

LEMMA NoticeRead ==
  ASSUME TalkShape, TalkHolds, UNCHANGED <<list, task, comments, created>>,
         NEW i \in DOMAIN Got(notifications, <<>>),
         notifications' = [notifications EXCEPT ![1][i].read = TRUE]
  PROVE  TalkShape' /\ TalkHolds'
  <1> DEFINE told == Got(notifications, <<>>)
             new == [told EXCEPT ![i].read = TRUE]
  <1>1. told \in Seq(NotificationItem) /\ notifications # Missing /\ told = notifications[1]
        /\ notifications \in [1..1 -> Seq(NotificationItem)]
    BY ToldIs, EntryIs DEF TalkShape, Got, Missing
  <1>2. notifications' = [notifications EXCEPT ![1] = new]
    BY <1>1
  <1> HIDE DEF told
  <1>3. \A x \in NotificationItem : /\ [x EXCEPT !.read = TRUE] \in NotificationItem
                                    /\ [x EXCEPT !.read = TRUE].user = x.user
                                    /\ [x EXCEPT !.read = TRUE].task = x.task
                                    /\ [x EXCEPT !.read = TRUE].comment = x.comment
    BY DEF NotificationItem
  <1>4. i \in DOMAIN told
    BY DEF told
  <1>5. /\ new \in Seq(NotificationItem) /\ DOMAIN new = DOMAIN told
        /\ \A j \in DOMAIN told : /\ new[j].user = told[j].user /\ new[j].task = told[j].task
                                  /\ new[j].comment = told[j].comment
    <2>1. [told[i] EXCEPT !.read = TRUE] \in NotificationItem
      BY <1>1, <1>3, <1>4
    <2>2. new \in Seq(NotificationItem) /\ DOMAIN new = DOMAIN told
      BY <1>1, <1>4, <2>1
    <2>3. \A j \in DOMAIN told : new[j] = IF j = i THEN [told[j] EXCEPT !.read = TRUE] ELSE told[j]
      BY <1>4
    <2>4. \A j \in DOMAIN told : told[j] \in NotificationItem
      BY <1>1
    <2> QED
      BY <1>3, <2>2, <2>3, <2>4
  <1> HIDE DEF new
  <1>6. notifications' \in [1..1 -> Seq(NotificationItem)] /\ notifications'[1] = new
    <2>1. [notifications EXCEPT ![1] = new] \in [1..1 -> Seq(NotificationItem)]
      BY <1>1, <1>5
    <2>2. [notifications EXCEPT ![1] = new][1] = new
      BY <1>1, 1 \in 1..1
    <2> QED
      BY <1>2, <2>1, <2>2
  <1>7. notifications' # Missing
    <2>1. 1 \in DOMAIN notifications' /\ DOMAIN Missing = {}
      BY <1>6 DEF Missing
    <2> QED
      BY <2>1
  <1>8. notifications' \in Entry(NotificationItem) /\ Got(notifications', <<>>) = new
    BY <1>6, <1>7 DEF Entry, Got
  <1>9. TalkShape'
    BY <1>8 DEF TalkShape
  <1>10. \A u : (Undeleted(u)' <=> Undeleted(u)) /\ CommentsFor(u)' = CommentsFor(u)
    BY DEF Undeleted, Exists, CommentsFor
  <1>11. NoticesHold'
    <2>1. TasksThere' = TasksThere /\ ThreadIds' = ThreadIds
      BY <1>10 DEF TasksThere, ThreadIds
    <2>2. NoticesFit(told, TasksThere, ThreadIds)
      BY DEF TalkHolds, NoticesHold, told
    <2>3. NoticesFit(new, TasksThere, ThreadIds)
      BY <2>2, <1>5 DEF NoticesFit
    <2> QED
      BY <1>8, <2>1, <2>3 DEF NoticesHold
  <1>12. CountsHold'
    BY <1>10 DEF TalkHolds, CountsHold
  <1> QED
    BY <1>9, <1>10, <1>11, <1>12 DEF TalkHolds

-----------------------------------------------------------------------------
(* What each action does to tasks and their records *)

LEMMA SeededAre == ToSet(Seeded) \subseteq TaskIds
  BY MockAssumption DEF ToSet

LEMMA ExistsIs ==
  ASSUME TaskShape
  PROVE  \A t : Exists(t) <=> t \in ToSet(list)
  BY DEF Exists, Contains, ToSet

\* One task is written; it does not become one that was never there.
LEMMA TaskWritten ==
  ASSUME TaskShape, UNCHANGED list, NEW t \in TaskIds, NEW k \in MockTask, k.version # 0,
         task' = [task EXCEPT ![t] = k]
  PROVE  /\ TaskShape' /\ task'[t] = k
         /\ \A u \in TaskIds : u # t => task'[u] = task[u]
  BY DEF TaskShape, Exists

LEMMA TaskStays ==
  ASSUME TaskShape, UNCHANGED <<list, task>>
  PROVE  TaskShape'
  BY DEF TaskShape, Exists

\* What an existing task's version says.
LEMMA VersionIs ==
  ASSUME TaskShape, NEW t \in TaskIds
  PROVE  /\ task[t] \in MockTask /\ task[t].version \in Nat /\ task[t].version + 1 # 0
         /\ Exists(t) => task[t].version # 0
  <1>1. task[t] \in MockTask
    BY DEF TaskShape
  <1>2. task[t].version \in Nat
    BY <1>1 DEF MockTask
  <1> QED
    BY <1>1, <1>2 DEF TaskShape

LEMMA BeforeIs ==
  ASSUME NEW k \in MockTask, NEW input \in UpdateTaskInput
  PROVE  /\ [f \in DOMAIN input |-> k[f]] \in UpdateTaskInput
         /\ DOMAIN [f \in DOMAIN input |-> k[f]] = DOMAIN input
  <1> DEFINE b == [f \in DOMAIN input |-> k[f]]
  <1>1. k["status"] \in Statuses /\ k["assigneeIds"] \in Seq(Members)
    BY MockTaskFields
  <1>2. CASE input \in [status : Statuses]
    <2>1. b = [status |-> k["status"]]
      BY <1>2
    <2> QED
      BY <1>1, <2>1 DEF UpdateTaskInput
  <1>3. CASE input \in [assigneeIds : Seq(Members)]
    <2>1. b = [assigneeIds |-> k["assigneeIds"]]
      BY <1>3
    <2> QED
      BY <1>1, <2>1 DEF UpdateTaskInput
  <1>4. CASE input \in [status : Statuses, assigneeIds : Seq(Members)]
    <2>1. b = [status |-> k["status"], assigneeIds |-> k["assigneeIds"]]
      BY <1>4
    <2>2. b \in [status : Statuses, assigneeIds : Seq(Members)]
      BY <1>1, <2>1
    <2> QED
      BY <2>2 DEF UpdateTaskInput
  <1> QED
    BY <1>2, <1>3, <1>4 DEF UpdateTaskInput

RecordsHold == RecordShape /\ EditsExplained /\ HistoryEndsInAssignees

\* Nothing that the records tell of has changed.
LEMMA RecordsStay ==
  ASSUME TaskShape, RecordsHold, UNCHANGED <<operations, history, redone, replayed>>,
         ToSet(list') \subseteq ToSet(list), ToSet(list) \subseteq TaskIds,
         \A t \in TaskIds : /\ task'[t]["status"] = task[t]["status"]
                            /\ task'[t]["assigneeIds"] = task[t]["assigneeIds"]
                            /\ task'[t].version = 0 => task[t].version = 0
  PROVE  RecordsHold'
  <1>1. RecordShape'
    BY DEF RecordsHold, RecordShape
  <1>2. \A t \in TaskIds : \A f \in EditFields : task'[t][f] = task[t][f]
    <2>1. \A f \in EditFields : f = "status" \/ f = "assigneeIds"
      BY EditFieldsAre
    <2> QED
      BY <2>1
  <1>3. EditsExplained'
    BY <1>2, SeededAre DEF RecordsHold, EditsExplained
  <1>4. HistoryEndsInAssignees'
    BY DEF RecordsHold, HistoryEndsInAssignees
  <1> QED
    BY <1>1, <1>3, <1>4 DEF RecordsHold

LEMMA HistoryIs ==
  ASSUME TaskShape, RecordsHold, NEW t \in TaskIds
  PROVE  /\ HistoryFor(t) \in Seq(AssignmentHistoryItem)
         /\ Exists(t) /\ t \notin replayed => AssignedBy(HistoryFor(t)) = ToSet(task[t].assigneeIds)
         /\ task[t].version = 0 => HistoryFor(t) = <<>>
         /\ history[t] # Missing => HistoryFor(t) = history[t][1]
  <1>1. history[t] \in Entry(AssignmentHistoryItem)
    BY DEF RecordsHold, RecordShape
  <1>2. task[t].assigneeIds \in Seq(Members)
    BY DEF TaskShape, MockTask
  <1>3. /\ Entries(task[t].assigneeIds, "ASSIGNED") \in Seq(AssignmentHistoryItem)
        /\ AssignedBy(Entries(task[t].assigneeIds, "ASSIGNED")) = ToSet(task[t].assigneeIds)
    BY <1>2, EntriesAre, HistoryBegins
  <1>4. <<>> \in Seq(AssignmentHistoryItem)
    OBVIOUS
  <1>5. CASE history[t] = Missing
    <2>1. HistoryFor(t) = IF Exists(t) THEN Entries(task[t].assigneeIds, "ASSIGNED") ELSE <<>>
      BY <1>5 DEF HistoryFor, Got
    <2>2. task[t].version = 0 => ~Exists(t)
      BY VersionIs
    <2> QED
      BY <1>3, <1>4, <1>5, <2>1, <2>2
  <1>6. CASE history[t] # Missing
    <2>1. HistoryFor(t) = history[t][1] /\ history[t][1] \in Seq(AssignmentHistoryItem)
      BY <1>1, <1>6, EntryIs DEF HistoryFor, Got
    <2>2. Exists(t) /\ t \notin replayed => AssignedBy(history[t][1]) = ToSet(task[t].assigneeIds)
      BY <1>6, ExistsIs DEF RecordsHold, HistoryEndsInAssignees
    <2>3. task[t].version = 0 => history[t] = <<<<>>>>
      BY <1>6 DEF RecordsHold, RecordShape
    <2>4. <<<<>>>>[1] = <<>>
      OBVIOUS
    <2> QED
      BY <1>6, <2>1, <2>2, <2>3, <2>4
  <1> QED
    BY <1>5, <1>6

LEMMA ListAssignmentHistoryKeeps ==
  ASSUME TaskShape, RecordsHold, NEW t \in TaskIds, ListAssignmentHistory(t)
  PROVE  RecordsHold'
  <1> DEFINE h == HistoryFor(t)
  <1>1. /\ history' = [history EXCEPT ![t] = <<h>>]
        /\ UNCHANGED <<list, task, operations, redone, replayed>>
    BY DEF ListAssignmentHistory, historyVars
  <1>2. /\ h \in Seq(AssignmentHistoryItem)
        /\ Exists(t) /\ t \notin replayed => AssignedBy(h) = ToSet(task[t].assigneeIds)
        /\ task[t].version = 0 => h = <<>>
    BY HistoryIs
  <1> HIDE DEF h
  <1>3. <<h>> \in Entry(AssignmentHistoryItem) /\ <<h>>[1] = h
    BY <1>2, EntryIs
  <1>4. history \in [TaskIds -> Entry(AssignmentHistoryItem)]
    BY DEF RecordsHold, RecordShape
  <1>5. history' \in [TaskIds -> Entry(AssignmentHistoryItem)] /\ history'[t] = <<h>>
        /\ \A u \in TaskIds : u # t => history'[u] = history[u]
    BY <1>1, <1>3, <1>4
  <1>6. RecordShape'
    BY <1>1, <1>2, <1>5 DEF RecordsHold, RecordShape
  <1>7. EditsExplained'
    BY <1>1 DEF RecordsHold, EditsExplained
  <1>8. HistoryEndsInAssignees'
    <2> SUFFICES ASSUME NEW u \in ToSet(list) \ replayed, history'[u] # Missing
                 PROVE  AssignedBy(history'[u][1]) = ToSet(task[u].assigneeIds)
      BY <1>1 DEF HistoryEndsInAssignees
    <2>1. u \in TaskIds /\ Exists(u)
      BY ExistsIs DEF TaskShape, ToSet
    <2>2. CASE u = t
      BY <1>2, <1>3, <1>5, <2>1, <2>2
    <2>3. CASE u # t
      BY <1>5, <2>1, <2>3 DEF RecordsHold, HistoryEndsInAssignees
    <2> QED
      BY <2>2, <2>3
  <1> QED
    BY <1>6, <1>7, <1>8 DEF RecordsHold

\* What is left to show when one task and its records are written.
LEMMA RecordsWritten ==
  ASSUME TaskShape, RecordsHold, UNCHANGED list, NEW t \in TaskIds, NEW k \in MockTask, k.version # 0,
         NEW ops \in Seq(MockTaskOperation), NEW h \in Entry(AssignmentHistoryItem),
         \A i \in DOMAIN ops : DOMAIN ops[i].before = DOMAIN ops[i].after,
         task' = [task EXCEPT ![t] = k],
         operations' = [operations EXCEPT ![t] = ops], history' = [history EXCEPT ![t] = h],
         redone \subseteq redone', replayed \subseteq replayed',
         t \in ToSet(Seeded) \ redone' => \A f \in EditFields : FieldExplained(k[f], ops, f),
         t \in ToSet(list) \ replayed' /\ h # Missing => AssignedBy(h[1]) = ToSet(k.assigneeIds)
  PROVE  TaskShape' /\ RecordsHold'
  <1>1. TaskShape' /\ task'[t] = k /\ \A u \in TaskIds : u # t => task'[u] = task[u]
    BY TaskWritten
  <1>2. operations \in [TaskIds -> Seq(MockTaskOperation)] /\ history \in [TaskIds -> Entry(AssignmentHistoryItem)]
    BY DEF RecordsHold, RecordShape
  <1>3. /\ operations' \in [TaskIds -> Seq(MockTaskOperation)] /\ operations'[t] = ops
        /\ history' \in [TaskIds -> Entry(AssignmentHistoryItem)] /\ history'[t] = h
        /\ \A u \in TaskIds : u # t => operations'[u] = operations[u] /\ history'[u] = history[u]
    BY <1>2
  <1>4. RecordShape'
    BY <1>1, <1>3 DEF RecordsHold, RecordShape
  <1>5. EditsExplained'
    <2> SUFFICES ASSUME NEW u \in ToSet(Seeded) \ redone', NEW f \in EditFields
                 PROVE  FieldExplained(task'[u][f], operations'[u], f)
      BY DEF EditsExplained
    <2>1. u \in TaskIds
      BY SeededAre
    <2>2. CASE u = t
      BY <1>1, <1>3, <2>2
    <2>3. CASE u # t
      <3>1. FieldExplained(task[u][f], operations[u], f)
        BY DEF RecordsHold, EditsExplained
      <3> QED
        BY <1>1, <1>3, <2>1, <2>3, <3>1
    <2> QED
      BY <2>2, <2>3
  <1>6. HistoryEndsInAssignees'
    <2> SUFFICES ASSUME NEW u \in ToSet(list) \ replayed', history'[u] # Missing
                 PROVE  AssignedBy(history'[u][1]) = ToSet(task'[u].assigneeIds)
      BY DEF HistoryEndsInAssignees
    <2>1. u \in TaskIds
      BY DEF TaskShape, ToSet
    <2>2. CASE u = t
      BY <1>1, <1>3, <2>2
    <2>3. CASE u # t
      <3>1. AssignedBy(history[u][1]) = ToSet(task[u].assigneeIds)
        BY <1>3, <2>1, <2>3 DEF RecordsHold, HistoryEndsInAssignees
      <3> QED
        BY <1>1, <1>3, <2>1, <2>3, <3>1
    <2> QED
      BY <2>2, <2>3
  <1> QED
    BY <1>1, <1>4, <1>5, <1>6 DEF RecordsHold

LEMMA UpdateTaskKeeps ==
  ASSUME TaskShape, RecordsHold, NEW t \in TaskIds, NEW input \in Inputs, NEW expected,
         UpdateTask(t, input, expected)
  PROVE  TaskShape' /\ RecordsHold'
  <1> DEFINE k == Applied(t, input)
             b == [f \in DOMAIN input |-> task[t][f]]
             last == [before |-> b, after |-> input, state |-> "ACTIVE"]
             ops == Append(Invalidated(operations[t]), last)
             previous == task[t].assigneeIds
             h == IF "assigneeIds" \in DOMAIN input
                    THEN <<AssignmentChanges(previous, input.assigneeIds) \o HistoryFor(t)>>
                    ELSE history[t]
  <1>1. /\ operations \in [TaskIds -> Seq(MockTaskOperation)]
        /\ history \in [TaskIds -> Entry(AssignmentHistoryItem)]
        /\ \A i \in DOMAIN operations[t] : DOMAIN operations[t][i].before = DOMAIN operations[t][i].after
        /\ task \in [TaskIds -> MockTask]
    BY DEF RecordsHold, RecordShape, TaskShape
  <1>2. /\ UNCHANGED <<list, redone, replayed>> /\ Exists(t)
        /\ task' = [task EXCEPT ![t] = k]
        /\ operations' = [operations EXCEPT ![t] = ops]
    BY DEF UpdateTask, historyVars, Invalidated
  <1>3. history' = [history EXCEPT ![t] = h]
    <2>1. CASE "assigneeIds" \in DOMAIN input
      BY <2>1 DEF UpdateTask
    <2>2. CASE "assigneeIds" \notin DOMAIN input
      BY <1>1, <2>2 DEF UpdateTask
    <2> QED
      BY <2>1, <2>2
  <1>4. input \in UpdateTaskInput
    BY InputAssumption
  <1>5. /\ k \in MockTask /\ k.version = task[t].version + 1
        /\ \A f \in {"status", "assigneeIds"} : k[f] = IF f \in DOMAIN input THEN input[f] ELSE task[t][f]
    BY <1>1, <1>4, AppliedEffect
  <1>6. k.version # 0
    BY <1>5, VersionIs
  <1>7. b \in UpdateTaskInput /\ DOMAIN b = DOMAIN input
    BY <1>1, <1>4, BeforeIs
  <1>8. operations[t] \in Seq(MockTaskOperation)
    BY <1>1
  <1>9. /\ ops \in Seq(MockTaskOperation)
        /\ Len(ops) = Len(operations[t]) + 1
        /\ \A i \in DOMAIN operations[t] :
             ops[i].after = operations[t][i].after /\ ops[i].before = operations[t][i].before
        /\ ops[Len(operations[t]) + 1] = last
    BY <1>4, <1>7, <1>8, InvalidatedIs
  <1>10. \A i \in DOMAIN ops : DOMAIN ops[i].before = DOMAIN ops[i].after
    <2>1. last.before = b /\ last.after = input
      OBVIOUS
    <2> HIDE DEF ops, last, b
    <2>2. \A i \in DOMAIN ops : i \in DOMAIN operations[t] \/ i = Len(operations[t]) + 1
      BY <1>8, <1>9
    <2> QED
      BY <1>1, <1>7, <1>9, <2>1, <2>2
  <1>11. ASSUME t \in ToSet(Seeded) \ redone, NEW f \in EditFields
         PROVE  FieldExplained(k[f], ops, f)
    <2>1. f \in {"status", "assigneeIds"}
      BY EditFieldsAre
    <2>2. FieldExplained(task[t][f], operations[t], f)
      BY <1>11 DEF RecordsHold, EditsExplained
    <2>3. f \in DOMAIN input => b[f] = task[t][f]
      OBVIOUS
    <2> HIDE DEF b
    <2>4. FieldExplained(IF f \in DOMAIN input THEN input[f] ELSE task[t][f], ops, f)
      BY <1>4, <1>7, <1>8, <2>2, <2>3, UpdateExplained
    <2> HIDE DEF ops, k
    <2> QED
      BY <1>5, <2>1, <2>4
  <1>12. /\ h \in Entry(AssignmentHistoryItem)
         /\ t \in ToSet(list) \ replayed /\ h # Missing => AssignedBy(h[1]) = ToSet(k.assigneeIds)
    <2>1. CASE "assigneeIds" \in DOMAIN input
      <3> DEFINE next == input["assigneeIds"]
                 hf == HistoryFor(t)
                 hn == AssignmentChanges(previous, next) \o hf
      <3>1. previous \in Seq(Members) /\ next \in Seq(Members)
        BY <1>1, <1>4, <2>1, InputFields, MockTaskFields
      <3>2. /\ hf \in Seq(AssignmentHistoryItem)
            /\ t \notin replayed => AssignedBy(hf) = ToSet(previous)
        BY <1>2, HistoryIs
      <3> HIDE DEF hf
      <3>3. /\ hn \in Seq(AssignmentHistoryItem)
            /\ t \notin replayed => AssignedBy(hn) = ToSet(next)
        BY <3>1, <3>2, HistoryGoesOn, EntriesAre, WithoutIs DEF AssignmentChanges
      <3>4. h = <<hn>>
        BY <2>1 DEF hf
      <3>5. k.assigneeIds = next
        BY <1>5, <2>1
      <3> HIDE DEF h, hn, k
      <3>6. <<hn>> \in Entry(AssignmentHistoryItem) /\ <<hn>>[1] = hn
        BY <3>3, EntryIs
      <3> QED
        BY <3>3, <3>4, <3>5, <3>6
    <2>2. CASE "assigneeIds" \notin DOMAIN input
      <3>1. h = history[t] /\ k.assigneeIds = previous
        BY <1>5, <2>2
      <3> HIDE DEF h, k
      <3> QED
        BY <1>1, <3>1 DEF RecordsHold, HistoryEndsInAssignees
    <2> QED
      BY <2>1, <2>2
  <1> HIDE DEF k, ops, h
  <1> QED
    BY <1>2, <1>3, <1>5, <1>6, <1>9, <1>10, <1>11, <1>12, RecordsWritten

\* Undo and redo: what they write, and what is left to show of it.
LEMMA ReplayOperationKeeps ==
  ASSUME TaskShape, RecordsHold, NEW t \in TaskIds,
         NEW from \in {"ACTIVE", "UNDONE"}, NEW to \in {"ACTIVE", "UNDONE"}, from # to,
         ReplayOperation(t, from, to), redone \subseteq redone', to = "ACTIVE" => t \in redone'
  PROVE  TaskShape' /\ RecordsHold'
  <1> DEFINE k == Latest(t, from)
             target == IF to = "UNDONE" THEN operations[t][k].before ELSE operations[t][k].after
             row == Applied(t, target)
             ops == [operations[t] EXCEPT ![k].state = to]
  <1>1. /\ operations \in [TaskIds -> Seq(MockTaskOperation)]
        /\ history \in [TaskIds -> Entry(AssignmentHistoryItem)]
        /\ \A i \in DOMAIN operations[t] : DOMAIN operations[t][i].before = DOMAIN operations[t][i].after
        /\ task \in [TaskIds -> MockTask]
    BY DEF RecordsHold, RecordShape, TaskShape
  <1>2. /\ DOMAIN operations[t] = 1..Len(operations[t]) /\ Len(operations[t]) \in Nat
        /\ operations[t] \in Seq(MockTaskOperation)
        /\ \A i \in DOMAIN operations[t] :
             operations[t][i].before \in UpdateTaskInput /\ operations[t][i].after \in UpdateTaskInput
    BY <1>1, OperationFields
  <1>3. /\ k \in InState(t, from) /\ \A j \in InState(t, from) : j <= k
    <2> DEFINE on == InState(t, from)
    <2>1. on \subseteq 1..Len(operations[t]) /\ on # {}
      BY <1>2 DEF InState, ReplayOperation
    <2> HIDE DEF on
    <2>2. /\ (CHOOSE i \in on : \A j \in on : j <= i) \in on
          /\ \A j \in on : j <= (CHOOSE i \in on : \A l \in on : l <= i)
      BY <1>2, <2>1, LastIs
    <2> QED
      BY <2>2, Zenon DEF Latest, on
  <1>4. k \in DOMAIN operations[t] /\ operations[t][k].state = from
    BY <1>3 DEF InState
  <1>5. /\ UNCHANGED <<list, history>>
        /\ task' = [task EXCEPT ![t] = row]
        /\ operations' = [operations EXCEPT ![t][k].state = to]
        /\ replayed' = IF "assigneeIds" \in DOMAIN target /\ history[t] # Missing
                       THEN replayed \cup {t} ELSE replayed
    BY DEF ReplayOperation
  <1> HIDE DEF k
  <1>6. target \in UpdateTaskInput
    BY <1>2, <1>4
  <1>7. operations' = [operations EXCEPT ![t] = ops]
    BY <1>1, <1>4, <1>5
  <1>8. /\ ops \in Seq(MockTaskOperation) /\ DOMAIN ops = DOMAIN operations[t]
        /\ \A i \in DOMAIN operations[t] :
             ops[i].after = operations[t][i].after /\ ops[i].before = operations[t][i].before
    <2> HIDE DEF ops
    <2>1. ops = [operations[t] EXCEPT ![k].state = to]
      BY DEF ops
    <2> QED
      BY <1>2, <1>4, <2>1, UndoneIs
  <1>9. \A i \in DOMAIN ops : DOMAIN ops[i].before = DOMAIN ops[i].after
    <2> HIDE DEF ops
    <2> QED
      BY <1>1, <1>8
  <1>10. target = (IF to = "UNDONE" THEN operations[t][k].before ELSE operations[t][k].after)
    OBVIOUS
  <1> HIDE DEF target
  <1>11. /\ row \in MockTask /\ row.version = task[t].version + 1
         /\ \A f \in {"status", "assigneeIds"} :
              row[f] = IF f \in DOMAIN target THEN target[f] ELSE task[t][f]
    BY <1>1, <1>6, AppliedEffect
  <1>12. row.version # 0
    BY <1>11, VersionIs
  <1> HIDE DEF row
  <1>13. ASSUME t \in ToSet(Seeded) \ redone', NEW f \in EditFields
         PROVE  FieldExplained(row[f], ops, f)
    <2>1. f \in {"status", "assigneeIds"}
      BY EditFieldsAre
    <2>2. FieldExplained(task[t][f], operations[t], f)
      BY <1>13 DEF RecordsHold, EditsExplained
    <2>3. to = "UNDONE" /\ from = "ACTIVE"
      BY <1>13
    <2>4. target = operations[t][k].before /\ DOMAIN target = DOMAIN operations[t][k].after
      BY <1>1, <1>4, <1>10, <2>3
    <2>5. \A i \in DOMAIN operations[t] : operations[t][i].state = "ACTIVE" => i <= k
      BY <1>3, <2>3 DEF InState
    <2>6. FieldExplained(IF f \in DOMAIN operations[t][k].after THEN operations[t][k].before[f] ELSE task[t][f],
                         [operations[t] EXCEPT ![k].state = "UNDONE"], f)
      BY <1>2, <1>4, <2>2, <2>3, <2>5, UndoExplained
    <2>7. ops = [operations[t] EXCEPT ![k].state = "UNDONE"]
      BY <2>3
    <2> HIDE DEF ops
    <2>8. row[f] = IF f \in DOMAIN operations[t][k].after THEN operations[t][k].before[f] ELSE task[t][f]
      BY <1>11, <2>1, <2>4
    <2> QED
      BY <2>6, <2>7, <2>8
  <1>14. t \in ToSet(list) \ replayed' /\ history[t] # Missing =>
           AssignedBy(history[t][1]) = ToSet(row.assigneeIds)
    <2> SUFFICES ASSUME t \in ToSet(list) \ replayed', history[t] # Missing
                 PROVE  AssignedBy(history[t][1]) = ToSet(row.assigneeIds)
      OBVIOUS
    <2>1. "assigneeIds" \notin DOMAIN target /\ t \notin replayed
      BY <1>5
    <2>2. row["assigneeIds"] = task[t]["assigneeIds"]
      BY <1>11, <2>1
    <2> QED
      BY <2>1, <2>2 DEF RecordsHold, HistoryEndsInAssignees
  <1>15. history' = [history EXCEPT ![t] = history[t]] /\ history[t] \in Entry(AssignmentHistoryItem)
    BY <1>1, <1>5
  <1>16. replayed \subseteq replayed'
    BY <1>5
  <1> HIDE DEF ops
  <1> QED
    BY <1>5, <1>7, <1>8, <1>9, <1>11, <1>12, <1>13, <1>14, <1>15, <1>16, RecordsWritten

\* A row is written whose status and assignees stay.
LEMMA RowWrittenKeeps ==
  ASSUME TaskShape, RecordsHold, NEW t \in TaskIds, NEW k \in MockTask, k.version # 0,
         UNCHANGED <<list, operations, history, redone, replayed>>,
         task' = [task EXCEPT ![t] = k],
         k.status = task[t].status, k.assigneeIds = task[t].assigneeIds
  PROVE  TaskShape' /\ RecordsHold'
  <1>1. TaskShape' /\ task'[t] = k /\ \A u \in TaskIds : u # t => task'[u] = task[u]
    BY TaskWritten
  <1>2. ToSet(list) \subseteq TaskIds
    BY DEF TaskShape, ToSet
  <1>3. ASSUME NEW u \in TaskIds
        PROVE  /\ task'[u]["status"] = task[u]["status"]
               /\ task'[u]["assigneeIds"] = task[u]["assigneeIds"]
               /\ task'[u].version = 0 => task[u].version = 0
    BY <1>1
  <1> QED
    BY <1>1, <1>2, <1>3, RecordsStay

LEMMA DependencyKeeps ==
  ASSUME TaskShape, RecordsHold, NEW t \in TaskIds, NEW d \in TaskIds,
         AddDependency(t, d) \/ RemoveDependency(t, d)
  PROVE  /\ TaskShape' /\ RecordsHold'
         /\ UNCHANGED <<list, walk, comments, notifications, created>>
         /\ \A u \in TaskIds : /\ task'[u].status = task[u].status
                               /\ task'[u].commentCount = task[u].commentCount
                               /\ Undeleted(u)' => Undeleted(u)
  <1>1. task \in [TaskIds -> MockTask] /\ task[t] \in MockTask /\ task[t].version \in Nat
        /\ task[t].version + 1 # 0 /\ task[t].dependencyIds \in SUBSET TaskIds
    BY VersionIs DEF TaskShape, MockTask
  <1>2. PICK deps \in SUBSET TaskIds :
          task' = [task EXCEPT ![t].dependencyIds = deps, ![t].version = @ + 1]
    <2>1. CASE AddDependency(t, d)
      <3>1. task' = [task EXCEPT ![t].dependencyIds = task[t].dependencyIds \cup {d}, ![t].version = @ + 1]
        BY <1>1, <2>1 DEF AddDependency
      <3> QED
        BY <1>1, <3>1
    <2>2. CASE RemoveDependency(t, d)
      <3>1. task' = [task EXCEPT ![t].dependencyIds = task[t].dependencyIds \ {d}, ![t].version = @ + 1]
        BY <1>1, <2>2 DEF RemoveDependency
      <3> QED
        BY <1>1, <3>1
    <2> QED
      BY <2>1, <2>2
  <1> DEFINE k == [task[t] EXCEPT !.dependencyIds = deps, !.version = @ + 1]
  <1>3. task' = [task EXCEPT ![t] = k]
    BY <1>1, <1>2
  <1>4. /\ k \in MockTask /\ k.version # 0
        /\ k.status = task[t].status /\ k.assigneeIds = task[t].assigneeIds
        /\ k.commentCount = task[t].commentCount
    <2> DEFINE r == task[t]
    <2>1. r \in MockTask /\ r.version + 1 \in Nat /\ r.version + 1 # 0
      BY <1>1
    <2>2. k = [r EXCEPT !.dependencyIds = deps, !.version = r.version + 1]
      OBVIOUS
    <2> HIDE DEF k, r
    <2>3. k = [status |-> r.status, assigneeIds |-> r.assigneeIds, dependencyIds |-> deps,
               commentCount |-> r.commentCount, version |-> r.version + 1]
      BY <2>1, <2>2 DEF MockTask
    <2>4. r.status \in Statuses /\ r.assigneeIds \in Seq(Members) /\ r.commentCount \in Nat
      BY <2>1, MockTaskFields
    <2>5. k \in MockTask
      BY <1>2, <2>1, <2>3, <2>4 DEF MockTask
    <2> QED
      BY <2>1, <2>3, <2>5 DEF r
  <1>5. UNCHANGED <<list, operations, history, redone, replayed, walk, comments, notifications, created>>
    BY DEF AddDependency, RemoveDependency, talkVars, historyVars
  <1> HIDE DEF k
  <1>6. TaskShape' /\ RecordsHold'
    BY <1>3, <1>4, <1>5, RowWrittenKeeps
  <1>7. task'[t] = k /\ \A u \in TaskIds : u # t => task'[u] = task[u]
    BY <1>1, <1>3
  <1>8. Exists(t)
    BY DEF AddDependency, RemoveDependency
  <1>9. \A u \in TaskIds : Undeleted(u)' => Undeleted(u)
    BY <1>5, <1>7, <1>8 DEF Undeleted, Exists
  <1> QED
    BY <1>4, <1>5, <1>6, <1>7, <1>9

LEMMA CreateTaskKeeps ==
  ASSUME TaskShape, RecordsHold, NEW t \in TaskIds, CreateTask(t)
  PROVE  /\ TaskShape' /\ RecordsHold' /\ SameOrder(list', list)
         /\ UNCHANGED <<comments, notifications, created>>
         /\ \A u \in TaskIds : /\ u \in ToSet(Seeded) => task'[u].commentCount = task[u].commentCount
                               /\ Undeleted(u)' => Undeleted(u)
  <1>1. /\ ~Exists(t) /\ task[t].version = 0
        /\ list' = <<t>> \o list /\ task' = [task EXCEPT ![t] = CreatedTask]
        /\ UNCHANGED <<operations, history, redone, replayed, comments, notifications, created>>
    BY DEF CreateTask, Fresh, talkVars, historyVars
  <1>2. /\ list \in Seq(TaskIds) /\ IsInjective(list) /\ task \in [TaskIds -> MockTask]
        /\ \A u \in TaskIds : Exists(u) \/ u \in ToSet(Seeded) => task[u].version # 0
    BY DEF TaskShape
  <1>3. CreatedTask \in MockTask /\ CreatedTask.version # 0 /\ CreatedTask.assigneeIds = <<>>
    BY MockAssumption DEF CreatedTask, MockTask
  <1>4. /\ list' \in Seq(TaskIds) /\ Len(list') = Len(list) + 1 /\ list'[1] = t
        /\ \A i \in DOMAIN list' : i # 1 => i - 1 \in DOMAIN list /\ list'[i] = list[i - 1]
        /\ \A i \in DOMAIN list' : i \in Nat
    BY <1>1, <1>2
  <1>5. \A i \in DOMAIN list : list[i] # t
    BY <1>1 DEF Exists, Contains
  <1>6. /\ task' \in [TaskIds -> MockTask] /\ task'[t] = CreatedTask
        /\ \A u \in TaskIds : u # t => task'[u] = task[u]
    BY <1>1, <1>2, <1>3
  <1>7. IsInjective(list')
    <2> SUFFICES ASSUME NEW i \in DOMAIN list', NEW j \in DOMAIN list', list'[i] = list'[j]
                 PROVE  i = j
      BY DEF IsInjective
    <2>1. CASE i = 1 \/ j = 1
      BY <1>4, <1>5, <2>1
    <2>2. CASE i # 1 /\ j # 1
      <3>1. i - 1 = j - 1
        BY <1>2, <1>4, <2>2 DEF IsInjective
      <3> QED
        BY <1>4, <3>1
    <2> QED
      BY <2>1, <2>2
  <1>8. \A u : u # t => (Exists(u)' <=> Exists(u))
    <2> SUFFICES ASSUME NEW u, u # t
                 PROVE  (\E i \in DOMAIN list' : list'[i] = u) <=> (\E i \in DOMAIN list : list[i] = u)
      <3>1. DOMAIN list = 1..Len(list) /\ DOMAIN list' = 1..Len(list')
        BY <1>2, <1>4
      <3> QED
        BY <3>1 DEF Exists, Contains
    <2>1. ASSUME NEW i \in DOMAIN list', list'[i] = u PROVE \E j \in DOMAIN list : list[j] = u
      BY <1>4, <2>1
    <2>2. ASSUME NEW i \in DOMAIN list, list[i] = u PROVE \E j \in DOMAIN list' : list'[j] = u
      <3>1. i + 1 \in DOMAIN list' /\ i + 1 # 1 /\ i + 1 - 1 = i
        BY <1>2, <1>4
      <3> QED
        BY <1>4, <2>2, <3>1
    <2> QED
      BY <2>1, <2>2
  <1>9. t \notin ToSet(Seeded)
    BY <1>1, <1>2
  <1>10. TaskShape'
    <2>1. ASSUME NEW u \in TaskIds, Exists(u)' \/ u \in ToSet(Seeded)
          PROVE  task'[u].version # 0
      BY <1>2, <1>3, <1>6, <1>8, <1>9, <2>1
    <2> QED
      BY <1>4, <1>6, <1>7, <2>1 DEF TaskShape
  <1>11. SameOrder(list', list)
    <2> SUFFICES ASSUME NEW i \in DOMAIN list', NEW j \in DOMAIN list', NEW a \in DOMAIN list,
                        NEW b \in DOMAIN list, i < j, list[a] = list'[i], list[b] = list'[j]
                 PROVE  a < b
      BY DEF SameOrder
    <2>1. i # 1 /\ j # 1
      BY <1>4, <1>5
    <2>2. a = i - 1 /\ b = j - 1
      BY <1>2, <1>4, <2>1 DEF IsInjective
    <2> QED
      BY <1>4, <2>2
  <1>12. RecordShape'
    <2>1. \A u \in TaskIds : task'[u].version = 0 => task[u].version = 0
      BY <1>3, <1>6
    <2> QED
      BY <1>1, <2>1 DEF RecordsHold, RecordShape
  <1>13. EditsExplained'
    <2> SUFFICES ASSUME NEW u \in ToSet(Seeded) \ redone, NEW f \in EditFields
                 PROVE  FieldExplained(task'[u][f], operations[u], f)
      BY <1>1 DEF EditsExplained
    <2>1. u \in TaskIds /\ u # t
      BY <1>9, SeededAre
    <2> QED
      BY <1>6, <2>1 DEF RecordsHold, EditsExplained
  <1>14. HistoryEndsInAssignees'
    <2> SUFFICES ASSUME NEW u \in ToSet(list') \ replayed, history[u] # Missing
                 PROVE  AssignedBy(history[u][1]) = ToSet(task'[u].assigneeIds)
      BY <1>1 DEF HistoryEndsInAssignees
    <2>1. u \in TaskIds /\ Exists(u)'
      BY <1>4 DEF Exists, Contains, ToSet
    <2>2. CASE u = t
      <3>1. history[t] = <<<<>>>>
        BY <1>1, <2>2 DEF RecordsHold, RecordShape
      <3>2. history[t][1] = <<>>
        BY <3>1
      <3>3. AssignedBy(<<>>) = {} /\ ToSet(<<>>) = {}
        BY DEF AssignedBy, ToSet
      <3> QED
        BY <1>3, <1>6, <2>2, <3>2, <3>3
    <2>3. CASE u # t
      <3>1. Exists(u)
        BY <1>8, <2>1, <2>3
      <3>2. u \in ToSet(list)
        BY <3>1, ExistsIs
      <3> QED
        BY <1>6, <2>1, <2>3, <3>2 DEF RecordsHold, HistoryEndsInAssignees
    <2> QED
      BY <2>2, <2>3
  <1>15. ASSUME NEW u \in TaskIds
         PROVE  /\ u \in ToSet(Seeded) => task'[u].commentCount = task[u].commentCount
                /\ Undeleted(u)' => Undeleted(u)
    <2>1. CASE u = t
      BY <1>1, <1>9, <2>1 DEF Undeleted
    <2>2. CASE u # t
      BY <1>6, <1>8, <2>2 DEF Undeleted
    <2> QED
      BY <2>1, <2>2
  <1> QED
    BY <1>1, <1>10, <1>11, <1>12, <1>13, <1>14, <1>15 DEF RecordsHold

LEMMA DeleteTaskKeeps ==
  ASSUME TaskShape, RecordsHold, NEW t \in TaskIds, NEW expected, DeleteTask(t, expected)
  PROVE  /\ TaskShape' /\ RecordsHold' /\ SameOrder(list', list)
         /\ UNCHANGED <<task, notifications, created>>
         /\ comments' = [comments EXCEPT ![t] = Missing] /\ ~Undeleted(t)'
         /\ \A u \in TaskIds : u # t => (Undeleted(u)' => Undeleted(u))
  <1>1. /\ Exists(t) /\ list' = Only(list, TaskIds \ {t})
        /\ comments' = [comments EXCEPT ![t] = Missing]
        /\ history' = [history EXCEPT ![t] = Missing]
        /\ UNCHANGED <<task, operations, redone, replayed, notifications, created>>
    BY DEF DeleteTask, historyVars
  <1>2. /\ list \in Seq(TaskIds) /\ IsInjective(list) /\ task \in [TaskIds -> MockTask]
        /\ \A u \in TaskIds : Exists(u) \/ u \in ToSet(Seeded) => task[u].version # 0
    BY DEF TaskShape
  <1>3. list' \in Seq(TaskIds) /\ IsInjective(list')
    BY <1>1, <1>2, OnlyIs, OnlyInjective
  <1>4. ToSet(list') = ToSet(list) \cap (TaskIds \ {t})
    BY <1>1, <1>2, OnlyMembers
  <1>5. \A u : (Exists(u)' <=> u \in ToSet(list')) /\ (Exists(u) <=> u \in ToSet(list))
    BY DEF Exists, Contains, ToSet
  <1>6. \A u : Exists(u)' => Exists(u) /\ u # t
    BY <1>4, <1>5
  <1>7. TaskShape'
    BY <1>1, <1>2, <1>3, <1>6 DEF TaskShape
  <1>8. SameOrder(list', list)
    <2> SUFFICES ASSUME NEW i \in DOMAIN list', NEW j \in DOMAIN list', NEW a \in DOMAIN list,
                        NEW b \in DOMAIN list, i < j, list[a] = list'[i], list[b] = list'[j]
                 PROVE  a < b
      BY DEF SameOrder
    <2>1. PICK x, y \in DOMAIN list : x < y /\ list[x] = list'[i] /\ list[y] = list'[j]
      BY <1>1, <1>2, OnlyOrder
    <2> QED
      BY <1>2, <2>1 DEF IsInjective
  <1>9. /\ history \in [TaskIds -> Entry(AssignmentHistoryItem)]
        /\ history' \in [TaskIds -> Entry(AssignmentHistoryItem)] /\ history'[t] = Missing
        /\ \A u \in TaskIds : u # t => history'[u] = history[u]
    BY <1>1, EntryIs DEF RecordsHold, RecordShape
  <1>10. RecordShape'
    BY <1>1, <1>9 DEF RecordsHold, RecordShape
  <1>11. EditsExplained'
    BY <1>1 DEF RecordsHold, EditsExplained
  <1>12. HistoryEndsInAssignees'
    <2> SUFFICES ASSUME NEW u \in ToSet(list') \ replayed, history'[u] # Missing
                 PROVE  AssignedBy(history'[u][1]) = ToSet(task[u].assigneeIds)
      BY <1>1 DEF HistoryEndsInAssignees
    <2>1. u \in ToSet(list) /\ u \in TaskIds /\ u # t
      BY <1>4
    <2> QED
      BY <1>9, <2>1 DEF RecordsHold, HistoryEndsInAssignees
  <1>13. ~Undeleted(t)' /\ \A u \in TaskIds : u # t => (Undeleted(u)' => Undeleted(u))
    BY <1>1, <1>2, <1>6 DEF Undeleted
  <1> QED
    BY <1>1, <1>7, <1>8, <1>10, <1>11, <1>12, <1>13 DEF RecordsHold

LEMMA CreateCommentKeeps ==
  ASSUME TaskShape, RecordsHold, TalkShape, TalkHolds, NEW t \in TaskIds, NEW id \in CommentIds, NEW parent,
         NEW mentions \in SUBSET Members, CreateComment(t, id, parent, mentions)
  PROVE  /\ TaskShape' /\ RecordsHold' /\ TalkShape' /\ TalkHolds'
         /\ UNCHANGED <<list, walk>>
         /\ \A u \in TaskIds : task'[u].status = task[u].status
  <1>1. id \in AllComments
    BY DEF AllComments
  <1>2. UNCHANGED <<list, walk, operations, history, redone, replayed>>
    BY DEF CreateComment
  <1>3. CASE Posted(t, id) \/ ~ParentExists(t, parent)
    <2>1. comments' = [comments EXCEPT ![t] = <<CommentsFor(t)>>] /\ UNCHANGED <<task, notifications, created>>
      BY <1>3 DEF CreateComment
    <2>2. TalkShape' /\ TalkHolds'
      BY <1>2, <2>1, ThreadIsRead
    <2>3. TaskShape'
      BY <1>2, <2>1, TaskStays
    <2>4. RecordsHold'
      BY <1>2, <2>1 DEF RecordsHold, RecordShape, EditsExplained, HistoryEndsInAssignees
    <2> QED
      BY <1>2, <2>1, <2>2, <2>3, <2>4
  <1>4. CASE ~(Posted(t, id) \/ ~ParentExists(t, parent))
    <2>1. /\ comments' = [comments EXCEPT ![t] = <<Append(CommentsFor(t), Comment(id, parent))>>]
          /\ task' = IF Exists(t) THEN [task EXCEPT ![t].commentCount = @ + 1] ELSE task
          /\ notifications' = <<Newest(Mentioned(t, id, mentions) \o Got(notifications, <<>>))>>
          /\ created' = IF Exists(t) THEN created \cup {<<t, id>>} ELSE created
      BY <1>4 DEF CreateComment
    <2>2. TalkShape' /\ TalkHolds'
      <3> HIDE DEF CreateComment
      <3> QED
        BY <1>1, <1>2, <1>4, <2>1, CommentAdded
    <2>3. CASE Exists(t)
      <3> DEFINE r == task[t]
                 k == [r EXCEPT !.commentCount = @ + 1]
      <3>1. r \in MockTask /\ r.version # 0
        BY <2>3, VersionIs
      <3>2. task' = [task EXCEPT ![t] = k]
        BY <2>1, <2>3 DEF TaskShape
      <3>3. /\ k = [status |-> r.status, assigneeIds |-> r.assigneeIds, dependencyIds |-> r.dependencyIds,
                    commentCount |-> r.commentCount + 1, version |-> r.version]
            /\ r.status = task[t].status /\ r.assigneeIds = task[t].assigneeIds
        BY <3>1 DEF MockTask
      <3> HIDE DEF r, k
      <3>4. /\ k \in MockTask /\ k.version # 0
            /\ k.status = task[t].status /\ k.assigneeIds = task[t].assigneeIds
        BY <3>1, <3>3 DEF MockTask
      <3>5. TaskShape' /\ RecordsHold'
        BY <1>2, <3>2, <3>4, RowWrittenKeeps
      <3>6. \A u \in TaskIds : task'[u].status = task[u].status
        BY <3>2, <3>4 DEF TaskShape
      <3> QED
        BY <1>2, <2>2, <3>5, <3>6
    <2>4. CASE ~Exists(t)
      <3>1. UNCHANGED task
        BY <2>1, <2>4
      <3>2. TaskShape'
        BY <1>2, <3>1, TaskStays
      <3>3. RecordsHold'
        BY <1>2, <3>1 DEF RecordsHold, RecordShape, EditsExplained, HistoryEndsInAssignees
      <3> QED
        BY <1>2, <2>2, <3>1, <3>2, <3>3
    <2> QED
      BY <2>3, <2>4
  <1> QED
    BY <1>3, <1>4

-----------------------------------------------------------------------------
(* The inductive invariant holds *)

LEMMA MockInvInit ==
  ASSUME MockInit
  PROVE  MockInv
  <1>1. /\ list = Seeded /\ operations = [t \in TaskIds |-> <<>>]
        /\ task = [t \in TaskIds |-> IF Contains(Seeded, t) THEN SeedTask ELSE [CreatedTask EXCEPT !.version = 0]]
        /\ history = [t \in TaskIds |-> Missing] /\ comments = [t \in TaskIds |-> Missing]
        /\ notifications = Missing /\ walk = NoWalk /\ redone = {} /\ replayed = {} /\ created = {}
    BY DEF MockInit
  <1>2. /\ SeedTask \in MockTask /\ SeedTask.version # 0 /\ SeedTask.commentCount = 3
        /\ [CreatedTask EXCEPT !.version = 0] \in MockTask
    <2>1. <<Me>> \in Seq(Members) /\ <<>> \in Seq(Members) /\ {} \in SUBSET TaskIds /\ "todo" \in Statuses
      BY MockAssumption
    <2>2. \A r \in MockTask : [r EXCEPT !.version = 0] \in MockTask
      BY DEF MockTask
    <2>3. CreatedTask \in MockTask
      BY <2>1 DEF CreatedTask, MockTask
    <2> QED
      BY <2>1, <2>2, <2>3 DEF SeedTask, MockTask
  <1>3. \A t : Contains(Seeded, t) <=> t \in ToSet(Seeded)
    BY DEF Contains, ToSet
  <1>4. task \in [TaskIds -> MockTask] /\ \A t \in ToSet(Seeded) : t \in TaskIds /\ task[t] = SeedTask
    BY <1>1, <1>2, <1>3, SeededAre
  <1>5. TaskShape
    BY <1>1, <1>2, <1>3, <1>4, MockAssumption DEF TaskShape, Exists
  <1>6. RecordShape
    BY <1>1, EntryIs DEF RecordShape
  <1>7. EditsExplained
    <2> SUFFICES ASSUME NEW t \in ToSet(Seeded), NEW f \in EditFields
                 PROVE  FieldExplained(task[t][f], operations[t], f)
      BY DEF EditsExplained
    <2>1. operations[t] = <<>> /\ task[t] = SeedTask
      BY <1>1, <1>4
    <2>2. \A n : ActiveOn(<<>>, f, n) = {}
      BY DEF ActiveOn
    <2>3. LastBefore(<<>>, f, Len(<<>>) + 1) = SeedTask[f]
      BY <2>2 DEF LastBefore
    <2> QED
      BY <2>1, <2>2, <2>3 DEF FieldExplained
  <1>8. HistoryEndsInAssignees
    BY <1>1, <1>5 DEF HistoryEndsInAssignees, TaskShape, ToSet
  <1>9. WalkShape /\ WalkHolds
    BY <1>1 DEF WalkShape, WalkHolds
  <1>10. TalkShape
    BY <1>1, EntryIs, FS_EmptySet DEF TalkShape
  <1>11. \A t \in TaskIds : CommentsFor(t) = Examples
    BY <1>1 DEF CommentsFor, Got
  <1>12. \A t \in TaskIds : ThreadClosed(CommentsFor(t))
    BY <1>11, ExampleIds
  <1>13. CountsHold
    <2>1. \A t : {c \in created : c[1] = t} = {}
      BY <1>1
    <2>2. Cardinality({}) = 0
      BY FS_EmptySet
    <2>3. ASSUME NEW t \in TaskIds, t \in ToSet(Seeded)
          PROVE  task[t].commentCount = 3 + Cardinality({c \in created : c[1] = t})
      BY <1>2, <1>4, <2>1, <2>2, <2>3
    <2>4. ASSUME NEW t \in TaskIds, NEW id \in AllComments, <<t, id>> \in created
          PROVE  FALSE
      BY <1>1, <2>4
    <2> QED
      BY <2>3, <2>4 DEF CountsHold
  <1>14. NoticesHold
    BY <1>1 DEF NoticesHold, NoticesFit, Got
  <1> QED
    BY <1>5, <1>6, <1>7, <1>8, <1>9, <1>10, <1>12, <1>13, <1>14 DEF MockInv, TalkHolds

LEMMA MockInvNext ==
  ASSUME MockInv, [MockNext]_mockVars
  PROVE  MockInv'
  <1>1. /\ TaskShape /\ RecordsHold /\ WalkShape /\ WalkHolds /\ TalkShape /\ TalkHolds
        /\ list \in Seq(TaskIds) /\ IsInjective(list)
    BY DEF MockInv, RecordsHold, TaskShape
  <1>2. SameOrder(list, list)
    BY <1>1 DEF SameOrder, IsInjective
  \* Who shows which part of the invariant again.
  <1>3. ASSUME UNCHANGED <<list, task, operations, history, redone, replayed>>
        PROVE  TaskShape' /\ RecordsHold'
    BY <1>1, <1>3, TaskStays DEF RecordsHold, RecordShape, EditsExplained, HistoryEndsInAssignees
  <1>4. ASSUME UNCHANGED <<list, task, walk>>
        PROVE  WalkShape' /\ WalkHolds'
    BY <1>1, <1>4, WalkStays
  <1>5. ASSUME UNCHANGED <<list, task, comments, notifications, created>>
        PROVE  TalkShape' /\ TalkHolds'
    <2>1. \A u : Undeleted(u)' <=> Undeleted(u)
      BY <1>5 DEF Undeleted, Exists
    <2> QED
      BY <1>1, <1>5, <2>1, ThreadsStay
  <1>6. ASSUME UNCHANGED <<list, comments, notifications, created>>, NEW t \in TaskIds, NEW input \in UpdateTaskInput,
               task' = [task EXCEPT ![t] = Applied(t, input)], Exists(t)
        PROVE  TalkShape' /\ TalkHolds'
    <2>1. task \in [TaskIds -> MockTask] /\ Applied(t, input).commentCount = task[t].commentCount
      BY <1>1, AppliedEffect DEF TaskShape
    <2> HIDE DEF Applied
    <2>2. \A u \in TaskIds : task'[u].commentCount = task[u].commentCount /\ (u # t => task'[u] = task[u])
      BY <1>6, <2>1
    <2>3. \A u \in TaskIds : Undeleted(u)' => Undeleted(u)
      BY <1>6, <2>2 DEF Undeleted, Exists
    <2> QED
      BY <1>1, <1>6, <2>2, <2>3, ThreadsStay
  <1>7. ASSUME NEW t \in TaskIds, NEW input \in Inputs, NEW expected, UpdateTask(t, input, expected)
        PROVE  MockInv'
    <2>1. /\ UNCHANGED <<list, comments, notifications, created>> /\ Exists(t)
          /\ task' = [task EXCEPT ![t] = Applied(t, input)] /\ Watch
      BY <1>7 DEF UpdateTask, talkVars, historyVars
    <2>2. TaskShape' /\ RecordsHold'
      BY <1>1, <1>7, UpdateTaskKeeps
    <2>3. WalkShape' /\ WalkHolds'
      BY <1>1, <1>2, <2>1, WatchKeeps
    <2>4. TalkShape' /\ TalkHolds'
      BY <1>6, <2>1, InputAssumption
    <2> QED
      BY <2>2, <2>3, <2>4 DEF MockInv, RecordsHold
  <1>8. ASSUME NEW t \in TaskIds, NEW from \in {"ACTIVE", "UNDONE"}, NEW to \in {"ACTIVE", "UNDONE"}, from # to,
               ReplayOperation(t, from, to), redone \subseteq redone', to = "ACTIVE" => t \in redone'
        PROVE  MockInv'
    <2>1. TaskShape' /\ RecordsHold'
      BY <1>1, <1>8, ReplayOperationKeeps
    <2> DEFINE k == Latest(t, from)
               target == IF to = "UNDONE" THEN operations[t][k].before ELSE operations[t][k].after
    <2>2. /\ UNCHANGED <<list, comments, notifications, created>> /\ Exists(t)
          /\ task' = [task EXCEPT ![t] = Applied(t, target)] /\ Watch
      BY <1>8 DEF ReplayOperation, talkVars
    <2>3. target \in UpdateTaskInput
      <3>1. operations[t] \in Seq(MockTaskOperation)
        BY <1>1 DEF RecordsHold, RecordShape
      <3> DEFINE on == InState(t, from)
      <3>2. on \subseteq 1..Len(operations[t]) /\ on # {} /\ Len(operations[t]) \in Nat
        BY <1>8, <3>1, OperationFields DEF InState, ReplayOperation
      <3>3. k \in on
        <4> HIDE DEF on
        <4>1. (CHOOSE i \in on : \A j \in on : j <= i) \in on
          BY <3>2, LastIs
        <4> QED
          BY <4>1, Zenon DEF Latest, on
      <3>4. k \in DOMAIN operations[t]
        BY <3>1, <3>2, <3>3, OperationFields
      <3> HIDE DEF k
      <3> QED
        BY <3>1, <3>4, OperationFields
    <2>4. WalkShape' /\ WalkHolds'
      <3> HIDE DEF target
      <3> QED
        BY <1>1, <1>2, <2>2, WatchKeeps
    <2>5. TalkShape' /\ TalkHolds'
      <3> HIDE DEF target
      <3> QED
        BY <1>6, <2>2, <2>3
    <2> QED
      BY <2>1, <2>4, <2>5 DEF MockInv, RecordsHold
  <1>9. ASSUME NEW t \in TaskIds, NEW expected, DeleteTask(t, expected)
        PROVE  MockInv'
    <2>1. Watch
      BY <1>9 DEF DeleteTask
    <2>2. /\ TaskShape' /\ RecordsHold' /\ SameOrder(list', list)
          /\ UNCHANGED <<task, notifications, created>>
          /\ comments' = [comments EXCEPT ![t] = Missing] /\ ~Undeleted(t)'
          /\ \A u \in TaskIds : u # t => (Undeleted(u)' => Undeleted(u))
      BY <1>1, <1>9, DeleteTaskKeeps
    <2>3. list' \in Seq(TaskIds) /\ IsInjective(list')
      BY <2>2 DEF TaskShape
    <2>4. WalkShape' /\ WalkHolds'
      BY <1>1, <2>1, <2>2, <2>3, WatchKeeps
    <2>5. TalkShape' /\ TalkHolds'
      BY <1>1, <2>2, ThreadBeginsAgain
    <2> QED
      BY <2>2, <2>4, <2>5 DEF MockInv, RecordsHold
  <1>10. ASSUME NEW t \in TaskIds, NEW d \in TaskIds, AddDependency(t, d) \/ RemoveDependency(t, d)
         PROVE  MockInv'
    <2>1. /\ TaskShape' /\ RecordsHold'
          /\ UNCHANGED <<list, walk, comments, notifications, created>>
          /\ \A u \in TaskIds : /\ task'[u].status = task[u].status
                                /\ task'[u].commentCount = task[u].commentCount
                                /\ Undeleted(u)' => Undeleted(u)
      BY <1>1, <1>10, DependencyKeeps
    <2>2. WalkShape' /\ WalkHolds'
      BY <1>1, <2>1, WalkStays
    <2>3. TalkShape' /\ TalkHolds'
      BY <1>1, <2>1, ThreadsStay
    <2> QED
      BY <2>1, <2>2, <2>3 DEF MockInv, RecordsHold
  <1>11. ASSUME NEW t \in TaskIds, ListAssignmentHistory(t)
         PROVE  MockInv'
    <2>1. UNCHANGED <<list, task, walk, comments, notifications, created>>
      BY <1>11 DEF ListAssignmentHistory, talkVars, historyVars
    <2>2. TaskShape' /\ RecordsHold'
      BY <1>1, <1>11, <2>1, TaskStays, ListAssignmentHistoryKeeps
    <2> QED
      BY <1>4, <1>5, <2>1, <2>2 DEF MockInv, RecordsHold
  <1>12. ASSUME NEW t \in TaskIds, CreateTask(t)
         PROVE  MockInv'
    <2>1. Watch
      BY <1>12 DEF CreateTask
    <2>2. /\ TaskShape' /\ RecordsHold' /\ SameOrder(list', list)
          /\ UNCHANGED <<comments, notifications, created>>
          /\ \A u \in TaskIds : /\ u \in ToSet(Seeded) => task'[u].commentCount = task[u].commentCount
                                /\ Undeleted(u)' => Undeleted(u)
      BY <1>1, <1>12, CreateTaskKeeps
    <2>3. list' \in Seq(TaskIds) /\ IsInjective(list')
      BY <2>2 DEF TaskShape
    <2>4. WalkShape' /\ WalkHolds'
      BY <1>1, <2>1, <2>2, <2>3, WatchKeeps
    <2>5. TalkShape' /\ TalkHolds'
      BY <1>1, <2>2, ThreadsStay
    <2> QED
      BY <2>2, <2>4, <2>5 DEF MockInv, RecordsHold
  <1>13. ASSUME NEW filter \in Filters, FirstPage(filter)
         PROVE  MockInv'
    <2>1. UNCHANGED <<list, task, operations, history, redone, replayed, comments, notifications, created>>
      BY <1>13 DEF FirstPage, editVars, talkVars, historyVars
    <2>2. WalkShape' /\ WalkHolds'
      BY <1>1, <1>13, FirstPageKeeps
    <2> QED
      BY <1>3, <1>5, <2>1, <2>2 DEF MockInv, RecordsHold
  <1>14. ASSUME NextPage
         PROVE  MockInv'
    <2>1. UNCHANGED <<list, task, operations, history, redone, replayed, comments, notifications, created>>
      BY <1>14 DEF NextPage, editVars, talkVars, historyVars
    <2>2. WalkShape' /\ WalkHolds'
      BY <1>1, <1>14, NextPageKeeps
    <2> QED
      BY <1>3, <1>5, <2>1, <2>2 DEF MockInv, RecordsHold
  <1>15. ASSUME NEW p, CreateProject(p) \/ ListActivity(p)
         PROVE  MockInv'
    <2>1. /\ UNCHANGED <<list, task, operations, history, redone, replayed, walk>>
          /\ UNCHANGED <<comments, notifications, created>>
      BY <1>15 DEF CreateProject, ListActivity, editVars, talkVars, historyVars
    <2> QED
      BY <1>3, <1>4, <1>5, <2>1 DEF MockInv, RecordsHold
  \* What is said of a thread, but for a comment that is created.
  <1>16. ASSUME UNCHANGED <<list, task, operations, history, redone, replayed, walk>>, TalkShape' /\ TalkHolds'
         PROVE  MockInv'
    BY <1>3, <1>4, <1>16 DEF MockInv, RecordsHold
  <1>17. ASSUME NEW t \in TaskIds, NEW id, NEW type,
                ListComments(t) \/ RemoveCommentReaction(t, id) \/ SetCommentReaction(t, id, type)
         PROVE  MockInv'
    <2>1. /\ UNCHANGED <<list, task, operations, history, redone, replayed, walk, notifications, created>>
          /\ comments' = [comments EXCEPT ![t] = <<CommentsFor(t)>>]
      BY <1>17 DEF ListComments, RemoveCommentReaction, SetCommentReaction, editVars, historyVars
    <2>2. TalkShape' /\ TalkHolds'
      BY <1>1, <2>1, ThreadIsRead
    <2> QED
      BY <1>16, <2>1, <2>2
  <1>18. ASSUME NEW t, NEW id, UploadAttachment(t) \/ DeleteAttachment(t, id)
         PROVE  MockInv'
    <2>1. /\ UNCHANGED <<list, task, operations, history, redone, replayed, walk>>
          /\ UNCHANGED <<comments, notifications, created>>
      BY <1>18 DEF UploadAttachment, DeleteAttachment, editVars, historyVars
    <2> QED
      BY <1>5, <1>16, <2>1
  <1>19. ASSUME NEW t \in TaskIds, NEW id \in CommentIds, NEW parent, NEW mentions \in SUBSET Members,
                CreateComment(t, id, parent, mentions)
         PROVE  MockInv'
    <2>1. /\ TaskShape' /\ RecordsHold' /\ TalkShape' /\ TalkHolds'
          /\ UNCHANGED <<list, walk>>
          /\ \A u \in TaskIds : task'[u].status = task[u].status
      BY <1>1, <1>19, CreateCommentKeeps
    <2>2. WalkShape' /\ WalkHolds'
      BY <1>1, <2>1, WalkStays
    <2> QED
      BY <2>1, <2>2 DEF MockInv, RecordsHold
  <1>20. ASSUME ListNotifications
         PROVE  MockInv'
    <2>1. /\ UNCHANGED <<list, task, operations, history, redone, replayed, walk>>
          /\ UNCHANGED <<comments, created>> /\ notifications' = <<NotificationsShown>>
      BY <1>20 DEF ListNotifications, editVars, historyVars
    <2>2. Head(Seeded) \in TaskIds
      BY MockAssumption
    <2>3. TalkShape' /\ TalkHolds'
      BY <1>1, <2>1, <2>2, ExampleTold
    <2> QED
      BY <1>16, <2>1, <2>3
  <1>21. ASSUME NEW i, MarkNotificationRead(i)
         PROVE  MockInv'
    <2>1. /\ UNCHANGED <<list, task, operations, history, redone, replayed, walk>>
          /\ UNCHANGED <<comments, created>> /\ i \in DOMAIN Got(notifications, <<>>)
          /\ notifications' = [notifications EXCEPT ![1][i].read = TRUE]
      BY <1>21 DEF MarkNotificationRead, editVars, historyVars
    <2>2. TalkShape' /\ TalkHolds'
      BY <1>1, <2>1, NoticeRead
    <2> QED
      BY <1>16, <2>1, <2>2
  <1>22. ASSUME UNCHANGED mockVars
         PROVE  MockInv'
    <2>1. /\ UNCHANGED <<list, task, operations, history, redone, replayed, walk>>
          /\ UNCHANGED <<comments, notifications, created>>
      BY <1>22 DEF mockVars, editVars, talkVars, historyVars
    <2> QED
      BY <1>5, <1>16, <2>1
  <1>23. ASSUME NEW t \in TaskIds, UndoTask(t) \/ RedoTask(t)
         PROVE  MockInv'
    <2>1. CASE UndoTask(t)
      BY <1>8, <2>1 DEF UndoTask
    <2>2. CASE RedoTask(t)
      BY <1>8, <2>2 DEF RedoTask
    <2> QED
      BY <1>23, <2>1, <2>2
  <1>24. CASE EditStep
    <2>1. PICK t \in IF about = "edits" THEN Edited ELSE TaskIds :
            \/ \E input \in Inputs, expected \in 1..MaxEdits : UpdateTask(t, input, expected)
            \/ UndoTask(t) \/ RedoTask(t) \/ DeleteTask(t, task[t].version)
            \/ \E d \in TaskIds : AddDependency(t, d) \/ RemoveDependency(t, d)
            \/ ListAssignmentHistory(t)
      BY <1>24 DEF EditStep
    <2>2. t \in TaskIds
      BY <2>1, MockAssumption
    <2> QED
      BY <2>1, <2>2, <1>7, <1>9, <1>10, <1>11, <1>23
  <1>25. CASE PageStep
    BY <1>12, <1>13, <1>14, <1>15, <1>25 DEF PageStep, ListTasks, ListMembers, Filters
  <1>26. CASE DiscussionStep
    BY <1>17, <1>18, <1>19, <1>20, <1>21, <1>26 DEF DiscussionStep
  <1> QED
    BY <1>22, <1>24, <1>25, <1>26 DEF MockNext

-----------------------------------------------------------------------------
(* What the invariant says *)

LEMMA RecordsFollow ==
  ASSUME MockInv
  PROVE  RecordsExplain
  <1> SUFFICES ASSUME NEW t \in ToSet(Seeded) \ redone, NEW f \in EditFields
               PROVE  task[t][f] = LastActiveOn(t, f)
    BY DEF RecordsExplain, ActiveEditsShow, MockInv
  <1> DEFINE ops == operations[t]
             on == {i \in InState(t, "ACTIVE") : f \in DOMAIN ops[i].after}
  <1>1. task[t][f] = LastBefore(ops, f, Len(ops) + 1)
    BY DEF MockInv, EditsExplained, FieldExplained
  <1>2. ops \in Seq(MockTaskOperation)
    BY SeededAre DEF MockInv, RecordShape
  <1>3. \A i \in DOMAIN ops : i < Len(ops) + 1
    BY <1>2
  <1>4. ActiveOn(ops, f, Len(ops) + 1) = on
    BY <1>3 DEF ActiveOn, InState
  <1>5. LastActiveOn(t, f) = IF on = {} THEN SeedTask[f]
                             ELSE ops[CHOOSE i \in on : \A j \in on : j <= i].after[f]
    BY DEF LastActiveOn
  <1> HIDE DEF on, ops
  <1> QED
    BY <1>1, <1>4, <1>5 DEF LastBefore

LEMMA WalkFollows ==
  ASSUME MockInv
  PROVE  WalkIsExact
  BY DEF MockInv, WalkHolds, WalkIsExact

\* A list of different identities has as many of them as items.
LEMMA IdsAreCounted ==
  ASSUME NEW thread \in Seq(CommentItem), ThreadClosed(thread)
  PROVE  Cardinality(IdsOf(thread)) = Len(thread)
  <1> DEFINE n == Len(thread)
             ids == IdsOf(thread)
             f == [i \in 1..n |-> thread[i].id]
  <1>1. n \in Nat /\ DOMAIN thread = 1..n
    OBVIOUS
  <1>2. \A i \in 1..n : f[i] \in ids
    BY <1>1 DEF IdsOf
  <1>3. \A i, j \in 1..n : f[i] = f[j] => i = j
    BY <1>1 DEF ThreadClosed
  <1>4. \A x \in ids : \E i \in 1..n : f[i] = x
    BY <1>1 DEF IdsOf
  <1>5. f \in [1..n -> ids]
    <2> HIDE DEF ids
    <2> QED
      BY <1>2
  <1> HIDE DEF f, ids
  <1>6. f \in Bijection(1..n, ids)
    BY <1>3, <1>4, <1>5, Zenon DEF Bijection, Injection, Surjection, IsInjective
  <1>7. IsFiniteSet(1..n) /\ Cardinality(1..n) = n
    BY <1>1, FS_Interval
  <1>8. Cardinality(ids) = Cardinality(1..n)
    <2>1. ExistsBijection(1..n, ids)
      BY <1>6, Zenon DEF ExistsBijection
    <2> QED
      BY <1>7, <2>1, FS_Bijection
  <1> QED
    BY <1>7, <1>8 DEF ids

LEMMA CommentsFollow ==
  ASSUME MockInv
  PROVE  CommentsAddUp
  <1>1. ThreadsAreClosed
    <2> SUFFICES ASSUME NEW t \in TaskIds
                 PROVE  LET thread == CommentsFor(t) IN
                          /\ Cardinality(IdsOf(thread)) = Len(thread)
                          /\ \A i \in DOMAIN thread :
                               thread[i].parent \in {thread[j].id : j \in 1..(i - 1)} \cup {"none"}
      BY DEF ThreadsAreClosed
    <2> DEFINE thread == CommentsFor(t)
    <2>1. thread \in Seq(CommentItem) /\ ThreadClosed(thread)
      BY CommentsForIs DEF MockInv, TalkHolds
    <2> HIDE DEF thread
    <2>2. Cardinality(IdsOf(thread)) = Len(thread)
      BY <2>1, IdsAreCounted
    <2>3. ASSUME NEW i \in DOMAIN thread
          PROVE  thread[i].parent \in {thread[j].id : j \in 1..(i - 1)} \cup {"none"}
      <3>1. CASE thread[i].parent = "none"
        BY <3>1
      <3>2. CASE \E j \in DOMAIN thread : j < i /\ thread[j].id = thread[i].parent
        <4>1. PICK j \in DOMAIN thread : j < i /\ thread[j].id = thread[i].parent
          BY <3>2
        <4>2. j \in 1..(i - 1)
          BY <2>1, <4>1
        <4> QED
          BY <4>1, <4>2
      <3> QED
        BY <2>1, <3>1, <3>2 DEF ThreadClosed
    <2> QED
      BY <2>2, <2>3 DEF thread
  <1>2. CountedOnce
    <2>1. ASSUME NEW t \in ToSet(Seeded)
          PROVE  task[t].commentCount = SeedTask.commentCount + Cardinality({c \in created : c[1] = t})
      <3>1. t \in TaskIds /\ SeedTask.commentCount = 3
        BY SeededAre DEF SeedTask
      <3> QED
        BY <3>1 DEF MockInv, TalkHolds, CountsHold
    <2> DEFINE told == Got(notifications, <<>>)
    <2>2. \A i \in DOMAIN told : told[i].task \in TaskIds
      BY ToldIs DEF MockInv
    <2>3. NoticesFit(told, TasksThere, ThreadIds)
      BY DEF MockInv, TalkHolds, NoticesHold
    <2>4. \A u \in TaskIds : Exists(u) => u \in TasksThere
      BY DEF TasksThere, Undeleted
    <2> HIDE DEF told
    <2>5. ASSUME NEW i \in DOMAIN told, NEW j \in DOMAIN told, Exists(told[i].task),
                 <<told[i].user, told[i].task, told[i].comment>> = <<told[j].user, told[j].task, told[j].comment>>
          PROVE  i = j
      <3>1. told[i].task \in TasksThere
        BY <2>2, <2>4, <2>5
      <3>2. told[i].user = told[j].user /\ told[i].task = told[j].task /\ told[i].comment = told[j].comment
        BY <2>5
      <3> QED
        BY <2>3, <3>1, <3>2 DEF NoticesFit
    <2> QED
      BY <2>1, <2>5 DEF CountedOnce, told
  <1> QED
    BY <1>1, <1>2 DEF CommentsAddUp

LEMMA MockInvHolds == MockSpec => []MockInv
  <1>1. MockInit => MockInv
    BY MockInvInit
  <1>2. MockInv /\ [MockNext]_mockVars => MockInv'
    BY MockInvNext
  <1> QED
    BY <1>1, <1>2, PTL DEF MockSpec

\* RecordsExplain: whatever is edited, undone, deleted and created in whatever
\* order, a task of the seed that nothing was redone on shows the last edit that
\* is not undone, and a history ends in the assignees of its task (updateTask,
\* undoTask and assignmentHistoryFor).
THEOREM RecordsAreExplained == MockSpec => []RecordsExplain
  <1>1. MockInv => RecordsExplain
    BY RecordsFollow
  <1> QED
    BY <1>1, MockInvHolds, PTL

\* WalkIsExact: for every number of tasks and size of page, a walk over the
\* pages of a filter (listTasks, listMembers) repeats no item unless one came to
\* match it meanwhile, and misses none unless one ceased to.
THEOREM WalksAreExact == MockSpec => []WalkIsExact
  <1>1. MockInv => WalkIsExact
    BY WalkFollows
  <1> QED
    BY <1>1, MockInvHolds, PTL

\* CommentsAddUp: threads are closed under their parents, a task's count is what
\* was created on it, and nobody is told twice of a comment of a task that is
\* there, for every sequence of retried, refused and deleting calls
\* (createComment, commentsFor, listNotifications, deleteTask).
THEOREM CommentsAlwaysAddUp == MockSpec => []CommentsAddUp
  <1>1. MockInv => CommentsAddUp
    BY CommentsFollow
  <1> QED
    BY <1>1, MockInvHolds, PTL

-----------------------------------------------------------------------------
(* The in-memory workspace: types *)

\* What the rest of the proof does not look at.
StoreShape ==
  /\ calls \in Nat
  /\ projectList \in Seq(ProjectIds)
  /\ reactions \in [TaskIds -> [AllComments -> ReactionTypes \cup {"none"}]]
  /\ attachments \in [TaskIds -> Seq(Nat)]
  /\ activity \in [ProjectIds -> Entry(ActivityItem)]
  /\ \A p \in ProjectIds : activity[p] # Missing => Len(activity[p][1]) <= Kept

\* A feed that was recorded on, and the examples.
LEMMA FeedIs ==
  ASSUME StoreShape, NEW p \in ProjectIds
  PROVE  /\ RecordedOn(Got(activity[p], <<>>)) \in Seq(ActivityItem)
         /\ Len(RecordedOn(Got(activity[p], <<>>))) <= Kept
         /\ Got(activity[p], <<3, 2, 1>>) \in Seq(ActivityItem)
         /\ Len(Got(activity[p], <<3, 2, 1>>)) <= Kept
  <1> DEFINE items == Got(activity[p], <<>>)
  <1>1. Kept \in Nat /\ Kept >= 3
    BY MockAssumption
  <1>2. activity[p] \in Entry(ActivityItem)
    BY DEF StoreShape
  <1>3. CASE activity[p] = Missing
    <2>1. Got(activity[p], <<>>) = <<>> /\ Got(activity[p], <<3, 2, 1>>) = <<3, 2, 1>>
      BY <1>3 DEF Got
    <2>2. <<3, 2, 1>> \in Seq(ActivityItem) /\ Len(<<3, 2, 1>>) = 3
      BY <1>1 DEF ActivityItem
    <2>3. <<Len(<<>>) + 1>> \o <<>> \in Seq(ActivityItem)
      BY <1>1 DEF ActivityItem
    <2>4. RecordedOn(<<>>) \in Seq(ActivityItem) /\ Len(RecordedOn(<<>>)) <= Kept
      BY <2>3, NewestIs DEF RecordedOn
    <2> QED
      BY <1>1, <2>1, <2>2, <2>4
  <1>4. CASE activity[p] # Missing
    <2> DEFINE x == activity[p][1]
    <2>1. x \in Seq(ActivityItem) /\ Got(activity[p], <<>>) = x /\ Got(activity[p], <<3, 2, 1>>) = x
      BY <1>2, <1>4, EntryIs DEF Got
    <2>2. Len(x) <= Kept /\ Len(x) \in Nat
      BY <1>4, <2>1 DEF StoreShape
    <2> HIDE DEF x
    <2>3. Len(x) + 1 \in ActivityItem
      BY <1>1, <2>2 DEF ActivityItem
    <2>4. <<Len(x) + 1>> \o x \in Seq(ActivityItem)
      BY <2>1, <2>3
    <2>5. RecordedOn(x) \in Seq(ActivityItem) /\ Len(RecordedOn(x)) <= Kept
      BY <2>4, NewestIs DEF RecordedOn
    <2> QED
      BY <2>1, <2>2, <2>5
  <1> QED
    BY <1>3, <1>4

\* A feed is written, or none is.
FeedsHold ==
  /\ activity \in [ProjectIds -> Entry(ActivityItem)]
  /\ \A p \in ProjectIds : activity[p] # Missing => Len(activity[p][1]) <= Kept

LEMMA FeedWritten ==
  ASSUME StoreShape, NEW p \in ProjectIds,
         RecordIn(p) \/ activity' = [activity EXCEPT ![p] = <<Got(@, <<3, 2, 1>>)>>]
  PROVE  FeedsHold'
  <1>1. activity \in [ProjectIds -> Entry(ActivityItem)]
    BY DEF StoreShape
  <1>2. PICK items \in Seq(ActivityItem) :
          Len(items) <= Kept /\ activity' = [activity EXCEPT ![p] = <<items>>]
    <2>1. CASE RecordIn(p)
      <3>1. activity' = [activity EXCEPT ![p] = <<RecordedOn(Got(activity[p], <<>>))>>]
        BY <1>1, <2>1 DEF RecordIn
      <3> QED
        BY <3>1, FeedIs
    <2>2. CASE activity' = [activity EXCEPT ![p] = <<Got(@, <<3, 2, 1>>)>>]
      <3>1. activity' = [activity EXCEPT ![p] = <<Got(activity[p], <<3, 2, 1>>)>>]
        BY <1>1, <2>2
      <3> QED
        BY <3>1, FeedIs
    <2> QED
      BY <2>1, <2>2
  <1>3. <<items>> \in Entry(ActivityItem) /\ <<items>>[1] = items
    BY EntryIs
  <1>4. /\ activity' \in [ProjectIds -> Entry(ActivityItem)] /\ activity'[p] = <<items>>
        /\ \A q \in ProjectIds : q # p => activity'[q] = activity[q]
    BY <1>1, <1>2, <1>3
  <1>5. ASSUME NEW q \in ProjectIds, activity'[q] # Missing
        PROVE  Len(activity'[q][1]) <= Kept
    <2>1. CASE q = p
      BY <1>2, <1>3, <1>4, <2>1
    <2>2. CASE q # p
      BY <1>4, <1>5, <2>2 DEF StoreShape
    <2> QED
      BY <2>1, <2>2
  <1> QED
    BY <1>4, <1>5 DEF FeedsHold

LEMMA StoreShapeInit ==
  ASSUME MockInit
  PROVE  StoreShape
  <1>1. /\ calls = 0 /\ projectList = <<Demo>> /\ reactions = [t \in TaskIds |-> NoReactions]
        /\ attachments = [t \in TaskIds |-> <<>>] /\ activity = [p \in ProjectIds |-> Missing]
    BY DEF MockInit, SeedProjects
  <1>2. NoReactions \in [AllComments -> ReactionTypes \cup {"none"}]
    BY DEF NoReactions, AllComments
  <1>3. <<Demo>> \in Seq(ProjectIds)
    BY MockAssumption
  <1>4. <<>> \in Seq(Nat)
    OBVIOUS
  <1> QED
    BY <1>1, <1>2, <1>3, <1>4, EntryIs DEF StoreShape

LEMMA StoreShapeNext ==
  ASSUME StoreShape, [MockNext]_mockVars
  PROVE  StoreShape'
  <1>1. Demo \in ProjectIds
    BY MockAssumption
  <1>2. ASSUME NEW subjects, Call(subjects)
        PROVE  calls' \in Nat
    BY <1>2 DEF Call, StoreShape
  <1>3. ASSUME UNCHANGED activity
        PROVE  FeedsHold'
    BY <1>3 DEF StoreShape, FeedsHold
  \* What most calls leave alone.
  <1>4. ASSUME calls' \in Nat, RecordActivity \/ UNCHANGED activity,
               UNCHANGED <<projectList, reactions, attachments>>
        PROVE  StoreShape'
    <2>1. FeedsHold'
      BY <1>1, <1>3, <1>4, FeedWritten DEF RecordActivity
    <2> QED
      BY <1>4, <2>1 DEF StoreShape, FeedsHold
  <1>5. ASSUME NEW t, NEW input, NEW expected, UpdateTask(t, input, expected)
        PROVE  StoreShape'
    BY <1>2, <1>4, <1>5 DEF UpdateTask, talkVars
  <1>6. ASSUME NEW t, UndoTask(t) \/ RedoTask(t)
        PROVE  StoreShape'
    <2>1. /\ calls' \in Nat /\ RecordActivity
          /\ UNCHANGED <<projectList, reactions, attachments>>
      BY <1>2, <1>6 DEF UndoTask, RedoTask, ReplayOperation, talkVars
    <2> QED
      BY <1>4, <2>1
  <1>7. ASSUME NEW t, NEW expected, DeleteTask(t, expected)
        PROVE  StoreShape'
    BY <1>2, <1>4, <1>7 DEF DeleteTask
  <1>8. ASSUME NEW t, NEW d, AddDependency(t, d) \/ RemoveDependency(t, d)
        PROVE  StoreShape'
    BY <1>2, <1>4, <1>8 DEF AddDependency, RemoveDependency, talkVars
  <1>9. ASSUME NEW t, ListAssignmentHistory(t)
        PROVE  StoreShape'
    BY <1>2, <1>4, <1>9 DEF ListAssignmentHistory, talkVars
  <1>10. ASSUME NEW t, CreateTask(t)
         PROVE  StoreShape'
    BY <1>2, <1>4, <1>10 DEF CreateTask, talkVars
  <1>11. ASSUME NEW filter, FirstPage(filter) \/ NextPage
         PROVE  StoreShape'
    BY <1>2, <1>4, <1>11 DEF FirstPage, NextPage, talkVars
  <1>12. ASSUME NEW p \in ProjectIds, CreateProject(p) \/ ListActivity(p)
         PROVE  StoreShape'
    <2>1. calls' \in Nat /\ UNCHANGED <<reactions, attachments>>
      BY <1>2, <1>12 DEF CreateProject, ListActivity, talkVars
    <2>2. FeedsHold'
      BY <1>12, FeedWritten DEF CreateProject, ListActivity
    <2>3. projectList' \in Seq(ProjectIds)
      <3>1. projectList \in Seq(ProjectIds)
        BY DEF StoreShape
      <3>2. projectList' = projectList \/ projectList' = <<p>> \o projectList
        BY <1>12 DEF CreateProject, ListActivity
      <3>3. <<p>> \o projectList \in Seq(ProjectIds)
        BY <3>1
      <3> QED
        BY <3>1, <3>2, <3>3
    <2> QED
      BY <2>1, <2>2, <2>3 DEF StoreShape, FeedsHold
  <1>13. ASSUME NEW t, ListComments(t)
         PROVE  StoreShape'
    BY <1>2, <1>4, <1>13 DEF ListComments
  <1>14. ASSUME NEW t, NEW id, NEW parent, NEW mentions, CreateComment(t, id, parent, mentions)
         PROVE  StoreShape'
    <2>1. /\ calls' \in Nat /\ (RecordActivity \/ UNCHANGED activity)
          /\ UNCHANGED <<projectList, reactions, attachments>>
      BY <1>2, <1>14 DEF CreateComment
    <2> QED
      BY <1>4, <2>1
  <1>15. ASSUME NEW t \in TaskIds, NEW id,
                RemoveCommentReaction(t, id) \/ \E type \in ReactionTypes : SetCommentReaction(t, id, type)
         PROVE  StoreShape'
    <2>1. calls' \in Nat /\ RecordActivity /\ UNCHANGED <<projectList, attachments>>
      BY <1>2, <1>15 DEF SetCommentReaction, RemoveCommentReaction
    <2>2. PICK value \in ReactionTypes \cup {"none"} : reactions' = [reactions EXCEPT ![t][id] = value]
      BY <1>15 DEF SetCommentReaction, RemoveCommentReaction
    <2>3. reactions' \in [TaskIds -> [AllComments -> ReactionTypes \cup {"none"}]]
      BY <2>2 DEF StoreShape
    <2>4. FeedsHold'
      BY <1>1, <2>1, FeedWritten DEF RecordActivity
    <2> QED
      BY <2>1, <2>3, <2>4 DEF StoreShape, FeedsHold
  <1>16. ASSUME NEW t \in TaskIds, NEW id, UploadAttachment(t) \/ DeleteAttachment(t, id)
         PROVE  StoreShape'
    <2>1. calls' \in Nat /\ UNCHANGED <<projectList, reactions, activity>>
      BY <1>2, <1>16 DEF UploadAttachment, DeleteAttachment
    <2>2. attachments \in [TaskIds -> Seq(Nat)] /\ attachments[t] \in Seq(Nat) /\ calls \in Nat
      BY DEF StoreShape
    <2>3. PICK items \in Seq(Nat) : attachments' = [attachments EXCEPT ![t] = items]
      <3>1. CASE UploadAttachment(t)
        <4>1. attachments' = [attachments EXCEPT ![t] = <<calls>> \o attachments[t]]
          BY <2>2, <3>1 DEF UploadAttachment
        <4>2. <<calls>> \o attachments[t] \in Seq(Nat)
          BY <2>2
        <4> QED
          BY <4>1, <4>2
      <3>2. CASE DeleteAttachment(t, id)
        <4>1. attachments' = [attachments EXCEPT ![t] = Only(attachments[t], Nat \ {id})]
          BY <2>2, <3>2 DEF DeleteAttachment
        <4>2. Only(attachments[t], Nat \ {id}) \in Seq(Nat)
          BY <2>2, OnlyIs
        <4> QED
          BY <4>1, <4>2
      <3> QED
        BY <1>16, <3>1, <3>2
    <2>4. attachments' \in [TaskIds -> Seq(Nat)]
      BY <2>2, <2>3
    <2>5. FeedsHold'
      BY <1>3, <2>1
    <2> QED
      BY <2>1, <2>4, <2>5 DEF StoreShape, FeedsHold
  <1>17. ASSUME NEW i, ListNotifications \/ MarkNotificationRead(i)
         PROVE  StoreShape'
    BY <1>2, <1>4, <1>17 DEF ListNotifications, MarkNotificationRead
  <1>18. ASSUME UNCHANGED mockVars
         PROVE  StoreShape'
    BY <1>4, <1>18 DEF StoreShape, mockVars, talkVars
  <1>19. CASE EditStep
    BY <1>5, <1>6, <1>7, <1>8, <1>9, <1>19 DEF EditStep
  <1>20. CASE PageStep
    BY <1>10, <1>11, <1>12, <1>20 DEF PageStep, ListTasks, ListMembers
  <1>21. CASE DiscussionStep
    BY <1>13, <1>14, <1>15, <1>16, <1>17, <1>21 DEF DiscussionStep
  <1> QED
    BY <1>18, <1>19, <1>20, <1>21 DEF MockNext

\* MockTypes: every map of the in-memory store holds values of its declared type,
\* the sequence numbers of a full feed included (MockStore, recordActivity).
THEOREM MockTypeCorrect == MockSpec => []MockTypes
  <1>1. MockInv /\ StoreShape => MockTypes
    BY DEF MockInv, TaskShape, RecordShape, WalkShape, TalkShape, StoreShape, MockTypes
  <1>2. MockInit => StoreShape
    BY StoreShapeInit
  <1>3. StoreShape /\ [MockNext]_mockVars => StoreShape'
    BY StoreShapeNext
  <1> QED
    BY <1>1, <1>2, <1>3, MockInvHolds, PTL DEF MockSpec

=============================================================================
