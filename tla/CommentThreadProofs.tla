------------------------- MODULE CommentThreadProofs -------------------------
(***************************************************************************)
(* Proofs about the discussion of a task: no text is lost unnoticed, the   *)
(* count of comments and the thread itself agree with the server once      *)
(* nothing is under way, unless an answer or a roll-back has left them     *)
(* behind.                                                                 *)
(***************************************************************************)
EXTENDS CommentThread, FiniteSetTheorems, SequenceTheorems, TLAPS

-----------------------------------------------------------------------------
(* The values of the variables *)

Parents == Ids \cup {Root}
Shown == [count : [Types -> Nat], mine : Types \cup {Nobody}]
RowSet == [id : Ids, parent : Parents, sync : {"pending", "synced", "failed"}, shown : Shown]
DataSet == [rows : Seq(RowSet), pages : Nat, older : Nat]
Comments == [id : Ids, parent : Parents, text : Nat]
Events == [kind : {"created", "reaction"}, id : Ids, parent : Parents]
Kinds == {"all", "older"}

Requests == [phase : {"asked"}, kind : Kinds, pages : DataSet]
Answers == [phase : {"read"}, kind : Kinds, pages : DataSet, at : Nat, data : DataSet]
Counts == [phase : {"read"}, at : Nat, count : Nat, ids : SUBSET Ids]
Sendings == [phase : {"sent", "ok", "error"}, id : Own, text : Nat, parent : Parents]
Reactings == [phase : {"sent", "ok", "error"}, id : Ids, to : Types \cup {Nobody},
              previous : DataSet, optimistic : DataSet, since : Nat]

ServerTypes ==
  /\ posted \in Seq(Comments) /\ log \in Seq(Events)
  /\ mine \in [Ids -> Types \cup {Nobody}] /\ theirs \in [Ids -> Types \cup {Nobody}]

PageTypes ==
  /\ data \in DataSet /\ count \in Nat
  /\ threadFetch \in {Idle} \cup Requests \cup Answers
  /\ countFetch \in {Idle, TaskAsked} \cup Counts
  /\ draft \in Nat /\ replyTo \in Parents
  /\ sending \in {Free} \cup Sendings
  /\ reacting \in {Free} \cup Reactings
  /\ cursor \in Nat /\ cursor <= Len(log)
  /\ typed \in Nat /\ replies \in Nat /\ own \in 0..MaxOwn /\ outside \in 0..MaxOutside
  /\ behind \in BOOLEAN /\ drift \in BOOLEAN
  /\ counted \subseteq Ids /\ lost \subseteq Ids

TypeInv == ServerTypes /\ PageTypes

HistoryTypes == overwritten \subseteq Nat /\ ahead \subseteq Ids

-----------------------------------------------------------------------------
(* The server's part of the invariant *)

\* The comments of the first n events, and those there were before.
CreatedIn(l, n) == Seeds \cup {l[k].id : k \in {j \in DOMAIN l : j <= n /\ l[j].kind = "created"}}
Created(n) == CreatedIn(log, n)

\* A comment is saved once; the log has the comments and reactions of those saved,
\* a comment before its reactions; no number is used twice.
ServerInv ==
  /\ \A i, j \in DOMAIN posted : posted[i].id = posted[j].id => i = j
  /\ PostedIds = Created(Len(log))
  /\ \A k \in DOMAIN log : log[k].id \in PostedIds
  /\ \A j, k \in DOMAIN log :
       log[j].kind = "created" /\ log[k].kind = "reaction" /\ log[j].id = log[k].id => j < k
  /\ \A k \in DOMAIN log : log[k].kind = "created" => log[k].id \notin Seeds
  /\ \A c \in Ids \ Seeds : mine[c] # Nobody \/ theirs[c] # Nobody =>
       \E k \in DOMAIN log : log[k].kind = "reaction" /\ log[k].id = c
  /\ \A n \in Nat : <<"own", n>> \in PostedIds => n <= own
  /\ \A n \in Nat : <<"other", n>> \in PostedIds => n <= outside

\* A comment under way has a number that was given, and is saved when the answer
\* says so.
SendingInv ==
  sending # Free =>
    /\ \E n \in 1..own : sending.id = <<"own", n>>
    /\ sending.phase = "sent" => sending.id \notin PostedIds
    /\ sending.phase = "ok" => sending.id \in PostedIds
    /\ sending.phase = "error" => sending.id \notin PostedIds \/ sending.id \in lost

-----------------------------------------------------------------------------
(* Texts *)

TextInv ==
  /\ draft <= typed
  /\ sending # Free => sending.text # NoText /\ sending.text <= typed /\ sending.text # draft
  /\ \A i \in DOMAIN posted : posted[i].text <= typed
  /\ \A i \in DOMAIN posted :
       posted[i].text = draft /\ draft # NoText => posted[i].id \in lost
  /\ sending # Free /\ sending.phase \in {"sent", "error"} =>
       \A i \in DOMAIN posted : posted[i].text = sending.text => posted[i].id \in lost
  /\ sending # Free /\ sending.phase = "ok" => \E i \in DOMAIN posted : posted[i].text = sending.text

-----------------------------------------------------------------------------
(* The count *)

PostedCount == IsFiniteSet(PostedIds) /\ Cardinality(PostedIds) = Len(posted)

\* The count is that of the comments counted: comments of the server, the one
\* under way, and, unless they disagree, all that the stream has told of.
CountedInv ==
  /\ IsFiniteSet(counted)
  /\ ~drift => count = Cardinality(counted)
  /\ \A c \in counted : c \in PostedIds \/ (sending # Free /\ sending.id = c)
  /\ ~drift /\ countFetch = Idle => Created(cursor) \subseteq counted
  /\ countFetch.phase = "read" =>
       /\ countFetch.at <= Len(log) /\ countFetch.ids = Created(countFetch.at)
       /\ IsFiniteSet(countFetch.ids) /\ countFetch.count = Cardinality(countFetch.ids)

CountInv == PostedCount /\ CountedInv

-----------------------------------------------------------------------------
(* The thread *)

\* A row shows what the server has, unless an event about it comes after the nth.
NoneAfter(c, n) == \A k \in DOMAIN log : k > n /\ log[k].kind = "reaction" => log[k].id # c
RowRight(row, n) == NoneAfter(row.id, n) => row.shown = ShownReactions(row.id)

\* Every comment as far as pages are loaded is in them, or comes after the nth event.
ToCome(c, n) == \E k \in DOMAIN log : k > n /\ log[k].kind = "created" /\ log[k].id = c
LoadedBy(d, n) ==
  \A i \in DOMAIN posted : i > d.older => posted[i].id \in IdsOf(d.rows) \/ ToCome(posted[i].id, n)

\* What the mark of a row says of its comment, s being the comment under way.
RowSettled(row, s) ==
  /\ row.sync = "synced" => row.id \in PostedIds
  /\ row.sync = "failed" =>
       /\ row.id \notin PostedIds \/ row.id \in lost
       /\ \E n \in 1..own : row.id = <<"own", n>>
       /\ s # Free => s.id # row.id

PagesSettled(d, s) ==
  /\ d = NoData \/ d.pages > 0
  /\ d.older <= Len(posted)
  /\ \A i \in DOMAIN d.rows : RowSettled(d.rows[i], s)

\* Pages that differ in what their rows show only.
SameRows(d, e) ==
  /\ d.older = e.older /\ DOMAIN d.rows = DOMAIN e.rows
  /\ \A i \in DOMAIN d.rows : d.rows[i].id = e.rows[i].id /\ d.rows[i].sync = e.rows[i].sync

\* Below, d stands for the pages, f for the request that fills them, r for the
\* reaction and s for the comment under way, n for the events applied and b for
\* whether something has left the thread behind.
Settled(d, f, r, s) ==
  /\ PagesSettled(d, s)
  /\ f # Idle => PagesSettled(f.pages, s)
  /\ f.phase = "read" => PagesSettled(f.data, s)
  /\ r # Free => PagesSettled(r.previous, s)

\* A row that is still being sent is the comment's under way.
Pending(d, b, s) ==
  ~b => \A i \in DOMAIN d.rows : d.rows[i].sync = "pending" => s # Free /\ s.id = d.rows[i].id

\* Unless all pages are asked for, they are right but for the reaction under way.
DataRight(d, f, r, n, b) ==
  ~b /\ f.kind # "all" =>
    /\ d # NoData
    /\ LoadedBy(d, n)
    /\ \A i \in DOMAIN d.rows : r = Free \/ r.id # d.rows[i].id => RowRight(d.rows[i], n)

\* An answer has what the server had when it was read; that of one page more has
\* the pages it was asked for with besides.
AnswerRight(f) ==
  /\ f.kind = "older" => f.pages # NoData
  /\ f.phase = "read" =>
    /\ f.at <= Len(log)
    /\ f.data # NoData
    /\ f.kind = "all" =>
         /\ LoadedBy(f.data, f.at)
         /\ \A i \in DOMAIN f.data.rows : f.data.rows[i].sync = "synced" /\ RowRight(f.data.rows[i], f.at)
    /\ f.kind = "older" =>
         /\ IdsOf(f.pages.rows) \subseteq IdsOf(f.data.rows)
         /\ \A i \in DOMAIN posted : i > f.data.older /\ i <= f.pages.older => posted[i].id \in IdsOf(f.data.rows)
         /\ \A i \in DOMAIN f.data.rows :
              \/ \E j \in DOMAIN f.pages.rows : f.pages.rows[j] = f.data.rows[i]
              \/ f.data.rows[i].sync = "synced" /\ RowRight(f.data.rows[i], f.at)

\* The pages a roll-back puts back were right, and are as long as no event is applied.
ReactingRight(f, r, n, b) ==
  r # Free =>
    /\ r.previous # NoData
    /\ SameRows(r.previous, r.optimistic)
    /\ r.since <= n
    /\ n = r.since =>
         /\ f.kind # "all"
         /\ ~b => \A i \in DOMAIN r.previous.rows : RowRight(r.previous.rows[i], n)

ThreadAt(d, f, r, n, b, s) ==
  /\ Settled(d, f, r, s)
  /\ Pending(d, b, s)
  /\ DataRight(d, f, r, n, b)
  /\ AnswerRight(f)
  /\ ReactingRight(f, r, n, b)

ThreadInv == ThreadAt(data, threadFetch, reacting, cursor, behind, sending)

IInv == TypeInv /\ ServerInv /\ SendingInv /\ TextInv /\ CountInv /\ ThreadInv

-----------------------------------------------------------------------------
(* The operators of the page *)

\* The constants' assumption, and what tells the states of a request apart.
LEMMA Basics ==
  /\ PageSize \in Nat \ {0} /\ MaxOwn \in Nat /\ MaxOutside \in Nat /\ MaxWriting \in Nat
  /\ Nobody \notin Types /\ Clicked \subseteq Types
  /\ Root \notin Ids /\ Seeds \subseteq Ids /\ Own \subseteq Ids
  /\ \A n \in 1..MaxOwn : <<"own", n>> \in Own
  /\ \A n \in 1..MaxOutside : <<"other", n>> \in Ids
  BY ThreadAssumption DEF Nobody, Root, Ids, Seeds, Own

\* The reactions the server has of a comment, and none.
LEMMA ShownTypes ==
  ASSUME ServerTypes, NEW c \in Ids
  PROVE  ShownReactions(c) \in Shown /\ NoReactions \in Shown
  BY Basics DEF ServerTypes, ShownReactions, NoReactions, Shown

\* Toggling a reaction.
LEMMA ToggledTypes ==
  ASSUME NEW shown \in Shown, NEW ty \in Types
  PROVE  Toggled(shown, ty) \in Shown
  <1> DEFINE less(n) == IF n > 0 THEN n - 1 ELSE 0
             counts == [x \in Types |->
                    IF x = ty THEN (IF shown.mine # ty THEN shown.count[x] + 1 ELSE less(shown.count[x]))
                    ELSE IF shown.mine = x THEN less(shown.count[x]) ELSE shown.count[x]]
  <1>1. shown.count \in [Types -> Nat] /\ shown.mine \in Types \cup {Nobody}
    BY DEF Shown
  <1>2. \A n \in Nat : less(n) \in Nat
    OBVIOUS
  <1>3. counts \in [Types -> Nat]
    BY <1>1, <1>2
  <1> HIDE DEF less, counts
  <1>4. Toggled(shown, ty) = [count |-> counts, mine |-> IF shown.mine # ty THEN ty ELSE Nobody]
    BY DEF Toggled, counts, less
  <1> QED
    BY <1>3, <1>4 DEF Shown

\* The pages with a row in front of them.
LEMMA FrontRow ==
  ASSUME data \in DataSet, NEW row \in RowSet, NEW d, d = PutInFront(row)
  PROVE  /\ d \in DataSet /\ d # NoData
         /\ d.older = (IF data = NoData THEN 0 ELSE data.older)
         /\ d.pages = (IF data = NoData THEN 1 ELSE data.pages)
         /\ \A i \in DOMAIN d.rows : d.rows[i] = row \/ \E j \in DOMAIN data.rows : d.rows[i] = data.rows[j]
         /\ IdsOf(d.rows) = IdsOf(data.rows) \cup {row.id}
         /\ \A i \in DOMAIN d.rows :
              \/ i = 1 /\ d.rows[i] = row
              \/ i - 1 \in DOMAIN data.rows /\ d.rows[i] = data.rows[i - 1]
  <1>0. data.rows \in Seq(RowSet) /\ data.pages \in Nat /\ data.older \in Nat
        /\ Len(data.rows) \in Nat /\ DOMAIN data.rows = 1..Len(data.rows)
    BY DEF DataSet
  <1>1. CASE data = NoData
    <2>1. d = [rows |-> <<row>>, pages |-> 1, older |-> 0]
      BY <1>1 DEF PutInFront
    <2>2. <<row>> \in Seq(RowSet) /\ Len(<<row>>) = 1 /\ <<row>>[1] = row /\ DOMAIN <<row>> = 1..1
      OBVIOUS
    <2>3. data.rows = <<>> /\ IdsOf(data.rows) = {}
      BY <1>1 DEF NoData, IdsOf
    <2>4. d # NoData
      BY <2>1 DEF NoData
    <2>5. d \in DataSet
      BY <2>1, <2>2 DEF DataSet
    <2>6. IdsOf(d.rows) = {row.id}
      BY <2>1, <2>2 DEF IdsOf
    <2> QED
      BY <1>1, <2>1, <2>2, <2>3, <2>4, <2>5, <2>6
  <1>2. CASE data # NoData
    <2> DEFINE r == <<row>> \o data.rows
    <2>1. /\ r \in Seq(RowSet) /\ Len(r) = Len(data.rows) + 1 /\ DOMAIN r = 1..Len(r)
          /\ r[1] = row /\ \A j \in DOMAIN data.rows : r[j + 1] = data.rows[j]
      <3>1. <<row>> \in Seq(RowSet) /\ Len(<<row>>) = 1 /\ <<row>>[1] = row
        OBVIOUS
      <3> QED
        BY <1>0, <3>1, ConcatProperties
    <2> HIDE DEF r
    <2>2. d = [data EXCEPT !.rows = r]
      BY <1>2 DEF PutInFront, r
    <2>3. d.rows = r /\ d.pages = data.pages /\ d.older = data.older /\ d \in DataSet
      BY <2>1, <2>2 DEF DataSet
    <2>4. \A i \in DOMAIN r : i = 1 \/ (i - 1 \in DOMAIN data.rows /\ r[i] = data.rows[i - 1])
      <3> SUFFICES ASSUME NEW i \in DOMAIN r, i # 1
                   PROVE  i - 1 \in DOMAIN data.rows /\ r[i] = data.rows[i - 1]
        OBVIOUS
      <3>1. i - 1 \in DOMAIN data.rows /\ (i - 1) + 1 = i
        BY <1>0, <2>1
      <3> QED
        BY <2>1, <3>1
    <2>5. \A j \in DOMAIN data.rows : j + 1 \in DOMAIN r
      BY <1>0, <2>1
    <2>6. IdsOf(r) = IdsOf(data.rows) \cup {row.id}
      <3>1. ASSUME NEW x \in IdsOf(r) PROVE x \in IdsOf(data.rows) \cup {row.id}
        BY <2>1, <2>4 DEF IdsOf
      <3>2. row.id \in IdsOf(r)
        BY <1>0, <2>1 DEF IdsOf
      <3>3. ASSUME NEW j \in DOMAIN data.rows PROVE data.rows[j].id \in IdsOf(r)
        BY <2>1, <2>5 DEF IdsOf
      <3> QED
        BY <3>1, <3>2, <3>3 DEF IdsOf
    <2>7. d # NoData
      <3>1. Len(r) # 0
        BY <1>0, <2>1
      <3> QED
        BY <2>3, <3>1 DEF NoData
    <2> QED
      BY <1>2, <2>1, <2>3, <2>4, <2>6, <2>7
  <1> QED
    BY <1>1, <1>2

\* Pages whose rows are rewritten one by one.
LEMMA RowsRewritten ==
  ASSUME NEW e \in DataSet, NEW d, NEW rows,
         d = [e EXCEPT !.rows = rows], DOMAIN rows = DOMAIN e.rows,
         rows = [i \in DOMAIN rows |-> rows[i]],
         \A i \in DOMAIN rows : rows[i] \in RowSet
  PROVE  /\ d \in DataSet /\ d.rows = rows /\ d.pages = e.pages /\ d.older = e.older
         /\ DOMAIN d.rows = DOMAIN e.rows
  <1>1. e.rows \in Seq(RowSet) /\ Len(e.rows) \in Nat /\ DOMAIN e.rows = 1..Len(e.rows)
    BY DEF DataSet
  <1>2. rows \in [1..Len(e.rows) -> RowSet]
    BY <1>1
  <1>3. rows \in Seq(RowSet)
    BY <1>1, <1>2, SeqDef
  <1> QED
    BY <1>3 DEF DataSet

\* A page that is served: its rows are comments of the server as they are.
LEMMA ListedRows ==
  ASSUME ServerTypes, NEW before \in 1..(Len(posted) + 1), NEW limit \in Nat, NEW rows,
         rows = Listed(before, limit)
  PROVE  /\ rows \in Seq(RowSet) /\ Len(rows) <= limit /\ Len(rows) < before
         /\ \A i \in DOMAIN rows : /\ rows[i].sync = "synced" /\ rows[i].id \in PostedIds
                                   /\ rows[i].shown = ShownReactions(rows[i].id)
         /\ \A i \in DOMAIN rows : before - i \in DOMAIN posted /\ rows[i].id = posted[before - i].id
         /\ \A j \in DOMAIN posted : j < before /\ j > before - 1 - Len(rows) => posted[j].id \in IdsOf(rows)
         /\ before > 1 /\ limit > 0 => Len(rows) > 0
  <1> DEFINE m == IF before - 1 < limit THEN before - 1 ELSE limit
             row(c) == Row(c.id, c.parent, "synced", ShownReactions(c.id))
  <1>0. posted \in Seq(Comments) /\ Len(posted) \in Nat /\ DOMAIN posted = 1..Len(posted)
    BY DEF ServerTypes
  <1>1. m \in Nat /\ m <= limit /\ m < before /\ (before > 1 /\ limit > 0 => m > 0)
    OBVIOUS
  <1>2. \A i \in 1..m : before - i \in DOMAIN posted /\ before - i < before
    BY <1>0, <1>1
  <1>3. ASSUME NEW c \in Comments PROVE row(c) \in RowSet /\ row(c).sync = "synced" /\ row(c).id = c.id
                                        /\ row(c).shown = ShownReactions(c.id)
    <2>1. c.id \in Ids /\ c.parent \in Parents
      BY DEF Comments
    <2>2. ShownReactions(c.id) \in Shown
      BY <2>1, ShownTypes
    <2> QED
      BY <2>1, <2>2 DEF Row, RowSet
  <1>4. rows = [i \in 1..m |-> row(posted[before - i])]
    BY DEF Listed
  <1> HIDE DEF m, row
  <1>5. \A i \in 1..m : posted[before - i] \in Comments
    BY <1>0, <1>2
  <1>6. rows \in [1..m -> RowSet] /\ rows \in Seq(RowSet)
    <2>1. rows \in [1..m -> RowSet]
      BY <1>3, <1>4, <1>5
    <2> QED
      BY <1>1, <2>1, SeqDef
  <1>7. DOMAIN rows = 1..m /\ Len(rows) = m
    BY <1>1, <1>6
  <1>8. ASSUME NEW i \in DOMAIN rows
        PROVE  /\ rows[i].sync = "synced" /\ rows[i].id \in PostedIds
               /\ rows[i].shown = ShownReactions(rows[i].id)
               /\ before - i \in DOMAIN posted /\ rows[i].id = posted[before - i].id
    <2>1. i \in 1..m /\ rows[i] = row(posted[before - i])
      BY <1>4, <1>7
    <2>2. posted[before - i] \in Comments /\ before - i \in DOMAIN posted
      BY <1>2, <1>5, <2>1
    <2>3. rows[i].id = posted[before - i].id
      BY <1>3, <2>1, <2>2
    <2> QED
      BY <1>3, <2>1, <2>2, <2>3 DEF PostedIds, IdsOf
  <1>9. ASSUME NEW j \in DOMAIN posted, j < before, j > before - 1 - m PROVE posted[j].id \in IdsOf(rows)
    <2>1. before - j \in 1..m /\ before - (before - j) = j
      BY <1>0, <1>1, <1>9
    <2>2. rows[before - j] = row(posted[j])
      BY <1>4, <2>1
    <2>3. posted[j] \in Comments
      BY <1>0
    <2> QED
      BY <1>3, <1>7, <2>1, <2>2, <2>3 DEF IdsOf
  <1> QED
    BY <1>1, <1>6, <1>7, <1>8, <1>9

-----------------------------------------------------------------------------
(* What a step does to the server and to the comment under way *)

\* A comment is saved: the user's that is under way, or another member's.
Saves(c) ==
  /\ c \in Ids \ Seeds /\ c \notin PostedIds
  /\ \/ sending # Free /\ sending.phase = "sent" /\ sending.id = c
     \/ outside' = outside + 1 /\ c = <<"other", outside + 1>>
  /\ \E parent \in Parents, text \in Nat :
       /\ posted' = Append(posted, [id |-> c, parent |-> parent, text |-> text])
       /\ log' = Append(log, [kind |-> "created", id |-> c, parent |-> parent])
  /\ UNCHANGED <<mine, theirs>>

Reacts(c) ==
  /\ c \in PostedIds
  /\ posted' = posted
  /\ log' = Append(log, [kind |-> "reaction", id |-> c, parent |-> Root])
  /\ mine' \in [Ids -> Types \cup {Nobody}] /\ theirs' \in [Ids -> Types \cup {Nobody}]
  /\ \A d \in Ids \ {c} : mine'[d] = mine[d] /\ theirs'[d] = theirs[d]

ServerMoves == UNCHANGED serverVars \/ \E c \in Ids : Saves(c) \/ Reacts(c)

SendingMoves ==
  /\ own' \in {own, own + 1} /\ outside' \in {outside, outside + 1} /\ lost \subseteq lost'
  /\ sending' # Free =>
       \/ sending # Free /\ sending'.id = sending.id
       \/ own' = own + 1 /\ sending'.id = <<"own", own + 1>>

\* The comments of the server have numbers.
LEMMA PostedAreIds == ServerTypes => PostedIds \subseteq Ids
  <1> SUFFICES ASSUME ServerTypes, NEW i \in DOMAIN posted PROVE posted[i].id \in Ids
    BY DEF PostedIds, IdsOf
  <1>1. posted[i] \in Comments
    BY DEF ServerTypes
  <1> QED
    BY <1>1 DEF Comments

\* Another member's comment is saved, and the user's own.
LEMMA OthersSave ==
  ASSUME TypeInv, ServerInv, OthersComment
  PROVE  Saves(<<"other", outside + 1>>)
  <1>t. /\ posted \in Seq(Comments) /\ outside \in Nat /\ outside \in 0..MaxOutside
        /\ sending \in {Free} \cup Sendings
    BY Basics DEF TypeInv, ServerTypes, PageTypes
  <1>1. PICK parent \in {Root, Last(posted).id} : Save(<<"other", outside + 1>>, parent, NoText)
    BY DEF OthersComment
  <1>2. outside + 1 \in 1..MaxOutside /\ outside' = outside + 1
    BY <1>t, Basics DEF OthersComment
  <1>3. <<"other", outside + 1>> \in Ids \ Seeds
    BY <1>2, Basics DEF Seeds
  <1>4. <<"other", outside + 1>> \notin PostedIds
    BY <1>t DEF ServerInv
  <1>5. parent \in Parents
    <2>1. <<"seed", 1>> \in PostedIds
      BY Basics DEF ServerInv, Created, CreatedIn, Seeds
    <2>2. Len(posted) \in Nat /\ Len(posted) > 0 /\ DOMAIN posted = 1..Len(posted)
      BY <1>t, <2>1 DEF PostedIds, IdsOf
    <2>3. Last(posted) = posted[Len(posted)] /\ posted[Len(posted)] \in Comments
      BY <1>t, <2>2 DEF Last
    <2> QED
      BY <2>3 DEF Comments, Parents
  <1>6. Saves(<<"other", outside + 1>>)
    BY <1>1, <1>2, <1>3, <1>4, <1>5 DEF Save, Announce, Saves, NoText, OthersComment
  <1> QED
    BY <1>6

LEMMA OwnSaves ==
  ASSUME TypeInv, SendingInv, ServeComment
  PROVE  Saves(sending.id) /\ sending \in Sendings /\ sending # Free
  <1>t. /\ posted \in Seq(Comments) /\ outside \in Nat /\ outside \in 0..MaxOutside
        /\ sending \in {Free} \cup Sendings
    BY Basics DEF TypeInv, ServerTypes, PageTypes
  <1>1. sending # Free /\ sending.phase = "sent" /\ sending \in Sendings
    BY <1>t DEF ServeComment, Free
  <1>2. sending.id \in Ids \ Seeds /\ sending.id \notin PostedIds
    <2>1. sending.id \in Own /\ sending.id \notin PostedIds
      BY <1>1 DEF Sendings, SendingInv
    <2>2. \A c \in Own : c \notin Seeds
      BY DEF Own, Seeds
    <2> QED
      BY <2>1, <2>2, Basics
  <1>3. sending.parent \in Parents /\ sending.text \in Nat
    BY <1>1 DEF Sendings
  <1>4. Saves(sending.id)
    BY <1>1, <1>2, <1>3 DEF ServeComment, Saves, Save, Announce
  <1> QED
    BY <1>1, <1>4

\* Every action does one of these to the server.
LEMMA StepMoves == TypeInv /\ ServerInv /\ SendingInv /\ [Next]_vars => ServerMoves /\ SendingMoves
  <1> SUFFICES ASSUME TypeInv, ServerInv, SendingInv, [Next]_vars
               PROVE  ServerMoves /\ SendingMoves
    OBVIOUS
  <1>t. /\ posted \in Seq(Comments) /\ log \in Seq(Events)
        /\ mine \in [Ids -> Types \cup {Nobody}] /\ theirs \in [Ids -> Types \cup {Nobody}]
        /\ own \in Nat /\ outside \in 0..MaxOutside /\ outside \in Nat
        /\ sending \in {Free} \cup Sendings /\ reacting \in {Free} \cup Reactings
    BY Basics DEF TypeInv, ServerTypes, PageTypes
  <1>p. PostedIds \subseteq Ids
    BY PostedAreIds DEF TypeInv
  <1>s. UNCHANGED <<sending, lost, own, outside>> => SendingMoves
    BY <1>t DEF SendingMoves
  <1>1. CASE OthersComment
    <2>1. outside' = outside + 1 /\ outside + 1 \in 1..MaxOutside /\ UNCHANGED <<sending, lost, own>>
      BY <1>1, <1>t, Basics DEF OthersComment, ghosts
    <2>2. <<"other", outside + 1>> \in Ids
      BY <2>1, Basics
    <2> QED
      BY <1>1, <1>t, <2>1, <2>2, OthersSave DEF ServerMoves, SendingMoves
  <1>2. CASE OthersReact
    <2>1. PICK c \in PostedIds, ty \in Clicked : theirs' = [theirs EXCEPT ![c] = ty] /\ Announce("reaction", c, Root)
      BY <1>2 DEF OthersReact
    <2>2. ty \in Types /\ c \in Ids
      BY <1>p, Basics
    <2>3. Reacts(c)
      BY <1>2, <1>t, <2>1, <2>2 DEF Reacts, Announce, OthersReact
    <2> QED
      BY <1>2, <1>t, <2>2, <2>3 DEF ServerMoves, SendingMoves, OthersReact, ghosts
  <1>3. CASE ServeComment
    <2>1. sending # Free /\ sending \in Sendings /\ Saves(sending.id)
      BY <1>3, OwnSaves
    <2>2. sending.id \in Ids
      BY <2>1, Basics DEF Sendings
    <2>5. sending' # Free /\ sending'.id = sending.id /\ lost \subseteq lost' /\ UNCHANGED <<own, outside>>
      <3>1. \/ sending' = [sending EXCEPT !.phase = "ok"] /\ UNCHANGED lost
            \/ sending' = [sending EXCEPT !.phase = "error"] /\ lost' = lost \cup {sending.id}
        BY <1>3 DEF ServeComment
      <3>2. UNCHANGED <<own, outside>>
        BY <1>3 DEF ServeComment, bounds
      <3>3. sending'.id = sending.id /\ lost \subseteq lost'
        BY <2>1, <3>1 DEF Sendings
      <3>4. sending'.phase # "free"
        BY <2>1, <3>1 DEF Sendings
      <3> QED
        BY <3>2, <3>3, <3>4 DEF Free
    <2> QED
      BY <1>t, <2>1, <2>2, <2>5 DEF ServerMoves, SendingMoves
  <1>4. CASE ServeReaction
    <2>1. reacting \in Reactings /\ reacting.id \in PostedIds /\ reacting.to \in Types \cup {Nobody}
      BY <1>4, <1>t DEF ServeReaction, Free, Reactings
    <2>2. Reacts(reacting.id)
      BY <1>4, <1>t, <1>p, <2>1 DEF Reacts, ServeReaction, Announce
    <2> QED
      BY <1>4, <1>p, <1>s, <2>1, <2>2 DEF ServerMoves, ServeReaction, bounds, ghosts
  <1>5. CASE SendComment
    <2>1. UNCHANGED serverVars /\ own' = own + 1 /\ sending'.id = <<"own", own + 1>>
          /\ UNCHANGED <<outside, lost>>
      BY <1>5 DEF SendComment
    <2> QED
      BY <1>t, <2>1 DEF ServerMoves, SendingMoves
  <1>6. CASE React
    <2>1. UNCHANGED serverVars /\ own' = own + 1 /\ UNCHANGED <<outside, lost, sending>>
      BY <1>6 DEF React
    <2> QED
      BY <1>t, <2>1 DEF ServerMoves, SendingMoves
  <1>7. CASE RefuseComment
    <2>1. sending # Free /\ sending.phase = "sent" /\ sending \in Sendings
      BY <1>7, <1>t DEF RefuseComment, Free
    <2>2. UNCHANGED serverVars /\ UNCHANGED <<own, outside, lost>> /\ sending' = [sending EXCEPT !.phase = "error"]
      BY <1>7 DEF RefuseComment, bounds, ghosts
    <2>3. sending'.id = sending.id
      BY <2>1, <2>2 DEF Sendings
    <2> QED
      BY <1>t, <2>1, <2>2, <2>3 DEF ServerMoves, SendingMoves
  <1>8. CASE CommentSaved \/ CommentFailed
    <2>1. UNCHANGED serverVars /\ UNCHANGED <<own, outside, lost>> /\ sending' = Free
      BY <1>8 DEF CommentSaved, CommentFailed, bounds
    <2> QED
      BY <1>t, <2>1 DEF ServerMoves, SendingMoves
  <1>9. CASE LoadOlder \/ ReloadTask
    <2>1. UNCHANGED serverVars /\ UNCHANGED <<own, lost, sending>> /\ outside' = outside + 1
      BY <1>9 DEF LoadOlder, ReloadTask, ghosts
    <2> QED
      BY <1>t, <2>1 DEF ServerMoves, SendingMoves
  <1>10. CASE Type \/ Reply \/ CancelReply
    <2>1. UNCHANGED serverVars /\ UNCHANGED <<own, outside, lost, sending>>
      BY <1>10 DEF Type, Reply, CancelReply, ghosts
    <2> QED
      BY <1>s, <2>1 DEF ServerMoves
  <1>11. CASE ServeThread \/ ServeTask \/ RefuseReaction
    <2>1. UNCHANGED serverVars /\ UNCHANGED <<own, outside, lost, sending>>
      BY <1>11 DEF ServeThread, ServeTask, RefuseReaction, bounds, ghosts
    <2> QED
      BY <1>s, <2>1 DEF ServerMoves
  <1>12. CASE ThreadArrives \/ TaskArrives \/ ReactionSaved \/ ReactionFailed
    <2>1. UNCHANGED serverVars /\ UNCHANGED <<own, outside, lost, sending>>
      BY <1>12 DEF ThreadArrives, TaskArrives, ReactionSaved, ReactionFailed, bounds, ghosts
    <2> QED
      BY <1>s, <2>1 DEF ServerMoves
  <1>13. CASE ApplyCreated \/ ApplyReaction
    <2>1. UNCHANGED serverVars /\ UNCHANGED <<own, outside, lost, sending>>
      BY <1>13 DEF ApplyCreated, ApplyReaction, bounds, ghosts
    <2> QED
      BY <1>s, <2>1 DEF ServerMoves
  <1>14. CASE UNCHANGED vars
    BY <1>14, <1>s DEF vars, ServerMoves, bounds, ghosts
  <1> QED
    BY <1>1, <1>2, <1>3, <1>4, <1>5, <1>6, <1>7, <1>8, <1>9, <1>10, <1>11, <1>12, <1>13, <1>14
    DEF Next, UserStep, ServerStep, AnswerStep, StreamStep

\* The log and the comments of the server grow at their ends.
ServerGrows ==
  /\ Len(log) \in Nat /\ Len(log') \in Nat /\ Len(log) <= Len(log')
  /\ Len(posted) \in Nat /\ Len(posted') \in Nat /\ Len(posted) <= Len(posted')
  /\ DOMAIN log = 1..Len(log) /\ DOMAIN log' = 1..Len(log')
  /\ DOMAIN posted = 1..Len(posted) /\ DOMAIN posted' = 1..Len(posted')
  /\ \A k \in DOMAIN log : log'[k] = log[k]
  /\ \A i \in DOMAIN posted : posted'[i] = posted[i]
  /\ PostedIds \subseteq PostedIds'

\* What a comment that is saved adds.
LEMMA SavedFacts ==
  ASSUME ServerTypes, NEW c \in Ids, Saves(c)
  PROVE  /\ ServerTypes' /\ ServerGrows
         /\ Len(log') = Len(log) + 1 /\ Len(posted') = Len(posted) + 1
         /\ log'[Len(log')].kind = "created" /\ log'[Len(log')].id = c
         /\ posted'[Len(posted')].id = c
         /\ PostedIds' = PostedIds \cup {c}
  <1>1. PICK parent \in Parents, text \in Nat :
          /\ posted' = Append(posted, [id |-> c, parent |-> parent, text |-> text])
          /\ log' = Append(log, [kind |-> "created", id |-> c, parent |-> parent])
    BY DEF Saves
  <1>2. posted \in Seq(Comments) /\ log \in Seq(Events)
    BY DEF ServerTypes
  <1>3. [id |-> c, parent |-> parent, text |-> text] \in Comments
        /\ [kind |-> "created", id |-> c, parent |-> parent] \in Events
    BY DEF Comments, Events
  <1>4. /\ posted' \in Seq(Comments) /\ Len(posted') = Len(posted) + 1
        /\ posted'[Len(posted')] = [id |-> c, parent |-> parent, text |-> text]
        /\ \A i \in 1..Len(posted) : posted'[i] = posted[i]
    BY <1>1, <1>2, <1>3, AppendProperties
  <1>5. /\ log' \in Seq(Events) /\ Len(log') = Len(log) + 1
        /\ log'[Len(log')] = [kind |-> "created", id |-> c, parent |-> parent]
        /\ \A k \in 1..Len(log) : log'[k] = log[k]
    BY <1>1, <1>2, <1>3, AppendProperties
  <1>6. /\ Len(log) \in Nat /\ Len(posted) \in Nat /\ Len(log') \in Nat /\ Len(posted') \in Nat
        /\ DOMAIN log = 1..Len(log) /\ DOMAIN log' = 1..Len(log')
        /\ DOMAIN posted = 1..Len(posted) /\ DOMAIN posted' = 1..Len(posted')
    BY <1>2, <1>4, <1>5
  <1>7. PostedIds' = PostedIds \cup {c}
    <2>1. ASSUME NEW i \in DOMAIN posted PROVE posted[i].id \in PostedIds'
      BY <1>4, <1>6 DEF PostedIds, IdsOf
    <2>2. c \in PostedIds'
      BY <1>4, <1>6 DEF PostedIds, IdsOf
    <2>3. ASSUME NEW i \in DOMAIN posted' PROVE posted'[i].id \in PostedIds \cup {c}
      <3>1. CASE i \in 1..Len(posted)
        BY <1>4, <1>6, <3>1 DEF PostedIds, IdsOf
      <3>2. CASE i = Len(posted')
        BY <1>4, <3>2
      <3> QED
        BY <1>4, <1>6, <3>1, <3>2
    <2> QED
      BY <2>1, <2>2, <2>3 DEF PostedIds, IdsOf
  <1>8. ServerTypes'
    BY <1>4, <1>5 DEF ServerTypes, Saves
  <1> QED
    BY <1>4, <1>5, <1>6, <1>7, <1>8 DEF ServerGrows

\* What a reaction adds.
LEMMA ReactedFacts ==
  ASSUME ServerTypes, NEW c \in Ids, Reacts(c)
  PROVE  /\ ServerTypes' /\ ServerGrows
         /\ Len(log') = Len(log) + 1 /\ posted' = posted /\ PostedIds' = PostedIds
         /\ log'[Len(log')].kind = "reaction" /\ log'[Len(log')].id = c
  <1>1. posted \in Seq(Comments) /\ log \in Seq(Events)
    BY DEF ServerTypes
  <1>2. log' = Append(log, [kind |-> "reaction", id |-> c, parent |-> Root])
        /\ [kind |-> "reaction", id |-> c, parent |-> Root] \in Events
    BY DEF Reacts, Events, Parents
  <1>3. /\ log' \in Seq(Events) /\ Len(log') = Len(log) + 1
        /\ log'[Len(log')] = [kind |-> "reaction", id |-> c, parent |-> Root]
        /\ \A k \in 1..Len(log) : log'[k] = log[k]
    BY <1>1, <1>2, AppendProperties
  <1>4. /\ Len(log) \in Nat /\ Len(posted) \in Nat /\ Len(log') \in Nat
        /\ DOMAIN log = 1..Len(log) /\ DOMAIN log' = 1..Len(log')
        /\ DOMAIN posted = 1..Len(posted)
    BY <1>1, <1>3
  <1>5. posted' = posted /\ PostedIds' = PostedIds
    BY DEF Reacts, PostedIds
  <1>6. ServerTypes'
    BY <1>1, <1>3 DEF ServerTypes, Reacts
  <1> QED
    BY <1>3, <1>4, <1>5, <1>6 DEF ServerGrows

\* And what every step leaves.
LEMMA Grows == ServerTypes /\ ServerMoves => ServerTypes' /\ ServerGrows
  <1> SUFFICES ASSUME ServerTypes, ServerMoves PROVE ServerTypes' /\ ServerGrows
    OBVIOUS
  <1>1. CASE UNCHANGED serverVars
    <2>1. posted \in Seq(Comments) /\ log \in Seq(Events)
      BY DEF ServerTypes
    <2>2. Len(log) \in Nat /\ Len(posted) \in Nat /\ DOMAIN log = 1..Len(log) /\ DOMAIN posted = 1..Len(posted)
      BY <2>1
    <2> QED
      BY <1>1, <2>2 DEF ServerGrows, ServerTypes, serverVars, PostedIds
  <1> QED
    BY <1>1, SavedFacts, ReactedFacts DEF ServerMoves

-----------------------------------------------------------------------------
(* Types, step by step *)

\* A row that is rewritten is a row.
LEMMA RowTypes ==
  ASSUME data \in DataSet, NEW i \in DOMAIN data.rows
  PROVE  /\ data.rows[i] \in RowSet
         /\ data.rows[i].id \in Ids /\ data.rows[i].parent \in Parents
         /\ data.rows[i].sync \in {"pending", "synced", "failed"} /\ data.rows[i].shown \in Shown
  <1>1. data.rows \in Seq(RowSet)
    BY DEF DataSet
  <1>2. data.rows[i] \in RowSet
    BY <1>1
  <1> QED
    BY <1>2 DEF RowSet

\* The rows of a comment that is saved, and no other, change.
LEMMA SavedRows ==
  ASSUME ServerTypes, data \in DataSet, NEW c \in Ids, NEW parent \in Parents, NEW d, d = SavedInPlace(c, parent)
  PROVE  /\ d \in DataSet /\ d.pages = data.pages /\ d.older = data.older
         /\ DOMAIN d.rows = DOMAIN data.rows
         /\ \A i \in DOMAIN data.rows :
              d.rows[i] = IF data.rows[i].id = c THEN Row(c, parent, "synced", NoReactions) ELSE data.rows[i]
  <1> DEFINE rows == [i \in DOMAIN data.rows |->
               IF data.rows[i].id = c THEN Row(c, parent, "synced", NoReactions) ELSE data.rows[i]]
  <1>1. d = [data EXCEPT !.rows = rows]
    BY DEF SavedInPlace, WithRow, DataSet
  <1>2. Row(c, parent, "synced", NoReactions) \in RowSet
    BY ShownTypes DEF Row, RowSet
  <1>3. \A i \in DOMAIN rows : rows[i] \in RowSet
    BY <1>2, RowTypes
  <1>4. DOMAIN rows = DOMAIN data.rows /\ rows = [i \in DOMAIN rows |-> rows[i]]
    OBVIOUS
  <1>5. \A i \in DOMAIN data.rows :
          rows[i] = IF data.rows[i].id = c THEN Row(c, parent, "synced", NoReactions) ELSE data.rows[i]
    OBVIOUS
  <1> HIDE DEF rows
  <1>6. d \in DataSet /\ d.rows = rows /\ d.pages = data.pages /\ d.older = data.older
    BY <1>1, <1>3, <1>4, RowsRewritten
  <1> QED
    BY <1>4, <1>5, <1>6

\* The rows of a comment that failed.
FailedAs(c, d) == LET failed(row) == [row EXCEPT !.sync = "failed"] IN d = WithRow(c, failed)

LEMMA FailedRows ==
  ASSUME data \in DataSet, NEW c \in Ids, NEW d, FailedAs(c, d)
  PROVE  /\ d \in DataSet /\ d.pages = data.pages /\ d.older = data.older
         /\ DOMAIN d.rows = DOMAIN data.rows
         /\ \A i \in DOMAIN data.rows :
              /\ d.rows[i].id = data.rows[i].id /\ d.rows[i].shown = data.rows[i].shown
              /\ d.rows[i].sync = IF data.rows[i].id = c THEN "failed" ELSE data.rows[i].sync
  <1> DEFINE rows == [i \in DOMAIN data.rows |->
               IF data.rows[i].id = c THEN [data.rows[i] EXCEPT !.sync = "failed"] ELSE data.rows[i]]
  <1>1. d = [data EXCEPT !.rows = rows]
    BY DEF FailedAs, WithRow
  <1>2. ASSUME NEW r \in RowSet
        PROVE  /\ [r EXCEPT !.sync = "failed"] \in RowSet
               /\ [r EXCEPT !.sync = "failed"].id = r.id /\ [r EXCEPT !.sync = "failed"].shown = r.shown
               /\ [r EXCEPT !.sync = "failed"].sync = "failed"
    BY DEF RowSet
  <1>3. ASSUME NEW i \in DOMAIN data.rows
        PROVE  /\ rows[i] \in RowSet
               /\ rows[i].id = data.rows[i].id /\ rows[i].shown = data.rows[i].shown
               /\ rows[i].sync = IF data.rows[i].id = c THEN "failed" ELSE data.rows[i].sync
    BY <1>2, RowTypes
  <1>4. DOMAIN rows = DOMAIN data.rows /\ rows = [i \in DOMAIN rows |-> rows[i]]
    OBVIOUS
  <1>r. \A i \in DOMAIN rows : rows[i] \in RowSet
    BY <1>3, <1>4
  <1> HIDE DEF rows
  <1>5. d \in DataSet /\ d.rows = rows /\ d.pages = data.pages /\ d.older = data.older
    BY <1>1, <1>4, <1>r, RowsRewritten
  <1> QED
    BY <1>3, <1>4, <1>5

\* The rows of a comment whose reaction is toggled.
ToggledAs(c, ty, d) == LET toggled(r) == [r EXCEPT !.shown = Toggled(r.shown, ty)] IN d = WithRow(c, toggled)

LEMMA ToggledRows ==
  ASSUME data \in DataSet, NEW c \in Ids, NEW ty \in Types, NEW d, ToggledAs(c, ty, d)
  PROVE  /\ d \in DataSet /\ d.pages = data.pages /\ d.older = data.older
         /\ SameRows(data, d)
         /\ \A i \in DOMAIN data.rows : data.rows[i].id # c => d.rows[i] = data.rows[i]
  <1> DEFINE rows == [i \in DOMAIN data.rows |->
               IF data.rows[i].id = c THEN [data.rows[i] EXCEPT !.shown = Toggled(data.rows[i].shown, ty)] ELSE data.rows[i]]
  <1>1. d = [data EXCEPT !.rows = rows]
    BY DEF ToggledAs, WithRow
  <1>2. ASSUME NEW r \in RowSet
        PROVE  /\ [r EXCEPT !.shown = Toggled(r.shown, ty)] \in RowSet
               /\ [r EXCEPT !.shown = Toggled(r.shown, ty)].id = r.id
               /\ [r EXCEPT !.shown = Toggled(r.shown, ty)].sync = r.sync
    <2>1. Toggled(r.shown, ty) \in Shown
      BY ToggledTypes DEF RowSet
    <2> QED
      BY <2>1 DEF RowSet
  <1>3. ASSUME NEW i \in DOMAIN data.rows
        PROVE  /\ rows[i] \in RowSet
               /\ rows[i].id = data.rows[i].id /\ rows[i].sync = data.rows[i].sync
               /\ data.rows[i].id # c => rows[i] = data.rows[i]
    BY <1>2, RowTypes
  <1>4. DOMAIN rows = DOMAIN data.rows /\ rows = [i \in DOMAIN rows |-> rows[i]]
    OBVIOUS
  <1>r. \A i \in DOMAIN rows : rows[i] \in RowSet
    BY <1>3, <1>4
  <1> HIDE DEF rows
  <1>5. d \in DataSet /\ d.rows = rows /\ d.pages = data.pages /\ d.older = data.older
    BY <1>1, <1>4, <1>r, RowsRewritten
  <1> QED
    BY <1>3, <1>4, <1>5 DEF SameRows

\* The answer to a request of the thread: what is added to what was asked with.
ServedAs(old, kind, answer) ==
  LET rows == Listed(IF kind = "older" THEN old.older + 1 ELSE Len(posted) + 1,
                     IF kind = "older" \/ old = NoData THEN PageSize ELSE old.pages * PageSize)
  IN  answer = [rows |-> IF kind = "older" THEN old.rows \o rows ELSE rows,
                pages |-> IF kind = "older" \/ old = NoData THEN old.pages + 1 ELSE old.pages,
                older |-> (IF kind = "older" THEN old.older + 1 ELSE Len(posted) + 1) - 1 - Len(rows)]

LEMMA ServedTypes ==
  ASSUME ServerTypes, NEW old \in DataSet, NEW kind \in Kinds, NEW answer, ServedAs(old, kind, answer),
         old.older <= Len(posted), old = NoData \/ old.pages > 0
  PROVE  /\ answer \in DataSet /\ answer # NoData /\ answer.pages > 0 /\ answer.older <= Len(posted)
         /\ \A i \in DOMAIN answer.rows :
              \/ /\ kind = "older"
                 /\ \E j \in DOMAIN old.rows : old.rows[j] = answer.rows[i]
              \/ /\ answer.rows[i].sync = "synced" /\ answer.rows[i].id \in PostedIds
                 /\ answer.rows[i].shown = ShownReactions(answer.rows[i].id)
         /\ kind = "older" => IdsOf(old.rows) \subseteq IdsOf(answer.rows)
         /\ \A j \in DOMAIN posted :
              j > answer.older /\ (kind = "older" => j <= old.older) => posted[j].id \in IdsOf(answer.rows)
  <1> DEFINE before == IF kind = "older" THEN old.older + 1 ELSE Len(posted) + 1
             limit == IF kind = "older" \/ old = NoData THEN PageSize ELSE old.pages * PageSize
             rows == Listed(before, limit)
             all == IF kind = "older" THEN old.rows \o rows ELSE rows
             pages == IF kind = "older" \/ old = NoData THEN old.pages + 1 ELSE old.pages
  <1>0. /\ old.rows \in Seq(RowSet) /\ old.pages \in Nat /\ old.older \in Nat
        /\ posted \in Seq(Comments) /\ Len(posted) \in Nat /\ PageSize \in Nat /\ PageSize > 0
        /\ DOMAIN old.rows = 1..Len(old.rows) /\ Len(old.rows) \in Nat /\ DOMAIN posted = 1..Len(posted)
    BY Basics DEF DataSet, ServerTypes
  <1>1. before \in 1..(Len(posted) + 1) /\ limit \in Nat
    <2>1. before \in 1..(Len(posted) + 1)
      BY <1>0
    <2>2. old.pages * PageSize \in Nat
      BY <1>0
    <2> QED
      BY <1>0, <2>1, <2>2
  <1>p. pages \in Nat /\ pages > 0
    <2>1. old = NoData => old.pages = 0
      BY DEF NoData
    <2> QED
      BY <1>0, <2>1
  <1>b. kind = "older" => before - 1 = old.older
    BY <1>0
  <1>c. kind # "older" => before = Len(posted) + 1
    OBVIOUS
  <1>2. answer = [rows |-> all, pages |-> pages, older |-> before - 1 - Len(rows)]
    BY DEF ServedAs
  <1> HIDE DEF before, limit, pages
  <1>3. /\ rows \in Seq(RowSet) /\ Len(rows) < before
        /\ \A i \in DOMAIN rows : /\ rows[i].sync = "synced" /\ rows[i].id \in PostedIds
                                  /\ rows[i].shown = ShownReactions(rows[i].id)
        /\ \A j \in DOMAIN posted : j < before /\ j > before - 1 - Len(rows) => posted[j].id \in IdsOf(rows)
    BY <1>1, ListedRows
  <1>r. Len(rows) \in Nat /\ DOMAIN rows = 1..Len(rows)
    BY <1>3
  <1> HIDE DEF rows
  <1>4. /\ all \in Seq(RowSet)
        /\ \A i \in DOMAIN all : (\E k \in DOMAIN rows : all[i] = rows[k])
                                 \/ (kind = "older" /\ \E j \in DOMAIN old.rows : all[i] = old.rows[j])
        /\ IdsOf(rows) \subseteq IdsOf(all)
        /\ kind = "older" => IdsOf(old.rows) \subseteq IdsOf(all)
    <2>1. CASE kind = "older"
      <3>1. all = old.rows \o rows
        BY <2>1
      <3>c. /\ old.rows \o rows \in Seq(RowSet) /\ Len(old.rows \o rows) = Len(old.rows) + Len(rows)
            /\ \A i \in 1..(Len(old.rows) + Len(rows)) :
                 (old.rows \o rows)[i] = IF i <= Len(old.rows) THEN old.rows[i] ELSE rows[i - Len(old.rows)]
        BY <1>0, <1>3, ConcatProperties
      <3> HIDE DEF all
      <3>2. /\ all \in Seq(RowSet) /\ Len(all) = Len(old.rows) + Len(rows)
            /\ \A i \in 1..(Len(old.rows) + Len(rows)) :
                 all[i] = IF i <= Len(old.rows) THEN old.rows[i] ELSE rows[i - Len(old.rows)]
        BY <3>1, <3>c
      <3>3. DOMAIN all = 1..(Len(old.rows) + Len(rows))
        BY <3>2
      <3>4. ASSUME NEW i \in DOMAIN all
            PROVE  (\E k \in DOMAIN rows : all[i] = rows[k]) \/ \E j \in DOMAIN old.rows : all[i] = old.rows[j]
        <4>1. CASE i <= Len(old.rows)
          BY <1>0, <3>2, <3>3, <4>1
        <4>2. CASE i > Len(old.rows)
          <5>1. i - Len(old.rows) \in DOMAIN rows /\ all[i] = rows[i - Len(old.rows)]
            BY <1>0, <1>r, <3>2, <3>3, <4>2
          <5> QED
            BY <5>1
        <4> QED
          BY <1>0, <3>3, <4>1, <4>2
      <3>5. ASSUME NEW k \in DOMAIN rows PROVE k + Len(old.rows) \in DOMAIN all /\ all[k + Len(old.rows)] = rows[k]
        <4>1. /\ k + Len(old.rows) \in 1..(Len(old.rows) + Len(rows))
              /\ ~(k + Len(old.rows) <= Len(old.rows)) /\ (k + Len(old.rows)) - Len(old.rows) = k
          BY <1>0, <1>r
        <4> QED
          BY <3>2, <3>3, <4>1
      <3>6. ASSUME NEW j \in DOMAIN old.rows PROVE j \in DOMAIN all /\ all[j] = old.rows[j]
        BY <1>0, <1>r, <3>2, <3>3
      <3>7. IdsOf(rows) \subseteq IdsOf(all)
        BY <3>5 DEF IdsOf
      <3>8. IdsOf(old.rows) \subseteq IdsOf(all)
        BY <3>6 DEF IdsOf
      <3> QED
        BY <2>1, <3>2, <3>4, <3>7, <3>8
    <2>2. CASE kind # "older"
      BY <1>3, <2>2
    <2> QED
      BY <2>1, <2>2
  <1> HIDE DEF all
  <1>5. before - 1 - Len(rows) \in Nat /\ before - 1 - Len(rows) <= Len(posted)
    BY <1>0, <1>1, <1>3, <1>r
  <1>6. answer.rows = all /\ answer.pages = pages /\ answer.older = before - 1 - Len(rows) /\ answer \in DataSet
    BY <1>2, <1>4, <1>5, <1>p DEF DataSet
  <1>7. answer # NoData
    BY <1>6, <1>p DEF NoData
  <1>8. ASSUME NEW j \in DOMAIN posted, j > answer.older, kind = "older" => j <= old.older
        PROVE  posted[j].id \in IdsOf(answer.rows)
    <2>1. j < before
      BY <1>0, <1>1, <1>8, <1>b, <1>c
    <2> QED
      BY <1>3, <1>4, <1>6, <1>8, <2>1
  <1>9. ASSUME NEW i \in DOMAIN all
        PROVE  \/ kind = "older" /\ \E j \in DOMAIN old.rows : old.rows[j] = all[i]
               \/ /\ all[i].sync = "synced" /\ all[i].id \in PostedIds
                  /\ all[i].shown = ShownReactions(all[i].id)
    <2>1. CASE \E k \in DOMAIN rows : all[i] = rows[k]
      BY <1>3, <2>1
    <2>2. CASE kind = "older" /\ \E j \in DOMAIN old.rows : all[i] = old.rows[j]
      BY <2>2
    <2> QED
      BY <1>4, <2>1, <2>2
  <1> QED
    BY <1>4, <1>5, <1>6, <1>7, <1>8, <1>9, <1>p

\* The states of a request on the way, the fields that stay, and no other.
LEMMA FetchShapes ==
  /\ \A r \in Requests \cup Answers : r # Idle /\ r.kind \in Kinds /\ r.pages \in DataSet /\ r.phase \in {"asked", "read"}
  /\ \A r \in Answers : r.at \in Nat /\ r.data \in DataSet /\ r.phase = "read"
  /\ \A r \in Requests : r.phase = "asked"
  /\ Idle.phase = "idle" /\ Idle.kind = "none"
  /\ \A kind \in Kinds, d \in DataSet :
       /\ Asked(kind, d) \in Requests /\ Asked(kind, d).kind = kind /\ Asked(kind, d).pages = d
       /\ Asked(kind, d).phase = "asked" /\ Asked(kind, d) # Idle
  BY DEF Requests, Answers, Idle, Asked

LEMMA SendingShapes ==
  /\ Free \notin Sendings /\ Free \notin Reactings /\ Free.phase = "free"
  /\ \A s \in Sendings : /\ s.phase \in {"sent", "ok", "error"} /\ s.id \in Own /\ s.text \in Nat /\ s.parent \in Parents
                         /\ \A p \in {"sent", "ok", "error"} :
                              /\ [s EXCEPT !.phase = p] \in Sendings /\ [s EXCEPT !.phase = p].phase = p
                              /\ [s EXCEPT !.phase = p].id = s.id /\ [s EXCEPT !.phase = p].text = s.text
                              /\ [s EXCEPT !.phase = p] # Free
  /\ \A r \in Reactings : /\ r.phase \in {"sent", "ok", "error"} /\ r.id \in Ids /\ r.previous \in DataSet
                          /\ r.optimistic \in DataSet /\ r.since \in Nat /\ r.to \in Types \cup {Nobody}
                          /\ \A p \in {"sent", "ok", "error"} :
                               /\ [r EXCEPT !.phase = p] \in Reactings /\ [r EXCEPT !.phase = p].id = r.id
                               /\ [r EXCEPT !.phase = p].previous = r.previous
                               /\ [r EXCEPT !.phase = p].optimistic = r.optimistic
                               /\ [r EXCEPT !.phase = p].since = r.since
                               /\ [r EXCEPT !.phase = p] # Free
  <1>1. Free \notin Sendings /\ Free \notin Reactings /\ Free.phase = "free"
    BY DEF Free, Sendings, Reactings
  <1>2. ASSUME NEW s \in Sendings
        PROVE  /\ s.phase \in {"sent", "ok", "error"} /\ s.id \in Own /\ s.text \in Nat /\ s.parent \in Parents
               /\ \A p \in {"sent", "ok", "error"} :
                    /\ [s EXCEPT !.phase = p] \in Sendings /\ [s EXCEPT !.phase = p].phase = p
                    /\ [s EXCEPT !.phase = p].id = s.id /\ [s EXCEPT !.phase = p].text = s.text
    BY DEF Sendings
  <1>3. ASSUME NEW r \in Reactings
        PROVE  /\ r.phase \in {"sent", "ok", "error"} /\ r.id \in Ids /\ r.previous \in DataSet
               /\ r.optimistic \in DataSet /\ r.since \in Nat /\ r.to \in Types \cup {Nobody}
               /\ \A p \in {"sent", "ok", "error"} :
                    /\ [r EXCEPT !.phase = p] \in Reactings /\ [r EXCEPT !.phase = p].id = r.id
                    /\ [r EXCEPT !.phase = p].previous = r.previous
                    /\ [r EXCEPT !.phase = p].optimistic = r.optimistic
                    /\ [r EXCEPT !.phase = p].since = r.since
    BY DEF Reactings
  <1> QED
    BY <1>1, <1>2, <1>3

\* The thread is asked for with what it has.
LEMMA RefreshTypes ==
  ASSUME data \in DataSet, threadFetch \in {Idle} \cup Requests \cup Answers, Refresh
  PROVE  threadFetch' \in {Idle} \cup Requests \cup Answers
  BY FetchShapes DEF Refresh, Kinds

\* The answer of the server, as ServedAs states it.
LEMMA ServedThread ==
  ASSUME ServerTypes, threadFetch \in {Idle} \cup Requests \cup Answers, ServeThread
  PROVE  /\ threadFetch \in Requests
         /\ \E d : /\ ServedAs(threadFetch.pages, threadFetch.kind, d)
                   /\ threadFetch' = [phase |-> "read", kind |-> threadFetch.kind, pages |-> threadFetch.pages,
                                      at |-> Len(log), data |-> d]
  <1>1. threadFetch \in Requests
    BY FetchShapes DEF ServeThread
  <1> QED
    BY <1>1 DEF ServeThread, ServedAs

\* Every variable of the page keeps its values.
LEMMA TypesNext == TypeInv /\ ServerInv /\ SendingInv /\ ThreadInv /\ [Next]_vars => TypeInv'
  <1> SUFFICES ASSUME TypeInv, ServerInv, SendingInv, ThreadInv, [Next]_vars
               PROVE  TypeInv'
    OBVIOUS
  <1>g. ServerTypes /\ ServerTypes' /\ ServerGrows
    BY StepMoves, Grows DEF TypeInv
  <1>t. PageTypes
    BY DEF TypeInv
  <1>l. Len(log) \in Nat /\ Len(log') \in Nat /\ Len(log) <= Len(log')
    BY <1>g DEF ServerGrows
  <1>c. cursor \in Nat /\ cursor <= Len(log) /\ (cursor' = cursor => cursor' <= Len(log'))
    BY <1>l, <1>t DEF PageTypes
  <1> SUFFICES PageTypes'
    BY <1>g DEF TypeInv
  <1>1. CASE OthersComment \/ OthersReact
    <2>1. outside' \in 0..MaxOutside
      BY <1>1, <1>t, Basics DEF OthersComment, OthersReact, PageTypes
    <2>2. UNCHANGED <<data, count, threadFetch, countFetch, composer, sending, reacting, cursor,
                      typed, replies, own, ghosts>>
      BY <1>1 DEF OthersComment, OthersReact
    <2> QED
      BY <1>c, <1>t, <2>1, <2>2 DEF PageTypes, composer, ghosts
  <1>2. CASE LoadOlder
    <2>1. outside' \in 0..MaxOutside /\ behind' \in BOOLEAN
      BY <1>2, <1>t, Basics DEF LoadOlder, PageTypes
    <2>2. threadFetch' \in Requests
      BY <1>2, <1>t, FetchShapes DEF LoadOlder, PageTypes, Kinds
    <2>3. UNCHANGED <<data, count, countFetch, composer, sending, reacting, cursor,
                      typed, replies, own, drift, counted, lost>>
      BY <1>2 DEF LoadOlder
    <2> QED
      BY <1>c, <1>t, <2>1, <2>2, <2>3 DEF PageTypes, composer
  <1>3. CASE ReloadTask
    <2>1. outside' \in 0..MaxOutside /\ countFetch' = TaskAsked
      BY <1>3, <1>t, Basics DEF ReloadTask, PageTypes
    <2>2. UNCHANGED <<data, count, threadFetch, composer, sending, reacting, cursor, typed, replies, own, ghosts>>
      BY <1>3 DEF ReloadTask
    <2> QED
      BY <1>c, <1>t, <2>1, <2>2 DEF PageTypes, composer, ghosts
  <1>4. CASE ServeThread
    <2>1. PICK d : /\ ServedAs(threadFetch.pages, threadFetch.kind, d)
                   /\ threadFetch' = [phase |-> "read", kind |-> threadFetch.kind, pages |-> threadFetch.pages,
                                      at |-> Len(log), data |-> d]
      BY <1>4, <1>g, <1>t, ServedThread DEF PageTypes
    <2>2. threadFetch \in Requests
      BY <1>4, <1>g, <1>t, ServedThread DEF PageTypes
    <2>3. threadFetch.pages \in DataSet /\ threadFetch.kind \in Kinds /\ threadFetch # Idle
      BY <2>2, FetchShapes
    <2>4. PagesSettled(threadFetch.pages, sending)
      BY <2>3 DEF ThreadInv, ThreadAt, Settled
    <2>5. d \in DataSet
      BY <1>g, <2>1, <2>3, <2>4, ServedTypes DEF PagesSettled
    <2>6. threadFetch' \in Answers
      BY <1>l, <2>1, <2>3, <2>5 DEF Answers
    <2>7. UNCHANGED <<data, count, countFetch, composer, sending, reacting, cursor, bounds, ghosts>>
      BY <1>4 DEF ServeThread
    <2> QED
      BY <1>c, <1>t, <2>6, <2>7 DEF PageTypes, composer, bounds, ghosts
  <1>5. CASE ServeTask
    <2>1. PostedIds \subseteq Ids /\ Len(posted) \in Nat
      BY <1>g, PostedAreIds DEF ServerGrows
    <2>2. countFetch' \in Counts
      BY <1>5, <1>l, <2>1 DEF ServeTask, Counts
    <2>3. UNCHANGED <<data, count, threadFetch, composer, sending, reacting, cursor, bounds, ghosts>>
      BY <1>5 DEF ServeTask
    <2> QED
      BY <1>c, <1>t, <2>2, <2>3 DEF PageTypes, composer, bounds, ghosts
  <1>6. CASE ThreadArrives
    <2>1. threadFetch \in Answers
      BY <1>6, <1>t, FetchShapes DEF ThreadArrives, PageTypes
    <2>2. data' \in DataSet /\ behind' \in BOOLEAN /\ threadFetch' = Idle
      BY <1>6, <1>t, <2>1, FetchShapes DEF ThreadArrives, PageTypes
    <2>3. UNCHANGED <<count, countFetch, composer, sending, reacting, cursor, bounds, drift, counted, lost>>
      BY <1>6 DEF ThreadArrives
    <2> QED
      BY <1>c, <1>t, <2>2, <2>3 DEF PageTypes, composer, bounds
  <1>7. CASE TaskArrives
    <2>1. countFetch \in Counts
      BY <1>7, <1>t DEF TaskArrives, PageTypes, Idle, TaskAsked
    <2>2. count' \in Nat /\ counted' \subseteq Ids /\ countFetch' = Idle /\ drift' \in BOOLEAN
      BY <1>7, <2>1 DEF TaskArrives, Counts
    <2>3. UNCHANGED <<data, threadFetch, composer, sending, reacting, cursor, bounds, behind, lost>>
      BY <1>7 DEF TaskArrives
    <2> QED
      BY <1>c, <1>t, <2>2, <2>3 DEF PageTypes, composer, bounds
  <1>8. CASE Type
    BY <1>8, <1>c, <1>t DEF Type, PageTypes, ghosts
  <1>9. CASE Reply \/ CancelReply
    <2>1. replyTo' \in Parents
      <3>1. \A i \in DOMAIN data.rows : data.rows[i].id \in Ids
        BY <1>t, RowTypes DEF PageTypes
      <3> QED
        BY <1>9, <3>1 DEF Reply, CancelReply, Parents
    <2>2. replies' \in Nat
      BY <1>9, <1>t DEF Reply, CancelReply, PageTypes
    <2>3. UNCHANGED <<data, count, threadFetch, countFetch, draft, sending, reacting, cursor, typed, own, outside, ghosts>>
      BY <1>9 DEF Reply, CancelReply
    <2> QED
      BY <1>c, <1>t, <2>1, <2>2, <2>3 DEF PageTypes, ghosts
  <1>10. CASE SendComment
    <2> DEFINE c == <<"own", own + 1>>
    <2>1. own' = own + 1 /\ own + 1 \in 1..MaxOwn /\ c \in Own /\ c \in Ids
      BY <1>10, <1>t, Basics DEF SendComment, PageTypes
    <2> HIDE DEF c
    <2>2. /\ sending' = [phase |-> "sent", id |-> c, text |-> draft, parent |-> replyTo]
          /\ data' = PutInFront(Row(c, replyTo, "pending", NoReactions))
          /\ count' = count + 1 /\ counted' = counted \cup {c}
          /\ threadFetch' = Idle /\ behind' = (behind \/ threadFetch # Idle)
          /\ draft' = NoText /\ replyTo' = Root
          /\ UNCHANGED <<countFetch, reacting, cursor, typed, replies, outside, drift, lost>>
      BY <1>10 DEF SendComment, Count, CancelThread, c
    <2>3. Row(c, replyTo, "pending", NoReactions) \in RowSet
      BY <1>g, <1>t, <2>1, ShownTypes DEF PageTypes, Row, RowSet
    <2>4. data' \in DataSet
      BY <1>t, <2>2, <2>3, FrontRow DEF PageTypes
    <2>5. sending' \in Sendings
      BY <1>t, <2>1, <2>2 DEF Sendings, PageTypes
    <2>6. /\ count' \in Nat /\ counted' \subseteq Ids /\ own' \in 0..MaxOwn /\ draft' \in Nat /\ replyTo' \in Parents
          /\ behind' \in BOOLEAN /\ threadFetch' = Idle
      BY <1>t, <2>1, <2>2 DEF PageTypes, NoText, Parents
    <2> QED
      BY <1>c, <1>t, <2>2, <2>4, <2>5, <2>6 DEF PageTypes
  <1>11. CASE ServeComment \/ RefuseComment
    <2>1. sending \in Sendings
      BY <1>11, <1>t, SendingShapes DEF ServeComment, RefuseComment, PageTypes
    <2>2. sending' \in Sendings /\ lost' \subseteq Ids
      <3>1. sending' = [sending EXCEPT !.phase = "ok"] \/ sending' = [sending EXCEPT !.phase = "error"]
        BY <1>11 DEF ServeComment, RefuseComment
      <3>2. lost' = lost \/ lost' = lost \cup {sending.id}
        BY <1>11 DEF ServeComment, RefuseComment, ghosts
      <3>3. sending' \in Sendings
        BY <2>1, <3>1 DEF Sendings
      <3>4. sending.id \in Ids /\ lost \subseteq Ids
        BY <1>t, <2>1, SendingShapes, Basics DEF PageTypes
      <3> QED
        BY <3>2, <3>3, <3>4
    <2>3. UNCHANGED <<data, count, threadFetch, countFetch, composer, reacting, cursor, bounds, behind, drift, counted>>
      BY <1>11 DEF ServeComment, RefuseComment, ghosts
    <2> QED
      BY <1>c, <1>t, <2>2, <2>3 DEF PageTypes, composer, bounds
  <1>12. CASE CommentSaved
    <2>1. sending \in Sendings
      BY <1>12, <1>t, SendingShapes DEF CommentSaved, PageTypes
    <2>2. data' \in DataSet
      BY <1>12, <1>g, <1>t, <2>1, SendingShapes, SavedRows, Basics DEF CommentSaved, PageTypes
    <2>3. sending' = Free /\ behind' \in BOOLEAN
      BY <1>12, <1>t DEF CommentSaved, PageTypes
    <2>4. UNCHANGED <<count, threadFetch, countFetch, composer, reacting, cursor, bounds, drift, counted, lost>>
      BY <1>12 DEF CommentSaved
    <2> QED
      BY <1>c, <1>t, <2>2, <2>3, <2>4 DEF PageTypes, composer, bounds
  <1>13. CASE CommentFailed
    <2>1. sending \in Sendings
      BY <1>13, <1>t, SendingShapes DEF CommentFailed, PageTypes
    <2>2. FailedAs(sending.id, data')
      BY <1>13 DEF CommentFailed, FailedAs
    <2>3. data' \in DataSet
      BY <1>t, <2>1, <2>2, SendingShapes, FailedRows, Basics DEF PageTypes
    <2>4. draft' \in Nat /\ replyTo' \in Parents
      BY <1>13, <2>1, SendingShapes DEF CommentFailed, RestoreComposer
    <2>5. /\ count' \in Nat /\ counted' \subseteq Ids /\ drift' \in BOOLEAN
          /\ countFetch' = TaskAsked /\ sending' = Free
      BY <1>13, <1>t DEF CommentFailed, PageTypes
    <2>6. UNCHANGED <<threadFetch, reacting, cursor, bounds, behind, lost>>
      BY <1>13 DEF CommentFailed
    <2> QED
      BY <1>c, <1>t, <2>3, <2>4, <2>5, <2>6 DEF PageTypes, bounds
  <1>14. CASE React
    <2>1. PICK i \in DOMAIN data.rows, ty \in Clicked :
            /\ ToggledAs(data.rows[i].id, ty, data')
            /\ reacting' = [phase |-> "sent", id |-> data.rows[i].id,
                            to |-> IF data.rows[i].shown.mine = ty THEN Nobody ELSE ty,
                            previous |-> data, optimistic |-> data', since |-> cursor]
      BY <1>14 DEF React, ToggledAs
    <2>2. ty \in Types /\ data.rows[i].id \in Ids
      BY <1>t, RowTypes, Basics DEF PageTypes
    <2>3. data' \in DataSet
      BY <1>t, <2>1, <2>2, ToggledRows DEF PageTypes
    <2>4. reacting' \in Reactings
      BY <1>c, <1>t, <2>1, <2>2, <2>3 DEF Reactings, PageTypes
    <2>5. own' \in 0..MaxOwn /\ threadFetch' = Idle /\ behind' \in BOOLEAN
      BY <1>14, <1>t, Basics DEF React, CancelThread, PageTypes
    <2>6. UNCHANGED <<count, countFetch, composer, sending, cursor, typed, replies, outside, drift, counted, lost>>
      BY <1>14 DEF React
    <2> QED
      BY <1>c, <1>t, <2>3, <2>4, <2>5, <2>6 DEF PageTypes, composer
  <1>15. CASE ServeReaction \/ RefuseReaction
    <2>1. reacting \in Reactings
      BY <1>15, <1>t, SendingShapes DEF ServeReaction, RefuseReaction, PageTypes
    <2>2. reacting' \in Reactings
      <3>1. \E p \in {"sent", "ok", "error"} : reacting' = [reacting EXCEPT !.phase = p]
        BY <1>15 DEF ServeReaction, RefuseReaction
      <3> QED
        BY <2>1, <3>1 DEF Reactings
    <2>3. UNCHANGED <<data, count, threadFetch, countFetch, composer, sending, cursor, bounds, ghosts>>
      BY <1>15 DEF ServeReaction, RefuseReaction
    <2> QED
      BY <1>c, <1>t, <2>2, <2>3 DEF PageTypes, composer, bounds, ghosts
  <1>16. CASE ReactionSaved
    <2>1. threadFetch' \in {Idle} \cup Requests \cup Answers /\ reacting' = Free
      BY <1>16, <1>t, RefreshTypes DEF ReactionSaved, PageTypes
    <2>2. UNCHANGED <<data, count, countFetch, composer, sending, cursor, bounds, ghosts>>
      BY <1>16 DEF ReactionSaved
    <2> QED
      BY <1>c, <1>t, <2>1, <2>2 DEF PageTypes, composer, bounds, ghosts
  <1>17. CASE ReactionFailed
    <2>1. reacting \in Reactings
      BY <1>17, <1>t, SendingShapes DEF ReactionFailed, PageTypes
    <2>2. data' \in DataSet /\ behind' \in BOOLEAN /\ reacting' = Free
      BY <1>17, <1>t, <2>1, SendingShapes DEF ReactionFailed, RestoreThread, PageTypes
    <2>3. UNCHANGED <<count, threadFetch, countFetch, composer, sending, cursor, bounds, drift, counted, lost>>
      BY <1>17 DEF ReactionFailed
    <2> QED
      BY <1>c, <1>t, <2>2, <2>3 DEF PageTypes, composer, bounds
  <1>18. CASE ApplyCreated
    <2>1. cursor' = cursor + 1 /\ cursor' \in Nat /\ cursor' <= Len(log')
      BY <1>18, <1>c, <1>l DEF ApplyCreated
    <2>2. Event \in Events
      BY <1>18, <1>c, <1>g DEF ApplyCreated, Event, ServerTypes
    <2>3. Event.id \in Ids /\ Event.parent \in Parents
      BY <2>2 DEF Events
    <2>4. data' = data \/ data' = PutInFront(Row(Event.id, Event.parent, "synced", NoReactions))
      BY <1>18 DEF ApplyCreated
    <2>5. Row(Event.id, Event.parent, "synced", NoReactions) \in RowSet
      BY <1>g, <2>3, ShownTypes DEF Row, RowSet
    <2>6. data' \in DataSet
      BY <1>t, <2>4, <2>5, FrontRow DEF PageTypes
    <2>7. count' \in Nat /\ counted' \subseteq Ids /\ drift' \in BOOLEAN
      <3>1. /\ count' = count \/ count' = count + 1
            /\ counted' = counted \/ counted' = counted \cup {Event.id}
        BY <1>18 DEF ApplyCreated, Count
      <3>2. drift' \in BOOLEAN
        <4>1. CASE IsNew
          BY <1>18, <4>1 DEF ApplyCreated
        <4>2. CASE ~IsNew
          BY <1>18, <4>2 DEF ApplyCreated
        <4> QED
          BY <4>1, <4>2
      <3>3. count \in Nat /\ counted \subseteq Ids
        BY <1>t DEF PageTypes
      <3> QED
        BY <2>3, <3>1, <3>2, <3>3
    <2>8. UNCHANGED <<threadFetch, countFetch, composer, sending, reacting, bounds, behind, lost>>
      BY <1>18 DEF ApplyCreated
    <2> QED
      BY <1>t, <2>1, <2>6, <2>7, <2>8 DEF PageTypes, composer, bounds
  <1>19. CASE ApplyReaction
    <2>1. cursor' = cursor + 1 /\ cursor' \in Nat /\ cursor' <= Len(log')
      BY <1>19, <1>c, <1>l DEF ApplyReaction
    <2>2. threadFetch' \in {Idle} \cup Requests \cup Answers
      BY <1>19, <1>t, RefreshTypes DEF ApplyReaction, PageTypes
    <2>3. UNCHANGED <<data, count, countFetch, composer, sending, reacting, bounds, ghosts>>
      BY <1>19 DEF ApplyReaction
    <2> QED
      BY <1>t, <2>1, <2>2, <2>3 DEF PageTypes, composer, bounds, ghosts
  <1>20. CASE UNCHANGED vars
    BY <1>20, <1>c, <1>t DEF vars, PageTypes, composer, bounds, ghosts
  <1> QED
    BY <1>1, <1>2, <1>3, <1>4, <1>5, <1>6, <1>7, <1>8, <1>9, <1>10, <1>11, <1>12, <1>13, <1>14,
       <1>15, <1>16, <1>17, <1>18, <1>19, <1>20
    DEF Next, UserStep, ServerStep, AnswerStep, StreamStep

-----------------------------------------------------------------------------
(* The server's part *)

\* One more event, and two logs that begin alike.
LEMMA CreatedOneMore ==
  ASSUME NEW l \in Seq(Events), NEW n \in Nat, n < Len(l)
  PROVE  CreatedIn(l, n + 1) = IF l[n + 1].kind = "created" THEN CreatedIn(l, n) \cup {l[n + 1].id}
                               ELSE CreatedIn(l, n)
  <1>1. DOMAIN l = 1..Len(l) /\ Len(l) \in Nat /\ n + 1 \in DOMAIN l
    OBVIOUS
  <1>2. \A j \in DOMAIN l : j <= n + 1 <=> j <= n \/ j = n + 1
    BY <1>1
  <1> QED
    BY <1>1, <1>2 DEF CreatedIn

LEMMA CreatedAlike ==
  ASSUME NEW l \in Seq(Events), NEW m \in Seq(Events), NEW n \in Nat, n <= Len(l), n <= Len(m),
         \A k \in 1..n : l[k] = m[k]
  PROVE  CreatedIn(l, n) = CreatedIn(m, n)
  <1>1. DOMAIN l = 1..Len(l) /\ Len(l) \in Nat /\ DOMAIN m = 1..Len(m) /\ Len(m) \in Nat
    OBVIOUS
  <1>2. \A j : (j \in DOMAIN l /\ j <= n) <=> (j \in DOMAIN m /\ j <= n)
    BY <1>1
  <1>3. \A j \in DOMAIN l : j <= n => l[j] = m[j]
    BY <1>1
  <1> QED
    BY <1>2, <1>3 DEF CreatedIn

\* What was created by an event of before stays.
LEMMA CreatedStays ==
  ASSUME ServerTypes, ServerTypes', ServerGrows
  PROVE  \A n \in Nat : n <= Len(log) => Created(n)' = Created(n)
  <1> SUFFICES ASSUME NEW n \in Nat, n <= Len(log) PROVE CreatedIn(log', n) = CreatedIn(log, n)
    BY DEF Created
  <1>1. log \in Seq(Events) /\ log' \in Seq(Events) /\ n <= Len(log') /\ \A k \in 1..n : log[k] = log'[k]
    BY DEF ServerTypes, ServerGrows
  <1> QED
    BY <1>1, CreatedAlike

\* The phases of a comment and of a reaction under way.
LEMMA SendingPhase ==
  ASSUME NEW s \in Sendings, NEW p \in {"sent", "ok", "error"}, NEW t, t = [s EXCEPT !.phase = p]
  PROVE  /\ t \in Sendings /\ t # Free /\ t.phase = p
         /\ t.id = s.id /\ t.text = s.text /\ t.parent = s.parent
  <1>1. t \in Sendings /\ t.phase = p /\ t.id = s.id /\ t.text = s.text /\ t.parent = s.parent
    BY DEF Sendings
  <1> QED
    BY <1>1, SendingShapes

LEMMA ReactingPhase ==
  ASSUME NEW r \in Reactings, NEW p \in {"sent", "ok", "error"}, NEW t, t = [r EXCEPT !.phase = p]
  PROVE  /\ t \in Reactings /\ t # Free /\ t.id = r.id /\ t.since = r.since
         /\ t.previous = r.previous /\ t.optimistic = r.optimistic
  <1>1. t \in Reactings /\ t.id = r.id /\ t.since = r.since
        /\ t.previous = r.previous /\ t.optimistic = r.optimistic
    BY DEF Reactings
  <1> QED
    BY <1>1, SendingShapes

\* The server's part holds after every step.
LEMMA ServerNext ==
  ASSUME TypeInv, ServerInv, SendingInv, [Next]_vars
  PROVE  ServerInv'
  <1>t. ServerTypes /\ ServerTypes' /\ ServerGrows /\ ServerMoves /\ SendingMoves
    BY StepMoves, Grows DEF TypeInv
  <1>u. own \in Nat /\ outside \in Nat /\ own' >= own /\ outside' >= outside /\ own' \in Nat /\ outside' \in Nat
    <2>1. own \in Nat /\ outside \in Nat
      BY Basics DEF TypeInv, PageTypes
    <2> QED
      BY <1>t, <2>1 DEF SendingMoves
  <1>p. PostedIds \subseteq Ids
    BY <1>t, PostedAreIds
  <1>i. /\ \A i, j \in DOMAIN posted : posted[i].id = posted[j].id => i = j
        /\ PostedIds = Created(Len(log))
        /\ \A k \in DOMAIN log : log[k].id \in PostedIds
        /\ \A j, k \in DOMAIN log :
             log[j].kind = "created" /\ log[k].kind = "reaction" /\ log[j].id = log[k].id => j < k
        /\ \A k \in DOMAIN log : log[k].kind = "created" => log[k].id \notin Seeds
        /\ \A c \in Ids \ Seeds : mine[c] # Nobody \/ theirs[c] # Nobody =>
             \E k \in DOMAIN log : log[k].kind = "reaction" /\ log[k].id = c
        /\ \A n \in Nat : <<"own", n>> \in PostedIds => n <= own
        /\ \A n \in Nat : <<"other", n>> \in PostedIds => n <= outside
    BY DEF ServerInv
  <1>l. /\ log \in Seq(Events) /\ log' \in Seq(Events) /\ Len(log) \in Nat /\ Len(log') \in Nat
        /\ DOMAIN log = 1..Len(log) /\ DOMAIN log' = 1..Len(log')
        /\ Len(posted) \in Nat /\ DOMAIN posted = 1..Len(posted) /\ DOMAIN posted' = 1..Len(posted')
        /\ \A k \in DOMAIN log : log'[k] = log[k]
        /\ \A i \in DOMAIN posted : posted'[i] = posted[i]
    BY <1>t DEF ServerGrows, ServerTypes
  <1>c. Created(Len(log))' = CreatedIn(log', Len(log'))
    BY DEF Created
  <1>o. CreatedIn(log', Len(log)) = PostedIds
    <2>1. CreatedIn(log', Len(log)) = CreatedIn(log, Len(log))
      <3>1. Len(log) <= Len(log') /\ \A k \in 1..Len(log) : log'[k] = log[k]
        BY <1>t, <1>l DEF ServerGrows
      <3> QED
        BY <1>l, <3>1, CreatedAlike
    <2> QED
      BY <1>i, <2>1 DEF Created
  <1>1. CASE UNCHANGED serverVars
    <2>1. UNCHANGED <<posted, log, mine, theirs>> /\ PostedIds' = PostedIds /\ Created(Len(log))' = Created(Len(log))
      BY <1>1 DEF serverVars, PostedIds, Created
    <2> QED
      BY <1>i, <1>u, <2>1 DEF ServerInv
  <1>2. CASE \E c \in Ids : Saves(c)
    <2>0. PICK c \in Ids : Saves(c)
      BY <1>2
    <2>1. /\ Len(log') = Len(log) + 1 /\ Len(posted') = Len(posted) + 1
          /\ log'[Len(log')].kind = "created" /\ log'[Len(log')].id = c
          /\ posted'[Len(posted')].id = c
          /\ PostedIds' = PostedIds \cup {c}
      BY <1>t, <2>0, SavedFacts
    <2>2. c \notin PostedIds /\ c \notin Seeds /\ UNCHANGED <<mine, theirs>>
      BY <2>0 DEF Saves
    <2>3. \A i \in DOMAIN posted : posted[i].id # c
      BY <2>2 DEF PostedIds, IdsOf
    <2>4. \A i, j \in DOMAIN posted' : posted'[i].id = posted'[j].id => i = j
      <3>1. \A i \in DOMAIN posted' : i \in DOMAIN posted \/ i = Len(posted')
        BY <1>l, <2>1
      <3> QED
        BY <1>i, <1>l, <2>1, <2>3, <3>1
    <2>5. PostedIds' = Created(Len(log))'
      <3>0. Len(log) < Len(log') /\ log'[Len(log) + 1].kind = "created" /\ log'[Len(log) + 1].id = c
        BY <1>l, <2>1
      <3>1. CreatedIn(log', Len(log) + 1) = CreatedIn(log', Len(log)) \cup {c}
        BY <1>l, <3>0, CreatedOneMore
      <3> QED
        BY <1>c, <1>o, <2>1, <3>1
    <2>6. \A k \in DOMAIN log' : k \in DOMAIN log \/ k = Len(log')
      BY <1>l, <2>1
    <2>7. \A k \in DOMAIN log' : log'[k].id \in PostedIds'
      BY <1>i, <1>l, <2>1, <2>6
    <2>8. \A j, k \in DOMAIN log' :
             log'[j].kind = "created" /\ log'[k].kind = "reaction" /\ log'[j].id = log'[k].id => j < k
      <3> SUFFICES ASSUME NEW j \in DOMAIN log', NEW k \in DOMAIN log',
                          log'[j].kind = "created", log'[k].kind = "reaction", log'[j].id = log'[k].id
                   PROVE  j < k
        OBVIOUS
      <3>1. k \in DOMAIN log /\ log[k].id \in PostedIds
        BY <1>i, <2>1, <2>6
      <3>2. j \in DOMAIN log
        BY <1>l, <2>1, <2>2, <2>6, <3>1
      <3> QED
        BY <1>i, <1>l, <3>1, <3>2
    <2>9. \A k \in DOMAIN log' : log'[k].kind = "created" => log'[k].id \notin Seeds
      BY <1>i, <1>l, <2>1, <2>2, <2>6
    <2>10. \A d \in Ids \ Seeds : mine'[d] # Nobody \/ theirs'[d] # Nobody =>
             \E k \in DOMAIN log' : log'[k].kind = "reaction" /\ log'[k].id = d
      <3> SUFFICES ASSUME NEW d \in Ids \ Seeds, mine'[d] # Nobody \/ theirs'[d] # Nobody
                   PROVE  \E k \in DOMAIN log' : log'[k].kind = "reaction" /\ log'[k].id = d
        OBVIOUS
      <3>1. PICK k \in DOMAIN log : log[k].kind = "reaction" /\ log[k].id = d
        BY <1>i, <2>2
      <3>2. k \in DOMAIN log' /\ log'[k] = log[k]
        BY <1>l, <2>1
      <3> QED
        BY <3>1, <3>2
    <2>11. (\A n \in Nat : <<"own", n>> \in PostedIds' => n <= own') /\ (\A n \in Nat : <<"other", n>> \in PostedIds' => n <= outside')
      <3>1. CASE sending # Free /\ sending.phase = "sent" /\ sending.id = c
        <4>1. PICK m \in 1..own : c = <<"own", m>>
          BY <3>1 DEF SendingInv
        <4>2. ASSUME NEW n \in Nat, <<"own", n>> \in PostedIds' PROVE n <= own
          BY <1>i, <1>u, <2>1, <4>1, <4>2
        <4>3. ASSUME NEW n \in Nat, <<"other", n>> \in PostedIds' PROVE n <= outside
          BY <1>i, <1>u, <2>1, <4>1, <4>3
        <4> QED
          BY <1>u, <4>2, <4>3
      <3>2. CASE outside' = outside + 1 /\ c = <<"other", outside + 1>>
        <4>2. ASSUME NEW n \in Nat, <<"own", n>> \in PostedIds' PROVE n <= own
          BY <1>i, <1>u, <2>1, <3>2, <4>2
        <4>3. ASSUME NEW n \in Nat, <<"other", n>> \in PostedIds' PROVE n <= outside'
          BY <1>i, <1>u, <2>1, <3>2, <4>3
        <4> QED
          BY <1>u, <4>2, <4>3
      <3> QED
        BY <2>0, <3>1, <3>2 DEF Saves
    <2> HIDE DEF PostedIds
    <2> QED
      BY <2>4, <2>5, <2>7, <2>8, <2>9, <2>10, <2>11 DEF ServerInv
  <1>3. CASE \E c \in Ids : Reacts(c)
    <2>0. PICK c \in Ids : Reacts(c)
      BY <1>3
    <2>1. /\ Len(log') = Len(log) + 1 /\ posted' = posted /\ PostedIds' = PostedIds
          /\ log'[Len(log')].kind = "reaction" /\ log'[Len(log')].id = c
      BY <1>t, <2>0, ReactedFacts
    <2>2. c \in PostedIds /\ \A d \in Ids \ {c} : mine'[d] = mine[d] /\ theirs'[d] = theirs[d]
      BY <2>0 DEF Reacts
    <2>4. \A i, j \in DOMAIN posted' : posted'[i].id = posted'[j].id => i = j
      BY <1>i, <2>1
    <2>5. PostedIds' = Created(Len(log))'
      <3>0. Len(log) < Len(log') /\ log'[Len(log) + 1].kind # "created"
        BY <1>l, <2>1
      <3>1. CreatedIn(log', Len(log) + 1) = CreatedIn(log', Len(log))
        BY <1>l, <3>0, CreatedOneMore
      <3> QED
        BY <1>c, <1>o, <2>1, <3>1
    <2>6. \A k \in DOMAIN log' : k \in DOMAIN log \/ k = Len(log')
      BY <1>l, <2>1
    <2>7. \A k \in DOMAIN log' : log'[k].id \in PostedIds'
      BY <1>i, <1>l, <2>1, <2>2, <2>6
    <2>8. \A j, k \in DOMAIN log' :
             log'[j].kind = "created" /\ log'[k].kind = "reaction" /\ log'[j].id = log'[k].id => j < k
      <3> SUFFICES ASSUME NEW j \in DOMAIN log', NEW k \in DOMAIN log',
                          log'[j].kind = "created", log'[k].kind = "reaction", log'[j].id = log'[k].id
                   PROVE  j < k
        OBVIOUS
      <3>1. j \in DOMAIN log
        BY <2>1, <2>6
      <3>2. CASE k \in DOMAIN log
        BY <1>i, <1>l, <3>1, <3>2
      <3>3. CASE k = Len(log')
        BY <1>l, <2>1, <3>1, <3>3
      <3> QED
        BY <2>6, <3>2, <3>3
    <2>9. \A k \in DOMAIN log' : log'[k].kind = "created" => log'[k].id \notin Seeds
      BY <1>i, <1>l, <2>1, <2>6
    <2>10. \A d \in Ids \ Seeds : mine'[d] # Nobody \/ theirs'[d] # Nobody =>
             \E k \in DOMAIN log' : log'[k].kind = "reaction" /\ log'[k].id = d
      <3> SUFFICES ASSUME NEW d \in Ids \ Seeds, mine'[d] # Nobody \/ theirs'[d] # Nobody
                   PROVE  \E k \in DOMAIN log' : log'[k].kind = "reaction" /\ log'[k].id = d
        OBVIOUS
      <3>1. CASE d = c
        <4>1. Len(log') \in DOMAIN log'
          BY <1>l, <2>1
        <4> QED
          BY <2>1, <3>1, <4>1
      <3>2. CASE d # c
        <4>1. PICK k \in DOMAIN log : log[k].kind = "reaction" /\ log[k].id = d
          BY <1>i, <2>2, <3>2
        <4>2. k \in DOMAIN log' /\ log'[k] = log[k]
          BY <1>l, <2>1
        <4> QED
          BY <4>1, <4>2
      <3> QED
        BY <3>1, <3>2
    <2>11. (\A n \in Nat : <<"own", n>> \in PostedIds' => n <= own') /\ (\A n \in Nat : <<"other", n>> \in PostedIds' => n <= outside')
      <3>1. ASSUME NEW n \in Nat, <<"own", n>> \in PostedIds' PROVE n <= own'
        <4>1. n <= own
          BY <1>i, <2>1, <3>1
        <4> QED
          BY <1>u, <4>1
      <3>2. ASSUME NEW n \in Nat, <<"other", n>> \in PostedIds' PROVE n <= outside'
        <4>1. n <= outside
          BY <1>i, <2>1, <3>2
        <4> QED
          BY <1>u, <4>1
      <3> QED
        BY <3>1, <3>2
    <2> QED
      BY <2>4, <2>5, <2>7, <2>8, <2>9, <2>10, <2>11 DEF ServerInv
  <1> QED
    BY <1>t, <1>1, <1>2, <1>3 DEF ServerMoves

\* A comment that other members save, or that the user sends, has another number.
LEMMA SendingNext ==
  ASSUME TypeInv, ServerInv, SendingInv, [Next]_vars
  PROVE  SendingInv'
  <1>t. /\ sending \in {Free} \cup Sendings /\ own \in Nat /\ outside \in Nat
        /\ ServerTypes /\ PostedIds \subseteq Ids
    BY Basics, PostedAreIds DEF TypeInv, PageTypes
  <1>i. sending # Free =>
          /\ \E n \in 1..own : sending.id = <<"own", n>>
          /\ sending.phase = "sent" => sending.id \notin PostedIds
          /\ sending.phase = "ok" => sending.id \in PostedIds
          /\ sending.phase = "error" => sending.id \notin PostedIds \/ sending.id \in lost
    BY DEF SendingInv
  <1>1. CASE OthersComment
    <2>1. Saves(<<"other", outside + 1>>) /\ UNCHANGED <<sending, own, lost>>
      BY <1>1, OthersSave DEF OthersComment, ghosts
    <2>2. <<"other", outside + 1>> \in Ids
      BY <2>1 DEF Saves
    <2>3. PostedIds' = PostedIds \cup {<<"other", outside + 1>>}
      BY <1>t, <2>1, <2>2, SavedFacts
    <2>4. sending # Free => sending.id # <<"other", outside + 1>>
      BY <1>i
    <2> QED
      BY <1>i, <2>1, <2>3, <2>4 DEF SendingInv
  <1>2. CASE ServeComment
    <2>1. Saves(sending.id) /\ sending \in Sendings /\ sending # Free /\ sending.id \in Ids
      BY <1>2, OwnSaves DEF Saves
    <2>2. PostedIds' = PostedIds \cup {sending.id}
      BY <1>t, <2>1, SavedFacts
    <2>3. own' = own
      BY <1>2 DEF ServeComment, bounds
    <2>4. CASE sending' = [sending EXCEPT !.phase = "ok"]
      <3>1. sending'.phase = "ok" /\ sending'.id = sending.id
        BY <2>1, <2>4, SendingPhase
      <3> QED
        BY <1>i, <2>1, <2>2, <2>3, <3>1 DEF SendingInv
    <2>5. CASE sending' = [sending EXCEPT !.phase = "error"] /\ lost' = lost \cup {sending.id}
      <3>1. sending'.phase = "error" /\ sending'.id = sending.id
        BY <2>1, <2>5, SendingPhase
      <3> QED
        BY <1>i, <2>1, <2>2, <2>3, <2>5, <3>1 DEF SendingInv
    <2> QED
      BY <1>2, <2>4, <2>5 DEF ServeComment
  <1>3. CASE RefuseComment
    <2>1. sending \in Sendings /\ sending # Free /\ sending.phase = "sent"
      BY <1>3, <1>t, SendingShapes DEF RefuseComment
    <2>2. sending' = [sending EXCEPT !.phase = "error"] /\ UNCHANGED <<posted, own>> /\ PostedIds' = PostedIds
      BY <1>3 DEF RefuseComment, serverVars, bounds, PostedIds
    <2>3. sending'.phase = "error" /\ sending'.id = sending.id
      BY <2>1, <2>2, SendingPhase
    <2> QED
      BY <1>i, <2>1, <2>2, <2>3 DEF SendingInv
  <1>4. CASE SendComment
    <2>1. sending'.phase = "sent" /\ sending'.id = <<"own", own + 1>> /\ own' = own + 1 /\ PostedIds' = PostedIds
      BY <1>4 DEF SendComment, serverVars, PostedIds
    <2>2. <<"own", own + 1>> \notin PostedIds
      BY <1>t DEF ServerInv
    <2>3. own + 1 \in 1..(own + 1)
      BY <1>t
    <2> QED
      BY <2>1, <2>2, <2>3 DEF SendingInv
  <1>5. CASE CommentSaved \/ CommentFailed
    BY <1>5 DEF CommentSaved, CommentFailed, SendingInv
  <1>6. ASSUME UNCHANGED <<posted, sending, lost>>, own' \in {own, own + 1} PROVE SendingInv'
    <2>1. PostedIds' = PostedIds /\ \A n \in 1..own : n \in 1..own'
      BY <1>6, <1>t DEF PostedIds
    <2> QED
      BY <1>i, <1>6, <2>1 DEF SendingInv
  <1>7. CASE OthersReact \/ React \/ LoadOlder \/ ReloadTask \/ Type \/ Reply \/ CancelReply
    BY <1>6, <1>7 DEF OthersReact, React, LoadOlder, ReloadTask, Type, Reply, CancelReply, serverVars, ghosts
  <1>8. CASE ServeThread \/ ServeTask \/ ServeReaction \/ RefuseReaction
    BY <1>6, <1>8 DEF ServeThread, ServeTask, ServeReaction, RefuseReaction, serverVars, bounds, ghosts
  <1>9. CASE ThreadArrives \/ TaskArrives \/ ReactionSaved \/ ReactionFailed \/ ApplyCreated \/ ApplyReaction
    BY <1>6, <1>9 DEF ThreadArrives, TaskArrives, ReactionSaved, ReactionFailed, ApplyCreated, ApplyReaction,
       serverVars, bounds, ghosts
  <1>10. CASE UNCHANGED vars
    BY <1>6, <1>10 DEF vars, serverVars, bounds, ghosts
  <1> QED
    BY <1>1, <1>2, <1>3, <1>4, <1>5, <1>7, <1>8, <1>9, <1>10
    DEF Next, UserStep, ServerStep, AnswerStep, StreamStep

-----------------------------------------------------------------------------
(* Texts *)

\* No text is written twice, and none is lost unnoticed.
LEMMA TextNext ==
  ASSUME TypeInv, ServerInv, SendingInv, TextInv, [Next]_vars
  PROVE  TextInv'
  <1>t. /\ sending \in {Free} \cup Sendings /\ draft \in Nat /\ typed \in Nat
        /\ posted \in Seq(Comments) /\ Len(posted) \in Nat /\ DOMAIN posted = 1..Len(posted)
    BY DEF TypeInv, PageTypes, ServerTypes
  <1>x. \A i \in DOMAIN posted : posted[i].text \in Nat
    <2>1. \A i \in DOMAIN posted : posted[i] \in Comments
      BY <1>t
    <2> QED
      BY <2>1 DEF Comments
  <1>i. /\ draft <= typed
        /\ sending # Free => sending.text # NoText /\ sending.text <= typed /\ sending.text # draft
        /\ \A i \in DOMAIN posted : posted[i].text <= typed
        /\ \A i \in DOMAIN posted :
             posted[i].text = draft /\ draft # NoText => posted[i].id \in lost
        /\ sending # Free /\ sending.phase \in {"sent", "error"} =>
             \A i \in DOMAIN posted : posted[i].text = sending.text => posted[i].id \in lost
        /\ sending # Free /\ sending.phase = "ok" => \E i \in DOMAIN posted : posted[i].text = sending.text
    BY DEF TextInv
  <1>1. CASE Type
    <2>1. UNCHANGED <<posted, sending, lost>> /\ typed' = typed + 1 /\ draft' = typed + 1
      BY <1>1 DEF Type, serverVars, ghosts
    <2>2. \A i \in DOMAIN posted : posted[i].text <= typed + 1 /\ posted[i].text # typed + 1
      BY <1>t, <1>x, <1>i
    <2>3. sending # Free => sending.text \in Nat
      BY <1>t, SendingShapes
    <2> QED
      BY <1>t, <1>i, <2>1, <2>2, <2>3 DEF TextInv
  <1>2. CASE SendComment
    <2>1. /\ UNCHANGED <<posted, typed, lost>> /\ draft # NoText /\ draft' = NoText
          /\ sending'.text = draft /\ sending'.phase = "sent"
      BY <1>2 DEF SendComment, serverVars
    <2> QED
      BY <1>t, <1>i, <2>1 DEF TextInv, NoText
  <1>3. CASE ServeComment
    <2>1. Saves(sending.id) /\ sending \in Sendings /\ sending # Free /\ sending.phase = "sent"
      BY <1>3, OwnSaves DEF ServeComment
    <2>2. /\ posted' = Append(posted, [id |-> sending.id, parent |-> sending.parent, text |-> sending.text])
          /\ UNCHANGED <<draft, typed>>
      BY <1>3 DEF ServeComment, Save, composer, bounds
    <2>3. /\ sending'.id = sending.id /\ sending'.text = sending.text /\ sending' # Free
          /\ \/ sending'.phase = "ok" /\ lost' = lost
             \/ sending'.phase = "error" /\ lost' = lost \cup {sending.id}
      <3>1. \/ sending' = [sending EXCEPT !.phase = "ok"] /\ UNCHANGED lost
            \/ sending' = [sending EXCEPT !.phase = "error"] /\ lost' = lost \cup {sending.id}
        BY <1>3 DEF ServeComment
      <3> QED
        BY <2>1, <3>1, SendingPhase
    <2>4. /\ Len(posted') = Len(posted) + 1 /\ DOMAIN posted' = 1..Len(posted')
          /\ posted'[Len(posted')].id = sending.id /\ posted'[Len(posted')].text = sending.text
          /\ \A i \in DOMAIN posted : posted'[i] = posted[i]
      <3>1. [id |-> sending.id, parent |-> sending.parent, text |-> sending.text] \in Comments
        BY <2>1, SendingShapes, Basics DEF Comments
      <3> HIDE DEF Comments
      <3> QED
        BY <1>t, <2>2, <3>1, AppendProperties
    <2>5. \A i \in DOMAIN posted' : i \in DOMAIN posted \/ i = Len(posted')
      BY <1>t, <2>4
    <2>6. \A i \in DOMAIN posted' : posted'[i].text <= typed
      BY <1>i, <2>1, <2>4, <2>5
    <2>7. \A i \in DOMAIN posted' : posted'[i].text = draft /\ draft # NoText => posted'[i].id \in lost'
      BY <1>i, <2>1, <2>3, <2>4, <2>5
    <2>8. sending'.phase = "error" => \A i \in DOMAIN posted' : posted'[i].text = sending.text => posted'[i].id \in lost'
      BY <1>i, <2>1, <2>3, <2>4, <2>5
    <2>9. \E i \in DOMAIN posted' : posted'[i].text = sending.text
      <3>1. Len(posted') \in DOMAIN posted'
        BY <1>t, <2>4
      <3> QED
        BY <2>4, <3>1
    <2>10. sending'.phase # "sent"
      BY <2>3
    <2> QED
      BY <1>i, <2>1, <2>2, <2>3, <2>6, <2>7, <2>8, <2>9, <2>10 DEF TextInv
  <1>4. CASE OthersComment
    <2>0. UNCHANGED <<draft, typed, sending, lost>>
      BY <1>4 DEF OthersComment, composer, ghosts
    <2>1. PICK parent \in {Root, Last(posted).id} : Save(<<"other", outside + 1>>, parent, NoText)
      BY <1>4 DEF OthersComment
    <2>2. posted' = Append(posted, [id |-> <<"other", outside + 1>>, parent |-> parent, text |-> NoText])
      BY <2>1 DEF Save
    <2>3. /\ Len(posted') = Len(posted) + 1 /\ DOMAIN posted' = 1..Len(posted')
          /\ posted'[Len(posted')].text = NoText
          /\ \A i \in DOMAIN posted : posted'[i] = posted[i]
      BY <1>t, <2>2
    <2>4. \A i \in DOMAIN posted' : i \in DOMAIN posted \/ i = Len(posted')
      BY <1>t, <2>3
    <2>5. \A i \in DOMAIN posted : i \in DOMAIN posted'
      BY <1>t, <2>3
    <2>6. \A i \in DOMAIN posted' : posted'[i].text <= typed
      BY <1>t, <1>i, <2>3, <2>4 DEF NoText
    <2>7. \A i \in DOMAIN posted' : posted'[i].text = draft /\ draft # NoText => posted'[i].id \in lost
      BY <1>i, <2>3, <2>4
    <2>8. sending # Free /\ sending.phase \in {"sent", "error"} =>
             \A i \in DOMAIN posted' : posted'[i].text = sending.text => posted'[i].id \in lost
      BY <1>i, <2>3, <2>4
    <2>9. sending # Free /\ sending.phase = "ok" => \E i \in DOMAIN posted' : posted'[i].text = sending.text
      BY <1>i, <2>3, <2>5
    <2> QED
      BY <1>i, <2>0, <2>6, <2>7, <2>8, <2>9 DEF TextInv
  <1>5. CASE RefuseComment
    <2>1. sending \in Sendings /\ sending # Free /\ sending.phase = "sent"
      BY <1>5, <1>t, SendingShapes DEF RefuseComment
    <2>2. sending' = [sending EXCEPT !.phase = "error"] /\ UNCHANGED <<posted, draft, typed, lost>>
      BY <1>5 DEF RefuseComment, serverVars, bounds, composer, ghosts
    <2>3. sending'.phase = "error" /\ sending'.text = sending.text /\ sending' # Free
      BY <2>1, <2>2, SendingPhase
    <2> QED
      BY <1>i, <2>1, <2>2, <2>3 DEF TextInv
  <1>6. CASE CommentSaved
    <2>1. UNCHANGED <<posted, draft, typed, lost>> /\ sending' = Free
      BY <1>6 DEF CommentSaved, serverVars, composer, bounds
    <2> QED
      BY <1>i, <2>1 DEF TextInv
  <1>7. CASE CommentFailed
    <2>1. UNCHANGED <<posted, typed, lost>> /\ sending' = Free /\ draft' = sending.text
          /\ sending # Free /\ sending.phase = "error"
      BY <1>7 DEF CommentFailed, RestoreComposer, serverVars, bounds, Free
    <2> QED
      BY <1>i, <2>1 DEF TextInv
  <1>8. ASSUME UNCHANGED <<posted, sending, lost, draft, typed>> PROVE TextInv'
    BY <1>i, <1>8 DEF TextInv
  <1>9. CASE OthersReact \/ React \/ LoadOlder \/ ReloadTask \/ Reply \/ CancelReply
    BY <1>8, <1>9 DEF OthersReact, React, LoadOlder, ReloadTask, Reply, CancelReply, serverVars, composer, ghosts
  <1>10. CASE ServeThread \/ ServeTask \/ ServeReaction \/ RefuseReaction
    BY <1>8, <1>10 DEF ServeThread, ServeTask, ServeReaction, RefuseReaction, serverVars, bounds, composer, ghosts
  <1>11. CASE ThreadArrives \/ TaskArrives \/ ReactionSaved \/ ReactionFailed \/ ApplyCreated \/ ApplyReaction
    BY <1>8, <1>11 DEF ThreadArrives, TaskArrives, ReactionSaved, ReactionFailed, ApplyCreated, ApplyReaction,
       serverVars, bounds, composer, ghosts
  <1>12. CASE UNCHANGED vars
    BY <1>8, <1>12 DEF vars, serverVars, bounds, composer, ghosts
  <1> QED
    BY <1>1, <1>2, <1>3, <1>4, <1>5, <1>6, <1>7, <1>9, <1>10, <1>11, <1>12
    DEF Next, UserStep, ServerStep, AnswerStep, StreamStep

\* A text that is in the composer, under way or saved stays so.
LEMMA TextsKept ==
  ASSUME TypeInv, ServerInv, SendingInv, TextInv, TextsSurvive, [Next]_vars
  PROVE  TextsSurvive'
  <1>t. /\ sending \in {Free} \cup Sendings /\ draft \in Nat /\ typed \in Nat
        /\ posted \in Seq(Comments) /\ Len(posted) \in Nat /\ DOMAIN posted = 1..Len(posted)
    BY DEF TypeInv, PageTypes, ServerTypes
  <1>k. \A k \in 1..typed :
          \/ k = draft \/ k \in overwritten
          \/ sending # Free /\ sending.text = k
          \/ \E i \in DOMAIN posted : posted[i].text = k
    BY DEF TextsSurvive
  <1>p. \A i, j \in DOMAIN posted :
          posted[i].text = posted[j].text /\ posted[i].text # NoText /\ i < j => posted[i].id \in lost
    BY DEF TextsSurvive
  <1>1. CASE Type
    <2>1. UNCHANGED <<posted, sending, lost, overwritten>> /\ typed' = typed + 1 /\ draft' = typed + 1 /\ draft = NoText
      BY <1>1 DEF Type, serverVars, ghosts
    <2>2. \A k \in 1..(typed + 1) : k \in 1..typed \/ k = typed + 1
      BY <1>t
    <2>3. \A k \in 1..typed : k # NoText
      BY <1>t DEF NoText
    <2> QED
      BY <1>k, <1>p, <2>1, <2>2, <2>3 DEF TextsSurvive
  <1>2. CASE SendComment
    <2>1. /\ UNCHANGED <<posted, typed, lost, overwritten>> /\ sending = Free
          /\ sending'.text = draft /\ sending'.phase = "sent"
      BY <1>2 DEF SendComment, MaySend, serverVars
    <2>2. sending' # Free
      BY <2>1 DEF Free
    <2> QED
      BY <1>k, <1>p, <2>1, <2>2 DEF TextsSurvive
  <1>3. CASE ServeComment
    <2>1. sending \in Sendings /\ sending # Free /\ sending.phase = "sent"
      BY <1>3, OwnSaves DEF ServeComment
    <2>2. /\ posted' = Append(posted, [id |-> sending.id, parent |-> sending.parent, text |-> sending.text])
          /\ UNCHANGED <<draft, typed, overwritten>>
      BY <1>3 DEF ServeComment, Save, composer, bounds
    <2>3. lost \subseteq lost'
      BY <1>3 DEF ServeComment
    <2>4. /\ Len(posted') = Len(posted) + 1 /\ DOMAIN posted' = 1..Len(posted')
          /\ posted'[Len(posted')].text = sending.text
          /\ \A i \in DOMAIN posted : posted'[i] = posted[i] /\ i \in DOMAIN posted'
      BY <1>t, <2>2
    <2>5. \A i \in DOMAIN posted' : i \in DOMAIN posted \/ i = Len(posted')
      BY <1>t, <2>4
    <2>6. Len(posted') \in DOMAIN posted'
      BY <1>t, <2>4
    <2>7. ASSUME NEW k \in 1..typed
          PROVE  k = draft \/ k \in overwritten \/ \E i \in DOMAIN posted' : posted'[i].text = k
      BY <1>k, <2>4, <2>6
    <2>8. ASSUME NEW i \in DOMAIN posted', NEW j \in DOMAIN posted',
                 posted'[i].text = posted'[j].text, posted'[i].text # NoText, i < j
          PROVE  posted'[i].id \in lost
      <3>1. i \in DOMAIN posted
        BY <1>t, <2>4, <2>5, <2>8
      <3>2. CASE j \in DOMAIN posted
        BY <1>p, <2>4, <2>8, <3>1, <3>2
      <3>3. CASE j = Len(posted')
        BY <2>1, <2>4, <2>8, <3>1, <3>3 DEF TextInv
      <3> QED
        BY <2>5, <3>2, <3>3
    <2> QED
      BY <2>2, <2>3, <2>7, <2>8 DEF TextsSurvive
  <1>4. CASE OthersComment
    <2>1. UNCHANGED <<draft, typed, sending, lost, overwritten>>
      BY <1>4 DEF OthersComment, composer, ghosts
    <2>2. PICK parent \in {Root, Last(posted).id} : Save(<<"other", outside + 1>>, parent, NoText)
      BY <1>4 DEF OthersComment
    <2>3. posted' = Append(posted, [id |-> <<"other", outside + 1>>, parent |-> parent, text |-> NoText])
      BY <2>2 DEF Save
    <2>4. /\ Len(posted') = Len(posted) + 1 /\ DOMAIN posted' = 1..Len(posted')
          /\ posted'[Len(posted')].text = NoText
          /\ \A i \in DOMAIN posted : posted'[i] = posted[i] /\ i \in DOMAIN posted'
      BY <1>t, <2>3
    <2>5. \A i \in DOMAIN posted' : i \in DOMAIN posted \/ i = Len(posted')
      BY <1>t, <2>4
    <2>6. ASSUME NEW k \in 1..typed
          PROVE  \/ k = draft \/ k \in overwritten
                 \/ sending # Free /\ sending.text = k
                 \/ \E i \in DOMAIN posted' : posted'[i].text = k
      BY <1>k, <2>4
    <2>7. ASSUME NEW i \in DOMAIN posted', NEW j \in DOMAIN posted',
                 posted'[i].text = posted'[j].text, posted'[i].text # NoText, i < j
          PROVE  posted'[i].id \in lost
      BY <1>p, <2>4, <2>5, <2>7
    <2> QED
      BY <2>1, <2>6, <2>7 DEF TextsSurvive
  <1>5. CASE RefuseComment
    <2>1. sending \in Sendings /\ sending # Free
      BY <1>5, <1>t, SendingShapes DEF RefuseComment
    <2>2. sending' = [sending EXCEPT !.phase = "error"] /\ UNCHANGED <<posted, draft, typed, lost, overwritten>>
      BY <1>5 DEF RefuseComment, serverVars, bounds, composer, ghosts
    <2>3. sending'.text = sending.text /\ sending' # Free
      BY <2>1, <2>2, SendingPhase
    <2> QED
      BY <1>k, <1>p, <2>1, <2>2, <2>3 DEF TextsSurvive
  <1>6. CASE CommentSaved
    <2>1. UNCHANGED <<posted, draft, typed, lost, overwritten>> /\ sending' = Free /\ sending # Free /\ sending.phase = "ok"
      BY <1>6 DEF CommentSaved, serverVars, composer, bounds, Free
    <2>2. \E i \in DOMAIN posted : posted[i].text = sending.text
      BY <2>1 DEF TextInv
    <2> QED
      BY <1>k, <1>p, <2>1, <2>2 DEF TextsSurvive
  <1>7. CASE CommentFailed
    <2>1. /\ UNCHANGED <<posted, typed, lost>> /\ sending' = Free /\ draft' = sending.text
          /\ overwritten' = IF draft = NoText THEN overwritten ELSE overwritten \cup {draft}
      BY <1>7 DEF CommentFailed, RestoreComposer, serverVars, bounds
    <2>2. \A k \in 1..typed : k # NoText
      BY <1>t DEF NoText
    <2> QED
      BY <1>k, <1>p, <2>1, <2>2 DEF TextsSurvive
  <1>8. ASSUME UNCHANGED <<posted, sending, lost, draft, typed, overwritten>> PROVE TextsSurvive'
    BY <1>k, <1>p, <1>8 DEF TextsSurvive
  <1>9. CASE OthersReact \/ React \/ LoadOlder \/ ReloadTask \/ Reply \/ CancelReply
    BY <1>8, <1>9 DEF OthersReact, React, LoadOlder, ReloadTask, Reply, CancelReply, serverVars, composer, ghosts
  <1>10. CASE ServeThread \/ ServeTask \/ ServeReaction \/ RefuseReaction
    BY <1>8, <1>10 DEF ServeThread, ServeTask, ServeReaction, RefuseReaction, serverVars, bounds, composer, ghosts
  <1>11. CASE ThreadArrives \/ TaskArrives \/ ReactionSaved \/ ReactionFailed \/ ApplyCreated \/ ApplyReaction
    BY <1>8, <1>11 DEF ThreadArrives, TaskArrives, ReactionSaved, ReactionFailed, ApplyCreated, ApplyReaction,
       serverVars, bounds, composer, ghosts
  <1>12. CASE UNCHANGED vars
    BY <1>8, <1>12 DEF vars, serverVars, bounds, composer, ghosts
  <1> QED
    BY <1>1, <1>2, <1>3, <1>4, <1>5, <1>6, <1>7, <1>9, <1>10, <1>11, <1>12
    DEF Next, UserStep, ServerStep, AnswerStep, StreamStep

-----------------------------------------------------------------------------
(* The count *)

\* The comments of the server are as many as their identifiers.
LEMMA PostedNext ==
  ASSUME TypeInv, ServerInv, SendingInv, PostedCount, [Next]_vars
  PROVE  PostedCount'
  <1>1. ServerTypes /\ ServerMoves
    BY StepMoves DEF TypeInv
  <1>2. CASE UNCHANGED serverVars
    BY <1>2 DEF serverVars, PostedCount, PostedIds
  <1>3. CASE \E c \in Ids : Saves(c)
    <2>1. PICK c \in Ids : Saves(c)
      BY <1>3
    <2>2. c \notin PostedIds /\ PostedIds' = PostedIds \cup {c} /\ Len(posted') = Len(posted) + 1
      BY <1>1, <2>1, SavedFacts DEF Saves
    <2> HIDE DEF PostedIds
    <2>3. IsFiniteSet(PostedIds) /\ Cardinality(PostedIds) = Len(posted)
      BY DEF PostedCount
    <2>4. IsFiniteSet(PostedIds \cup {c}) /\ Cardinality(PostedIds \cup {c}) = Cardinality(PostedIds) + 1
      BY <2>2, <2>3, FS_AddElement
    <2> QED
      BY <2>2, <2>3, <2>4 DEF PostedCount
  <1>4. CASE \E c \in Ids : Reacts(c)
    <2>1. posted' = posted /\ PostedIds' = PostedIds
      BY <1>1, <1>4, ReactedFacts
    <2> QED
      BY <2>1 DEF PostedCount
  <1> QED
    BY <1>1, <1>2, <1>3, <1>4 DEF ServerMoves

\* What has been created by then has been created by later.
LEMMA CreatedMonotone ==
  ASSUME ServerTypes, NEW m \in Nat, NEW n \in Nat, m <= n
  PROVE  Created(m) \subseteq Created(n)
  <1>1. \A j \in DOMAIN log : j \in Nat
    BY DEF ServerTypes
  <1>2. \A j \in DOMAIN log : j <= m => j <= n
    BY <1>1
  <1> QED
    BY <1>2 DEF Created, CreatedIn

\* The count holds after a step that leaves it alone.
LEMMA CountElsewhere ==
  ASSUME TypeInv, TypeInv', ServerGrows, CountedInv,
         UNCHANGED <<count, counted, drift, countFetch, cursor>>,
         sending # Free => sending.id \in PostedIds' \/ (sending' # Free /\ sending'.id = sending.id)
  PROVE  CountedInv'
  <1>t. /\ ServerTypes /\ ServerTypes' /\ cursor \in Nat /\ cursor <= Len(log)
        /\ countFetch \in {Idle, TaskAsked} \cup Counts
        /\ Len(log) \in Nat /\ Len(log') \in Nat /\ Len(log) <= Len(log') /\ PostedIds \subseteq PostedIds'
    BY DEF TypeInv, PageTypes, ServerGrows
  <1>1. \A n \in Nat : n <= Len(log) => Created(n)' = Created(n)
    BY <1>t, CreatedStays
  <1>2. \A c \in counted : c \in PostedIds' \/ (sending' # Free /\ sending'.id = c)
    BY <1>t DEF CountedInv
  <1>3. ~drift /\ countFetch = Idle => Created(cursor)' \subseteq counted
    <2>1. Created(cursor)' = CreatedIn(log', cursor)
      BY DEF Created
    <2>2. CreatedIn(log', cursor) = Created(cursor)
      BY <1>1, <1>t DEF Created
    <2> QED
      BY <2>1, <2>2 DEF CountedInv
  <1>4. countFetch.phase = "read" =>
          /\ countFetch.at <= Len(log') /\ countFetch.ids = Created(countFetch.at)'
          /\ IsFiniteSet(countFetch.ids) /\ countFetch.count = Cardinality(countFetch.ids)
    <2> SUFFICES ASSUME countFetch.phase = "read"
                 PROVE  /\ countFetch.at <= Len(log') /\ countFetch.ids = Created(countFetch.at)'
                        /\ IsFiniteSet(countFetch.ids) /\ countFetch.count = Cardinality(countFetch.ids)
      OBVIOUS
    <2>1. countFetch.at \in Nat
      BY <1>t DEF Counts, Idle, TaskAsked
    <2>2. /\ countFetch.at <= Len(log) /\ countFetch.ids = Created(countFetch.at)
          /\ IsFiniteSet(countFetch.ids) /\ countFetch.count = Cardinality(countFetch.ids)
      BY DEF CountedInv
    <2>3. Created(countFetch.at)' = CreatedIn(log', countFetch.at)
      BY DEF Created
    <2>4. CreatedIn(log', countFetch.at) = Created(countFetch.at)
      BY <1>1, <2>1, <2>2 DEF Created
    <2> QED
      BY <1>t, <2>1, <2>2, <2>3, <2>4
  <1>5. IsFiniteSet(counted) /\ (~drift => count = Cardinality(counted))
    BY DEF CountedInv
  <1> QED
    BY <1>2, <1>3, <1>4, <1>5 DEF CountedInv

\* An event more that is no comment's creates none, a comment's that one.
LEMMA CountNext ==
  ASSUME TypeInv, TypeInv', ServerInv, SendingInv, PostedCount, CountedInv, [Next]_vars
  PROVE  CountedInv'
  <1>t. /\ ServerTypes /\ ServerTypes' /\ ServerGrows /\ cursor \in Nat /\ cursor <= Len(log) /\ count \in Nat
        /\ countFetch \in {Idle, TaskAsked} \cup Counts /\ sending \in {Free} \cup Sendings
        /\ log \in Seq(Events) /\ Len(log) \in Nat /\ own \in Nat
    BY StepMoves, Grows, Basics DEF TypeInv, PageTypes, ServerTypes
  <1>i. /\ IsFiniteSet(counted)
        /\ ~drift => count = Cardinality(counted)
        /\ \A c \in counted : c \in PostedIds \/ (sending # Free /\ sending.id = c)
        /\ ~drift /\ countFetch = Idle => Created(cursor) \subseteq counted
    BY DEF CountedInv
  <1>p. Idle.phase # "read" /\ TaskAsked.phase # "read" /\ Idle # TaskAsked
    BY DEF Idle, TaskAsked
  <1>1. CASE SendComment
    <2> DEFINE c == <<"own", own + 1>>
    <2>1. /\ UNCHANGED <<posted, log, countFetch, cursor, drift>> /\ sending = Free
          /\ sending'.phase = "sent" /\ sending'.id = c
          /\ count' = count + 1 /\ counted' = counted \cup {c}
      BY <1>1 DEF SendComment, MaySend, Count, serverVars
    <2>2. c \notin counted
      <3>1. c \notin PostedIds
        BY <1>t DEF ServerInv
      <3> QED
        BY <1>i, <2>1, <3>1
    <2> HIDE DEF c
    <2>3. IsFiniteSet(counted') /\ Cardinality(counted') = Cardinality(counted) + 1
      BY <1>i, <2>1, <2>2, FS_AddElement
    <2>4. sending' # Free
      BY <2>1 DEF Free
    <2>5. PostedIds' = PostedIds /\ Created(cursor)' = Created(cursor)
      BY <2>1 DEF PostedIds, Created
    <2>6. countFetch.phase = "read" => Created(countFetch.at)' = Created(countFetch.at)
      BY <2>1 DEF Created
    <2> QED
      BY <1>i, <2>1, <2>3, <2>4, <2>5, <2>6 DEF CountedInv
  <1>2. CASE CommentFailed
    <2>1. /\ UNCHANGED <<posted, log, cursor>> /\ sending \in Sendings /\ countFetch' = TaskAsked
          /\ count' = (IF count > 0 THEN count - 1 ELSE 0) /\ counted' = counted \ {sending.id}
          /\ drift' = (drift \/ sending.id \notin counted)
      BY <1>2, <1>t, SendingShapes DEF CommentFailed, serverVars
    <2>2. PostedIds' = PostedIds
      BY <2>1 DEF PostedIds
    <2>3. IsFiniteSet(counted')
      BY <1>i, <2>1, FS_RemoveElement
    <2>4. ~drift' => count' = Cardinality(counted')
      <3> SUFFICES ASSUME ~drift' PROVE count' = Cardinality(counted')
        OBVIOUS
      <3>1. sending.id \in counted /\ count = Cardinality(counted)
        BY <1>i, <2>1
      <3>2. Cardinality(counted') = Cardinality(counted) - 1 /\ Cardinality(counted') \in Nat
        BY <1>i, <2>1, <2>3, <3>1, FS_RemoveElement, FS_CardinalityType
      <3> QED
        BY <1>t, <2>1, <3>1, <3>2
    <2>5. \A d \in counted' : d \in PostedIds'
      BY <1>i, <2>1, <2>2
    <2> QED
      BY <1>p, <2>1, <2>3, <2>4, <2>5 DEF CountedInv
  <1>3. CASE ReloadTask
    <2>1. UNCHANGED <<posted, log, cursor, count, counted, drift, sending>> /\ countFetch' = TaskAsked
      BY <1>3 DEF ReloadTask, serverVars, ghosts
    <2>2. PostedIds' = PostedIds
      BY <2>1 DEF PostedIds
    <2> QED
      BY <1>i, <1>p, <2>1, <2>2 DEF CountedInv
  <1>4. CASE ServeTask
    <2>1. /\ UNCHANGED <<posted, log, cursor, count, counted, drift, sending>>
          /\ countFetch' = [phase |-> "read", at |-> Len(log), count |-> Len(posted), ids |-> PostedIds]
      BY <1>4 DEF ServeTask, serverVars, ghosts
    <2>2. PostedIds' = PostedIds /\ Created(Len(log))' = Created(Len(log)) /\ countFetch' # Idle
      BY <2>1 DEF PostedIds, Created, Idle
    <2>3. PostedIds = Created(Len(log)) /\ IsFiniteSet(PostedIds) /\ Cardinality(PostedIds) = Len(posted)
      BY DEF ServerInv, PostedCount
    <2>4. Created(countFetch.at)' = Created(Len(log))
      BY <2>1 DEF Created
    <2>5. /\ countFetch'.at = Len(log) /\ countFetch'.count = Len(posted) /\ countFetch'.ids = PostedIds
          /\ countFetch'.at <= Len(log')
      BY <1>t, <2>1
    <2> HIDE DEF PostedIds
    <2> QED
      BY <1>i, <2>1, <2>2, <2>3, <2>4, <2>5 DEF CountedInv
  <1>5. CASE TaskArrives
    <2>1. /\ UNCHANGED <<posted, log, cursor, sending>> /\ countFetch.phase = "read" /\ countFetch' = Idle
          /\ count' = countFetch.count /\ counted' = countFetch.ids /\ drift' = (cursor > countFetch.at)
      BY <1>5 DEF TaskArrives, serverVars
    <2>2. countFetch.at \in Nat
      BY <1>t, <1>p, <2>1 DEF Counts
    <2>3. /\ countFetch.at <= Len(log) /\ countFetch.ids = Created(countFetch.at)
          /\ IsFiniteSet(countFetch.ids) /\ countFetch.count = Cardinality(countFetch.ids)
      BY <2>1 DEF CountedInv
    <2>4. PostedIds' = PostedIds /\ Created(cursor)' = Created(cursor)
      BY <2>1 DEF PostedIds, Created
    <2>5. \A d \in counted' : d \in PostedIds'
      <3>1. Created(countFetch.at) \subseteq Created(Len(log))
        BY <1>t, <2>2, <2>3, CreatedMonotone
      <3> QED
        BY <2>1, <2>3, <2>4, <3>1 DEF ServerInv
    <2>6. ~drift' => Created(cursor)' \subseteq counted'
      <3> SUFFICES ASSUME ~drift' PROVE Created(cursor) \subseteq counted'
        BY <2>4
      <3>0. ~(cursor > countFetch.at)
        BY <2>1, Zenon
      <3>1. cursor <= countFetch.at
        BY <1>t, <2>2, <3>0
      <3>2. Created(cursor) \subseteq Created(countFetch.at)
        BY <1>t, <2>2, <3>1, CreatedMonotone
      <3> QED
        BY <2>1, <2>3, <3>2
    <2> QED
      BY <1>p, <2>1, <2>3, <2>5, <2>6 DEF CountedInv
  <1>c. ASSUME cursor < Len(log), cursor' = cursor + 1, UNCHANGED <<posted, log, countFetch, sending>>
        PROVE  /\ Created(cursor)' = IF Event.kind = "created" THEN Created(cursor) \cup {Event.id} ELSE Created(cursor)
               /\ Event.id \in PostedIds /\ PostedIds' = PostedIds
               /\ countFetch.phase = "read" => Created(countFetch.at)' = Created(countFetch.at)
    <2>1. Created(cursor)' = CreatedIn(log, cursor + 1)
      BY <1>c DEF Created
    <2>2. cursor + 1 \in DOMAIN log
      BY <1>c, <1>t
    <2>3. Event.id \in PostedIds
      BY <2>2 DEF Event, ServerInv
    <2>4. PostedIds' = PostedIds /\ Created(countFetch.at)' = Created(countFetch.at)
      BY <1>c DEF PostedIds, Created
    <2> QED
      BY <1>c, <1>t, <2>1, <2>3, <2>4, CreatedOneMore DEF Created, Event
  <1>6. CASE ApplyCreated /\ IsNew
    <2> DEFINE c == Event.id
    <2>1. /\ cursor < Len(log) /\ cursor' = cursor + 1 /\ UNCHANGED <<posted, log, countFetch, sending>>
          /\ Event.kind = "created"
          /\ drift' = (drift \/ c \in counted) /\ count' = count + 1 /\ counted' = counted \cup {c}
      BY <1>6 DEF ApplyCreated, IsNew, Count, serverVars
    <2>2. /\ Created(cursor)' = Created(cursor) \cup {c} /\ c \in PostedIds /\ PostedIds' = PostedIds
          /\ countFetch.phase = "read" => Created(countFetch.at)' = Created(countFetch.at)
      BY <1>c, <2>1
    <2> HIDE DEF c, PostedIds
    <2>3. IsFiniteSet(counted') /\ (c \notin counted => Cardinality(counted') = Cardinality(counted) + 1)
      BY <1>i, <2>1, FS_AddElement
    <2>4. \A d \in counted' : d \in PostedIds' \/ (sending' # Free /\ sending'.id = d)
      BY <1>i, <2>1, <2>2
    <2>5. ~drift' => count' = Cardinality(counted')
      BY <1>i, <2>1, <2>3
    <2> QED
      BY <1>i, <2>1, <2>2, <2>3, <2>4, <2>5 DEF CountedInv
  <1>7. CASE ApplyCreated /\ ~IsNew
    <2> DEFINE c == Event.id
    <2>1. /\ cursor < Len(log) /\ cursor' = cursor + 1 /\ UNCHANGED <<posted, log, countFetch, sending>>
          /\ Event.kind = "created"
          /\ drift' = (drift \/ c \notin counted) /\ UNCHANGED <<count, counted>>
      BY <1>7 DEF ApplyCreated, serverVars
    <2>2. /\ Created(cursor)' = Created(cursor) \cup {c} /\ c \in PostedIds /\ PostedIds' = PostedIds
          /\ countFetch.phase = "read" => Created(countFetch.at)' = Created(countFetch.at)
      BY <1>c, <2>1
    <2> HIDE DEF c, PostedIds
    <2> QED
      BY <1>i, <2>1, <2>2 DEF CountedInv
  <1>8. CASE ApplyReaction
    <2>1. /\ cursor < Len(log) /\ cursor' = cursor + 1 /\ UNCHANGED <<posted, log, countFetch, sending>>
          /\ Event.kind # "created" /\ UNCHANGED <<count, counted, drift>>
      BY <1>8 DEF ApplyReaction, serverVars, ghosts
    <2>2. /\ Created(cursor)' = Created(cursor) /\ PostedIds' = PostedIds
          /\ countFetch.phase = "read" => Created(countFetch.at)' = Created(countFetch.at)
      BY <1>c, <2>1
    <2> HIDE DEF PostedIds
    <2> QED
      BY <1>i, <2>1, <2>2 DEF CountedInv
  <1>9. ASSUME UNCHANGED <<count, counted, drift, countFetch, cursor, sending>> PROVE CountedInv'
    BY <1>9, <1>t, CountElsewhere
  <1>10. CASE OthersComment \/ OthersReact \/ LoadOlder \/ Type \/ Reply \/ CancelReply \/ React
    BY <1>9, <1>10 DEF OthersComment, OthersReact, LoadOlder, Type, Reply, CancelReply, React, ghosts
  <1>11. CASE ServeThread \/ ServeReaction \/ RefuseReaction \/ ThreadArrives \/ ReactionSaved \/ ReactionFailed
    BY <1>9, <1>11 DEF ServeThread, ServeReaction, RefuseReaction, ThreadArrives, ReactionSaved, ReactionFailed, ghosts
  <1>12. CASE UNCHANGED vars
    BY <1>9, <1>12 DEF vars, ghosts
  <1>13. CASE ServeComment \/ RefuseComment
    <2>1. UNCHANGED <<count, counted, drift, countFetch, cursor>>
      BY <1>13 DEF ServeComment, RefuseComment, ghosts
    <2>2. sending \in Sendings
      BY <1>13, <1>t, SendingShapes DEF ServeComment, RefuseComment
    <2>3. sending' # Free /\ sending'.id = sending.id
      <3>1. sending' = [sending EXCEPT !.phase = "ok"] \/ sending' = [sending EXCEPT !.phase = "error"]
        BY <1>13 DEF ServeComment, RefuseComment
      <3> QED
        BY <2>2, <3>1, SendingPhase
    <2> QED
      BY <1>t, <2>1, <2>3, CountElsewhere
  <1>14. CASE CommentSaved
    <2>1. UNCHANGED <<count, counted, drift, countFetch, cursor, posted>> /\ sending # Free /\ sending.phase = "ok"
      BY <1>14 DEF CommentSaved, serverVars, Free
    <2>2. sending.id \in PostedIds /\ PostedIds' = PostedIds
      BY <2>1 DEF SendingInv, PostedIds
    <2> QED
      BY <1>t, <2>1, <2>2, CountElsewhere
  <1> QED
    BY <1>1, <1>2, <1>3, <1>4, <1>5, <1>6, <1>7, <1>8, <1>10, <1>11, <1>12, <1>13, <1>14
    DEF Next, UserStep, ServerStep, AnswerStep, StreamStep

-----------------------------------------------------------------------------
(* The thread: what a step of the server leaves as it was *)

\* What a comment shows stays, unless a reaction to it comes.
LEMMA ShownStays ==
  ASSUME ServerTypes, ServerMoves, NEW c \in Ids, NEW n \in Nat, n <= Len(log), NoneAfter(c, n)'
  PROVE  NoneAfter(c, n) /\ ShownReactions(c)' = ShownReactions(c)
  <1>g. ServerGrows
    BY Grows
  <1>1. ASSUME NEW k \in DOMAIN log, k > n, log[k].kind = "reaction" PROVE log[k].id # c
    <2>1. k \in DOMAIN log' /\ log'[k] = log[k]
      BY <1>g DEF ServerGrows
    <2> QED
      BY <1>1, <2>1 DEF NoneAfter
  <1>2. NoneAfter(c, n)
    BY <1>1 DEF NoneAfter
  <1>3. mine'[c] = mine[c] /\ theirs'[c] = theirs[c]
    <2>1. CASE UNCHANGED serverVars
      BY <2>1 DEF serverVars
    <2>2. CASE \E e \in Ids : Saves(e)
      BY <2>2 DEF Saves
    <2>3. CASE \E e \in Ids : Reacts(e)
      <3>1. PICK e \in Ids : Reacts(e)
        BY <2>3
      <3>2. Len(log') = Len(log) + 1 /\ log'[Len(log')].kind = "reaction" /\ log'[Len(log')].id = e
        BY <3>1, ReactedFacts
      <3>3. Len(log') \in DOMAIN log' /\ Len(log') > n
        BY <1>g, <3>2 DEF ServerGrows
      <3>4. e # c
        BY <3>2, <3>3 DEF NoneAfter
      <3> QED
        BY <3>1, <3>4 DEF Reacts
    <2> QED
      BY <2>1, <2>2, <2>3 DEF ServerMoves
  <1> QED
    BY <1>2, <1>3 DEF ShownReactions

LEMMA RightStays ==
  ASSUME ServerTypes, ServerMoves, NEW row \in RowSet, NEW n \in Nat, n <= Len(log), RowRight(row, n)
  PROVE  RowRight(row, n)'
  <1>1. row.id \in Ids
    BY DEF RowSet
  <1>2. SUFFICES ASSUME NoneAfter(row.id, n)' PROVE row.shown = ShownReactions(row.id)'
    BY DEF RowRight
  <1>3. NoneAfter(row.id, n) /\ ShownReactions(row.id)' = ShownReactions(row.id)
    BY <1>1, <1>2, ShownStays
  <1> QED
    BY <1>3 DEF RowRight

\* What is loaded stays loaded; a comment that is saved is still to come.
LEMMA LoadedStays ==
  ASSUME ServerTypes, ServerMoves, NEW d \in DataSet, NEW n \in Nat, n <= Len(log), LoadedBy(d, n)
  PROVE  LoadedBy(d, n)'
  <1>g. ServerGrows
    BY Grows
  <1>1. ASSUME NEW c, ToCome(c, n) PROVE ToCome(c, n)'
    <2>1. PICK k \in DOMAIN log : k > n /\ log[k].kind = "created" /\ log[k].id = c
      BY <1>1 DEF ToCome
    <2>2. k \in DOMAIN log' /\ log'[k] = log[k]
      BY <1>g DEF ServerGrows
    <2> QED
      BY <2>1, <2>2 DEF ToCome
  <1>2. ASSUME NEW i \in DOMAIN posted, i > d.older
        PROVE  posted'[i].id \in IdsOf(d.rows) \/ ToCome(posted[i].id, n)'
    <2>1. PICK c : c = posted[i].id
      OBVIOUS
    <2>2. c \in IdsOf(d.rows) \/ ToCome(c, n)
      BY <1>2, <2>1 DEF LoadedBy
    <2>3. c \in IdsOf(d.rows) \/ ToCome(c, n)'
      BY <1>1, <2>2
    <2>4. posted'[i].id = c
      BY <1>g, <2>1 DEF ServerGrows
    <2> QED
      BY <2>3, <2>4 DEF ToCome
  <1>3. ASSUME NEW i \in DOMAIN posted', i \notin DOMAIN posted
        PROVE  ToCome(posted[i].id, n)'
    <2>1. \E c \in Ids : Saves(c)
      <3>1. CASE UNCHANGED serverVars
        BY <1>3, <3>1 DEF serverVars
      <3>2. CASE \E c \in Ids : Reacts(c)
        BY <1>3, <3>2 DEF Reacts
      <3> QED
        BY <3>1, <3>2 DEF ServerMoves
    <2>2. PICK c \in Ids : Saves(c)
      BY <2>1
    <2>3. /\ Len(log') = Len(log) + 1 /\ Len(posted') = Len(posted) + 1
          /\ log'[Len(log')].kind = "created" /\ log'[Len(log')].id = c /\ posted'[Len(posted')].id = c
      BY <2>2, SavedFacts
    <2>4. i = Len(posted') /\ Len(log') \in DOMAIN log' /\ Len(log') > n
      BY <1>3, <1>g, <2>3 DEF ServerGrows
    <2> QED
      BY <2>3, <2>4 DEF ToCome
  <1> QED
    BY <1>2, <1>3 DEF LoadedBy

\* A comment that is saved while s is under way is s, or another member's.
NoOther(s) == \A c \in Ids : Saves(c) => (s # Free /\ s.id = c) \/ (\A n \in Nat : c # <<"own", n>>)

LEMMA RowStays ==
  ASSUME ServerTypes, ServerMoves, NEW s, NoOther(s), NEW row \in RowSet, RowSettled(row, s),
         own \in Nat, own' \in {own, own + 1}, lost \subseteq lost'
  PROVE  RowSettled(row, s)'
  <1>g. ServerGrows
    BY Grows
  <1>1. row.sync = "synced" => row.id \in PostedIds'
    BY <1>g DEF ServerGrows, RowSettled
  <1>2. ASSUME row.sync = "failed"
        PROVE  /\ row.id \notin PostedIds' \/ row.id \in lost'
               /\ \E n \in 1..own' : row.id = <<"own", n>>
               /\ s # Free => s.id # row.id
    <2>1. PICK n \in 1..own : row.id = <<"own", n>>
      BY <1>2 DEF RowSettled
    <2>2. n \in 1..own'
      OBVIOUS
    <2>3. s # Free => s.id # row.id
      BY <1>2 DEF RowSettled
    <2>4. row.id \in PostedIds \/ row.id \notin PostedIds'
      <3>1. CASE UNCHANGED serverVars
        BY <3>1 DEF serverVars, PostedIds
      <3>2. CASE \E c \in Ids : Reacts(c)
        BY <3>2, ReactedFacts
      <3>3. CASE \E c \in Ids : Saves(c)
        <4>1. PICK c \in Ids : Saves(c)
          BY <3>3
        <4>2. PostedIds' = PostedIds \cup {c}
          BY <4>1, SavedFacts
        <4>3. c # row.id
          BY <2>1, <2>3, <4>1 DEF NoOther
        <4> QED
          BY <4>2, <4>3
      <3> QED
        BY <3>1, <3>2, <3>3 DEF ServerMoves
    <2>5. row.id \notin PostedIds \/ row.id \in lost
      BY <1>2 DEF RowSettled
    <2> QED
      BY <2>1, <2>2, <2>3, <2>4, <2>5
  <1> QED
    BY <1>1, <1>2 DEF RowSettled

LEMMA PagesStay ==
  ASSUME ServerTypes, ServerMoves, NEW s, NoOther(s), NEW d \in DataSet, PagesSettled(d, s),
         own \in Nat, own' \in {own, own + 1}, lost \subseteq lost'
  PROVE  PagesSettled(d, s)'
  <1>g. ServerGrows
    BY Grows
  <1>1. d.older \in Nat /\ \A i \in DOMAIN d.rows : d.rows[i] \in RowSet
    BY DEF DataSet
  <1>2. d.older <= Len(posted')
    BY <1>g, <1>1 DEF ServerGrows, PagesSettled
  <1>3. ASSUME NEW i \in DOMAIN d.rows PROVE RowSettled(d.rows[i], s)'
    <2>1. PICK row \in RowSet : row = d.rows[i]
      BY <1>1
    <2>2. RowSettled(row, s)
      BY <2>1 DEF PagesSettled
    <2>3. RowSettled(row, s)'
      BY <2>2, RowStays
    <2> QED
      BY <2>1, <2>3 DEF RowSettled
  <1> QED
    BY <1>2, <1>3 DEF PagesSettled

\* The pages, the requests and the reaction under way stay right when the server moves.
LEMMA ThreadStays ==
  ASSUME ServerTypes, ServerMoves, own \in Nat, own' \in {own, own + 1}, lost \subseteq lost',
         NEW d \in DataSet, NEW f \in {Idle} \cup Requests \cup Answers, NEW r \in {Free} \cup Reactings,
         NEW n \in Nat, n <= Len(log), NEW b, NEW s, NoOther(s), ThreadAt(d, f, r, n, b, s)
  PROVE  ThreadAt(d, f, r, n, b, s)'
  <1>g. ServerGrows
    BY Grows
  <1>l. Len(log) \in Nat /\ Len(log') \in Nat /\ Len(log) <= Len(log')
    BY <1>g DEF ServerGrows
  <1>f. /\ f # Idle => f.pages \in DataSet
        /\ f.phase = "read" => f \in Answers /\ f.data \in DataSet /\ f.at \in Nat
        /\ r # Free => r.previous \in DataSet
    BY FetchShapes, SendingShapes
  <1>rows. \A e \in DataSet : \A i \in DOMAIN e.rows : e.rows[i] \in RowSet
    BY DEF DataSet
  <1>1. Settled(d, f, r, s)'
    <2>1. Settled(d, f, r, s)
      BY DEF ThreadAt
    <2>2. PagesSettled(d, s)'
      BY <2>1, PagesStay DEF Settled
    <2>3. f # Idle => PagesSettled(f.pages, s)'
      BY <1>f, <2>1, PagesStay DEF Settled
    <2>4. f.phase = "read" => PagesSettled(f.data, s)'
      BY <1>f, <2>1, PagesStay DEF Settled
    <2>5. r # Free => PagesSettled(r.previous, s)'
      BY <1>f, <2>1, PagesStay DEF Settled
    <2> QED
      BY <2>2, <2>3, <2>4, <2>5 DEF Settled
  <1>2. Pending(d, b, s)'
    BY DEF ThreadAt, Pending
  <1>3. DataRight(d, f, r, n, b)'
    <2> SUFFICES ASSUME ~b, f.kind # "all"
                 PROVE  /\ d # NoData
                        /\ LoadedBy(d, n)'
                        /\ \A i \in DOMAIN d.rows : r = Free \/ r.id # d.rows[i].id => RowRight(d.rows[i], n)'
      BY DEF DataRight
    <2>1. /\ d # NoData
          /\ LoadedBy(d, n)
          /\ \A i \in DOMAIN d.rows : r = Free \/ r.id # d.rows[i].id => RowRight(d.rows[i], n)
      BY DEF ThreadAt, DataRight
    <2>2. LoadedBy(d, n)'
      BY <2>1, LoadedStays
    <2>3. ASSUME NEW i \in DOMAIN d.rows, r = Free \/ r.id # d.rows[i].id PROVE RowRight(d.rows[i], n)'
      <3>1. d.rows[i] \in RowSet /\ RowRight(d.rows[i], n)
        BY <1>rows, <2>1, <2>3
      <3> QED
        BY <3>1, RightStays
    <2> QED
      BY <2>1, <2>2, <2>3
  <1>4. AnswerRight(f)'
    <2>0. AnswerRight(f)
      BY DEF ThreadAt
    <2>1. f.kind = "older" => f.pages # NoData
      BY <2>0 DEF AnswerRight
    <2>2. ASSUME f.phase = "read" PROVE f.at <= Len(log') /\ f.data # NoData
      BY <1>f, <1>l, <2>0, <2>2 DEF AnswerRight
    <2>3. ASSUME f.phase = "read", f.kind = "all"
          PROVE  /\ LoadedBy(f.data, f.at)'
                 /\ \A i \in DOMAIN f.data.rows : f.data.rows[i].sync = "synced" /\ RowRight(f.data.rows[i], f.at)'
      <3>1. /\ LoadedBy(f.data, f.at) /\ f.at <= Len(log)
            /\ \A i \in DOMAIN f.data.rows : f.data.rows[i].sync = "synced" /\ RowRight(f.data.rows[i], f.at)
        BY <2>0, <2>3 DEF AnswerRight
      <3>2. LoadedBy(f.data, f.at)'
        BY <1>f, <2>3, <3>1, LoadedStays
      <3>3. ASSUME NEW i \in DOMAIN f.data.rows PROVE f.data.rows[i].sync = "synced" /\ RowRight(f.data.rows[i], f.at)'
        <4>1. f.data.rows[i] \in RowSet /\ RowRight(f.data.rows[i], f.at) /\ f.at \in Nat
          BY <1>f, <1>rows, <2>3, <3>1
        <4> QED
          BY <3>1, <4>1, RightStays
      <3> QED
        BY <3>2, <3>3
    <2>4. ASSUME f.phase = "read", f.kind = "older"
          PROVE  /\ IdsOf(f.pages.rows) \subseteq IdsOf(f.data.rows)
                 /\ \A i \in DOMAIN posted' : i > f.data.older /\ i <= f.pages.older => posted'[i].id \in IdsOf(f.data.rows)
                 /\ \A i \in DOMAIN f.data.rows :
                      \/ \E j \in DOMAIN f.pages.rows : f.pages.rows[j] = f.data.rows[i]
                      \/ f.data.rows[i].sync = "synced" /\ RowRight(f.data.rows[i], f.at)'
      <3>1. /\ IdsOf(f.pages.rows) \subseteq IdsOf(f.data.rows) /\ f.at <= Len(log)
            /\ \A i \in DOMAIN posted : i > f.data.older /\ i <= f.pages.older => posted[i].id \in IdsOf(f.data.rows)
            /\ \A i \in DOMAIN f.data.rows :
                 \/ \E j \in DOMAIN f.pages.rows : f.pages.rows[j] = f.data.rows[i]
                 \/ f.data.rows[i].sync = "synced" /\ RowRight(f.data.rows[i], f.at)
        BY <2>0, <2>4 DEF AnswerRight
      <3>2. f # Idle /\ f.pages \in DataSet /\ f.data \in DataSet /\ f.at \in Nat
        BY <1>f, <2>4, FetchShapes
      <3>3. f.pages.older \in Nat /\ f.pages.older <= Len(posted)
        BY <3>2 DEF ThreadAt, Settled, PagesSettled, DataSet
      <3>4. \A i \in DOMAIN posted' : i <= f.pages.older => i \in DOMAIN posted /\ posted'[i] = posted[i]
        BY <1>g, <3>3 DEF ServerGrows
      <3>5. ASSUME NEW i \in DOMAIN f.data.rows
            PROVE  \/ \E j \in DOMAIN f.pages.rows : f.pages.rows[j] = f.data.rows[i]
                   \/ f.data.rows[i].sync = "synced" /\ RowRight(f.data.rows[i], f.at)'
        <4>1. f.data.rows[i] \in RowSet
          BY <1>rows, <3>2
        <4>2. RowRight(f.data.rows[i], f.at) => RowRight(f.data.rows[i], f.at)'
          BY <3>1, <3>2, <4>1, RightStays
        <4> QED
          BY <3>1, <4>2
      <3> QED
        BY <3>1, <3>4, <3>5
    <2> QED
      BY <2>1, <2>2, <2>3, <2>4 DEF AnswerRight
  <1>5. ReactingRight(f, r, n, b)'
    <2> SUFFICES ASSUME r # Free
                 PROVE  /\ r.previous # NoData
                        /\ SameRows(r.previous, r.optimistic)
                        /\ r.since <= n
                        /\ n = r.since =>
                             /\ f.kind # "all"
                             /\ ~b => \A i \in DOMAIN r.previous.rows : RowRight(r.previous.rows[i], n)'
      BY DEF ReactingRight
    <2>1. /\ r.previous # NoData
          /\ SameRows(r.previous, r.optimistic)
          /\ r.since <= n
          /\ n = r.since =>
               /\ f.kind # "all"
               /\ ~b => \A i \in DOMAIN r.previous.rows : RowRight(r.previous.rows[i], n)
      BY DEF ThreadAt, ReactingRight
    <2>2. ASSUME NEW i \in DOMAIN r.previous.rows, RowRight(r.previous.rows[i], n) PROVE RowRight(r.previous.rows[i], n)'
      <3>1. r.previous.rows[i] \in RowSet
        BY <1>f, <1>rows
      <3> QED
        BY <2>2, <3>1, RightStays
    <2> QED
      BY <2>1, <2>2
  <1> QED
    BY <1>1, <1>2, <1>3, <1>4, <1>5 DEF ThreadAt

\* What holds of the values of the variables holds of the variables.
LEMMA ThreadAsIs ==
  ASSUME NEW d, d = data', NEW f, f = threadFetch', NEW r, r = reacting', NEW n, n = cursor',
         NEW b, b = behind', NEW s, s = sending', ThreadAt(d, f, r, n, b, s)'
  PROVE  ThreadInv'
  <1>1. Settled(data, threadFetch, reacting, sending)'
    BY DEF ThreadAt, Settled, PagesSettled, RowSettled
  <1>2. Pending(data, behind, sending)'
    BY DEF ThreadAt, Pending
  <1>3. DataRight(data, threadFetch, reacting, cursor, behind)'
    BY DEF ThreadAt, DataRight, LoadedBy, ToCome, RowRight, NoneAfter
  <1>4. AnswerRight(threadFetch)'
    BY DEF ThreadAt, AnswerRight, LoadedBy, ToCome, RowRight, NoneAfter
  <1>5. ReactingRight(threadFetch, reacting, cursor, behind)'
    BY DEF ThreadAt, ReactingRight, RowRight, NoneAfter
  <1> QED
    BY <1>1, <1>2, <1>3, <1>4, <1>5 DEF ThreadInv, ThreadAt

-----------------------------------------------------------------------------
(* The thread: what an action of the page makes of it *)

Typed(d, f, r, n) ==
  /\ ServerTypes /\ ServerInv
  /\ d \in DataSet /\ f \in {Idle} \cup Requests \cup Answers /\ r \in {Free} \cup Reactings
  /\ n \in Nat /\ n <= Len(log)

\* A comment nobody has reacted to shows no reactions.
LEMMA NoneYet ==
  ASSUME ServerTypes, ServerInv, NEW c \in Ids \ Seeds,
         \A k \in DOMAIN log : log[k].kind = "reaction" => log[k].id # c
  PROVE  ShownReactions(c) = NoReactions
  <1>1. mine[c] = Nobody /\ theirs[c] = Nobody
    BY DEF ServerInv
  <1>2. \A ty \in Types : ty # Nobody
    BY Basics
  <1>3. \A ty \in Types : (IF mine[c] = ty THEN 1 ELSE 0) + (IF theirs[c] = ty THEN 1 ELSE 0) = 0
    BY <1>1, <1>2
  <1> QED
    BY <1>1, <1>3 DEF ShownReactions, NoReactions

\* What is right when more events count as applied is right when fewer do.
LEMMA RightEarlier ==
  ASSUME ServerTypes, NEW row, NEW m \in Nat, NEW n \in Nat, m <= n, RowRight(row, n)
  PROVE  RowRight(row, m)
  <1>1. DOMAIN log = 1..Len(log) /\ Len(log) \in Nat
    BY DEF ServerTypes
  <1>2. NoneAfter(row.id, m) => NoneAfter(row.id, n)
    BY <1>1 DEF NoneAfter
  <1> QED
    BY <1>2 DEF RowRight

LEMMA LoadedEarlier ==
  ASSUME ServerTypes, NEW d, NEW m \in Nat, NEW n \in Nat, m <= n, LoadedBy(d, n)
  PROVE  LoadedBy(d, m)
  <1>1. DOMAIN log = 1..Len(log) /\ Len(log) \in Nat
    BY DEF ServerTypes
  <1>2. \A c : ToCome(c, n) => ToCome(c, m)
    BY <1>1 DEF ToCome
  <1> QED
    BY <1>2 DEF LoadedBy

\* The page after those loaded is asked for.
LEMMA OlderAsked ==
  ASSUME NEW d, NEW f, NEW r, NEW n, NEW b \in BOOLEAN, NEW s, Typed(d, f, r, n), ThreadAt(d, f, r, n, b, s),
         d.older > 0, NEW c \in BOOLEAN, c = (b \/ f # Idle)
  PROVE  ThreadAt(d, Asked("older", d), r, n, c, s)
  <1> DEFINE g == Asked("older", d)
  <1>1. g # Idle /\ g.kind = "older" /\ g.pages = d /\ g.phase = "asked" /\ Idle.kind = "none"
    BY FetchShapes DEF Kinds, Typed
  <1>2. d # NoData
    BY DEF NoData
  <1>3. ~c => ~b /\ f = Idle
    OBVIOUS
  <1> HIDE DEF g
  <1>4. Settled(d, g, r, s) /\ Pending(d, c, s) /\ AnswerRight(g)
    BY <1>1, <1>2, <1>3 DEF ThreadAt, Settled, Pending, AnswerRight
  <1>5. DataRight(d, g, r, n, c)
    BY <1>1, <1>3 DEF ThreadAt, DataRight
  <1>6. ReactingRight(g, r, n, c)
    BY <1>1, <1>3 DEF ThreadAt, ReactingRight
  <1> QED
    BY <1>4, <1>5, <1>6 DEF ThreadAt, g

\* All the pages are asked for again, once an event or an answer says so.
LEMMA AllAsked ==
  ASSUME NEW d, NEW f, NEW r, NEW n, NEW b \in BOOLEAN, NEW s, Typed(d, f, r, n), ThreadAt(d, f, r, n, b, s),
         NEW g, g = IF d = NoData THEN f ELSE Asked("all", d),
         NEW q, NEW m \in Nat, (q = Free /\ m = n) \/ (q = r /\ m = n + 1)
  PROVE  ThreadAt(d, g, q, m, b, s)
  <1>1. d # NoData => g # Idle /\ g.kind = "all" /\ g.pages = d /\ g.phase = "asked"
    BY FetchShapes DEF Kinds, Typed
  <1>2. r # Free => r.since \in Nat
    BY SendingShapes DEF Typed
  <1>3. d = NoData => g = f
    OBVIOUS
  <1>4. Settled(d, g, q, s) /\ Pending(d, b, s) /\ AnswerRight(g)
    BY <1>1, <1>3 DEF ThreadAt, Settled, Pending, AnswerRight
  <1>5. DataRight(d, g, q, m, b)
    BY <1>1, <1>3 DEF ThreadAt, DataRight
  <1>6. ReactingRight(g, q, m, b)
    <2> SUFFICES ASSUME q # Free
                 PROVE  q.previous # NoData /\ SameRows(q.previous, q.optimistic) /\ q.since <= m /\ m # q.since
      BY DEF ReactingRight
    <2>1. q = r /\ m = n + 1
      OBVIOUS
    <2>2. q.previous # NoData /\ SameRows(q.previous, q.optimistic) /\ q.since <= n
      BY <2>1 DEF ThreadAt, ReactingRight
    <2> QED
      BY <1>2, <2>1, <2>2 DEF Typed
  <1> QED
    BY <1>4, <1>5, <1>6 DEF ThreadAt

\* The server answers: its comments as they are, after what was asked with.
LEMMA ThreadRead ==
  ASSUME NEW d, NEW f, NEW r, NEW n, NEW b \in BOOLEAN, NEW s, Typed(d, f, r, n), ThreadAt(d, f, r, n, b, s),
         f \in Requests, NEW e, ServedAs(f.pages, f.kind, e),
         NEW g, g = [phase |-> "read", kind |-> f.kind, pages |-> f.pages, at |-> Len(log), data |-> e]
  PROVE  ThreadAt(d, g, r, n, b, s)
  <1>1. f # Idle /\ f.kind \in Kinds /\ f.pages \in DataSet /\ ServerTypes /\ f.phase = "asked"
    BY FetchShapes DEF Typed
  <1>2. PagesSettled(f.pages, s) /\ (f.kind = "older" => f.pages # NoData)
    BY <1>1 DEF ThreadAt, Settled, AnswerRight
  <1>3. /\ e \in DataSet /\ e # NoData /\ e.pages > 0 /\ e.older <= Len(posted)
        /\ \A i \in DOMAIN e.rows :
             \/ /\ f.kind = "older"
                /\ \E j \in DOMAIN f.pages.rows : f.pages.rows[j] = e.rows[i]
             \/ /\ e.rows[i].sync = "synced" /\ e.rows[i].id \in PostedIds
                /\ e.rows[i].shown = ShownReactions(e.rows[i].id)
        /\ f.kind = "older" => IdsOf(f.pages.rows) \subseteq IdsOf(e.rows)
        /\ \A j \in DOMAIN posted :
             j > e.older /\ (f.kind = "older" => j <= f.pages.older) => posted[j].id \in IdsOf(e.rows)
    BY <1>1, <1>2, ServedTypes DEF PagesSettled
  <1>4. g # Idle /\ g.phase = "read" /\ g.kind = f.kind /\ g.pages = f.pages /\ g.at = Len(log) /\ g.data = e
    BY DEF Idle
  <1>5. PagesSettled(e, s)
    <2>1. ASSUME NEW i \in DOMAIN e.rows PROVE RowSettled(e.rows[i], s)
      <3>1. CASE \E j \in DOMAIN f.pages.rows : f.pages.rows[j] = e.rows[i]
        <4>1. PICK j \in DOMAIN f.pages.rows : f.pages.rows[j] = e.rows[i]
          BY <3>1
        <4>2. RowSettled(f.pages.rows[j], s)
          BY <1>2 DEF PagesSettled
        <4> QED
          BY <4>1, <4>2
      <3>2. CASE e.rows[i].sync = "synced" /\ e.rows[i].id \in PostedIds
        BY <3>2 DEF RowSettled
      <3> QED
        BY <1>3, <3>1, <3>2
    <2> QED
      BY <1>3, <2>1 DEF PagesSettled
  <1>6. Settled(d, g, r, s) /\ Pending(d, b, s)
    BY <1>1, <1>2, <1>4, <1>5 DEF ThreadAt, Settled, Pending
  <1>7. DataRight(d, g, r, n, b)
    BY <1>4 DEF ThreadAt, DataRight
  <1>8. ReactingRight(g, r, n, b)
    BY <1>4 DEF ThreadAt, ReactingRight
  <1>9. AnswerRight(g)
    <2>1. Len(log) <= Len(log)
      BY DEF ServerTypes, Typed
    <2>2. \A i \in DOMAIN e.rows :
            e.rows[i].shown = ShownReactions(e.rows[i].id) => RowRight(e.rows[i], Len(log))
      BY DEF RowRight
    <2>3. f.kind = "all" => LoadedBy(e, Len(log))
      BY <1>3 DEF LoadedBy
    <2>4. f.kind = "all" => \A i \in DOMAIN e.rows : e.rows[i].sync = "synced" /\ RowRight(e.rows[i], Len(log))
      BY <1>3, <2>2
    <2>5. \A i \in DOMAIN e.rows :
             \/ \E j \in DOMAIN f.pages.rows : f.pages.rows[j] = e.rows[i]
             \/ e.rows[i].sync = "synced" /\ RowRight(e.rows[i], Len(log))
      BY <1>3, <2>2
    <2>6. f.kind = "older" =>
            \A i \in DOMAIN posted : i > e.older /\ i <= f.pages.older => posted[i].id \in IdsOf(e.rows)
      BY <1>3
    <2> QED
      BY <1>2, <1>3, <1>4, <2>1, <2>3, <2>4, <2>5, <2>6 DEF AnswerRight
  <1> QED
    BY <1>6, <1>7, <1>8, <1>9 DEF ThreadAt

\* The answer takes the place of the pages.
LEMMA AnswerTaken ==
  ASSUME NEW d, NEW f, NEW r, NEW n, NEW b \in BOOLEAN, NEW s, Typed(d, f, r, n), ThreadAt(d, f, r, n, b, s),
         f.phase = "read", NEW c \in BOOLEAN, c = (n > f.at \/ (f.kind = "older" /\ (b \/ d # f.pages)))
  PROVE  ThreadAt(f.data, Idle, r, n, c, s)
  <1>1. f \in Answers /\ f.kind \in Kinds /\ f.at \in Nat /\ f.data \in DataSet /\ f # Idle /\ n \in Nat /\ ServerTypes
        /\ Idle.phase = "idle" /\ Idle.kind = "none"
    BY FetchShapes DEF Typed
  <1>2. ~c => n <= f.at /\ (f.kind = "older" => ~b /\ d = f.pages)
    <2>1. ASSUME ~c PROVE ~(n > f.at) /\ (f.kind = "older" => ~b /\ d = f.pages)
      BY <2>1, Zenon
    <2>2. ~(n > f.at) => n <= f.at
      BY <1>1
    <2> QED
      BY <2>1, <2>2
  <1>3. f.kind = "all" \/ f.kind = "older"
    BY <1>1 DEF Kinds
  <1>4. f.data # NoData
    BY DEF ThreadAt, AnswerRight
  <1>5. f.kind = "all" =>
          /\ LoadedBy(f.data, f.at)
          /\ \A i \in DOMAIN f.data.rows : f.data.rows[i].sync = "synced" /\ RowRight(f.data.rows[i], f.at)
    BY DEF ThreadAt, AnswerRight
  <1>6. f.kind = "older" =>
          /\ IdsOf(f.pages.rows) \subseteq IdsOf(f.data.rows)
          /\ \A i \in DOMAIN posted : i > f.data.older /\ i <= f.pages.older => posted[i].id \in IdsOf(f.data.rows)
          /\ \A i \in DOMAIN f.data.rows :
               \/ \E j \in DOMAIN f.pages.rows : f.pages.rows[j] = f.data.rows[i]
               \/ f.data.rows[i].sync = "synced" /\ RowRight(f.data.rows[i], f.at)
    BY DEF ThreadAt, AnswerRight
  <1>7. Settled(f.data, Idle, r, s)
    BY <1>1 DEF ThreadAt, Settled
  <1>8. Pending(f.data, c, s)
    <2> SUFFICES ASSUME ~c, NEW i \in DOMAIN f.data.rows, f.data.rows[i].sync = "pending"
                 PROVE  s # Free /\ s.id = f.data.rows[i].id
      BY DEF Pending
    <2>1. f.kind = "older" /\ ~b /\ d = f.pages
      BY <1>2, <1>3, <1>5
    <2>2. PICK j \in DOMAIN d.rows : d.rows[j] = f.data.rows[i]
      BY <1>6, <2>1
    <2> QED
      BY <2>1, <2>2 DEF ThreadAt, Pending
  <1>9. DataRight(f.data, Idle, r, n, c)
    <2> SUFFICES ASSUME ~c
                 PROVE  /\ LoadedBy(f.data, n)
                        /\ \A i \in DOMAIN f.data.rows : r = Free \/ r.id # f.data.rows[i].id => RowRight(f.data.rows[i], n)
      BY <1>4 DEF DataRight
    <2>1. \A i \in DOMAIN f.data.rows : RowRight(f.data.rows[i], f.at) => RowRight(f.data.rows[i], n)
      BY <1>1, <1>2, RightEarlier
    <2>2. CASE f.kind = "all"
      <3>1. LoadedBy(f.data, n)
        BY <1>1, <1>2, <1>5, <2>2, LoadedEarlier
      <3> QED
        BY <1>5, <2>1, <2>2, <3>1
    <2>3. CASE f.kind = "older"
      <3>1. /\ d = f.pages /\ LoadedBy(d, n)
            /\ \A i \in DOMAIN d.rows : r = Free \/ r.id # d.rows[i].id => RowRight(d.rows[i], n)
        BY <1>2, <2>3 DEF ThreadAt, DataRight
      <3>2. LoadedBy(f.data, n)
        <4> SUFFICES ASSUME NEW i \in DOMAIN posted, i > f.data.older
                     PROVE  posted[i].id \in IdsOf(f.data.rows) \/ ToCome(posted[i].id, n)
          BY DEF LoadedBy
        <4>1. i \in Nat /\ d.older \in Nat
          BY <1>1 DEF ServerTypes, Typed, DataSet
        <4>2. CASE i > d.older
          BY <1>6, <2>3, <3>1, <4>2 DEF LoadedBy
        <4>3. CASE i <= d.older
          BY <1>6, <2>3, <3>1, <4>3
        <4> QED
          BY <4>1, <4>2, <4>3
      <3>3. ASSUME NEW i \in DOMAIN f.data.rows, r = Free \/ r.id # f.data.rows[i].id PROVE RowRight(f.data.rows[i], n)
        BY <1>6, <2>1, <2>3, <3>1, <3>3
      <3> QED
        BY <3>2, <3>3
    <2> QED
      BY <1>3, <2>2, <2>3
  <1>10. AnswerRight(Idle)
    BY <1>1 DEF AnswerRight
  <1>11. ReactingRight(Idle, r, n, c)
    <2>1. r # Free /\ n = r.since => f.kind = "older"
      BY <1>3 DEF ThreadAt, ReactingRight
    <2>2. r # Free /\ n = r.since /\ ~c => ~b
      BY <1>2, <2>1
    <2> QED
      BY <1>1, <2>2 DEF ThreadAt, ReactingRight
  <1> QED
    BY <1>7, <1>8, <1>9, <1>10, <1>11 DEF ThreadAt

\* A comment is sent: its row is put in front, still being sent.
PutAs(d, e, row) ==
  /\ e # NoData
  /\ e.older = (IF d = NoData THEN 0 ELSE d.older)
  /\ e.pages = (IF d = NoData THEN 1 ELSE d.pages)
  /\ \A i \in DOMAIN e.rows : e.rows[i] = row \/ \E j \in DOMAIN d.rows : e.rows[i] = d.rows[j]
  /\ IdsOf(e.rows) = IdsOf(d.rows) \cup {row.id}

LEMMA PendingPut ==
  ASSUME NEW d, NEW f, NEW r, NEW n, NEW b \in BOOLEAN, Typed(d, f, r, n), ThreadAt(d, f, r, n, b, Free), own \in Nat,
         NEW c \in Ids \ Seeds, c = <<"own", own + 1>>, NEW row, row.id = c, row.sync = "pending", row.shown = NoReactions,
         NEW e, PutAs(d, e, row), NEW s, s # Free, s.id = c,
         NEW a \in BOOLEAN, a = (b \/ f # Idle)
  PROVE  ThreadAt(e, Idle, r, n, a, s)
  <1>e. /\ e # NoData
        /\ e.older = (IF d = NoData THEN 0 ELSE d.older)
        /\ e.pages = (IF d = NoData THEN 1 ELSE d.pages)
        /\ \A i \in DOMAIN e.rows : e.rows[i] = row \/ \E j \in DOMAIN d.rows : e.rows[i] = d.rows[j]
        /\ IdsOf(e.rows) = IdsOf(d.rows) \cup {c}
    BY DEF PutAs
  <1>1. ServerTypes /\ ServerInv /\ Idle.phase = "idle" /\ Idle.kind = "none" /\ Len(posted) \in Nat
        /\ d.pages \in Nat /\ d.older \in Nat
    BY FetchShapes DEF Typed, ServerTypes, DataSet
  <1>2. c \notin PostedIds
    BY <1>1 DEF ServerInv
  <1>3. ShownReactions(c) = NoReactions
    <2>1. \A k \in DOMAIN log : log[k].id # c
      BY <1>1, <1>2 DEF ServerInv
    <2> QED
      BY <1>1, <2>1, NoneYet
  <1>4. ASSUME NEW x, RowSettled(x, Free) PROVE RowSettled(x, s)
    <2>1. \A m \in 1..own : c # <<"own", m>>
      OBVIOUS
    <2> QED
      BY <1>4, <2>1 DEF RowSettled
  <1>5. ASSUME NEW x, PagesSettled(x, Free) PROVE PagesSettled(x, s)
    BY <1>4, <1>5 DEF PagesSettled
  <1>6. PagesSettled(e, s)
    <2>1. ASSUME NEW i \in DOMAIN e.rows PROVE RowSettled(e.rows[i], s)
      <3>1. CASE e.rows[i] = row
        BY <3>1 DEF RowSettled
      <3>2. CASE \E j \in DOMAIN d.rows : e.rows[i] = d.rows[j]
        <4>1. PICK j \in DOMAIN d.rows : e.rows[i] = d.rows[j]
          BY <3>2
        <4>2. RowSettled(d.rows[j], s)
          BY <1>4 DEF ThreadAt, Settled, PagesSettled
        <4> QED
          BY <4>1, <4>2
      <3> QED
        BY <1>e, <3>1, <3>2
    <2>2. e.older <= Len(posted) /\ e.pages > 0
      BY <1>1, <1>e DEF ThreadAt, Settled, PagesSettled
    <2> QED
      BY <2>1, <2>2 DEF PagesSettled
  <1>7. Settled(e, Idle, r, s)
    BY <1>1, <1>5, <1>6 DEF ThreadAt, Settled
  <1>8. ~a => ~b /\ f = Idle
    OBVIOUS
  <1>9. Pending(e, a, s)
    BY <1>8, <1>e DEF ThreadAt, Pending
  <1>10. DataRight(e, Idle, r, n, a)
    <2> SUFFICES ASSUME ~a
                 PROVE  /\ LoadedBy(e, n)
                        /\ \A i \in DOMAIN e.rows : r = Free \/ r.id # e.rows[i].id => RowRight(e.rows[i], n)
      BY <1>e DEF DataRight
    <2>1. /\ d # NoData /\ LoadedBy(d, n)
          /\ \A i \in DOMAIN d.rows : r = Free \/ r.id # d.rows[i].id => RowRight(d.rows[i], n)
      BY <1>1, <1>8 DEF ThreadAt, DataRight
    <2>2. LoadedBy(e, n)
      BY <1>e, <2>1 DEF LoadedBy
    <2>3. RowRight(row, n)
      BY <1>3 DEF RowRight
    <2> QED
      BY <1>e, <2>1, <2>2, <2>3
  <1>11. AnswerRight(Idle)
    BY <1>1 DEF AnswerRight
  <1>12. ReactingRight(Idle, r, n, a)
    BY <1>1, <1>8 DEF ThreadAt, ReactingRight
  <1> QED
    BY <1>7, <1>9, <1>10, <1>11, <1>12 DEF ThreadAt

\* Pages whose rows are as many and are of the same comments.
LEMMA StillPages ==
  ASSUME NEW d \in DataSet, NEW e \in DataSet, e.pages = d.pages, e.older = d.older, DOMAIN e.rows = DOMAIN d.rows,
         d = NoData \/ d.pages > 0
  PROVE  (e = NoData \/ e.pages > 0) /\ (d # NoData => e # NoData)
  <1>1. NoData.pages = 0 /\ NoData.rows = <<>> /\ NoData.older = 0
    BY DEF NoData
  <1>2. CASE d = NoData
    <2>1. e.rows \in Seq(RowSet) /\ DOMAIN e.rows = 1..Len(e.rows) /\ Len(e.rows) \in Nat
      BY DEF DataSet
    <2>2. DOMAIN e.rows = {}
      BY <1>1, <1>2
    <2>3. e.rows = <<>>
      <3>1. Len(e.rows) = 0
        <4>1. Len(e.rows) # 0 => 1 \in DOMAIN e.rows
          BY <2>1
        <4> QED
          BY <2>2, <4>1
      <3> QED
        BY <2>1, <3>1, EmptySeq
    <2>4. e = [rows |-> <<>>, pages |-> 0, older |-> 0]
      BY <1>1, <1>2, <2>3 DEF DataSet
    <2> QED
      BY <1>2, <2>4 DEF NoData
  <1>3. CASE d.pages > 0
    BY <1>1, <1>3
  <1> QED
    BY <1>2, <1>3

\* The comment under way is settled: its row is marked, the others stay.
LEMMA RowMarked ==
  ASSUME NEW d, NEW f, NEW r, NEW n, NEW b \in BOOLEAN, NEW s, Typed(d, f, r, n), ThreadAt(d, f, r, n, b, s), s # Free,
         NEW e \in DataSet, e.pages = d.pages, e.older = d.older, DOMAIN e.rows = DOMAIN d.rows,
         \A i \in DOMAIN d.rows : e.rows[i].id = d.rows[i].id,
         \A i \in DOMAIN d.rows : d.rows[i].id # s.id =>
           e.rows[i].sync = d.rows[i].sync /\ e.rows[i].shown = d.rows[i].shown,
         \A i \in DOMAIN d.rows : d.rows[i].id = s.id => e.rows[i].sync # "pending" /\ RowSettled(e.rows[i], Free),
         NEW c \in BOOLEAN, ~c => ~b /\ \A i \in DOMAIN d.rows : e.rows[i].shown = d.rows[i].shown
  PROVE  ThreadAt(e, f, r, n, c, Free)
  <1>1. ASSUME NEW x, RowSettled(x, s) PROVE RowSettled(x, Free)
    BY <1>1 DEF RowSettled
  <1>2. ASSUME NEW x, PagesSettled(x, s) PROVE PagesSettled(x, Free)
    BY <1>1, <1>2 DEF PagesSettled
  <1>3. (e = NoData \/ e.pages > 0) /\ (d # NoData => e # NoData)
    BY StillPages DEF Typed, ThreadAt, Settled, PagesSettled
  <1>4. PagesSettled(e, Free)
    <2>1. ASSUME NEW i \in DOMAIN e.rows PROVE RowSettled(e.rows[i], Free)
      <3>1. CASE d.rows[i].id # s.id
        <4>1. RowSettled(d.rows[i], Free)
          BY <1>1 DEF ThreadAt, Settled, PagesSettled
        <4> QED
          BY <3>1, <4>1 DEF RowSettled
      <3> QED
        BY <3>1
    <2> QED
      BY <1>3, <2>1 DEF PagesSettled, ThreadAt, Settled
  <1>5. Settled(e, f, r, Free)
    BY <1>2, <1>4 DEF ThreadAt, Settled
  <1>6. Pending(e, c, Free)
    BY DEF ThreadAt, Pending
  <1>7. IdsOf(e.rows) = IdsOf(d.rows)
    BY DEF IdsOf
  <1>8. DataRight(e, f, r, n, c)
    <2> SUFFICES ASSUME ~c, f.kind # "all"
                 PROVE  /\ e # NoData /\ LoadedBy(e, n)
                        /\ \A i \in DOMAIN e.rows : r = Free \/ r.id # e.rows[i].id => RowRight(e.rows[i], n)
      BY DEF DataRight
    <2>1. /\ d # NoData /\ LoadedBy(d, n)
          /\ \A i \in DOMAIN d.rows : r = Free \/ r.id # d.rows[i].id => RowRight(d.rows[i], n)
      BY DEF ThreadAt, DataRight
    <2>2. LoadedBy(e, n)
      BY <1>7, <2>1 DEF LoadedBy
    <2>3. \A i \in DOMAIN d.rows : RowRight(d.rows[i], n) => RowRight(e.rows[i], n)
      BY DEF RowRight
    <2> QED
      BY <1>3, <2>1, <2>2, <2>3
  <1>9. AnswerRight(f) /\ ReactingRight(f, r, n, c)
    BY DEF ThreadAt, ReactingRight
  <1> QED
    BY <1>5, <1>6, <1>8, <1>9 DEF ThreadAt

\* A reaction is clicked: the rows of its comment change, and nothing else is asked for.
LEMMA ReactionShown ==
  ASSUME NEW d, NEW f, NEW n, NEW b \in BOOLEAN, NEW s, Typed(d, f, Free, n), ThreadAt(d, f, Free, n, b, s),
         DOMAIN d.rows # {},
         NEW e \in DataSet, e.pages = d.pages, SameRows(d, e), NEW x,
         \A i \in DOMAIN d.rows : d.rows[i].id # x => e.rows[i] = d.rows[i],
         NEW r, r # Free, r.id = x, r.previous = d, r.optimistic = e, r.since = n,
         NEW c \in BOOLEAN, c = (b \/ f # Idle)
  PROVE  ThreadAt(e, Idle, r, n, c, s)
  <1>1. d \in DataSet /\ n \in Nat /\ Idle.phase = "idle" /\ Idle.kind = "none"
    BY FetchShapes DEF Typed
  <1>2. d # NoData
    BY DEF NoData
  <1>3. /\ e.older = d.older /\ DOMAIN e.rows = DOMAIN d.rows
        /\ \A i \in DOMAIN d.rows : e.rows[i].id = d.rows[i].id /\ e.rows[i].sync = d.rows[i].sync
    BY DEF SameRows
  <1>4. (e = NoData \/ e.pages > 0) /\ e # NoData
    BY <1>1, <1>2, <1>3, StillPages DEF ThreadAt, Settled, PagesSettled
  <1>5. PagesSettled(d, s)
    BY DEF ThreadAt, Settled
  <1>6. PagesSettled(e, s)
    BY <1>3, <1>4, <1>5 DEF PagesSettled, RowSettled
  <1>7. Settled(e, Idle, r, s)
    BY <1>1, <1>5, <1>6 DEF Settled
  <1>8. ~c => ~b /\ f = Idle
    OBVIOUS
  <1>9. Pending(e, c, s)
    BY <1>3, <1>8 DEF ThreadAt, Pending
  <1>d. ~c => LoadedBy(d, n) /\ \A i \in DOMAIN d.rows : RowRight(d.rows[i], n)
    BY <1>1, <1>8 DEF ThreadAt, DataRight
  <1>10. DataRight(e, Idle, r, n, c)
    <2>1. IdsOf(e.rows) = IdsOf(d.rows)
      BY <1>3 DEF IdsOf
    <2>2. ~c => LoadedBy(e, n)
      BY <1>3, <1>d, <2>1 DEF LoadedBy
    <2>3. ~c => \A i \in DOMAIN e.rows : r = Free \/ r.id # e.rows[i].id => RowRight(e.rows[i], n)
      BY <1>3, <1>d
    <2> QED
      BY <1>4, <2>2, <2>3 DEF DataRight
  <1>11. AnswerRight(Idle)
    BY <1>1 DEF AnswerRight
  <1>12. ReactingRight(Idle, r, n, c)
    BY <1>1, <1>2, <1>d DEF ReactingRight
  <1> QED
    BY <1>7, <1>9, <1>10, <1>11, <1>12 DEF ThreadAt

\* A reaction fails: the pages are those of before.
LEMMA RolledBack ==
  ASSUME NEW d, NEW f, NEW r, NEW n, NEW b \in BOOLEAN, NEW s, Typed(d, f, r, n), ThreadAt(d, f, r, n, b, s), r # Free,
         NEW c \in BOOLEAN, c = (b \/ d # r.optimistic \/ n # r.since)
  PROVE  ThreadAt(r.previous, f, Free, n, c, s)
  <1>1. ~c => ~b /\ d = r.optimistic /\ n = r.since
    OBVIOUS
  <1>2. /\ r.previous # NoData
        /\ SameRows(r.previous, r.optimistic)
        /\ ~c => \A i \in DOMAIN r.previous.rows : RowRight(r.previous.rows[i], n)
    BY <1>1 DEF ThreadAt, ReactingRight
  <1>3. Settled(r.previous, f, Free, s)
    BY DEF ThreadAt, Settled
  <1>4. Pending(r.previous, c, s)
    BY <1>1, <1>2 DEF ThreadAt, Pending, SameRows
  <1>5. DataRight(r.previous, f, Free, n, c)
    <2> SUFFICES ASSUME ~c, f.kind # "all" PROVE LoadedBy(r.previous, n)
      BY <1>2 DEF DataRight
    <2>1. LoadedBy(d, n)
      BY <1>1 DEF ThreadAt, DataRight
    <2>2. IdsOf(d.rows) = IdsOf(r.previous.rows) /\ d.older = r.previous.older
      BY <1>1, <1>2 DEF SameRows, IdsOf
    <2> QED
      BY <2>1, <2>2 DEF LoadedBy
  <1>6. AnswerRight(f) /\ ReactingRight(f, Free, n, c)
    BY DEF ThreadAt, ReactingRight
  <1> QED
    BY <1>3, <1>4, <1>5, <1>6 DEF ThreadAt

\* A comment's event is applied: a comment that is not there is put in front.
LEMMA CreatedApplied ==
  ASSUME NEW d, NEW f, NEW r, NEW n, NEW b \in BOOLEAN, NEW s, Typed(d, f, r, n), ThreadAt(d, f, r, n, b, s),
         n < Len(log), log[n + 1].kind = "created", NEW c, c = log[n + 1].id,
         NEW e, e = d \/ /\ d # NoData /\ e # NoData /\ e.older = d.older /\ e.pages = d.pages
                         /\ \A i \in DOMAIN e.rows :
                              \/ e.rows[i].id = c /\ e.rows[i].sync = "synced" /\ e.rows[i].shown = NoReactions
                              \/ \E j \in DOMAIN d.rows : e.rows[i] = d.rows[j]
                         /\ IdsOf(d.rows) \subseteq IdsOf(e.rows),
         d # NoData => c \in IdsOf(e.rows)
  PROVE  ThreadAt(e, f, r, n + 1, b, s)
  <1>1. /\ ServerTypes /\ ServerInv /\ n \in Nat /\ Len(log) \in Nat /\ DOMAIN log = 1..Len(log) /\ n + 1 \in DOMAIN log
        /\ r # Free => r.since \in Nat
    <2>1. ServerTypes /\ ServerInv /\ n \in Nat /\ log \in Seq(Events)
      BY DEF Typed, ServerTypes
    <2>2. r # Free => r.since \in Nat
      BY SendingShapes DEF Typed
    <2> QED
      BY <2>1, <2>2
  <1>2. c \in PostedIds /\ c \in Ids \ Seeds
    <2>1. c \in PostedIds /\ c \notin Seeds
      BY <1>1 DEF ServerInv
    <2> QED
      BY <1>1, <2>1, PostedAreIds
  <1>3. NoneAfter(c, n + 1) => ShownReactions(c) = NoReactions
    <2> SUFFICES ASSUME NoneAfter(c, n + 1) PROVE ShownReactions(c) = NoReactions
      OBVIOUS
    <2>1. ASSUME NEW k \in DOMAIN log, log[k].kind = "reaction" PROVE log[k].id # c
      <3>1. log[k].id = c => k > n + 1
        BY <1>1, <2>1 DEF ServerInv
      <3> QED
        BY <2>1, <3>1 DEF NoneAfter
    <2> QED
      BY <1>1, <1>2, <2>1, NoneYet
  <1>4. ASSUME NEW row, RowRight(row, n) PROVE RowRight(row, n + 1)
    <2>1. NoneAfter(row.id, n + 1) => NoneAfter(row.id, n)
      <3>1. \A k \in DOMAIN log : k > n => k > n + 1 \/ log[k].kind # "reaction"
        BY <1>1
      <3> QED
        BY <3>1 DEF NoneAfter
    <2> QED
      BY <1>4, <2>1 DEF RowRight
  <1>5. ASSUME NEW x, ToCome(x, n) PROVE x = c \/ ToCome(x, n + 1)
    <2>1. PICK k \in DOMAIN log : k > n /\ log[k].kind = "created" /\ log[k].id = x
      BY <1>5 DEF ToCome
    <2>2. k = n + 1 \/ k > n + 1
      BY <1>1, <2>1
    <2> QED
      BY <2>1, <2>2 DEF ToCome
  <1>6. PagesSettled(e, s)
    <2>1. PagesSettled(d, s)
      BY DEF ThreadAt, Settled
    <2>2. CASE e = d
      BY <2>1, <2>2
    <2>3. CASE e # d
      <3>1. ASSUME NEW i \in DOMAIN e.rows PROVE RowSettled(e.rows[i], s)
        BY <1>2, <2>1, <2>3 DEF PagesSettled, RowSettled
      <3> QED
        BY <2>1, <2>3, <3>1 DEF PagesSettled
    <2> QED
      BY <2>2, <2>3
  <1>7. Settled(e, f, r, s)
    BY <1>6 DEF ThreadAt, Settled
  <1>8. Pending(e, b, s)
    <2>1. Pending(d, b, s)
      BY DEF ThreadAt
    <2>2. \A i \in DOMAIN e.rows : e.rows[i].sync = "pending" => \E j \in DOMAIN d.rows : e.rows[i] = d.rows[j]
      OBVIOUS
    <2> QED
      BY <2>1, <2>2 DEF Pending
  <1>9. DataRight(e, f, r, n + 1, b)
    <2> SUFFICES ASSUME ~b, f.kind # "all"
                 PROVE  /\ e # NoData /\ LoadedBy(e, n + 1)
                        /\ \A i \in DOMAIN e.rows : r = Free \/ r.id # e.rows[i].id => RowRight(e.rows[i], n + 1)
      BY DEF DataRight
    <2>1. /\ d # NoData /\ LoadedBy(d, n)
          /\ \A i \in DOMAIN d.rows : r = Free \/ r.id # d.rows[i].id => RowRight(d.rows[i], n)
      BY DEF ThreadAt, DataRight
    <2>2. e # NoData /\ e.older = d.older /\ IdsOf(d.rows) \subseteq IdsOf(e.rows) /\ c \in IdsOf(e.rows)
      BY <2>1
    <2>3. LoadedBy(e, n + 1)
      BY <1>5, <2>1, <2>2 DEF LoadedBy
    <2>4. ASSUME NEW i \in DOMAIN e.rows, r = Free \/ r.id # e.rows[i].id PROVE RowRight(e.rows[i], n + 1)
      <3>1. CASE \E j \in DOMAIN d.rows : e.rows[i] = d.rows[j]
        <4>1. PICK j \in DOMAIN d.rows : e.rows[i] = d.rows[j]
          BY <3>1
        <4>2. RowRight(d.rows[j], n)
          BY <2>1, <2>4, <4>1
        <4> QED
          BY <1>4, <4>1, <4>2
      <3>2. CASE e.rows[i].id = c /\ e.rows[i].shown = NoReactions
        BY <1>3, <3>2 DEF RowRight
      <3> QED
        BY <3>1, <3>2
    <2> QED
      BY <2>2, <2>3, <2>4
  <1>10. AnswerRight(f)
    BY DEF ThreadAt
  <1>11. ReactingRight(f, r, n + 1, b)
    <2>1. r # Free => r.previous # NoData /\ SameRows(r.previous, r.optimistic) /\ r.since <= n
      BY DEF ThreadAt, ReactingRight
    <2>2. r # Free => r.since <= n + 1 /\ n + 1 # r.since
      BY <1>1, <2>1
    <2> QED
      BY <2>1, <2>2 DEF ReactingRight
  <1> QED
    BY <1>7, <1>8, <1>9, <1>10, <1>11 DEF ThreadAt

\* Only the phase of the comment or of the reaction under way changes.
LEMMA PhaseChanges ==
  ASSUME NEW d, NEW f, NEW r, NEW n, NEW b, NEW s, ThreadAt(d, f, r, n, b, s),
         NEW q, q = r \/ /\ q # Free /\ r # Free /\ q.id = r.id /\ q.since = r.since
                         /\ q.previous = r.previous /\ q.optimistic = r.optimistic,
         NEW t, t = s \/ (t # Free /\ s # Free /\ t.id = s.id)
  PROVE  ThreadAt(d, f, q, n, b, t)
  <1>1. ASSUME NEW x, PagesSettled(x, s) PROVE PagesSettled(x, t)
    BY <1>1 DEF PagesSettled, RowSettled
  <1>2. Settled(d, f, q, t) /\ Pending(d, b, t)
    BY <1>1 DEF ThreadAt, Settled, Pending
  <1>3. DataRight(d, f, q, n, b)
    BY DEF ThreadAt, DataRight
  <1>4. ReactingRight(f, q, n, b)
    BY DEF ThreadAt, ReactingRight
  <1> QED
    BY <1>2, <1>3, <1>4 DEF ThreadAt

\* The thread, step by step.
LEMMA ThreadNext ==
  ASSUME TypeInv, TypeInv', ServerInv, SendingInv, ThreadInv, [Next]_vars
  PROVE  ThreadInv'
  <1>m. ServerTypes /\ ServerMoves /\ SendingMoves /\ ServerGrows
    BY StepMoves, Grows DEF TypeInv
  <1>v. PICK d, f, r, n, b, s :
          d = data /\ f = threadFetch /\ r = reacting /\ n = cursor /\ b = behind /\ s = sending
    OBVIOUS
  <1>w. PICK e, g, q, m, c, t :
          e = data' /\ g = threadFetch' /\ q = reacting' /\ m = cursor' /\ c = behind' /\ t = sending'
    OBVIOUS
  <1>i. ThreadAt(d, f, r, n, b, s)
    BY <1>v DEF ThreadInv
  <1>y. /\ Typed(d, f, r, n) /\ b \in BOOLEAN /\ s \in {Free} \cup Sendings
        /\ own \in Nat /\ own' \in {own, own + 1} /\ lost \subseteq lost' /\ Len(log) \in Nat
    <2>1. Typed(d, f, r, n) /\ b \in BOOLEAN /\ s \in {Free} \cup Sendings /\ own \in Nat
      BY <1>m, <1>v, Basics DEF TypeInv, PageTypes, Typed
    <2> QED
      BY <1>m, <2>1 DEF SendingMoves, ServerGrows
  <1>x. /\ e \in DataSet /\ g \in {Idle} \cup Requests \cup Answers /\ q \in {Free} \cup Reactings
        /\ m \in Nat /\ c \in BOOLEAN /\ t \in {Free} \cup Sendings
    BY <1>w DEF TypeInv, PageTypes
  <1>z. ASSUME ThreadAt(e, g, q, m, c, t), NoOther(t), m <= Len(log) PROVE ThreadInv'
    <2>1. ThreadAt(e, g, q, m, c, t)'
      BY <1>m, <1>x, <1>y, <1>z, ThreadStays
    <2> QED
      BY <1>w, <2>1, ThreadAsIs
  <1>u. n \in Nat /\ n <= Len(log) /\ ServerInv /\ d \in DataSet
    BY <1>y DEF Typed
  <1>n. ASSUME UNCHANGED posted PROVE NoOther(t)
    <2>1. ASSUME NEW x \in Ids, Saves(x) PROVE FALSE
      <3>1. Len(posted') = Len(posted) + 1 /\ Len(posted) \in Nat
        BY <1>m, <2>1, SavedFacts DEF ServerGrows
      <3> QED
        BY <1>n, <3>1
    <2> QED
      BY <2>1 DEF NoOther
  <1>o. ASSUME NEW x \in Ids, Saves(x), NEW z \in Ids, Saves(z) PROVE x = z
    <2>1. PostedIds' = PostedIds \cup {x} /\ PostedIds' = PostedIds \cup {z} /\ x \notin PostedIds
      BY <1>m, <1>o, SavedFacts DEF Saves
    <2> QED
      BY <2>1
  <1>p. ASSUME e = d, g = f, m = n, c = b, NoOther(t),
               q = r \/ /\ q # Free /\ r # Free /\ q.id = r.id /\ q.since = r.since
                        /\ q.previous = r.previous /\ q.optimistic = r.optimistic,
               t = s \/ (t # Free /\ s # Free /\ t.id = s.id)
        PROVE  ThreadInv'
    <2>1. ThreadAt(e, g, q, m, c, t)
      BY <1>i, <1>p, PhaseChanges
    <2> QED
      BY <1>p, <1>u, <1>z, <2>1
  <1>1. CASE OthersComment
    <2>1. e = d /\ g = f /\ q = r /\ m = n /\ c = b /\ t = s
      BY <1>1, <1>v, <1>w DEF OthersComment, ghosts
    <2>2. Saves(<<"other", outside + 1>>) /\ <<"other", outside + 1>> \in Ids
      BY <1>1, OthersSave DEF Saves
    <2>3. NoOther(t)
      <3>1. ASSUME NEW x \in Ids, Saves(x) PROVE \A k \in Nat : x # <<"own", k>>
        <4>1. x = <<"other", outside + 1>>
          BY <1>o, <2>2, <3>1
        <4> QED
          BY <4>1
      <3> QED
        BY <3>1 DEF NoOther
    <2> QED
      BY <1>p, <2>1, <2>3
  <1>2. CASE OthersReact \/ ReloadTask
    <2>1. e = d /\ g = f /\ q = r /\ m = n /\ c = b /\ t = s /\ UNCHANGED posted
      BY <1>2, <1>v, <1>w DEF OthersReact, ReloadTask, serverVars, ghosts
    <2> QED
      BY <1>n, <1>p, <2>1
  <1>3. CASE ServeTask \/ TaskArrives \/ Type \/ Reply \/ CancelReply \/ UNCHANGED vars
    <2>1. e = d /\ g = f /\ q = r /\ m = n /\ c = b /\ t = s /\ UNCHANGED posted
      BY <1>3, <1>v, <1>w DEF ServeTask, TaskArrives, Type, Reply, CancelReply, vars, serverVars, ghosts
    <2> QED
      BY <1>n, <1>p, <2>1
  <1>4. CASE ServeComment
    <2>1. e = d /\ g = f /\ q = r /\ m = n /\ c = b
      BY <1>4, <1>v, <1>w DEF ServeComment
    <2>2. Saves(s.id) /\ s \in Sendings /\ s # Free /\ s.id \in Ids
      BY <1>4, <1>v, OwnSaves DEF Saves
    <2>3. t # Free /\ t.id = s.id
      <3>1. t = [s EXCEPT !.phase = "ok"] \/ t = [s EXCEPT !.phase = "error"]
        BY <1>4, <1>v, <1>w DEF ServeComment
      <3> QED
        BY <2>2, <3>1, SendingPhase
    <2>4. NoOther(t)
      BY <1>o, <2>2, <2>3 DEF NoOther
    <2> QED
      BY <1>p, <2>1, <2>2, <2>3, <2>4
  <1>5. CASE RefuseComment
    <2>1. e = d /\ g = f /\ q = r /\ m = n /\ c = b /\ UNCHANGED posted
      BY <1>5, <1>v, <1>w DEF RefuseComment, serverVars, ghosts
    <2>2. s \in Sendings /\ s # Free /\ t = [s EXCEPT !.phase = "error"]
      BY <1>5, <1>v, <1>w, <1>y, SendingShapes DEF RefuseComment
    <2>3. t # Free /\ t.id = s.id
      BY <2>2, SendingPhase
    <2> QED
      BY <1>n, <1>p, <2>1, <2>2, <2>3
  <1>6. CASE ServeReaction \/ RefuseReaction
    <2>1. e = d /\ g = f /\ m = n /\ c = b /\ t = s /\ UNCHANGED posted
      BY <1>6, <1>v, <1>w DEF ServeReaction, RefuseReaction, serverVars, ghosts
    <2>2. r \in Reactings /\ r # Free
      <3>1. r.phase = "sent"
        BY <1>6, <1>v DEF ServeReaction, RefuseReaction
      <3> QED
        BY <1>y, <3>1, SendingShapes DEF Typed
    <2>3. \E p \in {"sent", "ok", "error"} : q = [r EXCEPT !.phase = p]
      BY <1>6, <1>v, <1>w DEF ServeReaction, RefuseReaction
    <2>4. /\ q # Free /\ q.id = r.id /\ q.since = r.since
          /\ q.previous = r.previous /\ q.optimistic = r.optimistic
      BY <2>2, <2>3, ReactingPhase
    <2> QED
      BY <1>n, <1>p, <2>1, <2>2, <2>4
  <1>7. CASE LoadOlder
    <2>1. /\ e = d /\ g = Asked("older", d) /\ q = r /\ m = n /\ t = s /\ UNCHANGED posted
          /\ d.older > 0 /\ c = (b \/ f # Idle)
      BY <1>7, <1>v, <1>w DEF LoadOlder, serverVars
    <2>2. ThreadAt(d, Asked("older", d), r, n, c, s)
      BY <1>i, <1>x, <1>y, <2>1, OlderAsked
    <2> QED
      BY <1>n, <1>u, <1>z, <2>1, <2>2
  <1>8. CASE ServeThread
    <2>1. e = d /\ q = r /\ m = n /\ c = b /\ t = s /\ UNCHANGED posted
      BY <1>8, <1>v, <1>w DEF ServeThread, serverVars, ghosts
    <2>2. f \in Requests
      BY <1>8, <1>m, <1>v, ServedThread DEF TypeInv, PageTypes
    <2>3. PICK a : /\ ServedAs(f.pages, f.kind, a)
                   /\ g = [phase |-> "read", kind |-> f.kind, pages |-> f.pages, at |-> Len(log), data |-> a]
      BY <1>8, <1>m, <1>v, <1>w, ServedThread DEF TypeInv, PageTypes
    <2>4. ThreadAt(d, g, r, n, b, s)
      BY <1>i, <1>y, <2>2, <2>3, ThreadRead
    <2> QED
      BY <1>n, <1>u, <1>z, <2>1, <2>4
  <1>9. CASE ThreadArrives
    <2>1. /\ e = f.data /\ g = Idle /\ q = r /\ m = n /\ t = s /\ UNCHANGED posted /\ f.phase = "read"
          /\ c = (n > f.at \/ (f.kind = "older" /\ (b \/ d # f.pages)))
      BY <1>9, <1>v, <1>w DEF ThreadArrives, serverVars
    <2>2. ThreadAt(f.data, Idle, r, n, c, s)
      BY <1>i, <1>x, <1>y, <2>1, AnswerTaken
    <2> QED
      BY <1>n, <1>u, <1>z, <2>1, <2>2
  <1>10. CASE SendComment
    <2> DEFINE x == <<"own", own + 1>>
    <2>1. /\ t = [phase |-> "sent", id |-> x, text |-> draft, parent |-> replyTo] /\ s = Free
          /\ data' = PutInFront(Row(x, replyTo, "pending", NoReactions))
          /\ g = Idle /\ c = (b \/ f # Idle)
          /\ q = r /\ m = n /\ UNCHANGED posted
      BY <1>10, <1>v, <1>w DEF SendComment, MaySend, CancelThread, serverVars
    <2>2. x \in Ids \ Seeds
      <3>1. own + 1 \in 1..MaxOwn
        BY <1>10, <1>y, Basics DEF SendComment
      <3> QED
        BY <3>1, Basics DEF Seeds
    <2>3. t # Free /\ t.id = x
      BY <2>1 DEF Free
    <2> HIDE DEF x
    <2>4. PICK row : row = Row(x, replyTo, "pending", NoReactions)
      OBVIOUS
    <2>5. row \in RowSet /\ row.id = x /\ row.sync = "pending" /\ row.shown = NoReactions
      BY <1>m, <2>2, <2>4, ShownTypes DEF TypeInv, PageTypes, Row, RowSet
    <2>6. PutAs(d, e, row)
      <3>1. data \in DataSet /\ e = PutInFront(row)
        BY <1>u, <1>v, <1>w, <2>1, <2>4
      <3> QED
        BY <1>v, <2>5, <3>1, FrontRow DEF PutAs
    <2>7. ThreadAt(e, Idle, r, n, c, t)
      <3>1. x = <<"own", own + 1>>
        BY DEF x
      <3>2. ThreadAt(d, f, r, n, b, Free) /\ Typed(d, f, r, n) /\ b \in BOOLEAN /\ c \in BOOLEAN /\ own \in Nat
        BY <1>i, <1>x, <1>y, <2>1
      <3>3. c = (b \/ f # Idle)
        BY <2>1
      <3> QED
        BY <2>2, <2>3, <2>5, <2>6, <3>1, <3>2, <3>3, PendingPut
    <2> QED
      BY <1>n, <1>u, <1>z, <2>1, <2>7
  <1>11. CASE CommentSaved
    <2>1. /\ s.phase = "ok" /\ t = Free /\ data' = SavedInPlace(s.id, s.parent)
          /\ c = (b \/ \E i \in DOMAIN d.rows : d.rows[i].id = s.id /\ d.rows[i].shown # NoReactions)
          /\ g = f /\ q = r /\ m = n /\ UNCHANGED posted
      BY <1>11, <1>v, <1>w DEF CommentSaved, serverVars
    <2>2. s # Free /\ s.id \in Ids /\ s.parent \in Parents
      <3>1. s \in Sendings
        BY <1>y, <2>1, SendingShapes
      <3> QED
        BY <3>1, SendingShapes, Basics
    <2>3. /\ e.pages = d.pages /\ e.older = d.older /\ DOMAIN e.rows = DOMAIN d.rows
          /\ \A i \in DOMAIN d.rows :
               e.rows[i] = IF d.rows[i].id = s.id THEN Row(s.id, s.parent, "synced", NoReactions) ELSE d.rows[i]
      <3>1. data \in DataSet /\ e = SavedInPlace(s.id, s.parent)
        BY <1>u, <1>v, <1>w, <2>1
      <3> QED
        BY <1>m, <1>v, <2>2, <3>1, SavedRows
    <2>4. s.id \in PostedIds
      BY <1>v, <2>1, <2>2 DEF SendingInv
    <2>5. PICK row : row = Row(s.id, s.parent, "synced", NoReactions)
      OBVIOUS
    <2>6. row.id = s.id /\ row.sync = "synced" /\ row.shown = NoReactions /\ RowSettled(row, Free)
      BY <2>4, <2>5 DEF Row, RowSettled
    <2>7. \A i \in DOMAIN d.rows : e.rows[i] = IF d.rows[i].id = s.id THEN row ELSE d.rows[i]
      BY <2>3, <2>5
    <2>8. ~c => ~b /\ \A i \in DOMAIN d.rows : e.rows[i].shown = d.rows[i].shown
      BY <2>1, <2>6, <2>7
    <2>9. ThreadAt(e, f, r, n, c, Free)
      BY <1>i, <1>x, <1>y, <2>2, <2>3, <2>6, <2>7, <2>8, RowMarked
    <2> QED
      BY <1>n, <1>u, <1>z, <2>1, <2>9
  <1>12. CASE CommentFailed
    <2>1. /\ s.phase = "error" /\ t = Free /\ FailedAs(s.id, data') /\ c = b
          /\ g = f /\ q = r /\ m = n /\ UNCHANGED posted
      BY <1>12, <1>v, <1>w DEF CommentFailed, FailedAs, serverVars
    <2>2. s # Free /\ s.id \in Ids
      <3>1. s \in Sendings
        BY <1>y, <2>1, SendingShapes
      <3> QED
        BY <3>1, SendingShapes, Basics
    <2>3. /\ e.pages = d.pages /\ e.older = d.older /\ DOMAIN e.rows = DOMAIN d.rows
          /\ \A i \in DOMAIN d.rows :
               /\ e.rows[i].id = d.rows[i].id /\ e.rows[i].shown = d.rows[i].shown
               /\ e.rows[i].sync = IF d.rows[i].id = s.id THEN "failed" ELSE d.rows[i].sync
      <3>1. data \in DataSet /\ FailedAs(s.id, e)
        BY <1>u, <1>v, <1>w, <2>1 DEF FailedAs
      <3> QED
        BY <1>v, <2>2, <3>1, FailedRows
    <2>4. ASSUME NEW i \in DOMAIN d.rows, d.rows[i].id = s.id
          PROVE  e.rows[i].sync # "pending" /\ RowSettled(e.rows[i], Free)
      <3>1. e.rows[i].sync = "failed" /\ e.rows[i].id = s.id
        BY <2>3, <2>4
      <3>2. (\E k \in 1..own : s.id = <<"own", k>>) /\ (s.id \notin PostedIds \/ s.id \in lost)
        BY <1>v, <2>1, <2>2 DEF SendingInv
      <3> QED
        BY <3>1, <3>2 DEF RowSettled
    <2>5. ThreadAt(e, f, r, n, c, Free)
      BY <1>i, <1>x, <1>y, <2>1, <2>2, <2>3, <2>4, RowMarked
    <2> QED
      BY <1>n, <1>u, <1>z, <2>1, <2>5
  <1>13. CASE React
    <2>1. PICK i \in DOMAIN data.rows, ty \in Clicked :
            /\ ToggledAs(data.rows[i].id, ty, data')
            /\ reacting' = [phase |-> "sent", id |-> data.rows[i].id,
                            to |-> IF data.rows[i].shown.mine = ty THEN Nobody ELSE ty,
                            previous |-> data, optimistic |-> data', since |-> cursor]
      BY <1>13 DEF React, ToggledAs
    <2>2. /\ r = Free /\ g = Idle /\ c = (b \/ f # Idle) /\ m = n /\ t = s /\ UNCHANGED posted
      BY <1>13, <1>v, <1>w DEF React, MayReact, CancelThread, serverVars
    <2>3. PICK x : x = data.rows[i].id
      OBVIOUS
    <2>4. x \in Ids /\ ty \in Types /\ DOMAIN d.rows # {}
      BY <1>u, <1>v, <2>3, RowTypes, Basics
    <2>5. /\ q.id = x /\ q.previous = d /\ q.optimistic = e /\ q.since = n /\ q.phase = "sent"
      BY <1>v, <1>w, <2>1, <2>3
    <2>6. e.pages = d.pages /\ SameRows(d, e) /\ \A j \in DOMAIN d.rows : d.rows[j].id # x => e.rows[j] = d.rows[j]
      <3>1. data \in DataSet /\ ToggledAs(x, ty, e)
        BY <1>u, <1>v, <1>w, <2>1, <2>3 DEF ToggledAs
      <3>2. PICK a : a = data
        OBVIOUS
      <3>3. e.pages = data.pages /\ SameRows(data, e) /\ \A j \in DOMAIN data.rows : data.rows[j].id # x => e.rows[j] = data.rows[j]
        BY <2>4, <3>1, ToggledRows
      <3> QED
        BY <1>v, <3>3
    <2>7. q # Free
      BY <2>5, SendingShapes
    <2>8. ThreadAt(e, Idle, q, n, c, s)
      BY <1>i, <1>x, <1>y, <2>2, <2>4, <2>5, <2>6, <2>7, ReactionShown
    <2> QED
      BY <1>n, <1>u, <1>z, <2>2, <2>8
  <1>14. CASE ReactionSaved
    <2>1. /\ g = (IF d = NoData THEN f ELSE Asked("all", d)) /\ q = Free
          /\ e = d /\ m = n /\ c = b /\ t = s /\ UNCHANGED posted
      BY <1>14, <1>v, <1>w DEF ReactionSaved, Refresh, serverVars, ghosts
    <2>2. ThreadAt(d, g, q, n, b, s)
      BY <1>i, <1>u, <1>y, <2>1, AllAsked
    <2> QED
      BY <1>n, <1>u, <1>z, <2>1, <2>2
  <1>15. CASE ReactionFailed
    <2>1. /\ e = r.previous /\ c = (b \/ d # r.optimistic \/ n # r.since) /\ q = Free
          /\ g = f /\ m = n /\ t = s /\ UNCHANGED posted /\ r.phase = "error"
      BY <1>15, <1>v, <1>w DEF ReactionFailed, RestoreThread, serverVars
    <2>2. r # Free
      BY <2>1, SendingShapes
    <2>3. ThreadAt(r.previous, f, Free, n, c, s)
      BY <1>i, <1>x, <1>y, <2>1, <2>2, RolledBack
    <2> QED
      BY <1>n, <1>u, <1>z, <2>1, <2>3
  <1>16. CASE ApplyReaction
    <2>1. /\ g = (IF d = NoData THEN f ELSE Asked("all", d)) /\ m = n + 1 /\ n < Len(log)
          /\ e = d /\ q = r /\ c = b /\ t = s /\ UNCHANGED posted
      BY <1>16, <1>v, <1>w DEF ApplyReaction, Refresh, serverVars, ghosts
    <2>2. ThreadAt(d, g, q, m, b, s)
      BY <1>i, <1>x, <1>y, <2>1, AllAsked
    <2>3. m <= Len(log)
      BY <1>u, <1>y, <2>1
    <2> QED
      BY <1>n, <1>z, <2>1, <2>2, <2>3
  <1>17. CASE ApplyCreated
    <2>1. PICK x, p : x = log[n + 1].id /\ p = log[n + 1].parent
      OBVIOUS
    <2>2. /\ n < Len(log) /\ log[n + 1].kind = "created" /\ m = n + 1
          /\ g = f /\ q = r /\ c = b /\ t = s /\ UNCHANGED posted
          /\ x \notin IdsOf(d.rows) =>
               data' = IF d = NoData THEN d ELSE PutInFront(Row(x, p, "synced", NoReactions))
          /\ x \in IdsOf(d.rows) => data' = data
      BY <1>17, <1>v, <1>w, <2>1 DEF ApplyCreated, Event, IsNew, Known, serverVars
    <2>3. x \in Ids /\ p \in Parents
      <3>1. log[n + 1] \in Events
        BY <1>m, <1>u, <1>y, <2>2 DEF ServerTypes
      <3> QED
        BY <2>1, <3>1 DEF Events
    <2>4. PICK row : row = Row(x, p, "synced", NoReactions)
      OBVIOUS
    <2>5. row \in RowSet /\ row.id = x /\ row.sync = "synced" /\ row.shown = NoReactions
      BY <1>m, <2>3, <2>4, ShownTypes DEF Row, RowSet
    <2>6. /\ e = d \/ /\ d # NoData /\ e # NoData /\ e.older = d.older /\ e.pages = d.pages
                      /\ \A i \in DOMAIN e.rows :
                           \/ e.rows[i].id = x /\ e.rows[i].sync = "synced" /\ e.rows[i].shown = NoReactions
                           \/ \E j \in DOMAIN d.rows : e.rows[i] = d.rows[j]
                      /\ IdsOf(d.rows) \subseteq IdsOf(e.rows)
          /\ d # NoData => x \in IdsOf(e.rows)
      <3>1. CASE x \in IdsOf(d.rows) \/ d = NoData
        BY <1>v, <1>w, <2>2, <3>1
      <3>2. CASE x \notin IdsOf(d.rows) /\ d # NoData
        <4>1. data \in DataSet /\ e = PutInFront(row)
          BY <1>u, <1>v, <1>w, <2>2, <2>4, <3>2
        <4>2. /\ e # NoData
              /\ e.older = (IF d = NoData THEN 0 ELSE d.older)
              /\ e.pages = (IF d = NoData THEN 1 ELSE d.pages)
              /\ \A i \in DOMAIN e.rows : e.rows[i] = row \/ \E j \in DOMAIN d.rows : e.rows[i] = d.rows[j]
              /\ IdsOf(e.rows) = IdsOf(d.rows) \cup {x}
          BY <1>v, <2>5, <4>1, FrontRow
        <4> QED
          BY <2>5, <3>2, <4>2
      <3> QED
        BY <3>1, <3>2
    <2>7. ThreadAt(e, f, r, n + 1, b, s)
      BY <1>i, <1>y, <2>1, <2>2, <2>6, CreatedApplied
    <2>8. m <= Len(log)
      BY <1>u, <1>y, <2>2
    <2> QED
      BY <1>n, <1>z, <2>2, <2>7, <2>8
  <1> QED
    BY <1>1, <1>2, <1>3, <1>4, <1>5, <1>6, <1>7, <1>8, <1>9, <1>10, <1>11, <1>12, <1>13, <1>14, <1>15, <1>16, <1>17
    DEF Next, UserStep, ServerStep, AnswerStep, StreamStep

-----------------------------------------------------------------------------
(* The theorems *)

\* The two comments a task starts with.
LEMMA SeedCount == IsFiniteSet(Seeds) /\ Cardinality(Seeds) = 2
  <1> DEFINE one == {<<"seed", 1>>}
  <1>1. IsFiniteSet(one) /\ Cardinality(one) = 1
    BY FS_Singleton
  <1>2. Seeds = one \cup {<<"seed", 2>>} /\ <<"seed", 2>> \notin one
    BY DEF Seeds
  <1> HIDE DEF one
  <1>3. IsFiniteSet(one \cup {<<"seed", 2>>}) /\ Cardinality(one \cup {<<"seed", 2>>}) = Cardinality(one) + 1
    BY <1>1, <1>2, FS_AddElement
  <1> QED
    BY <1>1, <1>2, <1>3

\* The comments and the reactions of the start.
LEMMA StartFacts ==
  ASSUME ServerInit
  PROVE  /\ ServerTypes /\ Len(posted) = 2 /\ DOMAIN posted = {1, 2} /\ PostedIds = Seeds
         /\ posted[1].id = <<"seed", 1>> /\ posted[2].id = <<"seed", 2>>
         /\ posted[1].text = NoText /\ posted[2].text = NoText
         /\ log = <<>> /\ Len(log) = 0 /\ DOMAIN log = {} /\ cursor = 0
         /\ \A c \in Ids \ Seeds : mine[c] = Nobody /\ theirs[c] = Nobody
  <1> DEFINE first == [id |-> <<"seed", 1>>, parent |-> Root, text |-> NoText]
             second == [id |-> <<"seed", 2>>, parent |-> <<"seed", 1>>, text |-> NoText]
  <1>1. posted = <<first, second>> /\ log = <<>> /\ cursor = 0
    BY DEF ServerInit
  <1>2. <<"seed", 1>> \in Ids /\ <<"seed", 2>> \in Ids
    BY Basics DEF Seeds
  <1>3. first \in Comments /\ second \in Comments
    BY <1>2 DEF Comments, Parents, NoText
  <1>4. first.id = <<"seed", 1>> /\ second.id = <<"seed", 2>> /\ first.text = NoText /\ second.text = NoText
    OBVIOUS
  <1> HIDE DEF first, second
  <1>5. posted \in Seq(Comments) /\ Len(posted) = 2 /\ DOMAIN posted = {1, 2} /\ posted[1] = first /\ posted[2] = second
    BY <1>1, <1>3
  <1>6. PostedIds = Seeds
    BY <1>4, <1>5 DEF PostedIds, IdsOf, Seeds
  <1>7. log \in Seq(Events) /\ Len(log) = 0 /\ DOMAIN log = {}
    BY <1>1
  <1>8. PICK ty \in Types \ Clicked : mine = [c \in Ids |-> IF c = <<"seed", 2>> THEN ty ELSE Nobody]
    BY DEF ServerInit
  <1>9. theirs = [c \in Ids |-> Nobody]
    BY DEF ServerInit
  <1>10. mine \in [Ids -> Types \cup {Nobody}] /\ theirs \in [Ids -> Types \cup {Nobody}]
    BY <1>8, <1>9
  <1>11. \A c \in Ids \ Seeds : mine[c] = Nobody /\ theirs[c] = Nobody
    BY <1>8, <1>9 DEF Seeds
  <1> QED
    BY <1>1, <1>4, <1>5, <1>6, <1>7, <1>10, <1>11 DEF ServerTypes

\* The invariant holds at the start.
LEMMA IInvInit == Init => IInv
  <1> SUFFICES ASSUME Init PROVE IInv
    OBVIOUS
  <1>1. /\ ServerTypes /\ Len(posted) = 2 /\ DOMAIN posted = {1, 2} /\ PostedIds = Seeds
        /\ posted[1].id = <<"seed", 1>> /\ posted[2].id = <<"seed", 2>>
        /\ posted[1].text = NoText /\ posted[2].text = NoText
        /\ log = <<>> /\ Len(log) = 0 /\ DOMAIN log = {} /\ cursor = 0
        /\ \A c \in Ids \ Seeds : mine[c] = Nobody /\ theirs[c] = Nobody
    BY StartFacts DEF Init
  <1>2. /\ draft = NoText /\ replyTo = Root /\ sending = Free /\ reacting = Free
        /\ data = NoData /\ threadFetch = Asked("all", NoData)
        /\ count = 2 /\ counted = Seeds /\ countFetch = Idle
        /\ typed = 0 /\ replies = 0 /\ own = 0 /\ outside = 0
        /\ behind = FALSE /\ drift = FALSE /\ lost = {}
    BY DEF Init, ComposerInit, CacheInit
  <1>3. NoData \in DataSet
    <2>1. <<>> \in Seq(RowSet)
      OBVIOUS
    <2> QED
      BY <2>1 DEF NoData, DataSet
  <1>4. /\ Asked("all", NoData) \in Requests /\ Asked("all", NoData).kind = "all"
        /\ Asked("all", NoData).pages = NoData /\ Asked("all", NoData).phase = "asked" /\ Asked("all", NoData) # Idle
    BY <1>3, FetchShapes DEF Kinds
  <1>5. TypeInv
    <2>1. Root \in Parents /\ NoText \in Nat /\ 0 \in 0..MaxOwn /\ 0 \in 0..MaxOutside
      BY Basics DEF Parents, NoText
    <2>2. data \in DataSet /\ count \in Nat /\ threadFetch \in Requests /\ countFetch = Idle
      BY <1>2, <1>3, <1>4
    <2>3. cursor \in Nat /\ cursor <= Len(log) /\ counted \subseteq Ids /\ lost \subseteq Ids
      BY <1>1, <1>2, Basics
    <2>4. PageTypes
      BY <1>2, <2>1, <2>2, <2>3 DEF PageTypes
    <2> QED
      BY <1>1, <2>4 DEF TypeInv
  <1>6. \A n \in Nat : Created(n) = Seeds
    BY <1>1 DEF Created, CreatedIn
  <1>7. ServerInv
    <2>1. \A n \in Nat : <<"own", n>> \notin Seeds /\ <<"other", n>> \notin Seeds
      BY DEF Seeds
    <2>2. \A i, j \in DOMAIN posted : posted[i].id = posted[j].id => i = j
      BY <1>1
    <2>3. PostedIds = Created(Len(log))
      BY <1>1, <1>6
    <2> QED
      BY <1>1, <2>1, <2>2, <2>3 DEF ServerInv
  <1>8. SendingInv
    BY <1>2 DEF SendingInv
  <1>9. TextInv
    BY <1>1, <1>2 DEF TextInv, NoText
  <1>10. CountInv
    <2>1. PostedCount
      BY <1>1, SeedCount DEF PostedCount
    <2>2. CountedInv
      BY <1>1, <1>2, <1>6, SeedCount DEF CountedInv, Idle
    <2> QED
      BY <2>1, <2>2 DEF CountInv
  <1>11. ThreadInv
    <2>1. NoData.rows = <<>> /\ DOMAIN NoData.rows = {} /\ NoData.older = 0
      BY DEF NoData
    <2>2. PagesSettled(NoData, Free)
      BY <1>1, <2>1 DEF PagesSettled
    <2>3. Settled(NoData, Asked("all", NoData), Free, Free)
      BY <1>4, <2>2 DEF Settled
    <2>4. Pending(NoData, FALSE, Free) /\ DataRight(NoData, Asked("all", NoData), Free, 0, FALSE)
      BY <1>4, <2>1 DEF Pending, DataRight
    <2>5. AnswerRight(Asked("all", NoData)) /\ ReactingRight(Asked("all", NoData), Free, 0, FALSE)
      BY <1>4 DEF AnswerRight, ReactingRight
    <2> QED
      BY <1>1, <1>2, <2>3, <2>4, <2>5 DEF ThreadInv, ThreadAt
  <1> QED
    BY <1>5, <1>7, <1>8, <1>9, <1>10, <1>11 DEF IInv

\* And after every step.
LEMMA IInvNext == IInv /\ [Next]_vars => IInv'
  <1> SUFFICES ASSUME IInv, [Next]_vars PROVE IInv'
    OBVIOUS
  <1>1. TypeInv /\ ServerInv /\ SendingInv /\ TextInv /\ PostedCount /\ CountedInv /\ ThreadInv
    BY DEF IInv, CountInv
  <1>2. TypeInv'
    BY <1>1, TypesNext
  <1>3. ServerInv' /\ SendingInv' /\ TextInv' /\ PostedCount'
    BY <1>1, ServerNext, SendingNext, TextNext, PostedNext
  <1>4. CountedInv'
    BY <1>1, <1>2, CountNext
  <1>5. ThreadInv'
    BY <1>1, <1>2, ThreadNext
  <1> QED
    BY <1>2, <1>3, <1>4, <1>5 DEF IInv, CountInv

THEOREM IInvAlways == Spec => []IInv
  BY IInvInit, IInvNext, PTL DEF Spec

\* The texts overwritten and the comments brought ahead are texts and comments.
LEMMA HistoryNext == TypeInv /\ HistoryTypes /\ [Next]_vars => HistoryTypes'
  <1> SUFFICES ASSUME TypeInv, HistoryTypes, [Next]_vars PROVE HistoryTypes'
    OBVIOUS
  <1>1. CASE CommentFailed
    <2>1. overwritten' \in {overwritten, overwritten \cup {draft}} /\ ahead' = ahead
      BY <1>1 DEF CommentFailed, RestoreComposer
    <2> QED
      BY <2>1 DEF HistoryTypes, TypeInv, PageTypes
  <1>2. CASE ApplyCreated
    <2>1. Event.id \in Ids
      <3>1. cursor + 1 \in DOMAIN log /\ log[cursor + 1] \in Events
        BY <1>2 DEF ApplyCreated, TypeInv, ServerTypes, PageTypes
      <3> QED
        BY <3>1 DEF Event, Events
    <2>2. ahead' \in {ahead, ahead \cup {Event.id}} /\ overwritten' = overwritten
      BY <1>2 DEF ApplyCreated
    <2> QED
      BY <2>1, <2>2 DEF HistoryTypes
  <1>3. CASE UserStep \/ ServerStep \/ ApplyReaction \/ UNCHANGED vars
    <2>1. UNCHANGED <<overwritten, ahead>>
      <3>1. CASE UserStep \/ UNCHANGED vars
        BY <3>1 DEF UserStep, Type, Reply, CancelReply, SendComment, React, LoadOlder, ReloadTask, vars, ghosts
      <3>2. CASE ServerStep \/ ApplyReaction
        BY <3>2 DEF ServerStep, OthersComment, OthersReact, ServeThread, ServeTask, ServeComment, RefuseComment,
           ServeReaction, RefuseReaction, ApplyReaction, ghosts
      <3> QED
        BY <1>3, <3>1, <3>2
    <2> QED
      BY <2>1 DEF HistoryTypes
  <1>4. CASE ThreadArrives \/ TaskArrives \/ CommentSaved \/ ReactionSaved \/ ReactionFailed
    <2>1. UNCHANGED <<overwritten, ahead>>
      BY <1>4 DEF ThreadArrives, TaskArrives, CommentSaved, ReactionSaved, ReactionFailed, ghosts
    <2> QED
      BY <2>1 DEF HistoryTypes
  <1> QED
    BY <1>1, <1>2, <1>3, <1>4 DEF Next, AnswerStep, StreamStep

\* Every variable of the page, of the server and of their requests has a value
\* of its type: the rows of the cached pages, the answers on the way, the
\* roll-back of a reaction.
THEOREM ThreadTypeCorrect == Spec => [](TypeInv /\ HistoryTypes)
  <1>1. IInv => TypeInv
    BY DEF IInv
  <1>2. Init => HistoryTypes
    BY DEF Init, HistoryTypes
  <1>3. TypeInv /\ HistoryTypes /\ [Next]_vars => HistoryTypes'
    BY HistoryNext
  <1> QED
    BY <1>1, <1>2, <1>3, IInvAlways, PTL DEF Spec

\* use-project-events.ts:110, comment-thread.tsx:173: once nothing is under way
\* the thread shows every comment as far as it is loaded, with its reactions,
\* unless an answer or a roll-back has left it behind.
THEOREM ThreadAgrees == Spec => []ThreadConverges
  <1>1. IInv => ThreadConverges
    <2> SUFFICES ASSUME IInv, Quiet, ~behind
                 PROVE  /\ \A i \in DOMAIN posted : Loaded(i) => Known(posted[i].id)
                        /\ \A i \in DOMAIN data.rows :
                             LET row == data.rows[i]
                             IN  /\ row.sync # "pending"
                                 /\ row.sync = "synced" =>
                                      row.id \in PostedIds /\ row.shown = ShownReactions(row.id)
                                 /\ row.sync = "failed" => row.id \notin PostedIds \/ row.id \in lost
      BY DEF ThreadConverges
    <2>1. cursor = Len(log) /\ threadFetch = Idle /\ sending = Free /\ reacting = Free
      BY DEF Quiet
    <2>2. DOMAIN log = 1..Len(log) /\ Len(log) \in Nat
      BY DEF IInv, TypeInv, ServerTypes
    <2>3. \A c : NoneAfter(c, Len(log)) /\ ~ToCome(c, Len(log))
      BY <2>2 DEF NoneAfter, ToCome
    <2>4. Settled(data, threadFetch, reacting, sending) /\ Pending(data, behind, sending)
          /\ DataRight(data, threadFetch, reacting, cursor, behind)
      BY DEF IInv, ThreadInv, ThreadAt
    <2>5. LoadedBy(data, Len(log)) /\ \A i \in DOMAIN data.rows : RowRight(data.rows[i], Len(log))
      BY <2>1, <2>4, FetchShapes DEF DataRight
    <2>6. \A i \in DOMAIN posted : Loaded(i) => Known(posted[i].id)
      BY <2>3, <2>5 DEF LoadedBy, Loaded, Known
    <2>7. ASSUME NEW i \in DOMAIN data.rows
          PROVE  /\ data.rows[i].sync # "pending"
                 /\ data.rows[i].sync = "synced" =>
                      data.rows[i].id \in PostedIds /\ data.rows[i].shown = ShownReactions(data.rows[i].id)
                 /\ data.rows[i].sync = "failed" => data.rows[i].id \notin PostedIds \/ data.rows[i].id \in lost
      <3>1. data.rows[i].sync # "pending"
        BY <2>1, <2>4 DEF Pending
      <3>2. data.rows[i].shown = ShownReactions(data.rows[i].id)
        BY <2>3, <2>5 DEF RowRight
      <3>3. RowSettled(data.rows[i], sending)
        BY <2>4 DEF Settled, PagesSettled
      <3> QED
        BY <3>1, <3>2, <3>3 DEF RowSettled
    <2> QED
      BY <2>6, <2>7
  <1> QED
    BY <1>1, IInvAlways, PTL

\* db/seed/SCENARIOS.md:72: the echo of a comment is not counted a second time:
\* once nothing is under way the count is that of the server's comments, unless
\* its read and the stream disagreed.
THEOREM CountAgrees == Spec => []CountConverges
  <1>1. IInv => CountConverges
    <2> SUFFICES ASSUME IInv, Quiet, ~drift PROVE count = Len(posted)
      BY DEF CountConverges
    <2>1. cursor = Len(log) /\ sending = Free /\ countFetch = Idle
      BY DEF Quiet
    <2>2. count = Cardinality(counted) /\ Created(cursor) \subseteq counted /\ counted \subseteq PostedIds
      BY <2>1 DEF IInv, CountInv, CountedInv
    <2>3. PostedIds = Created(Len(log)) /\ Cardinality(PostedIds) = Len(posted)
      BY DEF IInv, ServerInv, CountInv, PostedCount
    <2>4. counted = PostedIds
      BY <2>1, <2>2, <2>3
    <2> QED
      BY <2>2, <2>3, <2>4
  <1> QED
    BY <1>1, IInvAlways, PTL

\* A text is in the composer, on its way or saved, unless the text of a comment
\* that failed was put over it; it is saved twice only after a lost answer.
THEOREM TextsAreKept == Spec => []TextsSurvive
  <1>1. Init => TextsSurvive
    <2> SUFFICES ASSUME Init PROVE TextsSurvive
      OBVIOUS
    <2>1. typed = 0 /\ DOMAIN posted = {1, 2} /\ posted[1].text = NoText /\ posted[2].text = NoText
      BY StartFacts DEF Init
    <2> QED
      BY <2>1 DEF TextsSurvive
  <1>2. IInv /\ TextsSurvive /\ [Next]_vars => TextsSurvive'
    BY TextsKept DEF IInv
  <1> QED
    BY <1>1, <1>2, IInvAlways, PTL DEF Spec


-----------------------------------------------------------------------------
(* The rows of a comment *)

\* Below, d stands for pages, a for the comments an event brought ahead of their
\* page and o for the comments the user has sent.  Two rows are of one comment,
\* or a comment has a row while the page that holds it is still to be loaded,
\* only if an event brought it ahead; a row is of a comment that was saved or
\* that the user sent.
Apart(d, a, o) ==
  /\ d.older <= Len(posted)
  /\ \A i, j \in DOMAIN d.rows : d.rows[i].id = d.rows[j].id => i = j \/ d.rows[i].id \in a
  /\ \A i \in DOMAIN posted : posted[i].id \in IdsOf(d.rows) => i > d.older \/ posted[i].id \in a
  /\ \A i \in DOMAIN d.rows : d.rows[i].id \in PostedIds \/ \E n \in 1..o : d.rows[i].id = <<"own", n>>

\* So it is of the pages, of those a request was made with, of those it was
\* answered with and of those a roll-back puts back.
RowsAt(d, f, r, a, o) ==
  /\ Apart(d, a, o)
  /\ f # Idle => Apart(f.pages, a, o)
  /\ f.phase = "read" => Apart(f.data, a, o)
  /\ r # Free => Apart(r.previous, a, o)

RowsInv == RowsAt(data, threadFetch, reacting, ahead, own)

\* Rows stay apart when the server moves.
LEMMA ApartStays ==
  ASSUME ServerTypes, ServerMoves, NEW d \in DataSet, NEW a, NEW o, Apart(d, a, o)
  PROVE  Apart(d, a, o)'
  <1>g. ServerGrows
    BY Grows
  <1>d. d.older \in Nat
    BY DEF DataSet
  <1>a. /\ d.older <= Len(posted)
        /\ \A i, j \in DOMAIN d.rows : d.rows[i].id = d.rows[j].id => i = j \/ d.rows[i].id \in a
        /\ \A i \in DOMAIN posted : posted[i].id \in IdsOf(d.rows) => i > d.older \/ posted[i].id \in a
        /\ \A i \in DOMAIN d.rows : d.rows[i].id \in PostedIds \/ \E n \in 1..o : d.rows[i].id = <<"own", n>>
    BY DEF Apart
  <1>1. d.older <= Len(posted')
    BY <1>a, <1>d, <1>g DEF ServerGrows
  <1>2. ASSUME NEW i \in DOMAIN posted', posted'[i].id \in IdsOf(d.rows)
        PROVE  i > d.older \/ posted'[i].id \in a
    <2>1. CASE i \in DOMAIN posted
      BY <1>2, <1>a, <1>g, <2>1 DEF ServerGrows
    <2>2. CASE i \notin DOMAIN posted
      BY <1>a, <1>d, <1>g, <2>2 DEF ServerGrows
    <2> QED
      BY <2>1, <2>2
  <1>3. \A i \in DOMAIN d.rows : d.rows[i].id \in PostedIds' \/ \E n \in 1..o : d.rows[i].id = <<"own", n>>
    BY <1>a, <1>g DEF ServerGrows
  <1> QED
    BY <1>1, <1>2, <1>3, <1>a DEF Apart, IdsOf

\* And when an event brings a comment ahead or the user sends one.
LEMMA ApartGrows ==
  ASSUME NEW d, NEW a, NEW c, a \subseteq c, NEW o \in Nat, NEW p \in Nat, o <= p, Apart(d, a, o)
  PROVE  Apart(d, c, p)
  BY DEF Apart

\* Pages whose rows are those of the same comments.
LEMMA ApartAlike ==
  ASSUME NEW d, NEW e, NEW a, NEW o, Apart(d, a, o), e.older = d.older, DOMAIN e.rows = DOMAIN d.rows,
         \A i \in DOMAIN d.rows : e.rows[i].id = d.rows[i].id
  PROVE  Apart(e, a, o)
  <1>1. IdsOf(e.rows) = IdsOf(d.rows)
    BY DEF IdsOf
  <1> QED
    BY <1>1 DEF Apart

\* A row is put in front of others: that of a comment without one.
LEMMA ApartInFront ==
  ASSUME ServerTypes, data \in DataSet, NEW row \in RowSet, row.id \notin IdsOf(data.rows),
         NEW d, d = PutInFront(row), NEW a, NEW o, Apart(data, a, o),
         \A i \in DOMAIN posted : posted[i].id = row.id => i > data.older \/ row.id \in a,
         row.id \in PostedIds \/ \E n \in 1..o : row.id = <<"own", n>>
  PROVE  Apart(d, a, o)
  <1>0. d \in DataSet /\ DOMAIN d.rows = 1..Len(d.rows)
    BY FrontRow DEF DataSet
  <1>1. d.older = data.older
    BY FrontRow DEF NoData
  <1>2. IdsOf(d.rows) = IdsOf(data.rows) \cup {row.id}
    BY FrontRow
  <1>3. \A i \in DOMAIN d.rows : \/ i = 1 /\ d.rows[i] = row
                                 \/ i - 1 \in DOMAIN data.rows /\ d.rows[i] = data.rows[i - 1]
    BY FrontRow
  <1>4. \A j \in DOMAIN data.rows : data.rows[j].id # row.id
    BY DEF IdsOf
  <1>5. ASSUME NEW i \in DOMAIN d.rows, NEW j \in DOMAIN d.rows, d.rows[i].id = d.rows[j].id
        PROVE  i = j \/ d.rows[i].id \in a
    <2>1. CASE i = 1 /\ d.rows[i] = row
      BY <1>3, <1>4, <1>5, <2>1
    <2>2. CASE j = 1 /\ d.rows[j] = row
      BY <1>3, <1>4, <1>5, <2>2
    <2>3. CASE /\ i - 1 \in DOMAIN data.rows /\ d.rows[i] = data.rows[i - 1]
               /\ j - 1 \in DOMAIN data.rows /\ d.rows[j] = data.rows[j - 1]
      <3>1. i - 1 = j - 1 \/ d.rows[i].id \in a
        BY <1>5, <2>3 DEF Apart
      <3> QED
        BY <1>0, <3>1
    <2> QED
      BY <1>3, <2>1, <2>2, <2>3
  <1>6. ASSUME NEW i \in DOMAIN posted, posted[i].id \in IdsOf(d.rows)
        PROVE  i > d.older \/ posted[i].id \in a
    BY <1>1, <1>2, <1>6 DEF Apart
  <1>7. ASSUME NEW i \in DOMAIN d.rows
        PROVE  d.rows[i].id \in PostedIds \/ \E n \in 1..o : d.rows[i].id = <<"own", n>>
    BY <1>3 DEF Apart
  <1> QED
    BY <1>1, <1>5, <1>6, <1>7 DEF Apart

\* A page of the server: its rows are of different comments, those before one.
LEMMA ListedApart ==
  ASSUME ServerTypes, ServerInv, NEW before \in 1..(Len(posted) + 1), NEW limit \in Nat, NEW rows,
         rows = Listed(before, limit)
  PROVE  /\ \A i, j \in DOMAIN rows : rows[i].id = rows[j].id => i = j
         /\ \A k \in DOMAIN posted : posted[k].id \in IdsOf(rows) => k < before /\ k > before - 1 - Len(rows)
  <1>0. rows \in Seq(RowSet) /\ Len(rows) \in Nat /\ DOMAIN rows = 1..Len(rows) /\ Len(posted) \in Nat
    <2>1. rows \in Seq(RowSet)
      BY ListedRows
    <2> QED
      BY <2>1 DEF ServerTypes
  <1>1. \A i \in DOMAIN rows : before - i \in DOMAIN posted /\ rows[i].id = posted[before - i].id
    BY ListedRows
  <1>2. \A i, j \in DOMAIN posted : posted[i].id = posted[j].id => i = j
    BY DEF ServerInv
  <1>3. ASSUME NEW i \in DOMAIN rows, NEW j \in DOMAIN rows, rows[i].id = rows[j].id PROVE i = j
    <2>1. before - i = before - j
      BY <1>1, <1>2, <1>3
    <2> QED
      BY <1>0, <2>1
  <1>4. ASSUME NEW k \in DOMAIN posted, posted[k].id \in IdsOf(rows)
        PROVE  k < before /\ k > before - 1 - Len(rows)
    <2>1. PICK i \in DOMAIN rows : posted[k].id = rows[i].id
      BY <1>4 DEF IdsOf
    <2>2. k = before - i
      BY <1>1, <1>2, <2>1
    <2> QED
      BY <1>0, <2>2
  <1> QED
    BY <1>3, <1>4


\* An answer of the server: the rows of the pages asked with and those that the
\* server adds, or the server's own.
LEMMA ServedApart ==
  ASSUME ServerTypes, ServerInv, NEW old \in DataSet, NEW kind \in Kinds, NEW answer, ServedAs(old, kind, answer),
         NEW a, NEW o, Apart(old, a, o)
  PROVE  Apart(answer, a, o)
  <1> DEFINE before == IF kind = "older" THEN old.older + 1 ELSE Len(posted) + 1
             limit == IF kind = "older" \/ old = NoData THEN PageSize ELSE old.pages * PageSize
             rows == Listed(before, limit)
             all == IF kind = "older" THEN old.rows \o rows ELSE rows
  <1>0. /\ old.rows \in Seq(RowSet) /\ old.pages \in Nat /\ old.older \in Nat /\ old.older <= Len(posted)
        /\ Len(posted) \in Nat /\ PageSize \in Nat /\ DOMAIN posted = 1..Len(posted)
        /\ DOMAIN old.rows = 1..Len(old.rows) /\ Len(old.rows) \in Nat
    BY Basics DEF DataSet, ServerTypes, Apart
  <1>1. before \in 1..(Len(posted) + 1) /\ limit \in Nat
    <2>1. before \in 1..(Len(posted) + 1)
      BY <1>0
    <2>2. old.pages * PageSize \in Nat
      BY <1>0
    <2> QED
      BY <1>0, <2>1, <2>2
  <1>b. kind = "older" => before = old.older + 1
    OBVIOUS
  <1>2. answer.rows = all /\ answer.older = before - 1 - Len(rows)
    BY DEF ServedAs
  <1> HIDE DEF before, limit
  <1>3. /\ rows \in Seq(RowSet) /\ Len(rows) < before
        /\ \A i \in DOMAIN rows : rows[i].id \in PostedIds
    BY <1>1, ListedRows
  <1>4. /\ \A i, j \in DOMAIN rows : rows[i].id = rows[j].id => i = j
        /\ \A k \in DOMAIN posted : posted[k].id \in IdsOf(rows) => k < before /\ k > before - 1 - Len(rows)
    BY <1>1, ListedApart
  <1>5. Len(rows) \in Nat /\ DOMAIN rows = 1..Len(rows)
    BY <1>3
  <1> HIDE DEF rows
  <1>6. answer.older <= Len(posted)
    BY <1>0, <1>1, <1>2, <1>3, <1>5
  <1>7. CASE kind # "older"
    <2>1. answer.rows = rows
      BY <1>2, <1>7
    <2> QED
      BY <1>2, <1>3, <1>4, <1>6, <2>1 DEF Apart
  <1>8. CASE kind = "older"
    <2>1. answer.rows = old.rows \o rows
      BY <1>2, <1>8
    <2> HIDE DEF all
    <2>2. /\ Len(answer.rows) = Len(old.rows) + Len(rows) /\ answer.rows \in Seq(RowSet)
          /\ \A i \in 1..(Len(old.rows) + Len(rows)) :
               answer.rows[i] = IF i <= Len(old.rows) THEN old.rows[i] ELSE rows[i - Len(old.rows)]
      BY <1>0, <1>3, <2>1, ConcatProperties
    <2>3. DOMAIN answer.rows = 1..(Len(old.rows) + Len(rows))
      BY <2>2
    <2>4. ASSUME NEW i \in DOMAIN answer.rows
          PROVE  \/ i \in DOMAIN old.rows /\ answer.rows[i] = old.rows[i]
                 \/ i - Len(old.rows) \in DOMAIN rows /\ answer.rows[i] = rows[i - Len(old.rows)]
      <3>1. CASE i <= Len(old.rows)
        BY <1>0, <2>2, <2>3, <3>1
      <3>2. CASE i > Len(old.rows)
        <4>1. i - Len(old.rows) \in 1..Len(rows) /\ ~(i <= Len(old.rows))
          BY <1>0, <1>5, <2>3, <3>2
        <4> QED
          BY <1>5, <2>2, <2>3, <4>1
      <3> QED
        BY <1>0, <2>3, <3>1, <3>2
    <2>5. /\ \A i, j \in DOMAIN old.rows : old.rows[i].id = old.rows[j].id => i = j \/ old.rows[i].id \in a
          /\ \A i \in DOMAIN posted : posted[i].id \in IdsOf(old.rows) => i > old.older \/ posted[i].id \in a
          /\ \A i \in DOMAIN old.rows : old.rows[i].id \in PostedIds \/ \E n \in 1..o : old.rows[i].id = <<"own", n>>
      BY DEF Apart
    <2>6. ASSUME NEW i \in DOMAIN old.rows, NEW j \in DOMAIN rows, old.rows[i].id = rows[j].id
          PROVE  rows[j].id \in a
      <3>1. PICK k \in DOMAIN posted : posted[k].id = rows[j].id
        BY <1>3 DEF PostedIds, IdsOf
      <3>2. k < before /\ before = old.older + 1
        BY <1>4, <1>8, <1>b, <3>1 DEF IdsOf
      <3>3. k > old.older \/ posted[k].id \in a
        BY <2>5, <2>6, <3>1 DEF IdsOf
      <3> QED
        BY <1>0, <3>1, <3>2, <3>3
    <2>7. ASSUME NEW i \in DOMAIN answer.rows, NEW j \in DOMAIN answer.rows, answer.rows[i].id = answer.rows[j].id
          PROVE  i = j \/ answer.rows[i].id \in a
      <3>1. CASE i \in DOMAIN old.rows /\ answer.rows[i] = old.rows[i] /\ j \in DOMAIN old.rows /\ answer.rows[j] = old.rows[j]
        BY <2>5, <2>7, <3>1
      <3>2. CASE /\ i - Len(old.rows) \in DOMAIN rows /\ answer.rows[i] = rows[i - Len(old.rows)]
                 /\ j - Len(old.rows) \in DOMAIN rows /\ answer.rows[j] = rows[j - Len(old.rows)]
        <4>1. i - Len(old.rows) = j - Len(old.rows)
          BY <1>4, <2>7, <3>2
        <4> QED
          BY <1>0, <2>3, <4>1
      <3>3. CASE /\ i \in DOMAIN old.rows /\ answer.rows[i] = old.rows[i]
                 /\ j - Len(old.rows) \in DOMAIN rows /\ answer.rows[j] = rows[j - Len(old.rows)]
        BY <2>6, <2>7, <3>3
      <3>4. CASE /\ j \in DOMAIN old.rows /\ answer.rows[j] = old.rows[j]
                 /\ i - Len(old.rows) \in DOMAIN rows /\ answer.rows[i] = rows[i - Len(old.rows)]
        BY <2>6, <2>7, <3>4
      <3> QED
        BY <2>4, <3>1, <3>2, <3>3, <3>4
    <2>8. ASSUME NEW k \in DOMAIN posted, posted[k].id \in IdsOf(answer.rows)
          PROVE  k > answer.older \/ posted[k].id \in a
      <3>1. posted[k].id \in IdsOf(old.rows) \/ posted[k].id \in IdsOf(rows)
        BY <2>4, <2>8 DEF IdsOf
      <3>2. answer.older <= old.older /\ answer.older \in Int
        BY <1>0, <1>1, <1>2, <1>5, <1>8, <1>b
      <3>3. CASE posted[k].id \in IdsOf(old.rows)
        BY <1>0, <2>5, <3>2, <3>3
      <3>4. CASE posted[k].id \in IdsOf(rows)
        BY <1>2, <1>4, <3>4
      <3> QED
        BY <3>1, <3>3, <3>4
    <2>9. ASSUME NEW i \in DOMAIN answer.rows
          PROVE  answer.rows[i].id \in PostedIds \/ \E n \in 1..o : answer.rows[i].id = <<"own", n>>
      BY <1>3, <2>4, <2>5
    <2> QED
      BY <1>6, <2>7, <2>8, <2>9 DEF Apart
  <1> QED
    BY <1>7, <1>8

\* All that holds pages, when the server moves.
LEMMA RowsStay ==
  ASSUME ServerTypes, ServerMoves, NEW d \in DataSet, NEW f \in {Idle} \cup Requests \cup Answers,
         NEW r \in {Free} \cup Reactings, NEW a, NEW o, RowsAt(d, f, r, a, o)
  PROVE  RowsAt(d, f, r, a, o)'
  <1>f. /\ f # Idle => f.pages \in DataSet
        /\ f.phase = "read" => f.data \in DataSet
        /\ r # Free => r.previous \in DataSet
    BY FetchShapes, SendingShapes
  <1>1. Apart(d, a, o)'
    BY ApartStays DEF RowsAt
  <1>2. f # Idle => Apart(f.pages, a, o)'
    BY <1>f, ApartStays DEF RowsAt
  <1>3. f.phase = "read" => Apart(f.data, a, o)'
    BY <1>f, ApartStays DEF RowsAt
  <1>4. r # Free => Apart(r.previous, a, o)'
    BY <1>f, ApartStays DEF RowsAt
  <1> QED
    BY <1>1, <1>2, <1>3, <1>4 DEF RowsAt

\* Values that are those of the variables after the step.
LEMMA RowsAsIs ==
  ASSUME NEW d, d = data', NEW f, f = threadFetch', NEW r, r = reacting', NEW a, a = ahead',
         NEW o, o = own', RowsAt(d, f, r, a, o)'
  PROVE  RowsInv'
  BY DEF RowsInv, RowsAt, Apart

\* The rows at the start: none.
LEMMA RowsInit == Init => RowsInv
  <1> SUFFICES ASSUME Init PROVE RowsInv
    OBVIOUS
  <1>1. data = NoData /\ threadFetch = Asked("all", NoData) /\ reacting = Free /\ Len(posted) = 2
    BY StartFacts DEF Init, ComposerInit, CacheInit
  <1>2. DOMAIN NoData.rows = {} /\ NoData.older = 0 /\ IdsOf(NoData.rows) = {}
    BY DEF NoData, IdsOf
  <1>3. Apart(NoData, ahead, own)
    BY <1>1, <1>2 DEF Apart
  <1>4. Asked("all", NoData).pages = NoData /\ Asked("all", NoData).phase = "asked"
    BY DEF Asked
  <1> QED
    BY <1>1, <1>3, <1>4 DEF RowsInv, RowsAt

\* Every step keeps the rows apart.
LEMMA RowsNext ==
  ASSUME TypeInv, TypeInv', ServerInv, SendingInv, RowsInv, [Next]_vars
  PROVE  RowsInv'
  <1>m. ServerTypes /\ ServerMoves /\ ServerGrows
    BY StepMoves, Grows DEF TypeInv
  <1>v. PICK d, f, r, a, o : d = data /\ f = threadFetch /\ r = reacting /\ a = ahead /\ o = own
    OBVIOUS
  <1>w. PICK e, g, q, b, p : e = data' /\ g = threadFetch' /\ q = reacting' /\ b = ahead' /\ p = own'
    OBVIOUS
  <1>i. RowsAt(d, f, r, a, o)
    BY <1>v DEF RowsInv
  <1>x. /\ d \in DataSet /\ f \in {Idle} \cup Requests \cup Answers /\ r \in {Free} \cup Reactings
        /\ o \in Nat /\ p \in Nat
        /\ e \in DataSet /\ g \in {Idle} \cup Requests \cup Answers /\ q \in {Free} \cup Reactings
    BY <1>v, <1>w, Basics DEF TypeInv, PageTypes
  <1>z. ASSUME RowsAt(e, g, q, b, p) PROVE RowsInv'
    <2>1. RowsAt(e, g, q, b, p)'
      BY <1>m, <1>x, <1>z, RowsStay
    <2> QED
      BY <1>w, <2>1, RowsAsIs
  <1>k. Apart(d, a, o) /\ (f # Idle => Apart(f.pages, a, o)) /\ (f.phase = "read" => Apart(f.data, a, o))
        /\ (r # Free => Apart(r.previous, a, o))
    BY <1>i DEF RowsAt
  <1>h. Idle.phase = "idle"
    BY DEF Idle
  <1>1. CASE \/ OthersComment \/ OthersReact \/ ReloadTask \/ ServeTask \/ TaskArrives \/ Type \/ Reply \/ CancelReply
             \/ ServeComment \/ RefuseComment \/ UNCHANGED vars
    <2>1. e = d /\ g = f /\ q = r /\ b = a /\ p = o
      BY <1>1, <1>v, <1>w DEF OthersComment, OthersReact, ReloadTask, ServeTask, TaskArrives, Type, Reply, CancelReply,
         ServeComment, RefuseComment, vars, ghosts, bounds
    <2> QED
      BY <1>i, <1>z, <2>1
  <1>2. CASE ServeReaction \/ RefuseReaction
    <2>1. e = d /\ g = f /\ b = a /\ p = o
      BY <1>2, <1>v, <1>w DEF ServeReaction, RefuseReaction, ghosts, bounds
    <2>2. r \in Reactings /\ r # Free
      <3>1. r.phase = "sent"
        BY <1>2, <1>v DEF ServeReaction, RefuseReaction
      <3> QED
        BY <1>x, <3>1, SendingShapes
    <2>3. \E x \in {"sent", "ok", "error"} : q = [r EXCEPT !.phase = x]
      BY <1>2, <1>v, <1>w DEF ServeReaction, RefuseReaction
    <2>4. q.previous = r.previous
      BY <2>2, <2>3, ReactingPhase
    <2> QED
      BY <1>k, <1>z, <2>1, <2>2, <2>4 DEF RowsAt
  <1>3. CASE LoadOlder
    <2>1. e = d /\ g = Asked("older", d) /\ q = r /\ b = a /\ p = o
      BY <1>3, <1>v, <1>w DEF LoadOlder
    <2>2. g.pages = d /\ g.phase = "asked"
      BY <2>1 DEF Asked
    <2> QED
      BY <1>k, <1>z, <2>1, <2>2 DEF RowsAt
  <1>4. CASE ServeThread
    <2>1. e = d /\ q = r /\ b = a /\ p = o
      BY <1>4, <1>v, <1>w DEF ServeThread, ghosts, bounds
    <2>2. f \in Requests /\ f # Idle /\ f.pages \in DataSet /\ f.kind \in Kinds
      BY <1>4, <1>m, <1>v, ServedThread, FetchShapes DEF TypeInv, PageTypes
    <2>3. PICK y : /\ ServedAs(f.pages, f.kind, y)
                   /\ g = [phase |-> "read", kind |-> f.kind, pages |-> f.pages, at |-> Len(log), data |-> y]
      BY <1>4, <1>m, <1>v, <1>w, ServedThread DEF TypeInv, PageTypes
    <2>4. Apart(y, a, o)
      BY <1>k, <1>m, <2>2, <2>3, ServedApart
    <2>5. g.pages = f.pages /\ g.data = y
      BY <2>3
    <2> QED
      BY <1>k, <1>z, <2>1, <2>2, <2>4, <2>5 DEF RowsAt
  <1>5. CASE ThreadArrives
    <2>1. e = f.data /\ g = Idle /\ q = r /\ b = a /\ p = o /\ f.phase = "read"
      BY <1>5, <1>v, <1>w DEF ThreadArrives, bounds
    <2> QED
      BY <1>h, <1>k, <1>z, <2>1 DEF RowsAt
  <1>6. CASE SendComment
    <2>1. /\ data' = PutInFront(Row(<<"own", own + 1>>, replyTo, "pending", NoReactions))
          /\ g = Idle /\ q = r /\ b = a /\ p = o + 1
      BY <1>6, <1>v, <1>w DEF SendComment, CancelThread
    <2>2. PICK c : c = <<"own", o + 1>>
      OBVIOUS
    <2>3. PICK row : row = Row(c, replyTo, "pending", NoReactions)
      OBVIOUS
    <2>4. c \in Ids
      <3>1. own + 1 \in 1..MaxOwn
        BY <1>6, <1>v, <1>x, Basics DEF SendComment
      <3> QED
        BY <1>v, <2>2, <3>1, Basics
    <2>5. row \in RowSet /\ row.id = c
      BY <1>m, <2>3, <2>4, ShownTypes DEF TypeInv, PageTypes, Row, RowSet
    <2>6. c \notin PostedIds
      <3>1. <<"own", o + 1>> \in PostedIds => o + 1 <= o
        BY <1>v, <1>x DEF ServerInv
      <3> QED
        BY <1>x, <2>2, <3>1
    <2>7. c \notin IdsOf(d.rows)
      <3>1. ASSUME NEW i \in DOMAIN d.rows, d.rows[i].id = c PROVE FALSE
        <4>1. PICK n \in 1..o : d.rows[i].id = <<"own", n>>
          BY <1>k, <2>6, <3>1 DEF Apart
        <4>2. n = o + 1
          BY <2>2, <3>1, <4>1
        <4> QED
          BY <1>x, <4>1, <4>2
      <3> QED
        BY <3>1 DEF IdsOf
    <2>8. Apart(e, a, p)
      <3>1. Apart(data, a, p)
        BY <1>k, <1>v, <1>x, <2>1, ApartGrows
      <3>2. data \in DataSet /\ row.id \notin IdsOf(data.rows) /\ e = PutInFront(row)
        BY <1>v, <1>w, <1>x, <2>1, <2>2, <2>3, <2>5, <2>7
      <3>3. \A i \in DOMAIN posted : posted[i].id # row.id
        BY <2>5, <2>6 DEF PostedIds, IdsOf
      <3>4. \E n \in 1..p : row.id = <<"own", n>>
        BY <1>x, <2>1, <2>2, <2>5
      <3> QED
        BY <1>m, <2>5, <3>1, <3>2, <3>3, <3>4, ApartInFront
    <2>9. r # Free => Apart(r.previous, a, p)
      BY <1>k, <1>x, <2>1, ApartGrows
    <2> QED
      BY <1>h, <1>z, <2>1, <2>8, <2>9 DEF RowsAt
  <1>7. CASE CommentSaved
    <2>1. /\ sending.phase = "ok" /\ data' = SavedInPlace(sending.id, sending.parent)
          /\ g = f /\ q = r /\ b = a /\ p = o
      BY <1>7, <1>v, <1>w DEF CommentSaved, bounds
    <2>2. PICK c, parent : c = sending.id /\ parent = sending.parent
      OBVIOUS
    <2>3. c \in Ids /\ parent \in Parents
      <3>1. sending \in Sendings
        BY <2>1, SendingShapes DEF TypeInv, PageTypes
      <3> QED
        BY <2>2, <3>1, SendingShapes, Basics
    <2>4. /\ e.older = d.older /\ DOMAIN e.rows = DOMAIN d.rows
          /\ \A i \in DOMAIN d.rows :
               e.rows[i] = IF d.rows[i].id = c THEN Row(c, parent, "synced", NoReactions) ELSE d.rows[i]
      <3>1. data \in DataSet /\ e = SavedInPlace(c, parent)
        BY <1>v, <1>w, <1>x, <2>1, <2>2
      <3> QED
        BY <1>m, <1>v, <2>3, <3>1, SavedRows
    <2>5. \A i \in DOMAIN d.rows : e.rows[i].id = d.rows[i].id
      BY <2>4 DEF Row
    <2>6. Apart(e, a, o)
      BY <1>k, <2>4, <2>5, ApartAlike
    <2> QED
      BY <1>k, <1>z, <2>1, <2>6 DEF RowsAt
  <1>8. CASE CommentFailed
    <2>1. /\ sending.phase = "error" /\ FailedAs(sending.id, data')
          /\ g = f /\ q = r /\ b = a /\ p = o
      BY <1>8, <1>v, <1>w DEF CommentFailed, FailedAs, bounds
    <2>2. PICK c : c = sending.id
      OBVIOUS
    <2>3. c \in Ids
      <3>1. sending \in Sendings
        BY <2>1, SendingShapes DEF TypeInv, PageTypes
      <3> QED
        BY <2>2, <3>1, SendingShapes, Basics
    <2>4. /\ e.older = d.older /\ DOMAIN e.rows = DOMAIN d.rows
          /\ \A i \in DOMAIN d.rows : e.rows[i].id = d.rows[i].id
      <3>1. data \in DataSet /\ FailedAs(c, e)
        BY <1>v, <1>w, <1>x, <2>1, <2>2 DEF FailedAs
      <3> QED
        BY <1>v, <2>3, <3>1, FailedRows
    <2>5. Apart(e, a, o)
      BY <1>k, <2>4, ApartAlike
    <2> QED
      BY <1>k, <1>z, <2>1, <2>5 DEF RowsAt
  <1>9. CASE React
    <2>1. PICK i \in DOMAIN data.rows, ty \in Clicked :
            /\ ToggledAs(data.rows[i].id, ty, data')
            /\ reacting' = [phase |-> "sent", id |-> data.rows[i].id,
                            to |-> IF data.rows[i].shown.mine = ty THEN Nobody ELSE ty,
                            previous |-> data, optimistic |-> data', since |-> cursor]
      BY <1>9 DEF React, ToggledAs
    <2>2. g = Idle /\ b = a /\ p = o + 1 /\ q.previous = d
      BY <1>9, <1>v, <1>w, <2>1 DEF React, CancelThread
    <2>3. PICK x : x = data.rows[i].id
      OBVIOUS
    <2>4. x \in Ids /\ ty \in Types
      BY <1>v, <1>x, <2>3, RowTypes, Basics
    <2>5. e.older = d.older /\ SameRows(d, e)
      <3>1. data \in DataSet /\ ToggledAs(x, ty, e)
        BY <1>v, <1>w, <1>x, <2>1, <2>3 DEF ToggledAs
      <3>2. e.older = data.older /\ SameRows(data, e)
        BY <2>4, <3>1, ToggledRows
      <3> QED
        BY <1>v, <3>2
    <2>6. Apart(d, a, p)
      BY <1>k, <1>x, <2>2, ApartGrows
    <2>7. Apart(e, a, p)
      <3>1. DOMAIN e.rows = DOMAIN d.rows /\ \A j \in DOMAIN d.rows : e.rows[j].id = d.rows[j].id
        BY <2>5 DEF SameRows
      <3> QED
        BY <2>5, <2>6, <3>1, ApartAlike
    <2> QED
      BY <1>h, <1>z, <2>2, <2>6, <2>7 DEF RowsAt
  <1>10. CASE ReactionSaved \/ ApplyReaction
    <2>1. /\ g = (IF d = NoData THEN f ELSE Asked("all", d)) /\ q \in {r, Free}
          /\ e = d /\ b = a /\ p = o
      BY <1>10, <1>v, <1>w DEF ReactionSaved, ApplyReaction, Refresh, ghosts, bounds
    <2>2. Asked("all", d).pages = d /\ Asked("all", d).phase = "asked"
      BY DEF Asked
    <2>3. (g # Idle => Apart(g.pages, a, o)) /\ (g.phase = "read" => Apart(g.data, a, o))
      <3>1. CASE d = NoData
        BY <1>k, <2>1, <3>1
      <3>2. CASE d # NoData
        BY <1>k, <2>1, <2>2, <3>2
      <3> QED
        BY <3>1, <3>2
    <2> QED
      BY <1>k, <1>z, <2>1, <2>3 DEF RowsAt
  <1>11. CASE ReactionFailed
    <2>1. e = r.previous /\ q = Free /\ g = f /\ b = a /\ p = o /\ r.phase = "error"
      BY <1>11, <1>v, <1>w DEF ReactionFailed, RestoreThread, bounds
    <2>2. r # Free
      BY <2>1, SendingShapes
    <2> QED
      BY <1>k, <1>z, <2>1, <2>2 DEF RowsAt
  <1>12. CASE ApplyCreated
    <2>1. PICK c, parent : c = Event.id /\ parent = Event.parent
      OBVIOUS
    <2>2. /\ g = f /\ q = r /\ p = o
          /\ \/ e = d /\ b = a
             \/ c \notin IdsOf(d.rows) /\ b = (IF Unloaded(c) THEN a \cup {c} ELSE a)
                /\ e = IF d = NoData THEN d ELSE PutInFront(Row(c, parent, "synced", NoReactions))
      BY <1>12, <1>v, <1>w, <2>1 DEF ApplyCreated, IsNew, Known, bounds
    <2>3. c \in PostedIds /\ c \in Ids /\ parent \in Parents
      <3>1. cursor + 1 \in DOMAIN log /\ log[cursor + 1] \in Events
        BY <1>12, <1>m DEF ApplyCreated, TypeInv, PageTypes, ServerTypes
      <3> QED
        BY <2>1, <3>1 DEF Event, Events, ServerInv
    <2>4. CASE e = d /\ b = a
      BY <1>i, <1>z, <2>2, <2>4
    <2>5. CASE /\ c \notin IdsOf(d.rows) /\ b = (IF Unloaded(c) THEN a \cup {c} ELSE a)
               /\ e = IF d = NoData THEN d ELSE PutInFront(Row(c, parent, "synced", NoReactions))
      <3>1. a \subseteq b
        BY <2>5
      <3>2. Apart(d, b, o)
        BY <1>k, <1>x, <3>1, ApartGrows
      <3>3. /\ f # Idle => Apart(f.pages, b, o)
            /\ f.phase = "read" => Apart(f.data, b, o)
            /\ r # Free => Apart(r.previous, b, o)
        BY <1>k, <1>x, <3>1, ApartGrows
      <3>4. Apart(e, b, o)
        <4>1. CASE d = NoData
          BY <2>5, <3>2, <4>1
        <4>2. CASE d # NoData
          <5>1. PICK row : row = Row(c, parent, "synced", NoReactions)
            OBVIOUS
          <5>2. row \in RowSet /\ row.id = c
            BY <1>m, <2>3, <5>1, ShownTypes DEF Row, RowSet
          <5>3. data \in DataSet /\ e = PutInFront(row) /\ row.id \notin IdsOf(data.rows) /\ Apart(data, b, o)
            BY <1>v, <1>x, <2>5, <3>2, <4>2, <5>1, <5>2
          <5>4. ASSUME NEW i \in DOMAIN posted, posted[i].id = row.id PROVE i > data.older \/ row.id \in b
            <6>1. i \in Nat /\ i > 0 /\ data.older \in Nat
              BY <1>m, <1>v, <1>x DEF ServerTypes, DataSet
            <6>2. i <= data.older => Unloaded(c)
              BY <5>2, <5>4, <6>1 DEF Unloaded
            <6> QED
              BY <2>5, <5>2, <6>1, <6>2
          <5> QED
            BY <1>m, <2>3, <5>2, <5>3, <5>4, ApartInFront
        <4> QED
          BY <4>1, <4>2
      <3> QED
        BY <1>z, <2>2, <3>3, <3>4 DEF RowsAt
    <2> QED
      BY <2>2, <2>4, <2>5
  <1> QED
    BY <1>1, <1>2, <1>3, <1>4, <1>5, <1>6, <1>7, <1>8, <1>9, <1>10, <1>11, <1>12
    DEF Next, UserStep, ServerStep, AnswerStep, StreamStep

\* use-project-events.ts:116, comment-thread.tsx:99: a comment has one row, unless
\* an event brought it before the page that holds it was loaded.
THEOREM RowsStayApart == Spec => []RowsAreDistinct
  <1>1. Init => RowsInv
    BY RowsInit
  <1>2. IInv /\ IInv' /\ RowsInv /\ [Next]_vars => RowsInv'
    BY RowsNext DEF IInv
  <1>3. RowsInv => RowsAreDistinct
    BY DEF RowsInv, RowsAt, Apart, RowsAreDistinct
  <1> QED
    BY <1>1, <1>2, <1>3, IInvAlways, PTL DEF Spec
=============================================================================
