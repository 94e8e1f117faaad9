--------------------------- MODULE CommentThread ---------------------------
(***************************************************************************)
(* The discussion of a task as its panel shows it: the cached pages of     *)
(* comments, the composer, the comment and the reaction being sent, the    *)
(* count of comments on the task, and the events that echo them            *)
(* (apps/web/features/comments/comment-thread.tsx and comment-tree.ts, the *)
(* comment events of features/realtime/use-project-events.ts and the count *)
(* of features/tasks/query-cache.ts).                                      *)
(*                                                                         *)
(* A text stands for what is written in the composer.  Comments are listed *)
(* newest first, in the order they were saved.  One task and one user; the *)
(* other members are one "other".                                          *)
(***************************************************************************)
EXTENDS Naturals, Sequences, FiniteSets, SequencesExt

CONSTANTS
  Types,            \* kinds of reaction
  Clicked,          \* the kinds anyone clicks
  PageSize,         \* comments of a page
  MaxWriting,       \* texts the user writes and replies the user starts
  MaxOwn,           \* comments the user sends and reactions the user changes
  MaxOutside,       \* what other members do, and reads the user causes
  MaxSteps          \* all of these together

ASSUME ThreadAssumption ==
  /\ "none" \notin Types /\ Clicked \subseteq Types /\ PageSize \in Nat \ {0}
  /\ MaxWriting \in Nat /\ MaxOwn \in Nat /\ MaxOutside \in Nat /\ MaxSteps \in Nat

VARIABLES
  \* the server: comments in the order they were saved, reactions, events
  posted, mine, theirs, log,
  \* the cached pages, the task's count, and the requests that fill them
  data, count, threadFetch, countFetch,
  \* the composer; the comment and the reaction under way; the last event applied
  draft, replyTo, sending, reacting, cursor,
  typed, replies, own, outside,
  \* history: whether an answer or a roll-back left the thread or the count
  \* behind, the comments counted, the texts overwritten, the answers lost, the
  \* comments an event brought while the page that holds them was not loaded
  behind, drift, counted, overwritten, lost, ahead

serverVars == <<posted, mine, theirs, log>>
composer == <<draft, replyTo>>
ghosts == <<behind, drift, counted, overwritten, lost, ahead>>
bounds == <<typed, replies, own, outside>>
vars == <<serverVars, data, count, threadFetch, countFetch, composer, sending, reacting,
          cursor, bounds, ghosts>>

Nobody == "none"
Root == <<"root", 0>>
Seeds == {<<"seed", 1>>, <<"seed", 2>>}
Own == {<<"own", n>> : n \in 1..MaxOwn}
Ids == Seeds \cup Own \cup {<<"other", n>> : n \in 1..MaxOutside}

NoText == 0
NoData == [rows |-> <<>>, pages |-> 0, older |-> 0]
Idle == [phase |-> "idle", kind |-> "none"]
Asked(kind, pages) == [phase |-> "asked", kind |-> kind, pages |-> pages]
TaskAsked == [phase |-> "asked"]
Free == [phase |-> "free"]

NoReactions == [count |-> [ty \in Types |-> 0], mine |-> Nobody]
Row(c, parent, sync, shown) == [id |-> c, parent |-> parent, sync |-> sync, shown |-> shown]

IdsOf(rows) == {rows[i].id : i \in DOMAIN rows}
PostedIds == IdsOf(posted)
Known(c) == c \in IdsOf(data.rows)

-----------------------------------------------------------------------------
(* The server *)

ShownReactions(c) ==
  [count |-> [ty \in Types |-> (IF mine[c] = ty THEN 1 ELSE 0) + (IF theirs[c] = ty THEN 1 ELSE 0)],
   mine |-> mine[c]]

\* Newest first, the comments saved before position `before`, at most `limit`.
Listed(before, limit) ==
  [i \in 1..(IF before - 1 < limit THEN before - 1 ELSE limit) |->
     LET c == posted[before - i] IN Row(c.id, c.parent, "synced", ShownReactions(c.id))]

Announce(kind, c, parent) == log' = Append(log, [kind |-> kind, id |-> c, parent |-> parent])

Save(c, parent, text) ==
  /\ posted' = Append(posted, [id |-> c, parent |-> parent, text |-> text])
  /\ Announce("created", c, parent)

\* Another member replies to the last comment, or to none.
OthersComment ==
  /\ outside < MaxOutside /\ own + outside < MaxSteps /\ outside' = outside + 1
  /\ \E parent \in {Root, Last(posted).id} : Save(<<"other", outside + 1>>, parent, NoText)
  /\ UNCHANGED <<mine, theirs, data, count, threadFetch, countFetch, composer, sending, reacting,
                 cursor, typed, replies, own, ghosts>>

OthersReact ==
  /\ outside < MaxOutside /\ own + outside < MaxSteps /\ outside' = outside + 1
  /\ \E c \in PostedIds, ty \in Clicked :
       /\ theirs[c] # ty
       /\ theirs' = [theirs EXCEPT ![c] = ty]
       /\ Announce("reaction", c, Root)
  /\ UNCHANGED <<posted, mine, data, count, threadFetch, countFetch, composer, sending, reacting,
                 cursor, typed, replies, own, ghosts>>

-----------------------------------------------------------------------------
(* Reads: the infinite query of the thread, and the task's detail *)

LoadOlder ==
  /\ outside < MaxOutside /\ own + outside < MaxSteps /\ outside' = outside + 1
  /\ data.older > 0
  /\ threadFetch.kind # "older"
  /\ behind' = (behind \/ threadFetch # Idle)
  /\ threadFetch' = Asked("older", data)
  /\ UNCHANGED <<serverVars, data, count, countFetch, composer, sending, reacting, cursor,
                 typed, replies, own, drift, counted, overwritten, lost, ahead>>

ReloadTask ==
  /\ outside < MaxOutside /\ own + outside < MaxSteps /\ outside' = outside + 1
  /\ countFetch = Idle
  /\ countFetch' = TaskAsked
  /\ UNCHANGED <<serverVars, data, count, threadFetch, composer, sending, reacting, cursor,
                 typed, replies, own, ghosts>>

\* All the pages that are loaded, or the one after them; a page that is loaded
\* is added to those that were there when it was asked for.
ServeThread ==
  /\ threadFetch.phase = "asked"
  /\ LET old == threadFetch.pages
         older == threadFetch.kind = "older"
         before == IF older THEN old.older + 1 ELSE Len(posted) + 1
         rows == Listed(before, IF older \/ old = NoData THEN PageSize ELSE old.pages * PageSize)
     IN  threadFetch' =
           [phase |-> "read", kind |-> threadFetch.kind, pages |-> old, at |-> Len(log),
            data |-> [rows |-> IF older THEN old.rows \o rows ELSE rows,
                      pages |-> IF older \/ old = NoData THEN old.pages + 1 ELSE old.pages,
                      older |-> before - 1 - Len(rows)]]
  /\ UNCHANGED <<serverVars, data, count, countFetch, composer, sending, reacting, cursor, bounds, ghosts>>

ServeTask ==
  /\ countFetch.phase = "asked"
  /\ countFetch' = [phase |-> "read", at |-> Len(log), count |-> Len(posted), ids |-> PostedIds]
  /\ UNCHANGED <<serverVars, data, count, threadFetch, composer, sending, reacting, cursor, bounds, ghosts>>

ThreadArrives ==
  /\ threadFetch.phase = "read"
  /\ data' = threadFetch.data
  /\ behind' = \/ cursor > threadFetch.at
               \/ threadFetch.kind = "older" /\ (behind \/ data # threadFetch.pages)
  /\ threadFetch' = Idle
  /\ UNCHANGED <<serverVars, count, countFetch, composer, sending, reacting, cursor, bounds,
                 drift, counted, overwritten, lost, ahead>>

\* The events applied since the task was read are missing from its count.
TaskArrives ==
  /\ countFetch.phase = "read"
  /\ count' = countFetch.count
  /\ counted' = countFetch.ids
  /\ drift' = (cursor > countFetch.at)
  /\ countFetch' = Idle
  /\ UNCHANGED <<serverVars, data, threadFetch, composer, sending, reacting, cursor, bounds,
                 behind, overwritten, lost, ahead>>

\* What is cached is asked for again; a first read goes on.
Refresh == threadFetch' = IF data = NoData THEN threadFetch ELSE Asked("all", data)

\* cancelQueries: a read under way is given up and not asked for again.
CancelThread ==
  /\ threadFetch' = Idle
  /\ behind' = (behind \/ threadFetch # Idle)

-----------------------------------------------------------------------------
(* The composer *)

Type ==
  /\ typed + replies < MaxWriting /\ typed' = typed + 1
  /\ draft = NoText
  /\ draft' = typed + 1
  /\ UNCHANGED <<serverVars, data, count, threadFetch, countFetch, replyTo, sending, reacting,
                 cursor, replies, own, outside, ghosts>>

\* A comment that was not sent has no reply button.
MayReply(row) == row.sync # "failed"

Reply ==
  /\ typed + replies < MaxWriting /\ replies' = replies + 1
  /\ \E i \in DOMAIN data.rows : MayReply(data.rows[i]) /\ replyTo' = data.rows[i].id
  /\ replyTo' # replyTo
  /\ UNCHANGED <<serverVars, data, count, threadFetch, countFetch, draft, sending, reacting,
                 cursor, typed, own, outside, ghosts>>

\* The banner of the comment that is replied to is there while it is loaded.
CancelReply ==
  /\ typed + replies < MaxWriting /\ replies' = replies + 1
  /\ Known(replyTo)
  /\ replyTo' = Root
  /\ UNCHANGED <<serverVars, data, count, threadFetch, countFetch, draft, sending, reacting,
                 cursor, typed, own, outside, ghosts>>

-----------------------------------------------------------------------------
(* Sending a comment *)

PutInFront(row) ==
  IF data = NoData THEN [rows |-> <<row>>, pages |-> 1, older |-> 0]
  ELSE [data EXCEPT !.rows = <<row>> \o @]

\* incrementTaskCommentCount, and what it makes of the comments counted.
Count(c) ==
  /\ count' = count + 1
  /\ counted' = counted \cup {c}

\* One comment is sent at a time.
MaySend == sending = Free

SendComment ==
  /\ own < MaxOwn /\ own + outside < MaxSteps /\ own' = own + 1
  /\ draft # NoText /\ MaySend
  /\ LET c == <<"own", own + 1>>
     IN  /\ sending' = [phase |-> "sent", id |-> c, text |-> draft, parent |-> replyTo]
         /\ data' = PutInFront(Row(c, replyTo, "pending", NoReactions))
         /\ Count(c)
  /\ CancelThread
  /\ draft' = NoText /\ replyTo' = Root
  /\ UNCHANGED <<serverVars, countFetch, reacting, cursor, typed, replies, outside,
                 drift, overwritten, lost, ahead>>

\* The parent of a reply must have been saved.
ServeComment ==
  /\ sending.phase = "sent"
  /\ sending.parent \in PostedIds \cup {Root}
  /\ Save(sending.id, sending.parent, sending.text)
  /\ \/ sending' = [sending EXCEPT !.phase = "ok"] /\ UNCHANGED lost
     \/ sending' = [sending EXCEPT !.phase = "error"] /\ lost' = lost \cup {sending.id}
  /\ UNCHANGED <<mine, theirs, data, count, threadFetch, countFetch, composer, reacting, cursor,
                 bounds, behind, drift, counted, overwritten, ahead>>

RefuseComment ==
  /\ sending.phase = "sent"
  /\ sending' = [sending EXCEPT !.phase = "error"]
  /\ UNCHANGED <<serverVars, data, count, threadFetch, countFetch, composer, reacting, cursor, bounds, ghosts>>

\* The rows of comment c as f makes them.
WithRow(c, f(_)) ==
  [data EXCEPT !.rows =
     [i \in DOMAIN data.rows |-> IF data.rows[i].id = c THEN f(data.rows[i]) ELSE data.rows[i]]]

\* The saved comment, which has no reactions, takes the place of its row.
SavedInPlace(c, parent) ==
  LET saved(row) == Row(c, parent, "synced", NoReactions) IN WithRow(c, saved)

CommentSaved ==
  /\ sending.phase = "ok"
  /\ data' = SavedInPlace(sending.id, sending.parent)
  /\ behind' = (behind \/ \E i \in DOMAIN data.rows :
                            data.rows[i].id = sending.id /\ data.rows[i].shown # NoReactions)
  /\ sending' = Free
  /\ UNCHANGED <<serverVars, count, threadFetch, countFetch, composer, reacting, cursor, bounds,
                 drift, counted, overwritten, lost, ahead>>

\* Faulty: what was written stays lost.
KeepComposer == UNCHANGED <<draft, replyTo, overwritten>>

\* The text comes back, over what has been written meanwhile.
RestoreComposer ==
  /\ draft' = sending.text
  /\ replyTo' = sending.parent
  /\ overwritten' = IF draft = NoText THEN overwritten ELSE overwritten \cup {draft}

CommentFailed ==
  /\ sending.phase = "error"
  /\ RestoreComposer
  /\ LET failed(row) == [row EXCEPT !.sync = "failed"] IN data' = WithRow(sending.id, failed)
  /\ count' = IF count > 0 THEN count - 1 ELSE 0
  /\ counted' = counted \ {sending.id}
  /\ drift' = (drift \/ sending.id \notin counted)
  /\ countFetch' = TaskAsked
  /\ sending' = Free
  /\ UNCHANGED <<serverVars, threadFetch, reacting, cursor, bounds, behind, lost, ahead>>

-----------------------------------------------------------------------------
(* Changing a reaction *)

\* A reaction takes the place of the user's other one; the same again removes it.
Toggled(shown, ty) ==
  LET on == shown.mine # ty
      less(n) == IF n > 0 THEN n - 1 ELSE 0
  IN  [count |-> [x \in Types |->
                    IF x = ty THEN (IF on THEN shown.count[x] + 1 ELSE less(shown.count[x]))
                    ELSE IF shown.mine = x THEN less(shown.count[x]) ELSE shown.count[x]],
       mine |-> IF on THEN ty ELSE Nobody]

\* One reaction is changed at a time, on whichever comment.
MayReact == reacting = Free

React ==
  /\ own < MaxOwn /\ own + outside < MaxSteps /\ own' = own + 1
  /\ MayReact
  /\ \E i \in DOMAIN data.rows, ty \in Clicked :
       LET row == data.rows[i]
           toggled(r) == [r EXCEPT !.shown = Toggled(r.shown, ty)]
       IN  /\ data' = WithRow(row.id, toggled)
           /\ reacting' = [phase |-> "sent", id |-> row.id, to |-> IF row.shown.mine = ty THEN Nobody ELSE ty,
                           previous |-> data, optimistic |-> data', since |-> cursor]
  /\ CancelThread
  /\ UNCHANGED <<serverVars, count, countFetch, composer, sending, cursor, typed, replies, outside,
                 drift, counted, overwritten, lost, ahead>>

\* The answer may be lost.
ServeReaction ==
  /\ reacting.phase = "sent" /\ reacting.id \in PostedIds
  /\ mine' = [mine EXCEPT ![reacting.id] = reacting.to]
  /\ Announce("reaction", reacting.id, Root)
  /\ \E phase \in {"ok", "error"} : reacting' = [reacting EXCEPT !.phase = phase]
  /\ UNCHANGED <<posted, theirs, data, count, threadFetch, countFetch, composer, sending, cursor,
                 bounds, ghosts>>

RefuseReaction ==
  /\ reacting.phase = "sent"
  /\ reacting' = [reacting EXCEPT !.phase = "error"]
  /\ UNCHANGED <<serverVars, data, count, threadFetch, countFetch, composer, sending, cursor, bounds, ghosts>>

ReactionSaved ==
  /\ reacting.phase = "ok"
  /\ Refresh
  /\ reacting' = Free
  /\ UNCHANGED <<serverVars, data, count, countFetch, composer, sending, cursor, bounds, ghosts>>

\* Faulty: what is shown stays as if the reaction had been saved.
KeepThread == UNCHANGED <<data, behind>>

\* The thread is put back as it was; what was written to it meanwhile is lost.
RestoreThread ==
  /\ data' = reacting.previous
  /\ behind' = (behind \/ data # reacting.optimistic \/ cursor # reacting.since)

ReactionFailed ==
  /\ reacting.phase = "error"
  /\ RestoreThread
  /\ reacting' = Free
  /\ UNCHANGED <<serverVars, count, threadFetch, countFetch, composer, sending, cursor, bounds,
                 drift, counted, overwritten, lost, ahead>>

-----------------------------------------------------------------------------
(* Events: the comment branches of applyEvent *)

Event == log[cursor + 1]

\* Faulty: the echo of the user's own comment is taken for a new one.
TakenForNew == TRUE

\* A comment whose row is in the thread has been counted when it was put there.
IsNew == ~Known(Event.id)

\* The page that holds comment c is still to be loaded.
Unloaded(c) == \E i \in 1..data.older : posted[i].id = c

ApplyCreated ==
  /\ cursor < Len(log) /\ Event.kind = "created"
  /\ LET c == Event.id
     IN  IF IsNew THEN
           /\ data' = IF data = NoData THEN data
                      ELSE PutInFront(Row(c, Event.parent, "synced", NoReactions))
           /\ drift' = (drift \/ (c \in counted /\ ~Known(c)))
           /\ Count(c)
           /\ ahead' = IF Unloaded(c) THEN ahead \cup {c} ELSE ahead
         ELSE
           /\ drift' = (drift \/ c \notin counted)
           /\ UNCHANGED <<data, count, counted, ahead>>
  /\ cursor' = cursor + 1
  /\ UNCHANGED <<serverVars, threadFetch, countFetch, composer, sending, reacting, bounds,
                 behind, overwritten, lost>>

ApplyReaction ==
  /\ cursor < Len(log) /\ Event.kind = "reaction"
  /\ Refresh
  /\ cursor' = cursor + 1
  /\ UNCHANGED <<serverVars, data, count, countFetch, composer, sending, reacting, bounds, ghosts>>

-----------------------------------------------------------------------------
(* The forest: buildCommentTree, over the rows oldest first *)

RowOf(rows, c) == rows[CHOOSE i \in DOMAIN rows : rows[i].id = c]

\* The comments met on the way up from c, c included, until one is not loaded.
Upward(rows, c) ==
  LET up[n \in 0..Len(rows)] ==
        IF n = 0 THEN {c} \cap IdsOf(rows)
        ELSE LET below == up[n - 1]
             IN  below \cup ({RowOf(rows, a).parent : a \in below} \cap IdsOf(rows))
  IN  up[Len(rows)]

CreatesCycle(rows, row) == row.id \in Upward(rows, row.parent)

\* Faulty: a reply whose parent is not loaded hangs from nowhere.
HangsFromParent(rows, row) == row.parent

\* A root is a comment without parent, or whose parent is not loaded.
HangsFrom(rows, row) ==
  IF row.parent \notin IdsOf(rows) \/ CreatesCycle(rows, row) THEN Root ELSE row.parent

\* The comments drawn: the roots, and the children of what is drawn.
Drawn(rows) ==
  LET level[n \in 0..Len(rows)] ==
        IF n = 0 THEN {Root}
        ELSE LET above == level[n - 1]
             IN  above \cup {r.id : r \in {x \in ToSet(rows) : HangsFrom(rows, x) \in above}}
  IN  level[Len(rows)] \ {Root}

-----------------------------------------------------------------------------
\* A task with two comments, the second a reply to the first with a reaction of
\* the user; the thread is being loaded.
ServerInit ==
  /\ posted = <<[id |-> <<"seed", 1>>, parent |-> Root, text |-> NoText],
                [id |-> <<"seed", 2>>, parent |-> <<"seed", 1>>, text |-> NoText]>>
  /\ \E ty \in Types \ Clicked : mine = [c \in Ids |-> IF c = <<"seed", 2>> THEN ty ELSE Nobody]
  /\ theirs = [c \in Ids |-> Nobody]
  /\ log = <<>> /\ cursor = 0

\* The thread is being read; nothing is written yet and nothing is under way.
ComposerInit == draft = NoText /\ replyTo = Root /\ sending = Free /\ reacting = Free

CacheInit ==
  /\ data = NoData /\ threadFetch = Asked("all", NoData)
  /\ count = 2 /\ counted = Seeds /\ countFetch = Idle

Init ==
  /\ ServerInit /\ ComposerInit /\ CacheInit
  /\ typed = 0 /\ replies = 0 /\ own = 0 /\ outside = 0
  /\ behind = FALSE /\ drift = FALSE /\ overwritten = {} /\ lost = {} /\ ahead = {}

UserStep == Type \/ Reply \/ CancelReply \/ SendComment \/ React \/ LoadOlder \/ ReloadTask

ServerStep ==
  \/ OthersComment \/ OthersReact
  \/ ServeThread \/ ServeTask
  \/ ServeComment \/ RefuseComment \/ ServeReaction \/ RefuseReaction

AnswerStep ==
  \/ ThreadArrives \/ TaskArrives
  \/ CommentSaved \/ CommentFailed \/ ReactionSaved \/ ReactionFailed

StreamStep == ApplyCreated \/ ApplyReaction

Next == UserStep \/ ServerStep \/ AnswerStep \/ StreamStep

Spec == Init /\ [][Next]_vars

-----------------------------------------------------------------------------
(* Properties *)

Quiet ==
  /\ cursor = Len(log)
  /\ threadFetch = Idle /\ countFetch = Idle
  /\ sending = Free /\ reacting = Free

Loaded(i) == data # NoData /\ i > data.older

\* use-project-events.ts:110, comment-thread.tsx:173: when nothing is under way
\* and no answer or roll-back has left the thread behind, every comment the user
\* has loaded as far as is there, with its reactions; none is still being sent,
\* and one is marked as not sent though it was only if its answer was lost.
ThreadConverges ==
  Quiet /\ ~behind =>
    /\ \A i \in DOMAIN posted : Loaded(i) => Known(posted[i].id)
    /\ \A i \in DOMAIN data.rows :
         LET row == data.rows[i]
         IN  /\ row.sync # "pending"
             /\ row.sync = "synced" =>
                  row.id \in PostedIds /\ row.shown = ShownReactions(row.id)
             /\ row.sync = "failed" => row.id \notin PostedIds \/ row.id \in lost

\* db/seed/SCENARIOS.md:72: the echo of a comment is not counted a second time.
\* When nothing is under way the task's count is the number of its comments,
\* unless its read and the stream disagreed about what had been counted.
CountConverges == Quiet /\ ~drift => count = Len(posted)

\* use-project-events.ts:116, comment-thread.tsx:99: a comment has one row, unless
\* an event brought it before the page that holds it was loaded: that page adds
\* another, for the pages are put together as they are.
RowsAreDistinct ==
  \A i, j \in DOMAIN data.rows :
    data.rows[i].id = data.rows[j].id => i = j \/ data.rows[i].id \in ahead

\* comment-tree.ts:8: whatever rows come and go, every comment of the thread is
\* drawn, a reply without its parent among the roots, and only a comment that an
\* event brought ahead of its page is drawn more than once.
ForestIsWhole == RowsAreDistinct /\ Drawn(data.rows) = IdsOf(data.rows)

\* A text is in the composer, on its way or saved, unless the text of a comment
\* that failed was put over it; it is saved twice only after a lost answer.
TextsSurvive ==
  /\ \A k \in 1..typed :
       \/ k = draft \/ k \in overwritten
       \/ sending # Free /\ sending.text = k
       \/ \E i \in DOMAIN posted : posted[i].text = k
  /\ \A i, j \in DOMAIN posted :
       posted[i].text = posted[j].text /\ posted[i].text # NoText /\ i < j => posted[i].id \in lost

=============================================================================
