--------------------------- MODULE MockWorkspace ---------------------------
(***************************************************************************)
(* The in-memory workspace the web application runs on without a server    *)
(* (apps/web/lib/api/mock-workspace-api.ts): projects, members and pages   *)
(* of both, and of one project its tasks with undo, redo and assignment    *)
(* history, its comments, reactions, notifications, attachments and feed.  *)
(*                                                                         *)
(* A call waits, then runs without interruption: each is one action.  What *)
(* a caller has read may be old by then: any earlier version, any page and *)
(* any comment it was ever shown.  The user is demoMembers[0].             *)
(***************************************************************************)
EXTENDS Naturals, Sequences, FiniteSets, SequencesExt

CONSTANTS
  TaskIds, Seeded,     \* the tasks of the project, and those it starts with
  Statuses, Inputs,    \* statuses, and the inputs of updateTask
  Members, Me,
  ProjectIds, Demo,    \* the projects there may be, and the one modelled in detail
  CommentIds,          \* the identities callers give to comments
  ReactionTypes,
  PageSize,            \* items of a page of tasks
  Kept,                \* items kept of the activity feed and of the notifications
  Edited,              \* the tasks edited when a behaviour is about edits
  MaxEdits, MaxListing, MaxPosts  \* calls of a behaviour, by what it is about

ASSUME MockAssumption ==
  /\ Seeded \in Seq(TaskIds) /\ Seeded # <<>> /\ IsInjective(Seeded)
  /\ IsFiniteSet(Members) /\ Me \in Members /\ Demo \in ProjectIds
  /\ "todo" \in Statuses
  /\ Edited \subseteq TaskIds
  /\ PageSize \in Nat \ {0}
  \* the examples of the feed are three
  /\ Kept \in Nat /\ Kept >= 3

VARIABLES
  \* the calls a behaviour makes are about edits, pages or the discussion
  about, calls,
  projectList, list, task, operations, history,
  comments, reactions, notifications, attachments, activity,
  \* a walk over the pages of tasks or of members
  walk,
  \* history: tasks redone, tasks whose assignees were replayed since their
  \* history began, comments each task was shown with, comments created
  redone, replayed, seen, created

editVars == <<list, task, operations, history>>
talkVars == <<comments, reactions, notifications, attachments>>
historyVars == <<redone, replayed, seen, created>>
mockVars == <<about, calls, projectList, editVars, talkVars, activity, walk, historyVars>>

NoWalk == [kind |-> "none"]

\* An entry of a map that may be missing holds at most one value.
Missing == <<>>
Got(entry, default) == IF entry = Missing THEN default ELSE entry[1]
EditFields == UNION {DOMAIN i : i \in Inputs}

Exists(t) == Contains(list, t)

\* Array.filter: the items of a sequence that are in a set, in their order.
Only(items, kept) ==
  LET at      == {i \in DOMAIN items : items[i] \in kept}
      Rank(i) == Cardinality({j \in at : j <= i})
  IN  [k \in 1..Cardinality(at) |-> items[CHOOSE i \in at : Rank(i) = k]]

Limit == [edits |-> MaxEdits, pages |-> MaxListing, discussion |-> MaxPosts]

\* A call about one of the given subjects.
Call(subjects) ==
  /\ about \in subjects /\ calls < Limit[about]
  /\ calls' = calls + 1
  /\ UNCHANGED about

SeedProjects == <<Demo>>

\* makeTasks: what a task of the seed looks like.
SeedTask ==
  [status |-> "todo", assigneeIds |-> <<Me>>, dependencyIds |-> {}, commentCount |-> 3, version |-> 1]

CreatedTask ==
  [status |-> "todo", assigneeIds |-> <<>>, dependencyIds |-> {}, commentCount |-> 0, version |-> 1]

-----------------------------------------------------------------------------
(* The activity feed: the sequence numbers of its items, newest first *)

\* The list is given its newest items at the front.
Newest(items) == SubSeq(items, 1, IF Len(items) < Kept THEN Len(items) ELSE Kept)

RecordedOn(items) == Newest(<<Len(items) + 1>> \o items)

RecordIn(p) == activity' = [activity EXCEPT ![p] = <<RecordedOn(Got(@, <<>>))>>]

RecordActivity == RecordIn(Demo)

\* The feed is given its examples when it is read before anything is recorded.
ListActivity(p) ==
  /\ Call({"pages"})
  /\ Contains(projectList, p)
  /\ activity' = [activity EXCEPT ![p] = <<Got(@, <<3, 2, 1>>)>>]
  /\ UNCHANGED <<projectList, editVars, talkVars, walk, historyVars>>

\* A new project is first, has no task, and its feed tells of it.
CreateProject(p) ==
  /\ Call({"pages"})
  /\ ~Contains(projectList, p)
  /\ projectList' = <<p>> \o projectList
  /\ RecordIn(p)
  /\ UNCHANGED <<editVars, talkVars, walk, historyVars>>

-----------------------------------------------------------------------------
(* Pages of tasks and of members *)

\* Any task or those in a status, anybody or the member a search finds.
TaskFilters == Statuses \cup {"all"}
MemberFilters == Members \cup {"anybody"}

Matches(t, filter) == filter = "all" \/ t.status = filter

Filtered(ls, ts, filter) == Only(ls, {t \in TaskIds : Matches(ts[t], filter)})

MembersFound(filter) == SetToSeq(IF filter = "anybody" THEN Members ELSE {filter})

RowsOf(ls, ts, filter) ==
  IF filter \in TaskFilters THEN Filtered(ls, ts, filter) ELSE MembersFound(filter)

Rows(filter) == RowsOf(list, task, filter)

\* What has come to match the walk's filter, and what has ceased to.
Watch ==
  walk' = IF walk = NoWalk THEN NoWalk
          ELSE LET before == ToSet(Rows(walk.filter))
                   now    == ToSet(RowsOf(list', task', walk.filter))
               IN  [walk EXCEPT !.came = @ \cup (now \ before), !.left = @ \cup (before \ now)]

\* Faulty: the next page begins one item later.
LateCursor(offset, total) ==
  IF offset + PageSize < total THEN <<offset + PageSize + 1>> ELSE <<>>

\* The cursor of the next page, if there is one.
NextCursor(offset, total) ==
  IF offset + PageSize < total THEN <<offset + PageSize>> ELSE <<>>

PageAt(rows, offset) ==
  SubSeq(rows, offset + 1, IF offset + PageSize < Len(rows) THEN offset + PageSize ELSE Len(rows))

\* The first page of a filter; a walk that was under way is given up.
FirstPage(filter) ==
  /\ Call({"pages"})
  /\ LET rows == Rows(filter)
     IN  walk' = [filter |-> filter, rows |-> PageAt(rows, 0), cursor |-> NextCursor(0, Len(rows)),
                  first |-> ToSet(rows), came |-> {}, left |-> {}]
  /\ UNCHANGED <<projectList, editVars, talkVars, activity, historyVars>>

ListTasks(filter) == filter \in TaskFilters /\ FirstPage(filter)

ListMembers(filter) == filter \in MemberFilters /\ FirstPage(filter)

NextPage ==
  /\ Call({"pages"})
  /\ walk # NoWalk /\ walk.cursor # <<>>
  /\ LET rows   == Rows(walk.filter)
         offset == Head(walk.cursor)
     IN  walk' = [walk EXCEPT !.rows = @ \o PageAt(rows, offset),
                              !.cursor = NextCursor(offset, Len(rows))]
  /\ UNCHANGED <<projectList, editVars, talkVars, activity, historyVars>>

-----------------------------------------------------------------------------
(* Tasks *)

Fresh(t) == ~Exists(t) /\ task[t].version = 0

\* A new task is first in its project.
CreateTask(t) ==
  /\ Call({"pages"})
  /\ Fresh(t)
  /\ list' = <<t>> \o list
  /\ task' = [task EXCEPT ![t] = CreatedTask]
  /\ Watch /\ RecordActivity
  /\ UNCHANGED <<projectList, operations, history, talkVars, historyVars>>

Entries(users, operation) == [i \in DOMAIN users |-> [user |-> users[i], operation |-> operation]]

\* assignmentHistoryFor: a history begins with the assignees of that moment.
HistoryFor(t) ==
  Got(history[t], IF Exists(t) THEN Entries(task[t].assigneeIds, "ASSIGNED") ELSE <<>>)

Without(users, others) == Only(users, Members \ ToSet(others))

AssignmentChanges(previous, next) ==
  Entries(Without(next, previous), "ASSIGNED") \o Entries(Without(previous, next), "UNASSIGNED")

\* An edit from an earlier version conflicts with every operation on its fields
\* that has not been invalidated.
VersionConflict(t, input, expected) ==
  \/ expected < 1 \/ expected > task[t].version
  \/ /\ expected < task[t].version
     /\ \E i \in DOMAIN operations[t] :
          /\ operations[t][i].state # "INVALIDATED"
          /\ DOMAIN operations[t][i].after \cap DOMAIN input # {}

Applied(t, input) ==
  [f \in DOMAIN task[t] |-> IF f \in DOMAIN input THEN input[f]
                            ELSE IF f = "version" THEN task[t].version + 1
                            ELSE task[t][f]]

\* The operation keeps its fields before and after; what was undone cannot be
\* redone any more.
UpdateTask(t, input, expected) ==
  /\ Call({"edits", "pages"})
  /\ Exists(t) /\ ~VersionConflict(t, input, expected)
  /\ task' = [task EXCEPT ![t] = Applied(t, input)]
  /\ history' = IF "assigneeIds" \in DOMAIN input
       THEN [history EXCEPT ![t] =
               <<AssignmentChanges(task[t].assigneeIds, input.assigneeIds) \o HistoryFor(t)>>]
       ELSE history
  /\ operations' = [operations EXCEPT ![t] =
       Append([i \in DOMAIN @ |-> IF @[i].state = "UNDONE" THEN [@[i] EXCEPT !.state = "INVALIDATED"] ELSE @[i]],
              [before |-> [f \in DOMAIN input |-> task[t][f]], after |-> input, state |-> "ACTIVE"])]
  /\ UNCHANGED <<projectList, list, talkVars, historyVars>>
  /\ Watch /\ RecordActivity

InState(t, state) == {i \in DOMAIN operations[t] : operations[t][i].state = state}

\* Faulty: undo and redo take the oldest operation.
Oldest(t, state) == CHOOSE i \in InState(t, state) : \A j \in InState(t, state) : i <= j

\* The last operation of the list in a state.
Latest(t, state) == CHOOSE i \in InState(t, state) : \A j \in InState(t, state) : j <= i

\* The operation's fields must show what it left; they are given back.
ReplayOperation(t, from, to) ==
  /\ Exists(t) /\ InState(t, from) # {}
  /\ LET k        == Latest(t, from)
         undo     == to = "UNDONE"
         expected == IF undo THEN operations[t][k].after ELSE operations[t][k].before
         target   == IF undo THEN operations[t][k].before ELSE operations[t][k].after
     IN  /\ \A f \in DOMAIN expected : task[t][f] = expected[f]
         /\ task' = [task EXCEPT ![t] = Applied(t, target)]
         /\ operations' = [operations EXCEPT ![t][k].state = to]
         /\ replayed' = IF "assigneeIds" \in DOMAIN target /\ history[t] # Missing
                        THEN replayed \cup {t} ELSE replayed
  /\ UNCHANGED <<projectList, list, history, talkVars, seen, created>>
  /\ Watch /\ RecordActivity

UndoTask(t) ==
  /\ Call({"edits"})
  /\ ReplayOperation(t, "ACTIVE", "UNDONE")
  /\ UNCHANGED redone

RedoTask(t) ==
  /\ Call({"edits"})
  /\ ReplayOperation(t, "UNDONE", "ACTIVE")
  /\ redone' = redone \cup {t}

\* Its comments and its history go with a task, its operations, its
\* attachments and what depends on it do not.
DeleteTask(t, expected) ==
  /\ Call({"edits", "pages", "discussion"})
  /\ Exists(t) /\ task[t].version = expected
  /\ list' = Only(list, TaskIds \ {t})
  /\ comments' = [comments EXCEPT ![t] = Missing]
  /\ history' = [history EXCEPT ![t] = Missing]
  /\ UNCHANGED <<projectList, task, operations, reactions, notifications, attachments, historyVars>>
  /\ Watch /\ RecordActivity

\* Only the task itself and one task of the examples are refused as a cycle.
AddDependency(t, d) ==
  /\ Call({"edits"})
  /\ Exists(t) /\ t # d
  /\ task' = [task EXCEPT ![t].dependencyIds = @ \cup {d}, ![t].version = @ + 1]
  /\ RecordActivity
  /\ UNCHANGED <<projectList, list, operations, history, talkVars, walk, historyVars>>

RemoveDependency(t, d) ==
  /\ Call({"edits"})
  /\ Exists(t)
  /\ task' = [task EXCEPT ![t].dependencyIds = @ \ {d}, ![t].version = @ + 1]
  /\ RecordActivity
  /\ UNCHANGED <<projectList, list, operations, history, talkVars, walk, historyVars>>

ListAssignmentHistory(t) ==
  /\ Call({"edits"})
  /\ history' = [history EXCEPT ![t] = <<HistoryFor(t)>>]
  /\ UNCHANGED <<projectList, list, task, operations, talkVars, activity, walk, historyVars>>

-----------------------------------------------------------------------------
(* Comments, reactions and notifications *)

Comment(id, parent) == [id |-> id, parent |-> parent]

\* The examples of a thread: each answers the one before.
Examples ==
  <<Comment("example-1", "none"), Comment("example-2", "example-1"), Comment("example-3", "example-2")>>

\* commentsFor: a task that has no thread is given the examples, even one that
\* has been deleted.
CommentsFor(t) == Got(comments[t], Examples)

IdsOf(thread) == {thread[i].id : i \in DOMAIN thread}

\* reactionsFor: a comment nobody has reacted to.
NoReactions == [id \in CommentIds \cup IdsOf(Examples) |-> "none"]

ListComments(t) ==
  /\ Call({"discussion"})
  /\ comments' = [comments EXCEPT ![t] = <<CommentsFor(t)>>]
  /\ seen' = [seen EXCEPT ![t] = @ \cup IdsOf(CommentsFor(t))]
  /\ UNCHANGED <<projectList, editVars, reactions, notifications, attachments, activity, walk, redone, replayed, created>>

Notification(user, t, id) == [user |-> user, task |-> t, comment |-> id, read |-> FALSE]

\* Members the body mentions are told, except its author.
Mentioned(t, id, mentions) ==
  LET told == SetToSeq(mentions \ {Me})
  IN  [i \in DOMAIN told |-> Notification(told[i], t, id)]

Posted(t, id) == id \in IdsOf(CommentsFor(t))

\* Faulty: a reply is taken whatever it answers.
AnyParent(t, parent) == TRUE

ParentExists(t, parent) == parent = "none" \/ parent \in IdsOf(CommentsFor(t))

\* A call with an identity that is known returns the comment it made.  A refused
\* reply has given the task its examples.
CreateComment(t, id, parent, mentions) ==
  /\ Call({"discussion"})
  /\ \A u \in TaskIds \ {t} : id \notin seen[u]
  /\ IF Posted(t, id) \/ ~ParentExists(t, parent) THEN
       /\ comments' = [comments EXCEPT ![t] = <<CommentsFor(t)>>]
       /\ UNCHANGED <<task, notifications, activity, created>>
     ELSE
       /\ comments' = [comments EXCEPT ![t] = <<Append(CommentsFor(t), Comment(id, parent))>>]
       /\ task' = IF Exists(t) THEN [task EXCEPT ![t].commentCount = @ + 1] ELSE task
       /\ notifications' =
            <<Newest(Mentioned(t, id, mentions) \o Got(notifications, <<>>))>>
       /\ RecordActivity
       /\ created' = IF Exists(t) THEN created \cup {<<t, id>>} ELSE created
  /\ seen' = [seen EXCEPT ![t] = @ \cup {id}]
  /\ UNCHANGED <<projectList, list, operations, history, reactions, attachments, walk, redone, replayed>>

SetCommentReaction(t, id, type) ==
  /\ Call({"discussion"})
  /\ comments' = [comments EXCEPT ![t] = <<CommentsFor(t)>>]
  /\ Posted(t, id)
  /\ reactions' = [reactions EXCEPT ![t][id] = type]
  /\ RecordActivity
  /\ UNCHANGED <<projectList, editVars, notifications, attachments, walk, historyVars>>

RemoveCommentReaction(t, id) ==
  /\ Call({"discussion"})
  /\ comments' = [comments EXCEPT ![t] = <<CommentsFor(t)>>]
  /\ Posted(t, id)
  /\ reactions' = [reactions EXCEPT ![t][id] = "none"]
  /\ RecordActivity
  /\ UNCHANGED <<projectList, editVars, notifications, attachments, walk, historyVars>>

\* Faulty: the example is added whenever there is nothing unread.
ExampleWhenAllRead(items) == \A i \in DOMAIN items : items[i].read

\* The example is added to a list that is empty.
ExampleDue(items) == items = <<>>

NotificationsShown ==
  LET items == Got(notifications, <<>>)
  IN  IF ExampleDue(items) THEN Append(items, Notification(Me, Head(Seeded), "example-1")) ELSE items

ListNotifications ==
  /\ Call({"discussion"})
  /\ notifications' = <<NotificationsShown>>
  /\ UNCHANGED <<projectList, editVars, comments, reactions, attachments, activity, walk, historyVars>>

MarkNotificationRead(i) ==
  /\ Call({"discussion"})
  /\ i \in DOMAIN Got(notifications, <<>>)
  /\ notifications' = [notifications EXCEPT ![1][i].read = TRUE]
  /\ UNCHANGED <<projectList, editVars, comments, reactions, attachments, activity, walk, historyVars>>

UploadAttachment(t) ==
  /\ Call({"discussion"})
  /\ attachments' = [attachments EXCEPT ![t] = <<calls>> \o @]
  /\ UNCHANGED <<projectList, editVars, comments, reactions, notifications, activity, walk, historyVars>>

DeleteAttachment(t, id) ==
  /\ Call({"discussion"})
  /\ Contains(attachments[t], id)
  /\ attachments' = [attachments EXCEPT ![t] = Only(@, Nat \ {id})]
  /\ UNCHANGED <<projectList, editVars, comments, reactions, notifications, activity, walk, historyVars>>

-----------------------------------------------------------------------------
MockInit ==
  /\ about \in DOMAIN Limit /\ calls = 0
  /\ projectList = SeedProjects /\ list = Seeded
  /\ task = [t \in TaskIds |-> IF Contains(Seeded, t) THEN SeedTask ELSE [CreatedTask EXCEPT !.version = 0]]
  /\ operations = [t \in TaskIds |-> <<>>]
  /\ history = [t \in TaskIds |-> Missing]
  /\ comments = [t \in TaskIds |-> Missing]
  /\ reactions = [t \in TaskIds |-> NoReactions]
  /\ notifications = Missing
  /\ attachments = [t \in TaskIds |-> <<>>]
  /\ activity = [p \in ProjectIds |-> Missing] /\ walk = NoWalk
  /\ redone = {} /\ replayed = {} /\ created = {}
  /\ seen = [t \in TaskIds |-> {}]

EditStep ==
  \E t \in IF about = "edits" THEN Edited ELSE TaskIds :
    \/ \E input \in Inputs, expected \in 1..MaxEdits : UpdateTask(t, input, expected)
    \/ UndoTask(t) \/ RedoTask(t) \/ DeleteTask(t, task[t].version)
    \/ \E d \in TaskIds : AddDependency(t, d) \/ RemoveDependency(t, d)
    \/ ListAssignmentHistory(t)

PageStep ==
  \/ \E filter \in TaskFilters : ListTasks(filter)
  \/ \E filter \in MemberFilters : ListMembers(filter)
  \/ NextPage
  \/ \E p \in ProjectIds : CreateProject(p) \/ ListActivity(p)
  \/ \E t \in TaskIds : CreateTask(t)

DiscussionStep ==
  \/ \E t \in TaskIds :
       \/ ListComments(t) \/ UploadAttachment(t)
       \/ \E id \in 0..MaxPosts : DeleteAttachment(t, id)
       \/ \E id \in CommentIds, parent \in seen[t] \cup {"none"}, mentions \in SUBSET Members :
            CreateComment(t, id, parent, mentions)
       \/ \E id \in seen[t] :
            RemoveCommentReaction(t, id) \/ \E type \in ReactionTypes : SetCommentReaction(t, id, type)
  \/ ListNotifications
  \/ \E i \in 1..(MaxPosts + 1) : MarkNotificationRead(i)

MockNext == EditStep \/ PageStep \/ DiscussionStep

MockSpec == MockInit /\ [][MockNext]_mockVars

-----------------------------------------------------------------------------
(* Types, as apps/web/lib/api/types.ts declares them *)

MockTask ==
  [status : Statuses, assigneeIds : Seq(Members), dependencyIds : SUBSET TaskIds,
   commentCount : Nat, version : Nat]

\* Some of a task's fields.
UpdateTaskInput ==
  [status : Statuses] \cup [assigneeIds : Seq(Members)]
    \cup [status : Statuses, assigneeIds : Seq(Members)]

ASSUME InputAssumption == Inputs \subseteq UpdateTaskInput

MockTaskOperation ==
  [before : UpdateTaskInput, after : UpdateTaskInput, state : {"ACTIVE", "UNDONE", "INVALIDATED"}]

AssignmentHistoryItem == [user : Members, operation : {"ASSIGNED", "UNASSIGNED"}]

AllComments == CommentIds \cup IdsOf(Examples)

CommentItem == [id : AllComments, parent : AllComments \cup {"none"}]

NotificationItem == [user : Members, task : TaskIds, comment : AllComments, read : BOOLEAN]

\* Of an item of the feed, its sequence number: those of a full feed are one
\* more than it keeps.
ActivityItem == 1..(Kept + 1)

Page ==
  [filter : TaskFilters \cup MemberFilters, rows : Seq(TaskIds \cup Members),
   cursor : {Missing} \cup [1..1 -> Nat],
   first : SUBSET (TaskIds \cup Members), came : SUBSET (TaskIds \cup Members),
   left : SUBSET (TaskIds \cup Members)]

\* An entry of a map, which may be missing.
Entry(items) == {Missing} \cup [1..1 -> Seq(items)]

-----------------------------------------------------------------------------
(* Properties *)

\* Every map of the store holds values of its type (MockStore and types.ts).
MockTypes ==
  /\ projectList \in Seq(ProjectIds) /\ list \in Seq(TaskIds)
  /\ task \in [TaskIds -> MockTask]
  /\ operations \in [TaskIds -> Seq(MockTaskOperation)]
  /\ history \in [TaskIds -> Entry(AssignmentHistoryItem)]
  /\ comments \in [TaskIds -> Entry(CommentItem)]
  /\ reactions \in [TaskIds -> [AllComments -> ReactionTypes \cup {"none"}]]
  /\ notifications \in Entry(NotificationItem)
  /\ attachments \in [TaskIds -> Seq(Nat)]
  /\ activity \in [ProjectIds -> Entry(ActivityItem)]
  /\ walk \in Page \cup {NoWalk}

LastActiveOn(t, f) ==
  LET on == {i \in InState(t, "ACTIVE") : f \in DOMAIN operations[t][i].after}
  IN  IF on = {} THEN SeedTask[f]
      ELSE operations[t][CHOOSE i \in on : \A j \in on : j <= i].after[f]

\* As long as nothing is redone, a field shows the last edit of it that is not
\* undone, or what it was at first: undo never finds a conflict of its own.
ActiveEditsShow ==
  \A t \in ToSet(Seeded) \ redone : \A f \in EditFields : task[t][f] = LastActiveOn(t, f)

AssignedBy(entries) ==
  {u \in Members : \E i \in DOMAIN entries :
     /\ entries[i] = [user |-> u, operation |-> "ASSIGNED"]
     /\ \A j \in 1..(i - 1) : entries[j].user # u}

\* The assignment history ends in the assignees, whenever it was begun, unless
\* undo or redo, which record nothing in it, have changed them.
HistoryEndsInAssignees ==
  \A t \in ToSet(list) \ replayed :
    history[t] # Missing => AssignedBy(history[t][1]) = ToSet(task[t].assigneeIds)

\* The operations and the history of a task explain what it shows.
RecordsExplain == ActiveEditsShow /\ HistoryEndsInAssignees

\* A finished walk shows a task once if none came to match while it lasted, and
\* misses none of its filter if none ceased to.
WalkIsExact ==
  walk # NoWalk /\ walk.cursor = <<>> =>
    /\ walk.came = {} => IsInjective(walk.rows)
    /\ walk.left = {} => walk.first \subseteq ToSet(walk.rows)

\* A comment is on its task once and answers a comment of the same task, also
\* when the task was deleted and its thread began again.
ThreadsAreClosed ==
  \A t \in TaskIds :
    LET thread == CommentsFor(t) IN
      /\ Cardinality(IdsOf(thread)) = Len(thread)
      /\ \A i \in DOMAIN thread :
           thread[i].parent \in {thread[j].id : j \in 1..(i - 1)} \cup {"none"}

\* A call that is retried with its identity counts its comment once, and tells
\* a member of it once, as long as its task is there.
CountedOnce ==
  LET told == Got(notifications, <<>>) IN
    /\ \A t \in ToSet(Seeded) :
         task[t].commentCount = SeedTask.commentCount + Cardinality({c \in created : c[1] = t})
    /\ \A i, j \in DOMAIN told :
         /\ Exists(told[i].task)
         /\ <<told[i].user, told[i].task, told[i].comment>> = <<told[j].user, told[j].task, told[j].comment>>
         => i = j

\* A thread, its count and what its members are told of it agree, whatever is
\* retried or deleted.
CommentsAddUp == ThreadsAreClosed /\ CountedOnce

=============================================================================
