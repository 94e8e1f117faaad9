----------------------------- MODULE TaskPanel -----------------------------
(***************************************************************************)
(* The forms of a task's detail panel beside the edits of others:          *)
(* apps/web/features/tasks/task-detail-panel.tsx and assignee-picker.tsx.  *)
(*                                                                         *)
(* A field holds a set of items: "people" stands for what is sent at once  *)
(* (the people assigned, the tags), "custom" for what has a draft (the     *)
(* custom fields).  What the panel shows of the task is one answer or      *)
(* event of the server, with its version, under the user's optimistic      *)
(* edit.  The server refuses a write to a field that was written after     *)
(* the version the request names.                                          *)
(***************************************************************************)
EXTENDS Naturals

CONSTANTS
  Mine, Theirs,   \* items this user adds, and the others
  MaxOwn,         \* requests of this user
  MaxOthers,      \* writes of the others
  MaxReopened     \* times the panel is closed and opened again

VARIABLES
  server,    \* the task: its version, its fields, the version each was written at
  op,        \* the user's operation that undo or redo is about
  cached,    \* the task as the panel shows it
  draft,     \* the draft of the custom fields
  requests,  \* updates, undo and redo under way
  joining,    \* a person being made a member of the project
  own, others, reopened,
  kept       \* history: items written and not taken out by a user

panelVars == <<server, op, cached, draft, requests, joining, own, others, reopened, kept>>

Fields == {"custom", "people"}
Items == Mine \cup Theirs
NoDraft == [set |-> FALSE, value |-> {}]
NoAddition == [kind |-> "none"]
NoOp == [kind |-> "none"]

\* What the panel was last rendered with.
Render == [version |-> cached.version, people |-> cached.value["people"], mounted |-> TRUE]

-----------------------------------------------------------------------------
(* The server *)

Write(f, v) ==
  server' = [version |-> server.version + 1,
             value |-> [server.value EXCEPT ![f] = v],
             touched |-> [server.touched EXCEPT ![f] = server.version + 1]]

OthersAdd(f, i) ==
  /\ others < MaxOthers /\ others' = others + 1
  /\ i \notin server.value[f]
  /\ Write(f, server.value[f] \cup {i})
  /\ kept' = kept \cup {<<f, i>>}
  /\ UNCHANGED <<op, cached, draft, requests, joining, own, reopened>>

TaskOf(s) == [version |-> s.version, value |-> s.value]
Answer(r, a) == requests' = (requests \ {r}) \cup {a}
Agree(r, s) ==
  Answer(r, [phase |-> "ok", update |-> r.kind = "update", mounted |-> r.mounted, task |-> TaskOf(s)])
Refuse(r) ==
  /\ Answer(r, [phase |-> "failed", update |-> r.kind = "update", mounted |-> r.mounted,
                task |-> r.previous])
  /\ UNCHANGED <<server, op, kept>>

ServeUpdate(r) ==
  /\ r.phase = "sent" /\ r.kind = "update"
  /\ IF server.touched[r.field] > r.expected THEN Refuse(r)
     ELSE /\ Write(r.field, r.value)
          /\ op' = [kind |-> "applied", field |-> r.field, before |-> server.value[r.field],
                    after |-> r.value, version |-> server.version + 1]
          /\ kept' = kept \cup {<<r.field, i>> : i \in r.value \cap Mine}
          /\ Agree(r, server')
  /\ UNCHANGED <<cached, draft, joining, own, others, reopened>>

\* Undo and redo are refused for a field that was written since.
ServeReplay(r) ==
  /\ r.phase = "sent" /\ r.kind # "update"
  /\ IF \/ op.kind # (IF r.kind = "undo" THEN "applied" ELSE "undone")
        \/ server.touched[op.field] # op.version
     THEN Refuse(r)
     ELSE LET from == IF r.kind = "undo" THEN op.after ELSE op.before
              to == IF r.kind = "undo" THEN op.before ELSE op.after
          IN /\ Write(op.field, to)
             /\ op' = [op EXCEPT !.kind = IF r.kind = "undo" THEN "undone" ELSE "applied",
                                 !.version = server.version + 1]
             /\ kept' = kept \ {<<op.field, i>> : i \in from \ to}
             /\ Agree(r, server')
  /\ UNCHANGED <<cached, draft, joining, own, others, reopened>>

\* The network fails, or the server is in error and has not written anything.
Fail(r) ==
  /\ r.phase = "sent" /\ Refuse(r)
  /\ UNCHANGED <<cached, draft, joining, own, others, reopened>>

-----------------------------------------------------------------------------
(* What the panel sends *)

\* update.isPending, undoTask.isPending, redoTask.isPending of this mount
Updating == \E r \in requests : r.mounted /\ r.update
Replaying == \E r \in requests : r.mounted /\ ~r.update

Request(kind, f, v, expected, mounted) ==
  [kind |-> kind, update |-> kind = "update", field |-> f, value |-> v, expected |-> expected,
   previous |-> cached, phase |-> "sent", mounted |-> mounted]

\* A mutant: the version is read when the request leaves.
NewestVersion(page) == server.version

\* The version the panel was rendered with.
Expected(page) == page.version

\* onMutate: the edit is shown at once, over what the cache holds.
Mutate(f, v, page) ==
  /\ own < MaxOwn /\ own' = own + 1
  /\ requests' = requests \cup {Request("update", f, v, Expected(page), page.mounted)}
  /\ cached' = [cached EXCEPT !.value[f] = v]

\* A click on a person or on a tag's cross, while no update is under way.
Toggle(i) ==
  /\ ~Updating
  /\ LET people == cached.value["people"]
     IN IF i \in people
          THEN Mutate("people", people \ {i}, Render) /\ kept' = kept \ {<<"people", i>>}
          ELSE i \in Mine /\ Mutate("people", people \cup {i}, Render) /\ UNCHANGED kept
  /\ UNCHANGED <<server, op, draft, joining, others, reopened>>

\* The Enter key adds a tag, whatever is under way.
AddTag(i) ==
  /\ i \in Mine \ cached.value["people"]
  /\ Mutate("people", cached.value["people"] \cup {i}, Render)
  /\ UNCHANGED <<server, op, draft, joining, others, reopened, kept>>

Shown == IF draft.set THEN draft.value ELSE cached.value["custom"]

AddField(i) ==
  /\ own < MaxOwn /\ i \in Mine \ Shown
  /\ draft' = [set |-> TRUE, value |-> Shown \cup {i}]
  /\ UNCHANGED <<server, op, cached, requests, joining, own, others, reopened, kept>>

\* "Save fields" is offered when the draft is not the task.
SaveFields ==
  /\ Shown # cached.value["custom"] /\ ~Updating
  /\ Mutate("custom", Shown, Render)
  /\ kept' = kept \ {<<"custom", i>> : i \in cached.value["custom"] \ Shown}
  /\ UNCHANGED <<server, op, draft, joining, others, reopened>>

Replay(kind) ==
  /\ ~Replaying
  /\ own < MaxOwn /\ own' = own + 1
  /\ requests' = requests \cup {Request(kind, "people", {}, 0, TRUE)}
  /\ UNCHANGED <<server, op, cached, draft, joining, others, reopened, kept>>

\* The picker makes someone a member of the project and then assigns them,
\* whether or not an update is under way by then.
AddMember(i) ==
  /\ ~Updating /\ joining = NoAddition
  /\ own < MaxOwn /\ i \in Mine \ cached.value["people"]
  /\ joining' = [kind |-> "mounted", item |-> i]
  /\ UNCHANGED <<server, op, cached, draft, requests, own, others, reopened, kept>>

MemberAdded ==
  /\ joining # NoAddition /\ joining' = NoAddition
  /\ LET page == IF joining.kind = "mounted" THEN Render ELSE joining.page
         people == page.people \cup {joining.item}
     IN /\ Mutate("people", people, page)
        /\ kept' = kept \ {<<"people", i>> : i \in cached.value["people"] \ people}
  /\ UNCHANGED <<server, op, draft, others, reopened>>

MemberRefused ==
  /\ joining # NoAddition /\ joining' = NoAddition
  /\ UNCHANGED <<server, op, cached, draft, requests, own, others, reopened, kept>>

-----------------------------------------------------------------------------
(* What comes back *)

\* The answer is the task; the draft of a panel that is still there is set to it,
\* over whatever has been typed.
Saved(r) ==
  /\ r.phase = "ok" /\ requests' = requests \ {r}
  /\ cached' = r.task
  /\ draft' = IF r.mounted /\ r.update THEN [set |-> TRUE, value |-> r.task.value["custom"]] ELSE draft
  /\ UNCHANGED <<server, op, joining, own, others, reopened, kept>>

\* A refused edit goes back to what the cache held before it; a refused undo
\* changes nothing.
Refused(r) ==
  /\ r.phase = "failed" /\ requests' = requests \ {r}
  /\ cached' = IF r.update THEN r.task ELSE cached
  /\ UNCHANGED <<server, op, draft, joining, own, others, reopened, kept>>

\* An event or a refetch brings the task; the draft stays over it.
Learn ==
  /\ cached # TaskOf(server) /\ cached' = TaskOf(server)
  /\ UNCHANGED <<server, op, draft, requests, joining, own, others, reopened, kept>>

\* Another mount of the panel: the draft and the pending states are gone, the
\* answers still arrive, and the picker assigns from its last render.
Reopen ==
  /\ reopened < MaxReopened /\ reopened' = reopened + 1
  /\ draft' = NoDraft
  /\ requests' = {[r EXCEPT !.mounted = FALSE] : r \in requests}
  /\ joining' = IF joining.kind = "mounted"
               THEN [kind |-> "left", item |-> joining.item, page |-> [Render EXCEPT !.mounted = FALSE]] ELSE joining
  /\ UNCHANGED <<server, op, cached, own, others, kept>>

-----------------------------------------------------------------------------

NewTask == [f \in Fields |-> {}]

PanelInit ==
  /\ server = [version |-> 1, value |-> NewTask, touched |-> [f \in Fields |-> 1]]
  /\ op = NoOp
  /\ cached = TaskOf(server)
  /\ draft = NoDraft
  /\ requests = {} /\ joining = NoAddition
  /\ own = 0 /\ others = 0 /\ reopened = 0
  /\ kept = {}

PanelNext ==
  \/ \E f \in Fields, i \in Theirs : OthersAdd(f, i)
  \/ \E r \in requests : ServeUpdate(r) \/ ServeReplay(r) \/ Fail(r) \/ Saved(r) \/ Refused(r)
  \/ \E i \in Items : Toggle(i) \/ AddTag(i) \/ AddField(i) \/ AddMember(i)
  \/ SaveFields \/ Replay("undo") \/ Replay("redo")
  \/ MemberAdded \/ MemberRefused \/ Learn \/ Reopen

PanelSpec == PanelInit /\ [][PanelNext]_panelVars

-----------------------------------------------------------------------------

\* Whoever wrote an item - a person, a tag, a custom field - finds it in the task
\* until a user takes it out or undoes it: no save made from an older page, an
\* optimistic one or one that is no longer there drops it.  Custom fields that
\* arrived under a draft count as taken out when the draft is saved: it is sent
\* whole, with the version that brought them.  So do the people a picker that is
\* gone did not know of: what it sends is refused, but stands until then over
\* the new version, from which the next click is sent.
NothingIsDropped ==
  \A f \in Fields, i \in Items : <<f, i>> \in kept => i \in server.value[f]

=============================================================================
