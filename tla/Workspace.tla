----------------------------- MODULE Workspace -----------------------------
(***************************************************************************)
(* The page around the tasks: the workspace shell with its filters, its    *)
(* search box and its dialog for a new task                                *)
(* (apps/web/features/workspace/workspace-shell.tsx), the sidebar with the *)
(* projects and the quick find (components/patterns/project-sidebar.tsx),  *)
(* the notification bell and the sign-in page (app/login/page.tsx).        *)
(*                                                                         *)
(* The filters live in the address.  Every handler makes a new address     *)
(* from the one the page was rendered with and asks the router for it; the *)
(* router shows it later, and a newer request takes the place of one that  *)
(* is not shown yet.  A change of the path mounts another shell; a change  *)
(* of the query alone keeps it, with what is typed in it.                  *)
(***************************************************************************)
EXTENDS Naturals, Sequences, FiniteSets, SequencesExt

CONSTANTS
  Projects,
  FirstProject,   \* the project there is from the beginning
  Tasks,
  FirstTask,      \* its task
  Words,          \* texts of the search box, the empty one excepted
  MaxMoves,       \* moves of the user
  None            \* no task, no project, no address

ASSUME WorkspaceAssumption ==
  FirstProject \in Projects /\ FirstTask \in Tasks /\ MaxMoves \in Nat

All == "all"            \* a filter at its default is not in the address
Activity == "activity"  \* the page of a project's activity

VARIABLES
  shown,      \* the address the page is rendered with
  asked,      \* the address asked of the router, None when it has shown the last
  box,        \* the text of the search box
  armed,      \* the debounce of the search box runs
  quick,      \* the quick find: closed, a text typed, or its tasks found
  dialog,     \* the project the dialog for a new task names, None while closed
  creations,  \* tasks being created: their project, and the address the shell that
              \* asked was last rendered with once it is unmounted
  home,       \* the project of each task, None before it is created
  projects,   \* the ["projects"] entry of the query cache
  served,     \* the server's projects
  reading,    \* an answer under way to the query of the projects
  adding,     \* a project being created
  moves,
  wanted,     \* history: the address the user's moves ask for
  overtaken   \* history: its parts a request made from an older page took back

shell == <<box, armed, quick, dialog>>
lists == <<projects, served, reading>>
vars == <<shown, asked, shell, creations, home, lists, adding, moves, wanted, overtaken>>

Places == (Projects \X (Tasks \cup {None, Activity})) \cup {<<None, None>>}
Texts == Words \cup {""}
Addresses == [place : Places, q : Texts, status : {All, "todo"}, view : {"list", "board"}]
Parts == {"place", "q", "status", "view"}

ASSUME NoneIsNoAddress == None \notin Addresses

Plain(place) == [place |-> place, q |-> "", status |-> All, view |-> "list"]
SignInPage == Plain(<<None, None>>)

Project == shown.place[1]
Task == shown.place[2]
InShell == Project # None
OnTasks == InShell /\ Task # Activity
Pending == asked # None

-----------------------------------------------------------------------------
(* The router *)

\* A request for an address.  `chosen` are the parts the user just chose; the
\* history notes the others that a request made out of turn gets wrong.
Ask(address, chosen, outOfTurn) ==
  /\ asked' = address
  /\ overtaken' = (overtaken \ chosen) \cup
       {f \in Parts \ chosen : outOfTurn /\ address[f] # wanted'[f]}

\* A mutant: the effect does not depend on the query.
RerunOnTyping(address) == FALSE

\* The effect of the search box runs again when the query changes.
Rerun(address) == box # address.q

\* The user sees what the address has become: of the history, only a search
\* that nothing will write any more stays overtaken.
Accept(lost, text) ==
  wanted' = [f \in Parts |-> IF f \notin lost THEN wanted[f] ELSE IF f = "q" THEN text ELSE asked[f]]

Mounted ==
  /\ asked.place # shown.place
  /\ box' = asked.q /\ armed' = FALSE /\ quick' = "closed" /\ dialog' = None
  /\ creations' = {IF c.from = None THEN [c EXCEPT !.from = shown] ELSE c : c \in creations}
  /\ Accept(IF armed THEN overtaken \cup {"q"} ELSE overtaken, asked.q)
  /\ overtaken' = {}

Rerendered ==
  /\ asked.place = shown.place
  /\ armed' = IF asked # shown THEN Rerun(asked) ELSE armed
  /\ Accept(overtaken, box)
  /\ overtaken' = IF asked = shown /\ ~armed /\ box # asked.q THEN {"q"} ELSE {}
  /\ UNCHANGED <<box, quick, dialog, creations>>

Commit ==
  /\ Pending
  /\ shown' = asked /\ asked' = None
  /\ Mounted \/ Rerendered
  /\ UNCHANGED <<home, lists, adding, moves>>

Move == moves < MaxMoves /\ moves' = moves + 1

\* A move of the user whose request changes the parts `chosen`.
Navigate(address, wish, chosen) ==
  /\ Move
  /\ wanted' = wish
  /\ Ask(address, chosen, Pending \/ armed)
  /\ UNCHANGED <<shown, box, armed, dialog, creations, home, lists, adding>>

-----------------------------------------------------------------------------
(* The search box, the filters and the view *)

TypeSearch(text) ==
  /\ OnTasks /\ text # box /\ Move
  /\ box' = text /\ armed' = (text # shown.q)
  /\ wanted' = [wanted EXCEPT !.q = text]
  /\ overtaken' = IF Pending THEN overtaken \cup {"q"} ELSE overtaken \ {"q"}
  /\ UNCHANGED <<shown, asked, quick, dialog, creations, home, lists, adding>>

\* 280 ms after the last change the text goes to the address.
WriteSearch ==
  /\ armed /\ armed' = FALSE
  /\ UNCHANGED <<shown, box, quick, dialog, creations, home, lists, adding, moves, wanted>>
  /\ Ask([shown EXCEPT !.q = box], IF box = wanted.q THEN {"q"} ELSE {},
         Pending \/ box # wanted.q)

\* setFilter: the select reports a value that is not the one it shows.
SetFilter(value) ==
  /\ OnTasks /\ value # shown.status
  /\ Navigate([shown EXCEPT !.status = value], [wanted EXCEPT !.status = value], {"status"})
  /\ UNCHANGED quick

SetView(view) ==
  /\ OnTasks
  /\ Navigate([shown EXCEPT !.view = view], [wanted EXCEPT !.view = view], {"view"})
  /\ UNCHANGED quick

-----------------------------------------------------------------------------
(* Opening and closing *)

\* A mutant: a place is opened without the query.
Stripped(place) == Plain(place)

\* The filters stay with the project.
InProject(place) == [shown EXCEPT !.place = place]

OpenTask(t) ==
  /\ OnTasks /\ home[t] = Project
  /\ Navigate(InProject(<<Project, t>>), [wanted EXCEPT !.place = <<Project, t>>], {"place"})
  /\ UNCHANGED quick

CloseTask ==
  /\ OnTasks /\ Task # None
  /\ Navigate(InProject(<<Project, None>>), [wanted EXCEPT !.place = <<Project, None>>], {"place"})
  /\ UNCHANGED quick

\* A link, a task found or a notification opens a place without a query.  On
\* the same place the search box writes its text into the address again.
Follow(place) ==
  LET wish == [Plain(place) EXCEPT !.q = IF place = shown.place THEN box ELSE ""]
  IN Navigate(Plain(place), wish, {f \in Parts : Plain(place)[f] = wish[f]})

Click(place) == InShell /\ Follow(place) /\ UNCHANGED quick

FollowProject(p) == p \in ToSet(projects) /\ Click(<<p, None>>)
FollowActivity == Click(<<Project, Activity>>)
OpenNotification(t) == home[t] = Project /\ Click(<<Project, t>>)

\* The sign-out is answered, or the page found no session.
SignOut == Click(SignInPage.place)
SignIn == ~InShell /\ Follow(<<served[1], None>>) /\ UNCHANGED quick

OpenGlobalSearch ==
  /\ InShell /\ quick = "closed" /\ Move /\ quick' = "text"
  /\ UNCHANGED <<shown, asked, box, armed, dialog, creations, home, lists, adding, wanted, overtaken>>

CloseGlobalSearch ==
  /\ quick # "closed" /\ quick' = "closed"
  /\ UNCHANGED <<shown, asked, box, armed, dialog, creations, home, lists, adding, moves, wanted, overtaken>>

\* The tasks found, of the projects of the sidebar.
Found(t) == quick = "found" /\ home[t] # None /\ home[t] \in ToSet(projects)

OpenSearchResult(t) == Found(t) /\ quick' = "closed" /\ Follow(<<home[t], t>>)

\* 240 ms after the last key the term is searched, and the tasks arrive.
FindTasks ==
  /\ quick = "text" /\ quick' = "found"
  /\ UNCHANGED <<shown, asked, box, armed, dialog, creations, home, lists, adding, moves, wanted, overtaken>>

-----------------------------------------------------------------------------
(* A new task *)

Waiting == {c \in creations : c.from = None}

OpenCreateTask ==
  /\ InShell /\ dialog = None /\ Move
  /\ dialog' = Project /\ quick' = "closed"
  /\ UNCHANGED <<shown, asked, box, armed, creations, home, lists, adding, wanted, overtaken>>

\* Closing the dialog leaves the creation that was asked for.
CancelCreateTask ==
  /\ dialog # None /\ dialog' = None
  /\ UNCHANGED <<shown, asked, box, armed, quick, creations, home, lists, adding, moves, wanted, overtaken>>

\* The dialog offers the page's project and the others.
Offered == {Project} \cup ToSet(projects)

\* A shell waits for one creation at a time.
SubmitTask(p) ==
  /\ dialog # None /\ Waiting = {} /\ Move
  /\ p \in Offered
  /\ creations' = creations \cup {[for |-> p, from |-> None]}
  /\ dialog' = p
  /\ UNCHANGED <<shown, asked, box, armed, quick, home, lists, adding, wanted, overtaken>>

\* openTaskInProject, from the page as its shell was last rendered.
Opened(page, place) == IF place[1] = page.place[1] THEN [page EXCEPT !.place = place] ELSE Plain(place)

\* The answer: the dialog closes, though it may have been opened again, and
\* the task is opened, though the user may have gone elsewhere.
TaskCreated(c, t) ==
  LET page == IF c.from = None THEN shown ELSE c.from
  IN /\ home[t] = None
     /\ home' = [home EXCEPT ![t] = c.for]
     /\ creations' = creations \ {c}
     /\ dialog' = IF c.from = None THEN None ELSE dialog
     /\ wanted' = IF c.for = wanted.place[1] THEN [wanted EXCEPT !.place = <<c.for, t>>]
                                              ELSE Plain(<<c.for, t>>)
     /\ Ask(Opened(page, <<c.for, t>>), {"place"}, Pending \/ armed \/ c.from # None)
     /\ UNCHANGED <<shown, box, armed, quick, lists, adding, moves>>

TaskRefused(c) ==
  /\ creations' = creations \ {c}
  /\ UNCHANGED <<shown, asked, shell, home, lists, adding, moves, wanted, overtaken>>

-----------------------------------------------------------------------------
(* The projects *)

createProject(p) == served' = Append(served, p)

SubmitProject(p) ==
  /\ InShell /\ adding = None /\ p \notin ToSet(served) /\ Move
  /\ adding' = p /\ createProject(p)
  /\ UNCHANGED <<shown, asked, shell, creations, home, projects, reading, wanted, overtaken>>

\* The new project goes first and once.
WithNew(p, known) == <<p>> \o SelectSeq(known, LAMBDA q : q # p)

ProjectCreated ==
  /\ adding # None /\ adding' = None
  /\ projects' = WithNew(adding, projects)
  /\ wanted' = Plain(<<adding, None>>)
  /\ Ask(Plain(<<adding, None>>), Parts, Pending \/ armed)
  /\ UNCHANGED <<shown, shell, creations, home, served, reading, moves>>

ReadProjects ==
  /\ InShell /\ reading = <<>> /\ reading' = served
  /\ UNCHANGED <<shown, asked, shell, creations, home, projects, served, adding, moves, wanted, overtaken>>

ShowProjects ==
  /\ reading # <<>> /\ projects' = reading /\ reading' = <<>>
  /\ UNCHANGED <<shown, asked, shell, creations, home, served, adding, moves, wanted, overtaken>>

-----------------------------------------------------------------------------

ShellInit ==
  /\ shown = Plain(<<FirstProject, None>>) /\ asked = None
  /\ box = "" /\ armed = FALSE /\ dialog = None /\ creations = {}

SidebarInit ==
  quick = "closed" /\ projects = <<>> /\ reading = <<>> /\ adding = None

Init ==
  /\ ShellInit /\ SidebarInit
  /\ home = [t \in Tasks |-> IF t = FirstTask THEN FirstProject ELSE None]
  /\ served = <<FirstProject>>
  /\ moves = 0
  /\ wanted = shown /\ overtaken = {}

Next ==
  \/ Commit \/ WriteSearch \/ FindTasks
  \/ \E text \in Texts : TypeSearch(text)
  \/ \E value \in {All, "todo"} : SetFilter(value)
  \/ \E view \in {"list", "board"} : SetView(view)
  \/ \E t \in Tasks : OpenTask(t) \/ OpenNotification(t) \/ OpenSearchResult(t)
  \/ CloseTask \/ FollowActivity \/ SignOut \/ SignIn \/ OpenGlobalSearch \/ CloseGlobalSearch
  \/ OpenCreateTask \/ CancelCreateTask
  \/ \E p \in Projects : FollowProject(p) \/ SubmitTask(p) \/ SubmitProject(p)
  \/ \E c \in creations : TaskRefused(c) \/ \E t \in Tasks : TaskCreated(c, t)
  \/ ProjectCreated \/ ReadProjects \/ ShowProjects

\* The timer fires and the router shows what it was asked for.
Fairness == WF_vars(WriteSearch) /\ WF_vars(Commit)

Spec == Init /\ [][Next]_vars /\ Fairness

-----------------------------------------------------------------------------

TypeOK ==
  /\ shown \in Addresses /\ asked \in Addresses \cup {None} /\ wanted \in Addresses
  /\ box \in Texts /\ armed \in BOOLEAN /\ quick \in {"closed", "text", "found"}
  /\ dialog \in Projects \cup {None} /\ home \in [Tasks -> Projects \cup {None}]
  /\ moves \in 0..MaxMoves /\ overtaken \subseteq Parts

\* When the router and the search box have come to rest, the page is where the
\* user's moves lead: the place, the search and each filter.  What may be missing
\* was taken back by a request made from a page that did not show it yet.
ChoicesAreKept ==
  ~Pending /\ ~armed => \A f \in Parts \ overtaken : shown[f] = wanted[f]

\* The search box and the address come to agree, whatever was clicked while the
\* debounce ran; only a request for the very address shown can part them.
SearchIsApplied == []<>(box = shown.q \/ "q" \in overtaken)

=============================================================================
