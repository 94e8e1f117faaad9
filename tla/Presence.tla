----------------------------- MODULE Presence -----------------------------
(***************************************************************************)
(* Who is looking at a task: the presence hook of the browser              *)
(* (apps/web/features/collaboration/use-project-presence.ts), the handler  *)
(* of its socket and the room of each API instance                         *)
(* (internal/transport/httpapi/collaboration_ws.go), and the leases and    *)
(* the channel in Redis (internal/messaging/messaging.go).                 *)
(*                                                                         *)
(* One project.  A socket serves one mount of the hook, hence one task: a  *)
(* change of task closes it and opens another.  What Redis publishes waits *)
(* in the queue of each connection that hears it, in the order of its      *)
(* publication.  Selections are left out.                                  *)
(***************************************************************************)
EXTENDS Naturals, Sequences, FiniteSets, SequencesExt, Functions, FiniteSetsExt

CONSTANTS
  Tabs,          \* browser tabs
  Actors,        \* the people signed in
  ActorOf,       \* the person of each tab
  Instances,     \* API processes
  Tasks,
  MaxFailures,   \* sockets dropped, instances crashed, Redis calls failed, late renewals
  MaxSockets     \* sockets ever accepted, of each tab

ASSUME PresenceAssumption ==
  /\ ActorOf \in [Tabs -> Actors]
  /\ MaxFailures \in Nat /\ MaxSockets \in [Tabs -> Nat]

None == "none"        \* no task
Absent == "absent"    \* no entry

VARIABLES
  task,      \* the task each tab has open
  socket,    \* the session of the tab's current socket, 0 while it has none
  self,      \* serverSession: the session the last welcome named
  peers,     \* the map of other sessions each mount of the hook keeps
  conn,      \* the connections, by session: the handler and its queue
  lease,     \* the leases in Redis, by session
  failures,
  orphaned,  \* history: sessions whose end was not announced everywhere
  missedEnds \* history: tab and session whose end that tab could not hear

browser == <<task, socket, self, peers>>
presenceHistory == <<orphaned, missedEnds>>
presenceVars == <<browser, conn, lease, failures, presenceHistory>>

Sessions == 1..SumFunction(MaxSockets)
Accepted == DOMAIN conn

-----------------------------------------------------------------------------
(* Frames *)

Presence(s, k) == [type |-> "presence", session |-> s, task |-> k]
Leave(s) == [type |-> "leave", session |-> s, task |-> None]
Welcome(s) == [type |-> "welcome", session |-> s, task |-> None]

InRoom(s) == conn[s].stage # "gone"
Here(i) == {s \in Accepted : InRoom(s) /\ conn[s].at = i}

\* Whoever still reads its socket; the room's other connections are to part.
Listening(s) == socket[conn[s].tab] = s

\* A frame goes to the connections of a room, its own session excepted.
ToRoom(connections, frame, room) ==
  [s \in DOMAIN connections |->
     IF s \in room /\ s # frame.session /\ Listening(s)
       THEN [connections[s] EXCEPT !.queue = Append(@, frame)]
       ELSE connections[s]]

\* Redis takes the call and every instance hears of it; or the call fails and
\* the room of the handler's own instance hears of it alone.
RedisAnswers == UNCHANGED failures
RedisFails == failures < MaxFailures /\ failures' = failures + 1

Announced(connections, s, frame) ==
  \/ /\ RedisAnswers
     /\ lease' = [lease EXCEPT ![s] = frame.task]
     /\ conn' = ToRoom(connections, frame, Accepted)
  \/ /\ RedisFails
     /\ conn' = ToRoom(connections, frame, Here(conn[s].at))
     /\ UNCHANGED lease

\* The bound on sockets leaves one for every tab that needs it.
Opened(t) == Cardinality({s \in Accepted : conn[s].tab = t})
Affords(needy) == \A t \in needy : Opened(t) < MaxSockets[t]

-----------------------------------------------------------------------------
(* The handler of a socket *)

\* The connection joins the room before it reads who is there.
JoinRoom(t, i) ==
  /\ task[t] # None /\ socket[t] = 0
  /\ Affords({t}) /\ Len(conn) + 1 \in Sessions
  /\ conn' = Append(conn, [tab |-> t, task |-> task[t], at |-> i, stage |-> "joined",
                           seen |-> {}, queue |-> <<>>])
  /\ socket' = [socket EXCEPT ![t] = Len(conn) + 1]
  /\ UNCHANGED <<task, self, peers, lease, failures, presenceHistory>>

\* The leases that hold; without Redis the sessions of the room, whose tasks
\* the hub does not know.
Leased == {Presence(s, lease[s]) : s \in {r \in Sessions : lease[r] # Absent}}
InHub(i) == {Presence(s, None) : s \in Here(i)}

Listed(s, frames) ==
  conn' = [conn EXCEPT ![s].stage = "listed",
             ![s].seen = IF Listening(s) THEN {f \in frames : f.session # s} ELSE {}]

ListPresence(s) ==
  /\ conn[s].stage = "joined"
  /\ \/ RedisAnswers /\ Listed(s, Leased)
     \/ RedisFails /\ Listed(s, InHub(conn[s].at))
  /\ UNCHANGED <<browser, lease, presenceHistory>>

\* What was read goes out behind what was broadcast meanwhile, then the
\* welcome; and the session is announced, without a task yet.
Greeted(s) ==
  [conn EXCEPT ![s].stage = "open", ![s].seen = {},
     ![s].queue = IF Listening(s) THEN @ \o SetToSeq(conn[s].seen) \o <<Welcome(s)>> ELSE @]

Enter(s) ==
  /\ conn[s].stage = "listed"
  /\ Announced(Greeted(s), s, Presence(s, None))
  /\ UNCHANGED <<browser, presenceHistory>>

\* A presence frame of the browser: sent when the socket opens and every 15
\* seconds from then on.  Left out are the frames that change nothing: those
\* that tell Redis and every tab what they hold already, or what the frame
\* before, still under way, is about to tell them.
\* A mutant: the browser announces its task once, when the socket opens.
NewsOnce(s) == lease[s] # conn[s].task

IsNews(s) == \/ lease[s] # conn[s].task
             \/ \E r \in Accepted \ {s} :
                  InRoom(r) /\ Listening(r) /\ peers[conn[r].tab][s] # conn[s].task

Quiet(s) == \A r \in Accepted :
              ~\E f \in ToSet(conn[r].queue) : f.type = "presence" /\ f.session = s

Announce(s) ==
  /\ conn[s].stage = "open" /\ Listening(s)
  /\ IsNews(s) /\ Quiet(s)
  /\ Announced(conn, s, Presence(s, conn[s].task))
  /\ UNCHANGED <<browser, presenceHistory>>

\* Sessions whose end is on its way to a tab.
Unheard(t) == IF socket[t] = 0 THEN {}
              ELSE {f.session : f \in {g \in ToSet(conn[socket[t]].queue) : g.type = "leave"}}

\* Tabs that have the panel open and cannot hear the end of session s: no
\* socket in the room, or the end comes before a list that still names s.
Deaf(s) ==
  {t \in Tabs : task[t] # None
                /\ (socket[t] = 0 \/ \E f \in conn[socket[t]].seen : f.session = s)}

\* The handler's read fails: the connection leaves the room, then the lease is
\* taken back and the end published, or told to the room alone.
Part(s) ==
  /\ conn[s].stage = "open" /\ ~Listening(s)
  /\ LET parted == [conn EXCEPT ![s].stage = "gone"]
     IN \/ /\ RedisAnswers
           /\ lease' = [lease EXCEPT ![s] = Absent]
           /\ conn' = ToRoom(parted, Leave(s), Accepted)
           /\ missedEnds' = missedEnds \cup {<<t, s>> : t \in Deaf(s)}
           /\ UNCHANGED orphaned
        \/ /\ RedisFails
           /\ conn' = ToRoom(parted, Leave(s), Here(conn[s].at))
           /\ orphaned' = orphaned \cup {s}
           /\ UNCHANGED <<lease, missedEnds>>
  /\ UNCHANGED browser

\* An API process dies with its connections; nobody announces their end, and
\* their leases stay until they expire.
Crash(i) ==
  /\ failures < MaxFailures /\ Here(i) # {}
  /\ Affords({t \in Tabs : socket[t] \in Here(i)})
  /\ conn' = [s \in Accepted |-> IF s \in Here(i)
                THEN [conn[s] EXCEPT !.stage = "gone", !.queue = <<>>, !.seen = {}] ELSE conn[s]]
  /\ socket' = [t \in Tabs |-> IF socket[t] \in Here(i) THEN 0 ELSE socket[t]]
  /\ failures' = failures + 1
  /\ orphaned' = orphaned \cup Here(i)
  /\ missedEnds' = missedEnds \cup
       UNION {{t} \X Unheard(t) : t \in {u \in Tabs : socket[u] \in Here(i)}}
  /\ UNCHANGED <<task, self, peers, lease>>

\* A lease runs out: its session ended without a word, or its renewal is late
\* or was taken for an expired one by a list that was being read.
Expire(s) ==
  /\ lease[s] # Absent
  /\ IF InRoom(s) THEN failures < MaxFailures /\ failures' = failures + 1 ELSE UNCHANGED failures
  /\ lease' = [lease EXCEPT ![s] = Absent]
  /\ UNCHANGED <<browser, conn, presenceHistory>>

-----------------------------------------------------------------------------
(* The hook *)

\* The effect runs for a task, or cleans up when the panel closes: the socket
\* of the effect before is closed and its peers are forgotten.
HungUp(t) ==
  IF socket[t] = 0 THEN conn ELSE [conn EXCEPT ![socket[t]].queue = <<>>, ![socket[t]].seen = {}]

Mount(t, k) ==
  /\ k # task[t]
  /\ k # None => Affords({t})
  /\ task' = [task EXCEPT ![t] = k]
  /\ socket' = [socket EXCEPT ![t] = 0]
  /\ self' = [self EXCEPT ![t] = 0]
  /\ peers' = [peers EXCEPT ![t] = [s \in Sessions |-> Absent]]
  /\ conn' = HungUp(t)
  /\ missedEnds' = {m \in missedEnds : m[1] # t}
  /\ UNCHANGED <<lease, failures, orphaned>>

\* The network takes the socket, and with it what was on its way: the hook
\* keeps its peers and connects again after a pause.
LoseSocket(t) ==
  /\ failures < MaxFailures /\ failures' = failures + 1
  /\ socket[t] # 0 /\ Affords({t})
  /\ socket' = [socket EXCEPT ![t] = 0]
  /\ conn' = HungUp(t)
  /\ missedEnds' = missedEnds \cup ({t} \X Unheard(t))
  /\ UNCHANGED <<task, self, peers, lease, orphaned>>

\* A mutant: a peer that left stays on the map.
AppliedWithoutLeave(t, frame) ==
  IF frame.type \in {"welcome", "leave"} \/ frame.session = self[t] THEN peers[t]
  ELSE [peers[t] EXCEPT ![frame.session] = frame.task]

\* apply: the frames of the own session are ignored.
Applied(t, frame) ==
  IF frame.type = "welcome" \/ frame.session = self[t] THEN peers[t]
  ELSE [peers[t] EXCEPT ![frame.session] = IF frame.type = "leave" THEN Absent ELSE frame.task]

Receive(t) ==
  /\ socket[t] # 0
  /\ LET c == conn[socket[t]] IN
     /\ c.queue # <<>>
     /\ peers' = [peers EXCEPT ![t] = Applied(t, Head(c.queue))]
     /\ self' = [self EXCEPT ![t] = IF Head(c.queue).type = "welcome"
                                       THEN Head(c.queue).session ELSE @]
     /\ conn' = [conn EXCEPT ![socket[t]].queue = Tail(@)]
  /\ UNCHANGED <<task, socket, lease, failures, presenceHistory>>

\* taskCollaborators: one entry for each other person on the same task.
Collaborators(t) ==
  {ActorOf[conn[s].tab] : s \in {r \in Accepted : task[t] # None /\ peers[t][r] = task[t]}}
    \ {ActorOf[t]}

-----------------------------------------------------------------------------

PresenceInit ==
  /\ task = [t \in Tabs |-> None] /\ socket = [t \in Tabs |-> 0] /\ self = [t \in Tabs |-> 0]
  /\ peers = [t \in Tabs |-> [s \in Sessions |-> Absent]]
  /\ conn = <<>> /\ lease = [s \in Sessions |-> Absent]
  /\ failures = 0 /\ orphaned = {} /\ missedEnds = {}

Handler(s) == ListPresence(s) \/ Enter(s) \/ Announce(s) \/ Part(s)

PresenceNext ==
  \/ \E t \in Tabs, k \in Tasks \cup {None} : Mount(t, k)
  \/ \E t \in Tabs, i \in Instances : JoinRoom(t, i)
  \/ \E t \in Tabs : LoseSocket(t) \/ Receive(t)
  \/ \E s \in Accepted : Handler(s) \/ Expire(s)
  \/ \E i \in Instances : Crash(i)

\* The hook reconnects and renews by timers, handlers run, frames arrive.
\* Nobody has to open a task, and no fault has to happen.
Fairness ==
  /\ \A t \in Tabs : /\ WF_presenceVars(\E i \in Instances : JoinRoom(t, i))
                     /\ WF_presenceVars(Receive(t))
  /\ \A s \in Sessions : WF_presenceVars(s \in Accepted /\ Handler(s))

PresenceSpec == PresenceInit /\ [][PresenceNext]_presenceVars /\ Fairness

-----------------------------------------------------------------------------

\* A session in a tab's map has not ended, or its end is on its way to the tab.
\* The exceptions are the ones the code leaves: the tab was not connected when
\* the end was published, or had read a list from before it and was sent that
\* list after it; and an end nobody published to everyone.
GhostsAreExplained ==
  \A t \in Tabs, s \in Accepted :
    peers[t][s] # Absent /\ ~InRoom(s) =>
      s \in orphaned \/ <<t, s>> \in missedEnds \/ s \in Unheard(t)

Together(t, u) == task[t] # None /\ task[t] = task[u]

\* Two people who stay on a task come to see each other and go on doing so,
\* whatever overtook what while they joined: every session is announced again.
NobodyMissing ==
  \A t, u \in Tabs : ActorOf[t] # ActorOf[u] =>
    (<>[]Together(t, u) => <>[](ActorOf[u] \in Collaborators(t)))

=============================================================================
