------------------------- MODULE CollaborationProofs -------------------------
(***************************************************************************)
(* Proofs about the people on a task.  The collaborative description:      *)
(* nothing that was acknowledged is lost, the plain text enters the        *)
(* document once, and a session that is quiet shows what is stored.        *)
(* Presence: whoever a tab shows after the end of their session is on the  *)
(* way out of its map, or is one of the ends the code cannot bring there.  *)
(***************************************************************************)
EXTENDS Description, Presence, SequenceTheorems, FiniteSetTheorems, TLAPS

\* A sequence, whatever its elements.
IsSeq(s) == s \in Seq(Range(s))

Shapes ==
  /\ DOMAIN handler = Clients /\ DOMAIN editor = Clients /\ DOMAIN queue = Clients /\ DOMAIN wire = Clients
  /\ DOMAIN doc = Clients /\ DOMAIN pending = Clients /\ DOMAIN wasInit = Clients
  /\ DOMAIN session = Clients /\ DOMAIN sent = Clients
  /\ DOMAIN ready = Clients /\ DOMAIN readOnly = Clients /\ DOMAIN connection = Clients
  /\ \A c \in Clients : IsSeq(queue[c]) /\ IsSeq(wire[c]) /\ IsSeq(pending[c]) /\ sent[c] \in Nat

\* The frames of a client that the server may still meet.
Held(c) == IF handler[c].phase \in {"appending", "done"} THEN {handler[c].frame} ELSE {}

Frames(c) == Range(wire[c]) \cup Range(pending[c]) \cup Held(c)

\* The document's row has one holder, and while the worker holds it what it has
\* read stays what is stored.
LocksHold ==
  /\ \A c \in Clients : handler[c].phase = "appending" => lock = c
  /\ compactor # Idle => lock = Worker
  /\ compactor.phase \in {"idle", "locked", "merged"}
  /\ compactor.phase = "idle" => compactor = Idle
  /\ compactor.phase = "locked" => compactor.snapshot = snapshot
  /\ compactor.phase = "merged" => compactor.us = Stored

\* A message's number names one frame, and a frame that was saved is stored.
FramesOf(c) ==
  /\ \A f \in Frames(c) :
       /\ \E k \in 1..sent[c] : f.id = <<c, k>>
       /\ f.us \subseteq doc[c]
       /\ f.id \in committed => f.us \subseteq Stored
  /\ \A f, g \in Frames(c) : f.id = g.id => f = g
  /\ handler[c].phase = "done" => handler[c].frame.id \in committed

FramesHold ==
  /\ \A id \in committed : \E c \in Clients : \E k \in 1..sent[c] : id = <<c, k>>
  /\ \A c \in Clients : FramesOf(c)

\* What is on its way to a client, or kept as acknowledged, is stored.
AnswersHold ==
  /\ acked \subseteq Stored
  /\ \A c \in Clients :
       /\ handler[c].phase = "reading" => handler[c].snapshot \subseteq Stored
       /\ \A m \in Range(queue[c]) :
            /\ m.kind = "ack" => m.id \in committed
            /\ m.kind = "update" => m.us \subseteq Stored
            /\ m.kind = "bootstrap" => m.us \subseteq Stored /\ m.updates \subseteq Stored

\* The base of a client's session, and the text it makes.
OnlyBase(c) == {Update(Me(c), 1, TRUE)}

Carries(u, fs) == \E f \in fs : u \in f.us

\* As long as nobody has initialized the document, nobody has anything of it but
\* the plain text; afterwards only an update without a base can be added to it.
TextEntersOnce ==
  /\ ~initialized =>
       /\ snapshot = {} /\ rows = {} /\ committed = {}
       /\ \A c \in Clients : doc[c] \subseteq OnlyBase(c)
       /\ \A c \in Clients : \A f \in Frames(c) : f.text = Visible(f.us)
  /\ \A c \in Clients : \A f \in Frames(c) :
       /\ f.kind \in {"init", "update"}
       /\ f.kind = "update" => initialized /\ \A u \in f.us : ~u.base
  /\ \A c \in Clients :
       /\ handler[c].phase = "appending" => handler[c].frame.kind = "update"
       /\ handler[c].phase = "reading" /\ handler[c].initialized => initialized
       /\ wasInit[c] => initialized
       /\ ready[c] /\ ~readOnly[c] => initialized
       /\ \A m \in Range(queue[c]) :
            /\ m.kind = "update" \/ m = Error("initialized") => initialized
            /\ m.kind = "bootstrap" /\ m.initialized => initialized
  /\ \A u, v \in Stored : u.base /\ v.base => u = v
  /\ initialized /\ rows = {} => projection = Visible(snapshot)

\* A session has nothing that is neither stored nor pending, unless it gave it up.
NothingElse ==
  \A c \in Clients :
    /\ connection[c] = "synced" => pending[c] = <<>>
    /\ c \notin givenUp => \A u \in doc[c] : u \in Stored \/ Carries(u, Range(pending[c]))

\* What a client shows, or will be told.
Told(m) == IF m.kind = "update" THEN m.us ELSE IF m.kind = "bootstrap" THEN m.us \cup m.updates ELSE {}

OnTheWay(c, u) ==
  \/ u \in doc[c]
  \/ \E m \in Range(queue[c]) : u \in Told(m)
  \/ \E d \in Clients \ {c} : handler[d].phase = "done" /\ u \in handler[d].frame.us

\* A client that has tried to initialize a document another one initialized: it
\* is refused, and starts again.
Late(c) ==
  /\ initialized
  /\ \/ \E f \in Range(pending[c]) : f.kind = "init" /\ f.id \notin committed
     \/ \E m \in Range(queue[c]) : m.kind = "bootstrap" /\ ~m.initialized

NothingIsMissed ==
  \A c \in Clients :
    handler[c].phase \in {"idle", "appending", "done"} /\ c \notin missed \cup givenUp /\ ~Late(c) =>
      \A u \in Stored : OnTheWay(c, u)

IInv ==
  /\ Shapes /\ LocksHold /\ FramesHold /\ AnswersHold
  /\ TextEntersOnce /\ NothingElse /\ NothingIsMissed

-----------------------------------------------------------------------------
(* The elements of sequences *)

LEMMA SeqElements ==
  ASSUME NEW s, IsSeq(s)
  PROVE  /\ Len(s) \in Nat /\ DOMAIN s = 1..Len(s)
         /\ \A e : e \in Range(s) <=> \E i \in 1..Len(s) : e = s[i]
  BY LenProperties, RangeEquality DEF IsSeq

LEMMA EmptyElements == IsSeq(<<>>) /\ Range(<<>>) = {}
  <1>1. <<>> \in Seq({}) /\ Len(<<>>) = 0
    BY EmptySeq
  <1>2. Range(<<>>) = {<<>>[i] : i \in 1..Len(<<>>)}
    BY <1>1, RangeEquality
  <1>3. Range(<<>>) = {}
    BY <1>1, <1>2
  <1> QED
    BY <1>1, <1>3 DEF IsSeq

LEMMA AppendElements ==
  ASSUME NEW s, IsSeq(s), NEW e
  PROVE  IsSeq(Append(s, e)) /\ Range(Append(s, e)) = Range(s) \cup {e}
  <1> DEFINE S == Range(s) \cup {e}
  <1>1. s \in Seq(S)
    BY SeqMonotonic DEF IsSeq
  <1>2. Append(s, e) \in Seq(S) /\ Len(Append(s, e)) = Len(s) + 1
    BY <1>1, AppendProperties
  <1>3. Range(Append(s, e)) = {Append(s, e)[i] : i \in 1..Len(Append(s, e))}
    BY <1>2, RangeEquality
  <1>4. Len(s) \in Nat
    BY <1>1, LenProperties
  <1>5. \A i \in 1..Len(s) : Append(s, e)[i] = s[i]
    BY <1>1, AppendProperties
  <1>6. Append(s, e)[Len(s) + 1] = e
    BY <1>1, AppendProperties
  <1>7. Range(s) = {s[i] : i \in 1..Len(s)}
    BY RangeEquality DEF IsSeq
  <1>8. Range(Append(s, e)) = Range(s) \cup {e}
    <2> HIDE DEF S
    <2>1. ASSUME NEW x \in Range(Append(s, e)) PROVE x \in Range(s) \cup {e}
      <3>1. PICK i \in 1..(Len(s) + 1) : x = Append(s, e)[i]
        BY <1>2, <1>3, <2>1
      <3> QED
        BY <1>4, <1>5, <1>6, <1>7, <3>1
    <2>2. ASSUME NEW x \in Range(s) \cup {e} PROVE x \in Range(Append(s, e))
      <3>1. CASE x = e
        BY <1>2, <1>3, <1>4, <1>6, <3>1
      <3>2. CASE x \in Range(s)
        <4>1. PICK i \in 1..Len(s) : x = s[i]
          BY <1>7, <3>2
        <4> QED
          BY <1>2, <1>3, <1>4, <1>5, <4>1
      <3> QED
        BY <2>2, <3>1, <3>2
    <2> QED
      BY <2>1, <2>2
  <1> QED
    BY <1>2, <1>8 DEF IsSeq

LEMMA TailElements ==
  ASSUME NEW s, IsSeq(s), s # <<>>
  PROVE  IsSeq(Tail(s)) /\ Range(s) = {Head(s)} \cup Range(Tail(s))
  <1>1. /\ Tail(s) \in Seq(Range(s)) /\ Len(Tail(s)) = Len(s) - 1
        /\ \A i \in 1..Len(Tail(s)) : Tail(s)[i] = s[i + 1]
    BY HeadTailProperties DEF IsSeq
  <1>2. Len(s) \in Nat \ {0} /\ Head(s) = s[1]
    BY EmptySeq, SeqElements DEF IsSeq
  <1>3. /\ Range(s) = {s[i] : i \in 1..Len(s)}
        /\ Range(Tail(s)) = {Tail(s)[i] : i \in 1..Len(Tail(s))}
    BY <1>1, RangeEquality DEF IsSeq
  <1>4. \A i \in 2..Len(s) : s[i] = Tail(s)[i - 1] /\ i - 1 \in 1..Len(Tail(s))
    BY <1>1, <1>2
  <1>5. Range(s) \subseteq {Head(s)} \cup Range(Tail(s))
    <2> SUFFICES ASSUME NEW i \in 1..Len(s), i # 1
                 PROVE  s[i] \in Range(Tail(s))
      BY <1>2, <1>3
    <2>1. i \in 2..Len(s)
      BY <1>2
    <2>2. s[i] = Tail(s)[i - 1] /\ i - 1 \in 1..Len(Tail(s))
      BY <1>4, <2>1
    <2> QED
      BY <1>3, <2>2
  <1>6. {Head(s)} \cup Range(Tail(s)) \subseteq Range(s)
    BY <1>1, <1>2, <1>3
  <1> QED
    BY <1>1, <1>5, <1>6, SeqOfRange DEF IsSeq

LEMMA ConcatElements ==
  ASSUME NEW s, NEW t, IsSeq(s), IsSeq(t)
  PROVE  IsSeq(s \o t) /\ Range(s \o t) = Range(s) \cup Range(t)
  <1>1. s \in Seq(Range(s) \cup Range(t)) /\ t \in Seq(Range(s) \cup Range(t))
    BY SeqMonotonic DEF IsSeq
  <1> QED
    BY <1>1, ConcatProperties, RangeConcatenation DEF IsSeq

\* Without its i-th element a sequence has the others.
LEMMA WithoutElements ==
  ASSUME NEW s, IsSeq(s), NEW i \in 1..Len(s)
  PROVE  /\ IsSeq(Without(s, i))
         /\ Range(Without(s, i)) \subseteq Range(s)
         /\ Range(s) \subseteq Range(Without(s, i)) \cup {s[i]}
  <1> DEFINE a == SubSeq(s, 1, i - 1)
             b == SubSeq(s, i + 1, Len(s))
  <1>1. Len(s) \in Nat /\ \A j \in 1..Len(s) : s[j] \in Range(s)
    BY SeqElements
  <1>2. /\ a \in Seq(Range(s)) /\ Len(a) = i - 1
        /\ \A j \in 1..(i - 1) : a[j] = s[j]
    <2>1. /\ a \in Seq(Range(s)) /\ Len(a) = IF 1 <= i - 1 THEN (i - 1) - 1 + 1 ELSE 0
          /\ \A j \in 1..((i - 1) - 1 + 1) : a[j] = s[1 + j - 1]
      BY <1>1, SubSeqProperties
    <2> QED
      BY <1>1, <2>1
  <1>3. /\ b \in Seq(Range(s)) /\ Len(b) = Len(s) - i
        /\ \A j \in 1..(Len(s) - i) : b[j] = s[i + j]
    <2>1. /\ b \in Seq(Range(s)) /\ Len(b) = IF i + 1 <= Len(s) THEN Len(s) - (i + 1) + 1 ELSE 0
          /\ \A j \in 1..(Len(s) - (i + 1) + 1) : b[j] = s[(i + 1) + j - 1]
      BY <1>1, SubSeqProperties
    <2> QED
      BY <1>1, <2>1
  <1> HIDE DEF a, b
  <1>4. IsSeq(a) /\ IsSeq(b)
    BY <1>2, <1>3, SeqOfRange DEF IsSeq
  <1>5. IsSeq(a \o b) /\ Range(a \o b) = Range(a) \cup Range(b)
    BY <1>4, ConcatElements
  <1>6. Range(a) \subseteq Range(s) /\ Range(b) \subseteq Range(s)
    BY <1>2, <1>3, RangeOfSeq
  <1>7. ASSUME NEW e \in Range(s), e # s[i] PROVE e \in Range(a) \cup Range(b)
    <2>1. PICK j \in 1..Len(s) : e = s[j]
      BY <1>7, SeqElements
    <2>2. CASE j < i
      BY <1>1, <1>2, <1>4, <2>1, <2>2, SeqElements
    <2>3. CASE j > i
      <3>1. j - i \in 1..(Len(s) - i) /\ b[j - i] = e
        BY <1>1, <1>3, <2>1, <2>3
      <3> QED
        BY <1>3, <1>4, <3>1, SeqElements
    <2> QED
      BY <1>1, <1>7, <2>1, <2>2, <2>3
  <1> QED
    BY <1>5, <1>6, <1>7 DEF Without, a, b

-----------------------------------------------------------------------------
(* Shapes *)

LEMMA ShapesInit == Init => Shapes
  BY EmptyElements DEF Init, DocumentInit, RoomInit, SessionInit, Shapes

\* What the others are told of a frame.
News(frame) == [kind |-> "update", us |-> frame.us]

\* A broadcast adds at most one message to each queue.
LEMMA BroadcastShape ==
  ASSUME Shapes, NEW c \in Clients, NEW frame
  PROVE  /\ DOMAIN Broadcast(c, frame) = Clients
         /\ \A d \in Clients : IsSeq(Broadcast(c, frame)[d])
         /\ Range(Broadcast(c, frame)[c]) = Range(queue[c]) \cup {Ack(frame)}
         /\ \A d \in Clients \ {c} :
              \/ Broadcast(c, frame)[d] = queue[d] /\ d \notin Room
              \/ Range(Broadcast(c, frame)[d]) = Range(queue[d]) \cup {News(frame)}
  BY AppendElements DEF Broadcast, Shapes, News

LEMMA HangupShape ==
  ASSUME Shapes, NEW c \in Clients, Hangup(c)
  PROVE  /\ DOMAIN handler' = Clients /\ DOMAIN wire' = Clients /\ DOMAIN queue' = Clients
         /\ editor' = editor
         /\ \A d \in Clients : IsSeq(queue'[d]) /\ IsSeq(wire'[d])
  <1> USE DEF Hangup, Shapes
  <1>1. CASE handler[c].phase = "appending" /\ queue' = [Broadcast(c, handler[c].frame) EXCEPT ![c] = <<>>]
    BY <1>1, BroadcastShape, EmptyElements
  <1>2. CASE queue' = [queue EXCEPT ![c] = <<>>]
    BY <1>2, EmptyElements
  <1>3. CASE handler[c].phase = "done" /\ queue' = [Broadcast(c, handler[c].frame) EXCEPT ![c] = <<>>]
    BY <1>3, BroadcastShape, EmptyElements
  <1> QED
    BY <1>1, <1>2, <1>3

\* A queue that is sent a message, a frame that is sent.
LEMMA SendShape ==
  ASSUME NEW q, DOMAIN q = Clients, \A d \in Clients : IsSeq(q[d]), NEW c \in Clients, NEW e
  PROVE  /\ DOMAIN Send(q, c, e) = Clients
         /\ \A d \in Clients : IsSeq(Send(q, c, e)[d])
         /\ Range(Send(q, c, e)[c]) = Range(q[c]) \cup {e}
         /\ \A d \in Clients \ {c} : Send(q, c, e)[d] = q[d]
  BY AppendElements DEF Send

LEMMA RefuseEffect ==
  ASSUME Shapes, NEW c \in Clients, Refuse(c)
  PROVE  /\ handler[c] = Idle
         /\ \E what \in {"limit", "initialized", "failed"} :
              queue' = Send(queue, c, Error(what)) /\ (what = "initialized" => initialized)
         /\ wire[c] # <<>> /\ wire' = [wire EXCEPT ![c] = Tail(@)]
         /\ UNCHANGED <<stored, compactor, handler, editor, screen, local, ghosts>>
  BY DEF Refuse, Taken

LEMMA SendUpdateShape ==
  ASSUME Shapes, NEW c \in Clients, NEW kind, NEW us, NEW text, SendUpdate(c, kind, us, text)
  PROVE  /\ DOMAIN sent' = Clients /\ DOMAIN pending' = Clients /\ DOMAIN wire' = Clients
         /\ sent'[c] = sent[c] + 1 /\ sent'[c] \in Nat
         /\ \A d \in Clients : IsSeq(pending'[d]) /\ IsSeq(wire'[d])
         /\ Range(pending'[c]) = Range(pending[c]) \cup {Frame(c, kind, us, text)}
         /\ Range(wire'[c]) \subseteq Range(wire[c]) \cup {Frame(c, kind, us, text)}
         /\ \A d \in Clients \ {c} : sent'[d] = sent[d] /\ pending'[d] = pending[d] /\ wire'[d] = wire[d]
  <1> USE DEF Shapes, SendUpdate
  <1> DEFINE frame == Frame(c, kind, us, text)
  <1>1. /\ sent' = [sent EXCEPT ![c] = @ + 1] /\ pending' = [pending EXCEPT ![c] = Append(@, frame)]
        /\ wire' = IF Open(c) THEN Send(wire, c, frame) ELSE wire
    OBVIOUS
  <1> HIDE DEF frame, SendUpdate
  <1>2. IsSeq(Append(pending[c], frame)) /\ Range(Append(pending[c], frame)) = Range(pending[c]) \cup {frame}
    BY AppendElements
  <1>3. /\ DOMAIN wire' = Clients /\ \A d \in Clients : IsSeq(wire'[d])
        /\ Range(wire'[c]) \subseteq Range(wire[c]) \cup {frame}
        /\ \A d \in Clients \ {c} : wire'[d] = wire[d]
    <2>1. DOMAIN wire = Clients /\ \A d \in Clients : IsSeq(wire[d])
      OBVIOUS
    <2>2. CASE wire' = Send(wire, c, frame)
      <3>1. /\ DOMAIN Send(wire, c, frame) = Clients
            /\ \A d \in Clients : IsSeq(Send(wire, c, frame)[d])
            /\ Range(Send(wire, c, frame)[c]) = Range(wire[c]) \cup {frame}
            /\ \A d \in Clients \ {c} : Send(wire, c, frame)[d] = wire[d]
        BY <2>1, SendShape
      <3> QED
        BY <2>2, <3>1
    <2>3. CASE wire' = wire
      BY <2>1, <2>3
    <2> QED
      BY <1>1, <2>2, <2>3
  <1>4. /\ DOMAIN sent' = Clients /\ DOMAIN pending' = Clients
        /\ sent'[c] = sent[c] + 1 /\ sent'[c] \in Nat
        /\ \A d \in Clients : IsSeq(pending'[d])
        /\ Range(pending'[c]) = Range(pending[c]) \cup {frame}
        /\ \A d \in Clients \ {c} : sent'[d] = sent[d] /\ pending'[d] = pending[d]
    BY <1>1, <1>2
  <1> QED
    BY <1>3, <1>4 DEF frame

\* What is merged of a bootstrap, and what a client adds when nobody had
\* initialized the document.
Base(c) == IF Visible(doc[c]) # {} THEN {} ELSE {MyNext(c, TRUE)}

LEMMA BootstrapEffect ==
  ASSUME Shapes, NEW c \in Clients, OnBootstrap(c), NEW f, f = Head(queue[c])
  PROVE  /\ queue[c] # <<>> /\ f.kind = "bootstrap" /\ queue' = [queue EXCEPT ![c] = Tail(@)]
         /\ wasInit' = [wasInit EXCEPT ![c] = f.initialized]
         /\ readOnly' = [readOnly EXCEPT ![c] = f.readOnly]
         /\ DOMAIN ready' = Clients /\ (ready'[c] <=> f.initialized \/ f.readOnly)
         /\ \A d \in Clients \ {c} : ready'[d] = ready[d]
         /\ connection' = [connection EXCEPT ![c] = Settled(c, pending'[c])]
         /\ UNCHANGED <<stored, compactor, handler, editor, session, ghosts>>
         /\ \/ /\ f.initialized
               /\ doc' = [doc EXCEPT ![c] = doc[c] \cup f.us \cup f.updates]
               /\ wire' = [wire EXCEPT ![c] = @ \o pending[c]]
               /\ UNCHANGED <<pending, sent>>
            \/ /\ ~f.initialized
               /\ doc' = [doc EXCEPT ![c] = doc[c] \cup f.us \cup Base(c) \cup f.updates]
               /\ SendUpdate(c, "init", doc'[c], Visible(doc'[c]))
  <1> USE DEF Shapes
  <1>1. CASE f.initialized
    BY <1>1 DEF OnBootstrap, Resend, Received, local, screen
  <1>2. CASE ~f.initialized
    <2>1. doc' = [doc EXCEPT ![c] = doc[c] \cup f.us \cup Base(c) \cup f.updates]
      BY <1>2 DEF OnBootstrap, Base
    <2>2. doc'[c] = doc[c] \cup f.us \cup Base(c) \cup f.updates
      BY <2>1
    <2>3. SendUpdate(c, "init", doc'[c], Visible(doc'[c]))
      BY <1>2, <2>2 DEF OnBootstrap, Base
    <2>4. /\ queue[c] # <<>> /\ f.kind = "bootstrap" /\ queue' = [queue EXCEPT ![c] = Tail(@)]
          /\ wasInit' = [wasInit EXCEPT ![c] = f.initialized]
          /\ readOnly' = [readOnly EXCEPT ![c] = f.readOnly]
          /\ ready' = [ready EXCEPT ![c] = f.initialized \/ f.readOnly]
          /\ connection' = [connection EXCEPT ![c] = Settled(c, pending'[c])]
          /\ UNCHANGED <<stored, compactor, handler, editor, session, ghosts>>
      BY DEF OnBootstrap, Received
    <2> QED
      BY <1>2, <2>1, <2>3, <2>4
  <1> QED
    BY <1>1, <1>2

LEMMA PublishEffect ==
  ASSUME Shapes, NEW c \in Clients, Publish(c)
  PROVE  LET frame == handler[c].frame IN
         /\ handler[c].phase = "done" /\ handler' = [handler EXCEPT ![c] = Idle]
         /\ UNCHANGED <<stored, compactor, editor, wire, screen, local, givenUp>>
         /\ acked' \subseteq acked \cup frame.us
         /\ \/ queue' = Broadcast(c, frame) /\ UNCHANGED missed
            \/ queue' = Send(queue, c, Ack(frame)) /\ missed' = missed \cup (Room \ {c})
            \/ queue' = [Broadcast(c, frame) EXCEPT ![c] = queue[c]] /\ UNCHANGED missed
  BY DEF Publish

LEMMA AckEffect ==
  ASSUME Shapes, NEW c \in Clients, OnAck(c)
  PROVE  /\ queue[c] # <<>> /\ Head(queue[c]).kind = "ack" /\ queue' = [queue EXCEPT ![c] = Tail(@)]
         /\ DOMAIN pending' = Clients /\ IsSeq(pending'[c]) /\ Range(pending'[c]) \subseteq Range(pending[c])
         /\ \A f \in Range(pending[c]) \ Range(pending'[c]) : f.id = Head(queue[c]).id
         /\ \A d \in Clients \ {c} : pending'[d] = pending[d]
         /\ connection' = [connection EXCEPT ![c] = Settled(c, pending'[c])]
         /\ wasInit' = [wasInit EXCEPT ![c] = TRUE] /\ ready' = [ready EXCEPT ![c] = TRUE]
         /\ UNCHANGED <<stored, compactor, handler, editor, wire, readOnly, doc, session, sent, ghosts>>
  <1> DEFINE id == Head(queue[c]).id
             left == Unacknowledged(c, id)
  <1>1. pending' = [pending EXCEPT ![c] = left] /\ connection' = [connection EXCEPT ![c] = Settled(c, left)]
    BY DEF OnAck
  <1>2. IsSeq(left) /\ Range(left) \subseteq Range(pending[c]) /\ \A f \in Range(pending[c]) \ Range(left) : f.id = id
    <2>1. CASE \E i \in 1..Len(pending[c]) : pending[c][i].id = id
      <3>1. PICK i \in 1..Len(pending[c]) : pending[c][i].id = id /\ left = Without(pending[c], i)
        BY <2>1 DEF Unacknowledged
      <3> QED
        BY <3>1, WithoutElements DEF Shapes
    <2>2. CASE ~\E i \in 1..Len(pending[c]) : pending[c][i].id = id
      BY <2>2 DEF Unacknowledged, Shapes
    <2> QED
      BY <2>1, <2>2
  <1> HIDE DEF left
  <1>3. pending'[c] = left
    BY <1>1 DEF Shapes
  <1> QED
    BY <1>1, <1>2, <1>3 DEF OnAck, Received, Shapes

LEMMA ShapesNext == Shapes /\ [Next]_vars => Shapes'
  <1> SUFFICES ASSUME Shapes, [Next]_vars PROVE Shapes'
    OBVIOUS
  <1> USE DEF stored, sockets, screen, local, bounds, ghosts, Shapes
  <1>1. ASSUME NEW c \in Clients, HandlerStep(c) PROVE Shapes'
    <2>1. CASE Join(c)
      BY <2>1 DEF Join
    <2>2. CASE ReadSnapshot(c)
      BY <2>2 DEF ReadSnapshot
    <2>3. CASE ReadUpdates(c)
      BY <2>3, AppendElements DEF ReadUpdates, Send
    <2>4. CASE Refuse(c)
      <3>1. PICK what \in {"limit", "initialized", "failed"} : queue' = Send(queue, c, Error(what))
        BY <2>4, RefuseEffect
      <3>2. DOMAIN queue' = Clients /\ \A d \in Clients : IsSeq(queue'[d])
        BY <3>1, SendShape
      <3>3. /\ wire[c] # <<>> /\ wire' = [wire EXCEPT ![c] = Tail(@)]
            /\ UNCHANGED <<handler, editor, screen, local>>
        BY <2>4, RefuseEffect
      <3> QED
        BY <3>2, <3>3, TailElements
    <2>5. CASE Accept(c)
      BY <2>5, TailElements DEF Accept, Taken
    <2>6. CASE Append_(c)
      BY <2>6 DEF Append_
    <2>7. CASE Publish(c)
      <3> DEFINE frame == handler[c].frame
      <3>1. /\ handler' = [handler EXCEPT ![c] = Idle] /\ UNCHANGED <<editor, wire, screen, local>>
            /\ \/ queue' = Broadcast(c, frame)
               \/ queue' = Send(queue, c, Ack(frame))
               \/ queue' = [Broadcast(c, frame) EXCEPT ![c] = queue[c]]
        BY <2>7, PublishEffect
      <3>2. DOMAIN queue' = Clients /\ \A d \in Clients : IsSeq(queue'[d])
        <4>1. CASE queue' = Broadcast(c, frame)
          BY <4>1, BroadcastShape
        <4>2. CASE queue' = Send(queue, c, Ack(frame))
          <5>1. DOMAIN queue = Clients /\ \A d \in Clients : IsSeq(queue[d])
            OBVIOUS
          <5> QED
            BY <4>2, <5>1, SendShape
        <4>3. CASE queue' = [Broadcast(c, frame) EXCEPT ![c] = queue[c]]
          BY <4>3, BroadcastShape
        <4> QED
          BY <3>1, <4>1, <4>2, <4>3
      <3> QED
        BY <3>1, <3>2
    <2> QED
      BY <1>1, <2>1, <2>2, <2>3, <2>4, <2>5, <2>6, <2>7 DEF HandlerStep
  <1>2. ASSUME NEW c \in Clients, SessionStep(c) PROVE Shapes'
    <2>1. CASE Edit(c)
      BY <2>1, SendUpdateShape DEF Edit
    <2>2. CASE Drop(c)
      BY <2>2, HangupShape DEF Drop
    <2>3. CASE OnBootstrap(c)
      <3> DEFINE f == Head(queue[c])
      <3>1. /\ queue[c] # <<>> /\ queue' = [queue EXCEPT ![c] = Tail(@)]
            /\ wasInit' = [wasInit EXCEPT ![c] = f.initialized]
            /\ readOnly' = [readOnly EXCEPT ![c] = f.readOnly]
            /\ DOMAIN ready' = Clients
            /\ connection' = [connection EXCEPT ![c] = Settled(c, pending'[c])]
            /\ UNCHANGED <<handler, editor, session>>
        BY <2>3, BootstrapEffect
      <3>2. \/ /\ doc' = [doc EXCEPT ![c] = doc[c] \cup f.us \cup f.updates]
               /\ wire' = [wire EXCEPT ![c] = @ \o pending[c]]
               /\ UNCHANGED <<pending, sent>>
            \/ /\ doc' = [doc EXCEPT ![c] = doc[c] \cup f.us \cup Base(c) \cup f.updates]
               /\ SendUpdate(c, "init", doc'[c], Visible(doc'[c]))
        BY <2>3, BootstrapEffect
      <3>3. /\ DOMAIN queue' = Clients /\ \A d \in Clients : IsSeq(queue'[d])
            /\ DOMAIN wasInit' = Clients /\ DOMAIN readOnly' = Clients /\ DOMAIN connection' = Clients
        BY <3>1, TailElements
      <3>4. /\ DOMAIN wire' = Clients /\ DOMAIN pending' = Clients /\ DOMAIN sent' = Clients
            /\ \A d \in Clients : IsSeq(wire'[d]) /\ IsSeq(pending'[d]) /\ sent'[d] \in Nat
        <4>1. CASE /\ wire' = [wire EXCEPT ![c] = @ \o pending[c]]
                   /\ UNCHANGED <<pending, sent>>
          BY <4>1, ConcatElements
        <4>2. CASE SendUpdate(c, "init", doc'[c], Visible(doc'[c]))
          <5> HIDE DEF Shapes
          <5>1. /\ DOMAIN sent' = Clients /\ DOMAIN pending' = Clients /\ DOMAIN wire' = Clients
                /\ sent'[c] \in Nat
                /\ \A d \in Clients : IsSeq(pending'[d]) /\ IsSeq(wire'[d])
                /\ \A d \in Clients \ {c} : sent'[d] = sent[d]
            BY <4>2, SendUpdateShape
          <5> QED
            BY <5>1 DEF Shapes
        <4> QED
          BY <3>2, <4>1, <4>2
      <3> QED
        BY <3>1, <3>2, <3>3, <3>4
    <2>4. CASE OnUpdate(c)
      BY <2>4, TailElements DEF OnUpdate, Received
    <2>5. CASE OnAck(c)
      <3>1. /\ queue[c] # <<>> /\ queue' = [queue EXCEPT ![c] = Tail(@)]
            /\ DOMAIN pending' = Clients /\ IsSeq(pending'[c]) /\ \A d \in Clients \ {c} : pending'[d] = pending[d]
            /\ connection' = [connection EXCEPT ![c] = Settled(c, pending'[c])]
            /\ wasInit' = [wasInit EXCEPT ![c] = TRUE] /\ ready' = [ready EXCEPT ![c] = TRUE]
            /\ UNCHANGED <<handler, editor, wire, readOnly, doc, session, sent>>
        BY <2>5, AckEffect
      <3> QED
        BY <3>1, TailElements
    <2>6. CASE OnInitializationRace(c)
      BY <2>6, HangupShape, EmptyElements DEF OnInitializationRace, Destroy
    <2>7. CASE OnNoPlace(c)
      BY <2>7, TailElements, EmptyElements DEF OnNoPlace, Received
    <2>8. CASE OnFailure(c)
      BY <2>8, TailElements DEF OnFailure, Received
    <2> QED
      BY <1>2, <2>1, <2>2, <2>3, <2>4, <2>5, <2>6, <2>7, <2>8 DEF SessionStep
  <1>3. CASE WorkerStep
    BY <1>3 DEF WorkerStep, BeginCompaction, ReadRows, CommitCompaction, AbortCompaction
  <1>4. CASE UNCHANGED vars
    BY <1>4 DEF vars
  <1> QED
    BY <1>1, <1>2, <1>3, <1>4 DEF Next

-----------------------------------------------------------------------------
(* What is stored *)

\* The document is left as it is.
StoreKept == UNCHANGED <<initialized, snapshot, rows, projection, committed>>

\* A client's update is appended, and is about to be published.
Appends(c) ==
  /\ handler[c].phase = "appending"
  /\ CommitAppend(c, handler[c].id, handler[c].frame)

\* A client's update becomes the document.
Initializes(c) ==
  /\ handler[c] = Idle /\ wire[c] # <<>> /\ Head(wire[c]).kind = "init"
  /\ ~initialized /\ Initialize(Head(wire[c]))
  /\ handler' = [handler EXCEPT ![c] = [phase |-> "done", frame |-> Head(wire[c])]]

\* The others of the room hear of a client's update as it leaves.
Heard(c) == \A d \in Clients \ {c} : queue'[d] = Broadcast(c, handler[c].frame)[d]

LEMMA HangupEffect ==
  ASSUME Shapes, NEW c \in Clients, Hangup(c)
  PROVE  /\ handler' = [handler EXCEPT ![c] = Closed] /\ wire' = [wire EXCEPT ![c] = <<>>]
         /\ queue'[c] = <<>>
         /\ \/ Appends(c) /\ Heard(c)
            \/ /\ StoreKept /\ handler[c].phase = "appending" /\ lock' = Unlocked(c)
               /\ \A d \in Clients \ {c} : queue'[d] = queue[d]
            \/ StoreKept /\ handler[c].phase = "done" /\ lock' = lock /\ Heard(c)
            \/ /\ StoreKept /\ handler[c].phase \notin {"appending", "done"} /\ lock' = lock
               /\ \A d \in Clients \ {c} : queue'[d] = queue[d]
  <1>1. handler' = [handler EXCEPT ![c] = Closed] /\ wire' = [wire EXCEPT ![c] = <<>>]
    BY DEF Hangup
  <1>2. CASE /\ handler[c].phase = "appending" /\ CommitAppend(c, handler[c].id, handler[c].frame)
             /\ queue' = [Broadcast(c, handler[c].frame) EXCEPT ![c] = <<>>]
    BY <1>1, <1>2, BroadcastShape DEF Appends, Heard
  <1>3. CASE /\ handler[c].phase = "appending" /\ AbortAppend(c)
             /\ queue' = [queue EXCEPT ![c] = <<>>]
    BY <1>1, <1>3 DEF Shapes, AbortAppend, StoreKept
  <1>4. CASE /\ handler[c].phase = "done"
             /\ queue' = [Broadcast(c, handler[c].frame) EXCEPT ![c] = <<>>] /\ UNCHANGED stored
    BY <1>1, <1>4, BroadcastShape DEF stored, StoreKept, Heard
  <1>5. CASE /\ handler[c].phase \notin {"appending", "done"}
             /\ queue' = [queue EXCEPT ![c] = <<>>] /\ UNCHANGED stored
    BY <1>1, <1>5 DEF stored, StoreKept, Shapes
  <1> QED
    BY <1>2, <1>3, <1>4, <1>5 DEF Hangup

LEMMA AcceptEffect ==
  ASSUME Shapes, NEW c \in Clients, Accept(c)
  PROVE  /\ handler[c] = Idle /\ wire[c] # <<>> /\ wire' = [wire EXCEPT ![c] = Tail(@)]
         /\ UNCHANGED <<compactor, editor, queue, screen, local, bounds, ghosts>>
         /\ \/ /\ StoreKept /\ lock' = lock /\ Head(wire[c]).id \in committed
               /\ handler' = [handler EXCEPT ![c] = [phase |-> "done", frame |-> Head(wire[c])]]
            \/ Initializes(c)
            \/ /\ StoreKept /\ lock = Nobody /\ lock' = c /\ Head(wire[c]).kind = "update"
               /\ handler' = [handler EXCEPT ![c] =
                    [phase |-> "appending", frame |-> Head(wire[c]), id |-> nextId]]
  BY DEF Accept, Initializes, Saved, stored, StoreKept, BeginAppend, LockRow, Taken

\* What a step of a client, and of the worker, does to the stored document.
ClientStep(c) == HandlerStep(c) \/ SessionStep(c)

LEMMA ClientStores ==
  ASSUME Shapes, NEW c \in Clients, ClientStep(c)
  PROVE  /\ compactor' = compactor
         /\ StoreKept \/ Appends(c) \/ Initializes(c)
  <1> USE DEF stored, StoreKept
  <1>1. CASE Accept(c)
    BY <1>1, AcceptEffect
  <1>2. CASE Append_(c)
    BY <1>2 DEF Append_, Appends
  <1>3. CASE Drop(c) \/ OnInitializationRace(c)
    BY <1>3, HangupEffect DEF Drop, OnInitializationRace, Destroy
  <1>4. CASE Join(c) \/ ReadSnapshot(c) \/ ReadUpdates(c) \/ Refuse(c) \/ Publish(c)
    BY <1>4 DEF Join, ReadSnapshot, ReadUpdates, Refuse, Publish
  <1>5. CASE Edit(c) \/ OnBootstrap(c) \/ OnUpdate(c) \/ OnAck(c) \/ OnNoPlace(c) \/ OnFailure(c)
    BY <1>5 DEF Edit, OnBootstrap, OnUpdate, OnAck, OnNoPlace, OnFailure
  <1> QED
    BY <1>1, <1>2, <1>3, <1>4, <1>5 DEF ClientStep, HandlerStep, SessionStep

\* A compaction moves the appended updates into the snapshot, and loses none.
LEMMA WorkerStores ==
  ASSUME LocksHold, WorkerStep
  PROVE  /\ Stored' = Stored /\ UNCHANGED <<initialized, committed, sockets, screen, local, ghosts>>
         /\ StoreKept \/ (snapshot' = Stored /\ projection' = Visible(snapshot') /\ rows' \subseteq rows)
  <1>1. CASE BeginCompaction \/ ReadRows \/ AbortCompaction
    BY <1>1 DEF BeginCompaction, ReadRows, AbortCompaction, AbortAppend, StoreKept, stored, Stored, Rows
  <1>2. CASE CommitCompaction
    <2>1. /\ snapshot' = Stored /\ projection' = Visible(snapshot') /\ rows' \subseteq rows
          /\ UNCHANGED <<initialized, committed, sockets, screen, local, ghosts>>
      BY <1>2 DEF CommitCompaction, WriteMerged, LocksHold
    <2>2. Stored' = Stored
      BY <2>1 DEF Stored, Rows
    <2> QED
      BY <2>1, <2>2
  <1> QED
    BY <1>1, <1>2 DEF WorkerStep

LEMMA AppendStores ==
  ASSUME NEW c, Appends(c)
  PROVE  /\ Stored' = Stored \cup handler[c].frame.us
         /\ initialized' = initialized /\ committed' = committed \cup {handler[c].frame.id}
         /\ rows' # {} /\ lock' = Unlocked(c)
  <1>1. rows' = rows \cup {[id |-> handler[c].id, us |-> handler[c].frame.us]} /\ snapshot' = snapshot
    BY DEF Appends, CommitAppend
  <1>2. Rows' = Rows \cup handler[c].frame.us
    <2> DEFINE row == [id |-> handler[c].id, us |-> handler[c].frame.us]
    <2>1. rows' = rows \cup {row} /\ row.us = handler[c].frame.us
      BY <1>1
    <2> HIDE DEF row
    <2>2. \A u : u \in Rows' <=> \E r \in rows \cup {row} : u \in r.us
      BY <2>1 DEF Rows
    <2>3. \A u : u \in Rows <=> \E r \in rows : u \in r.us
      BY DEF Rows
    <2> QED
      BY <2>1, <2>2, <2>3
  <1> QED
    BY <1>1, <1>2 DEF Appends, CommitAppend, Stored

LEMMA InitializeStores ==
  ASSUME TextEntersOnce, NEW c, Initializes(c)
  PROVE  /\ Stored = {} /\ Stored' = Head(wire[c]).us /\ snapshot' = Stored' /\ rows' = rows
         /\ ~initialized /\ initialized' /\ committed' = committed \cup {Head(wire[c]).id}
         /\ projection' = Head(wire[c]).text /\ lock = Nobody /\ lock' = lock
  BY DEF Initializes, Initialize, TextEntersOnce, Stored, Rows

\* Nothing stored is lost, and no saved message is forgotten.
Grows == Stored \subseteq Stored' /\ committed \subseteq committed' /\ (initialized => initialized')

LEMMA StoreGrows ==
  ASSUME Shapes, LocksHold, TextEntersOnce, [Next]_vars
  PROVE  Grows
  <1> USE DEF Grows
  <1>1. ASSUME NEW c \in Clients, ClientStep(c) PROVE Grows
    <2>1. CASE StoreKept
      BY <2>1 DEF StoreKept, Stored, Rows
    <2>2. CASE Appends(c)
      BY <2>2, AppendStores
    <2>3. CASE Initializes(c)
      BY <2>3, InitializeStores
    <2> QED
      BY <1>1, <2>1, <2>2, <2>3, ClientStores
  <1>2. CASE WorkerStep
    BY <1>2, WorkerStores
  <1>3. CASE UNCHANGED vars
    BY <1>3 DEF vars, stored, Stored, Rows
  <1> QED
    BY <1>1, <1>2, <1>3 DEF Next, ClientStep

-----------------------------------------------------------------------------
(* What a client's step does to the others, to its frames and to the queues *)

Untouched(d) ==
  /\ handler'[d] = handler[d] /\ wire'[d] = wire[d]
  /\ doc'[d] = doc[d] /\ pending'[d] = pending[d] /\ sent'[d] = sent[d] /\ session'[d] = session[d]
  /\ wasInit'[d] = wasInit[d] /\ ready'[d] = ready[d] /\ readOnly'[d] = readOnly[d]
  /\ connection'[d] = connection[d]
  /\ (d \in missed => d \in missed') /\ (d \in givenUp' <=> d \in givenUp)

LEMMA OthersUntouched ==
  ASSUME Shapes, NEW c \in Clients, ClientStep(c), NEW d \in Clients \ {c}
  PROVE  Untouched(d)
  <1> USE DEF Untouched, screen, local, ghosts, Shapes
  <1>1. CASE Join(c) \/ ReadSnapshot(c) \/ ReadUpdates(c)
    BY <1>1 DEF Join, ReadSnapshot, ReadUpdates
  <1>2. CASE Refuse(c)
    BY <1>2, RefuseEffect
  <1>3. CASE Accept(c)
    BY <1>3, AcceptEffect DEF Initializes
  <1>4. CASE Append_(c)
    BY <1>4 DEF Append_
  <1>5. CASE Publish(c)
    BY <1>5, PublishEffect
  <1>6. CASE Edit(c)
    BY <1>6, SendUpdateShape DEF Edit
  <1>7. CASE Drop(c) \/ OnInitializationRace(c)
    BY <1>7, HangupEffect DEF Drop, OnInitializationRace, Destroy
  <1>8. CASE OnBootstrap(c)
    <2> DEFINE f == Head(queue[c])
    <2>1. /\ wasInit' = [wasInit EXCEPT ![c] = f.initialized]
          /\ readOnly' = [readOnly EXCEPT ![c] = f.readOnly]
          /\ ready'[d] = ready[d]
          /\ connection' = [connection EXCEPT ![c] = Settled(c, pending'[c])]
          /\ UNCHANGED <<handler, session, missed, givenUp>>
      BY <1>8, BootstrapEffect
    <2>2. \/ /\ doc' = [doc EXCEPT ![c] = doc[c] \cup f.us \cup f.updates]
             /\ wire' = [wire EXCEPT ![c] = @ \o pending[c]]
             /\ UNCHANGED <<pending, sent>>
          \/ /\ doc' = [doc EXCEPT ![c] = doc[c] \cup f.us \cup Base(c) \cup f.updates]
             /\ SendUpdate(c, "init", doc'[c], Visible(doc'[c]))
      BY <1>8, BootstrapEffect
    <2>3. doc'[d] = doc[d]
      BY <2>2
    <2>4. wire'[d] = wire[d] /\ pending'[d] = pending[d] /\ sent'[d] = sent[d]
      <3> HIDE DEF f, Shapes
      <3>1. CASE SendUpdate(c, "init", doc'[c], Visible(doc'[c]))
        BY <3>1, SendUpdateShape
      <3>2. CASE wire' = [wire EXCEPT ![c] = @ \o pending[c]] /\ UNCHANGED <<pending, sent>>
        BY <3>2 DEF Shapes
      <3> QED
        BY <2>2, <3>1, <3>2
    <2> QED
      BY <2>1, <2>3, <2>4
  <1>9. CASE OnAck(c)
    BY <1>9, AckEffect
  <1>10. CASE OnUpdate(c) \/ OnNoPlace(c) \/ OnFailure(c)
    BY <1>10 DEF OnUpdate, OnNoPlace, OnFailure
  <1> QED
    BY <1>1, <1>2, <1>3, <1>4, <1>5, <1>6, <1>7, <1>8, <1>9, <1>10 DEF ClientStep, HandlerStep, SessionStep

\* A frame is added only by an edit, or by a bootstrap of a document that nobody
\* had initialized.
NewFrame(c, f) ==
  /\ f.id = <<c, sent[c] + 1>> /\ sent'[c] = sent[c] + 1 /\ f.us \subseteq doc'[c]
  /\ f.kind \in {"init", "update"}
  /\ \/ Edit(c) /\ (f.kind = "update" => wasInit[c] /\ \A u \in f.us : ~u.base)
     \/ OnBootstrap(c) /\ f.kind = "init" /\ f.us = doc'[c] /\ f.text = Visible(f.us)

OwnFrames(c) ==
  \/ Frames(c)' = {}
  \/ doc[c] \subseteq doc'[c] /\ Frames(c)' \subseteq Frames(c) /\ sent'[c] = sent[c]
  \/ /\ doc[c] \subseteq doc'[c] /\ handler'[c] = handler[c]
     /\ \E f : NewFrame(c, f) /\ Frames(c)' \subseteq Frames(c) \cup {f}

LEMMA HandlerFrames ==
  ASSUME Shapes, NEW c \in Clients, HandlerStep(c)
  PROVE  doc' = doc /\ sent' = sent /\ pending' = pending /\ Frames(c)' \subseteq Frames(c)
  <1> USE DEF screen, local, Frames
  <1>1. CASE Join(c) \/ ReadSnapshot(c) \/ ReadUpdates(c)
    BY <1>1 DEF Join, ReadSnapshot, ReadUpdates, Held, Shapes, Closed, Idle
  <1>2. CASE Refuse(c)
    <2>1. wire[c] # <<>> /\ wire' = [wire EXCEPT ![c] = Tail(@)] /\ UNCHANGED <<handler, local>>
      BY <1>2, RefuseEffect
    <2> QED
      BY <2>1, TailElements DEF Shapes, Held
  <1>3. CASE Accept(c)
    <2>1. /\ wire[c] # <<>> /\ wire' = [wire EXCEPT ![c] = Tail(@)] /\ UNCHANGED local
          /\ handler'[c].frame = Head(wire[c])
      BY <1>3, AcceptEffect DEF Shapes, Initializes
    <2>2. Range(wire'[c]) \subseteq Range(wire[c]) /\ Head(wire[c]) \in Range(wire[c])
      BY <2>1, TailElements DEF Shapes
    <2> QED
      BY <2>1, <2>2 DEF Held
  <1>4. CASE Append_(c)
    BY <1>4 DEF Append_, Held, Shapes
  <1>5. CASE Publish(c)
    BY <1>5, PublishEffect DEF Held, Shapes, Idle
  <1> QED
    BY <1>1, <1>2, <1>3, <1>4, <1>5 DEF HandlerStep

LEMMA SentFrames ==
  ASSUME Shapes, NEW c \in Clients, NEW kind, NEW us, NEW text, SendUpdate(c, kind, us, text),
         handler' = handler
  PROVE  Frames(c)' \subseteq Frames(c) \cup {Frame(c, kind, us, text)}
  <1> DEFINE f == Frame(c, kind, us, text)
  <1> HIDE DEF f
  <1>1. Range(pending'[c]) = Range(pending[c]) \cup {f} /\ Range(wire'[c]) \subseteq Range(wire[c]) \cup {f}
    BY SendUpdateShape DEF f
  <1>2. Held(c)' = Held(c)
    BY DEF Held
  <1>3. Frames(c)' \subseteq Frames(c) \cup {f}
    BY <1>1, <1>2 DEF Frames
  <1> QED
    BY <1>3 DEF f

LEMMA SessionFrames ==
  ASSUME Shapes, NEW c \in Clients, SessionStep(c)
  PROVE  OwnFrames(c)
  <1> USE DEF OwnFrames, local
  <1>1. CASE Edit(c)
    <2> DEFINE kind == IF wasInit[c] THEN "update" ELSE "init"
               text == Visible(doc[c] \cup {Typed(c)})
               f == Frame(c, kind, {Typed(c)}, text)
    <2>1. SendUpdate(c, kind, {Typed(c)}, text) /\ doc'[c] = doc[c] \cup {Typed(c)} /\ handler' = handler
      BY <1>1 DEF Edit, Shapes
    <2>2. f.id = <<c, sent[c] + 1>> /\ f.us = {Typed(c)} /\ f.kind = kind /\ ~Typed(c).base
      BY DEF Frame, Typed, MyNext, Update
    <2> HIDE DEF f
    <2>3. Frames(c)' \subseteq Frames(c) \cup {f}
      BY <2>1, SentFrames DEF f
    <2>4. sent'[c] = sent[c] + 1
      BY <2>1, SendUpdateShape
    <2>5. NewFrame(c, f)
      BY <1>1, <2>1, <2>2, <2>4 DEF NewFrame
    <2> QED
      BY <2>1, <2>3, <2>5
  <1>2. CASE OnBootstrap(c)
    <2>1. handler' = handler
      BY <1>2, BootstrapEffect
    <2>2. doc[c] \subseteq doc'[c]
      BY <1>2, BootstrapEffect DEF Shapes
    <2>3. CASE SendUpdate(c, "init", doc'[c], Visible(doc'[c]))
      <3> DEFINE f == Frame(c, "init", doc'[c], Visible(doc'[c]))
      <3>1. f.id = <<c, sent[c] + 1>> /\ f.us = doc'[c] /\ f.kind = "init" /\ f.text = Visible(f.us)
        BY DEF Frame
      <3> HIDE DEF f
      <3>2. Frames(c)' \subseteq Frames(c) \cup {f}
        BY <2>1, <2>3, SentFrames DEF f
      <3>3. sent'[c] = sent[c] + 1
        BY <2>3, SendUpdateShape
      <3>4. NewFrame(c, f)
        BY <1>2, <3>1, <3>3 DEF NewFrame
      <3> QED
        BY <2>1, <2>2, <3>2, <3>4
    <2>4. CASE wire' = [wire EXCEPT ![c] = @ \o pending[c]] /\ UNCHANGED <<pending, sent>>
      <3>1. Range(wire'[c]) = Range(wire[c]) \cup Range(pending[c])
        BY <2>4, ConcatElements DEF Shapes
      <3> QED
        BY <2>1, <2>2, <2>4, <3>1 DEF Frames, Held
    <2> QED
      BY <1>2, <2>3, <2>4, BootstrapEffect
  <1>3. CASE OnAck(c)
    BY <1>3, AckEffect DEF Frames, Held
  <1>4. CASE OnUpdate(c) \/ OnFailure(c)
    BY <1>4 DEF OnUpdate, OnFailure, Frames, Held, Shapes
  <1>5. CASE OnNoPlace(c)
    <2>1. Range(pending'[c]) = {}
      BY <1>5, EmptyElements DEF OnNoPlace, Shapes
    <2> QED
      BY <1>5, <2>1 DEF OnNoPlace, Frames, Held
  <1>6. CASE Drop(c) \/ OnInitializationRace(c)
    <2>1. Range(wire'[c]) = {} /\ Held(c)' = {}
      BY <1>6, HangupEffect, EmptyElements DEF Drop, OnInitializationRace, Destroy, Shapes, Held, Closed
    <2>2. CASE Drop(c)
      BY <2>1, <2>2 DEF Drop, Frames
    <2>3. CASE OnInitializationRace(c)
      <3>1. Range(pending'[c]) = {}
        BY <2>3, EmptyElements DEF OnInitializationRace, Destroy, Shapes
      <3> QED
        BY <2>1, <3>1 DEF Frames
    <2> QED
      BY <1>6, <2>2, <2>3
  <1> QED
    BY <1>1, <1>2, <1>3, <1>4, <1>5, <1>6 DEF SessionStep

\* What may be put in the queue of client d by a step of client c.
NewMessage(c, d, m) ==
  \/ d = c /\ \E what \in {"limit", "initialized", "failed"} :
       m = Error(what) /\ (what = "initialized" => initialized)
  \/ /\ d = c /\ ReadUpdates(c) /\ handler[c].phase = "reading"
     /\ m.kind = "bootstrap" /\ m.initialized = handler[c].initialized
     /\ m.us = handler[c].snapshot /\ m.updates = Rows
  \/ d = c /\ handler[c].phase = "done" /\ m = Ack(handler[c].frame)
  \/ /\ d # c /\ (handler[c].phase = "done" \/ Appends(c))
     /\ m = News(handler[c].frame)

LEMMA HeardMessages ==
  ASSUME Shapes, NEW c \in Clients, Heard(c), handler[c].phase = "done" \/ Appends(c),
         NEW d \in Clients \ {c}, NEW m \in Range(queue'[d])
  PROVE  m \in Range(queue[d]) \/ NewMessage(c, d, m)
  <1> DEFINE e == News(handler[c].frame)
  <1>1. queue'[d] = queue[d] \/ Range(queue'[d]) = Range(queue[d]) \cup {e}
    BY BroadcastShape DEF Heard
  <1>2. NewMessage(c, d, e)
    BY DEF NewMessage
  <1> HIDE DEF e
  <1> QED
    BY <1>1, <1>2

LEMMA QueueMessages ==
  ASSUME Shapes, NEW c \in Clients, ClientStep(c), NEW d \in Clients, NEW m \in Range(queue'[d])
  PROVE  m \in Range(queue[d]) \/ NewMessage(c, d, m)
  <1>1. CASE Join(c) \/ ReadSnapshot(c) \/ Append_(c) \/ Edit(c)
    BY <1>1 DEF Join, ReadSnapshot, Append_, Edit
  <1>2. CASE Accept(c)
    BY <1>2, AcceptEffect
  <1>3. CASE ReadUpdates(c)
    <2> DEFINE e == [kind |-> "bootstrap", initialized |-> handler[c].initialized,
                     us |-> handler[c].snapshot, updates |-> Rows, readOnly |-> ~editor[c]]
    <2>1. queue' = Send(queue, c, e) /\ handler[c].phase = "reading"
      BY <1>3 DEF ReadUpdates
    <2>2. DOMAIN queue = Clients /\ \A b \in Clients : IsSeq(queue[b])
      BY DEF Shapes
    <2>3. /\ e.kind = "bootstrap" /\ e.initialized = handler[c].initialized
          /\ e.us = handler[c].snapshot /\ e.updates = Rows
      OBVIOUS
    <2> HIDE DEF e
    <2>4. /\ Range(queue'[c]) = Range(queue[c]) \cup {e}
          /\ \A b \in Clients \ {c} : queue'[b] = queue[b]
      BY <2>1, <2>2, SendShape
    <2>5. NewMessage(c, c, e)
      BY <1>3, <2>1, <2>3 DEF NewMessage
    <2> QED
      BY <2>4, <2>5
  <1>4. CASE Refuse(c)
    <2>1. PICK what \in {"limit", "initialized", "failed"} :
            queue' = Send(queue, c, Error(what)) /\ (what = "initialized" => initialized)
      BY <1>4, RefuseEffect
    <2>2. DOMAIN queue = Clients /\ \A b \in Clients : IsSeq(queue[b])
      BY DEF Shapes
    <2>3. /\ Range(queue'[c]) = Range(queue[c]) \cup {Error(what)}
          /\ \A b \in Clients \ {c} : queue'[b] = queue[b]
      BY <2>1, <2>2, SendShape
    <2>4. NewMessage(c, c, Error(what))
      BY <2>1 DEF NewMessage
    <2> QED
      BY <2>3, <2>4
  <1>5. CASE Publish(c)
    <2> DEFINE frame == handler[c].frame
    <2>1. handler[c].phase = "done"
      BY <1>5, PublishEffect
    <2>2. CASE queue' = Broadcast(c, frame)
      <3>1. Range(queue'[c]) = Range(queue[c]) \cup {Ack(frame)} /\ Heard(c)
        BY <2>2, BroadcastShape DEF Heard
      <3>2. NewMessage(c, c, Ack(frame))
        BY <2>1 DEF NewMessage
      <3> QED
        BY <2>1, <3>1, <3>2, HeardMessages
    <2>3. CASE queue' = Send(queue, c, Ack(frame))
      <3>1. DOMAIN queue = Clients /\ \A b \in Clients : IsSeq(queue[b])
        BY DEF Shapes
      <3>2. /\ Range(queue'[c]) = Range(queue[c]) \cup {Ack(frame)}
            /\ \A b \in Clients \ {c} : queue'[b] = queue[b]
        BY <2>3, <3>1, SendShape
      <3>3. NewMessage(c, c, Ack(frame))
        BY <2>1 DEF NewMessage
      <3> QED
        BY <3>2, <3>3
    <2>4. CASE queue' = [Broadcast(c, frame) EXCEPT ![c] = queue[c]]
      <3>1. queue'[c] = queue[c] /\ \A b \in Clients \ {c} : queue'[b] = Broadcast(c, frame)[b]
        BY <2>4, BroadcastShape
      <3> QED
        BY <2>1, <3>1, HeardMessages DEF Heard
    <2> QED
      BY <1>5, <2>2, <2>3, <2>4, PublishEffect
  <1>6. CASE Hangup(c)
    <2>1. CASE d = c
      BY <1>6, <2>1, HangupEffect, EmptyElements
    <2>2. CASE d # c /\ queue'[d] = queue[d]
      BY <2>2
    <2>3. CASE d # c /\ Heard(c) /\ (handler[c].phase = "done" \/ Appends(c))
      BY <2>3, HeardMessages
    <2> QED
      BY <1>6, <2>1, <2>2, <2>3, HangupEffect
  <1>7. CASE queue[c] # <<>> /\ queue' = [queue EXCEPT ![c] = Tail(@)]
    BY <1>7, TailElements DEF Shapes
  <1>8. CASE OnBootstrap(c)
    BY <1>7, <1>8, BootstrapEffect
  <1>9. CASE OnAck(c)
    BY <1>7, <1>9, AckEffect
  <1>10. CASE OnUpdate(c) \/ OnNoPlace(c) \/ OnFailure(c)
    BY <1>7, <1>10 DEF OnUpdate, OnNoPlace, OnFailure, Received
  <1> QED
    BY <1>1, <1>2, <1>3, <1>4, <1>5, <1>6, <1>8, <1>9, <1>10
    DEF ClientStep, HandlerStep, SessionStep, Drop, OnInitializationRace, Destroy

\* The queue of another client only gets longer.
LEMMA OthersQueues ==
  ASSUME Shapes, NEW c \in Clients, ClientStep(c), NEW d \in Clients \ {c}
  PROVE  Range(queue[d]) \subseteq Range(queue'[d])
  <1>1. CASE queue'[d] = queue[d]
    BY <1>1
  <1>2. CASE queue'[d] = Broadcast(c, handler[c].frame)[d]
    BY <1>2, BroadcastShape
  <1>3. CASE Join(c) \/ ReadSnapshot(c) \/ Append_(c) \/ Edit(c)
    BY <1>1, <1>3 DEF Join, ReadSnapshot, Append_, Edit
  <1>4. CASE Accept(c)
    BY <1>1, <1>4, AcceptEffect
  <1>5. CASE ReadUpdates(c) \/ Refuse(c)
    BY <1>1, <1>5 DEF ReadUpdates, Refuse, Send, Shapes
  <1>6. CASE Publish(c)
    <2>1. CASE queue' = Send(queue, c, Ack(handler[c].frame))
      BY <1>1, <2>1 DEF Send, Shapes
    <2>2. CASE queue' = [Broadcast(c, handler[c].frame) EXCEPT ![c] = queue[c]]
      BY <1>2, <2>2, BroadcastShape
    <2> QED
      BY <1>2, <1>6, <2>1, <2>2, PublishEffect
  <1>7. CASE Hangup(c)
    BY <1>1, <1>2, <1>7, HangupEffect DEF Heard
  <1>8. CASE OnBootstrap(c) \/ OnAck(c) \/ OnUpdate(c) \/ OnNoPlace(c) \/ OnFailure(c)
    BY <1>1, <1>8 DEF OnBootstrap, OnAck, OnUpdate, OnNoPlace, OnFailure, Received, Shapes
  <1> QED
    BY <1>3, <1>4, <1>5, <1>6, <1>7, <1>8
    DEF ClientStep, HandlerStep, SessionStep, Drop, OnInitializationRace, Destroy

-----------------------------------------------------------------------------
(* Locks *)

LEMMA LocksNext == Shapes /\ LocksHold /\ DescriptionAssumption /\ [Next]_vars => LocksHold'
  <1> SUFFICES ASSUME Shapes, LocksHold, DescriptionAssumption, [Next]_vars PROVE LocksHold'
    OBVIOUS
  <1>0. Nobody \notin Clients /\ Worker \notin Clients /\ Nobody # Worker
    BY DEF DescriptionAssumption, Nobody, Worker
  <1>1. ASSUME NEW c \in Clients, ClientStep(c) PROVE LocksHold'
    <2>1. compactor' = compactor
      BY <1>1, ClientStores
    <2>2. \A d \in Clients \ {c} : handler'[d] = handler[d]
      BY <1>1, OthersUntouched DEF Untouched
    \* A step that leaves the row to its holder, or gives it back.
    <2>3. ASSUME StoreKept \/ Initializes(c), lock' = lock, handler'[c].phase = "appending" => handler[c].phase = "appending"
          PROVE  LocksHold'
      <3>1. ASSUME compactor # Idle PROVE snapshot' = snapshot /\ Stored' = Stored
        <4>1. ~Initializes(c)
          BY <1>0, <3>1 DEF LocksHold, Initializes, Initialize
        <4> QED
          BY <2>3, <4>1 DEF StoreKept, Stored, Rows
      <3> QED
        BY <2>1, <2>2, <2>3, <3>1 DEF LocksHold, Idle
    <2>4. ASSUME handler[c].phase = "appending", lock' = Unlocked(c), handler'[c].phase # "appending"
          PROVE  LocksHold'
      <3>1. lock = c /\ lock' = Nobody /\ compactor = Idle
        BY <1>0, <2>4 DEF LocksHold, Unlocked
      <3>2. \A d \in Clients \ {c} : handler[d].phase # "appending"
        BY <3>1 DEF LocksHold
      <3> QED
        BY <2>1, <2>2, <2>4, <3>1, <3>2 DEF LocksHold, Idle
    <2>5. CASE Accept(c)
      <3>1. CASE StoreKept /\ lock = Nobody /\ lock' = c
        <4>1. compactor = Idle /\ \A d \in Clients : handler[d].phase # "appending"
          BY <1>0, <3>1 DEF LocksHold
        <4> QED
          BY <2>1, <2>2, <3>1, <4>1 DEF LocksHold, Idle
      <3>2. CASE /\ StoreKept \/ Initializes(c)
                 /\ lock' = lock /\ handler' = [handler EXCEPT ![c] = [phase |-> "done", frame |-> Head(wire[c])]]
        BY <2>3, <3>2 DEF Shapes
      <3> QED
        BY <2>5, <3>1, <3>2, AcceptEffect DEF Initializes, Initialize
    <2>6. CASE Append_(c)
      BY <2>4, <2>6 DEF Append_, CommitAppend, Shapes
    <2>7. CASE Hangup(c)
      <3>1. handler'[c].phase # "appending"
        BY <2>7, HangupEffect DEF Shapes, Closed
      <3> QED
        BY <2>3, <2>4, <2>7, <3>1, HangupEffect DEF Appends, CommitAppend
    <2>8. CASE Join(c) \/ ReadSnapshot(c) \/ ReadUpdates(c) \/ Publish(c)
      BY <2>3, <2>8 DEF Join, ReadSnapshot, ReadUpdates, Publish, Shapes, Idle, stored, StoreKept
    <2>9. CASE Refuse(c) \/ Edit(c) \/ OnBootstrap(c) \/ OnUpdate(c) \/ OnAck(c) \/ OnNoPlace(c) \/ OnFailure(c)
      BY <2>3, <2>9 DEF Refuse, Edit, OnBootstrap, OnUpdate, OnAck, OnNoPlace, OnFailure, stored, StoreKept
    <2> QED
      BY <1>1, <2>5, <2>6, <2>7, <2>8, <2>9
      DEF ClientStep, HandlerStep, SessionStep, Drop, OnInitializationRace, Destroy
  <1>2. CASE WorkerStep
    <2> USE <1>0 DEF LocksHold, sockets, stored
    <2>1. CASE BeginCompaction
      BY <2>1 DEF BeginCompaction, LockDocument
    <2>2. CASE ReadRows
      BY <2>2 DEF ReadRows, mergeDescription, Stored, Rows, Idle
    <2>3. CASE CommitCompaction \/ AbortCompaction
      BY <2>3 DEF CommitCompaction, AbortCompaction, AbortAppend, Unlocked, Idle
    <2> QED
      BY <1>2, <2>1, <2>2, <2>3 DEF WorkerStep
  <1>3. CASE UNCHANGED vars
    BY <1>3 DEF vars, stored, sockets, LocksHold, Stored, Rows
  <1> QED
    BY <1>1, <1>2, <1>3 DEF Next, ClientStep

-----------------------------------------------------------------------------
(* Frames *)

LEMMA ClientFrames ==
  ASSUME Shapes, NEW c \in Clients, ClientStep(c)
  PROVE  OwnFrames(c)
  BY HandlerFrames, SessionFrames DEF ClientStep, OwnFrames

\* A step of a client saves at most one of its frames, with what it carries.
LEMMA SavedFrame ==
  ASSUME Shapes, TextEntersOnce, NEW c \in Clients, ClientStep(c)
  PROVE  \/ committed' = committed
         \/ \E g \in Frames(c) : committed' = committed \cup {g.id} /\ g.us \subseteq Stored'
  <1>1. CASE StoreKept
    BY <1>1 DEF StoreKept
  <1>2. CASE Appends(c)
    <2>1. handler[c].frame \in Frames(c)
      BY <1>2 DEF Appends, Frames, Held
    <2> QED
      BY <1>2, <2>1, AppendStores
  <1>3. CASE Initializes(c)
    <2>1. Head(wire[c]) \in Frames(c)
      BY <1>3, TailElements DEF Initializes, Frames, Shapes
    <2> QED
      BY <1>3, <2>1, InitializeStores
  <1> QED
    BY <1>1, <1>2, <1>3, ClientStores

\* A message that is done was saved.
LEMMA DoneIsSaved ==
  ASSUME Shapes, FramesHold, NEW c \in Clients, ClientStep(c), committed \subseteq committed',
         handler'[c].phase = "done"
  PROVE  handler'[c].frame.id \in committed'
  <1>1. CASE Accept(c)
    <2> DEFINE frame == Head(wire[c])
    <2>1. CASE frame.id \in committed /\ handler' = [handler EXCEPT ![c] = [phase |-> "done", frame |-> frame]]
      BY <2>1 DEF Shapes
    <2>2. CASE Initializes(c)
      BY <2>2 DEF Initializes, Initialize, Shapes
    <2>3. CASE handler' = [handler EXCEPT ![c] = [phase |-> "appending", frame |-> frame, id |-> nextId]]
      BY <2>3 DEF Shapes
    <2> QED
      BY <1>1, <2>1, <2>2, <2>3, AcceptEffect
  <1>2. CASE Append_(c)
    BY <1>2 DEF Append_, CommitAppend, Shapes
  <1>3. CASE Hangup(c) \/ Publish(c) \/ Join(c) \/ ReadSnapshot(c) \/ ReadUpdates(c)
    BY <1>3 DEF Hangup, Publish, Join, ReadSnapshot, ReadUpdates, Shapes, Closed, Idle
  <1>4. CASE handler' = handler
    BY <1>4 DEF FramesHold, FramesOf
  <1> QED
    BY <1>1, <1>2, <1>3, <1>4
    DEF ClientStep, HandlerStep, SessionStep, Refuse, Edit, Drop, OnBootstrap, OnUpdate, OnAck,
        OnInitializationRace, Destroy, OnNoPlace, OnFailure

LEMMA OtherFrames ==
  ASSUME Shapes, TextEntersOnce, FramesHold, Grows, NEW c \in Clients, ClientStep(c),
         NEW d \in Clients \ {c}
  PROVE  Frames(d)' = Frames(d) /\ FramesOf(d)'
  <1>1. Untouched(d)
    BY OthersUntouched
  <1>2. Frames(d)' = Frames(d) /\ sent'[d] = sent[d] /\ doc'[d] = doc[d] /\ handler'[d] = handler[d]
    BY <1>1 DEF Untouched, Frames, Held
  <1>3. FramesOf(c) /\ FramesOf(d)
    BY DEF FramesHold
  <1>4. ASSUME NEW f \in Frames(d), f.id \in committed' PROVE f.us \subseteq Stored'
    <2>1. CASE f.id \in committed
      BY <1>3, <2>1 DEF FramesOf, Grows
    <2>2. CASE \E g \in Frames(c) : f.id = g.id
      BY <1>3, <2>2 DEF FramesOf
    <2> QED
      BY <1>4, <2>1, <2>2, SavedFrame
  <1> QED
    BY <1>2, <1>3, <1>4 DEF FramesOf, Grows

LEMMA OwnFramesHold ==
  ASSUME Shapes, TextEntersOnce, FramesHold, Grows, NEW c \in Clients, ClientStep(c)
  PROVE  FramesOf(c)'
  <1>1. FramesOf(c) /\ sent[c] \in Nat
    BY DEF FramesHold, Shapes
  <1>2. handler'[c].phase = "done" => handler'[c].frame.id \in committed'
    BY DoneIsSaved DEF Grows
  <1>3. ASSUME NEW f \in Frames(c), f.id \in committed' PROVE f.us \subseteq Stored'
    <2>1. CASE f.id \in committed
      BY <1>1, <2>1 DEF FramesOf, Grows
    <2>2. CASE \E g \in Frames(c) : f.id = g.id /\ g.us \subseteq Stored'
      BY <1>1, <2>2 DEF FramesOf
    <2> QED
      BY <1>3, <2>1, <2>2, SavedFrame
  <1>4. CASE Frames(c)' = {}
    BY <1>2, <1>4 DEF FramesOf
  <1>5. CASE doc[c] \subseteq doc'[c] /\ Frames(c)' \subseteq Frames(c) /\ sent'[c] = sent[c]
    BY <1>1, <1>2, <1>3, <1>5 DEF FramesOf
  <1>6. ASSUME doc[c] \subseteq doc'[c],
               NEW f, NewFrame(c, f), Frames(c)' \subseteq Frames(c) \cup {f}
        PROVE  FramesOf(c)'
    <2>1. f.id = <<c, sent[c] + 1>> /\ sent'[c] = sent[c] + 1 /\ f.us \subseteq doc'[c]
      BY <1>6 DEF NewFrame
    <2>2. \A g \in Frames(c) : g.id # f.id /\ \E k \in 1..sent'[c] : g.id = <<c, k>>
      BY <1>1, <2>1 DEF FramesOf
    <2>3. f.id \notin committed'
      <3>1. f.id \notin committed
        <4> SUFFICES ASSUME f.id \in committed PROVE FALSE
          OBVIOUS
        <4>1. PICK d \in Clients : \E k \in 1..sent[d] : f.id = <<d, k>>
          BY DEF FramesHold
        <4> QED
          BY <1>1, <2>1, <4>1
      <3> QED
        BY <2>2, <3>1, SavedFrame
    <2>4. \E k \in 1..sent'[c] : f.id = <<c, k>>
      BY <1>1, <2>1
    <2>5. \A g \in Frames(c) : g.us \subseteq doc'[c] /\ (g.id \in committed' => g.us \subseteq Stored')
      BY <1>1, <1>3, <1>6 DEF FramesOf
    <2>6. \A g, h \in Frames(c) : g.id = h.id => g = h
      BY <1>1 DEF FramesOf
    <2> HIDE DEF Frames
    <2> QED
      BY <1>2, <1>6, <2>1, <2>2, <2>3, <2>4, <2>5, <2>6 DEF FramesOf
  <1> QED
    BY <1>4, <1>5, <1>6, ClientFrames DEF OwnFrames

LEMMA NumbersGrow ==
  ASSUME Shapes, NEW c \in Clients, ClientStep(c), NEW d \in Clients
  PROVE  sent[d] \in Nat /\ sent'[d] \in Nat /\ sent[d] <= sent'[d]
  <1>0. sent[d] \in Nat
    BY DEF Shapes
  <1>1. CASE d # c
    BY <1>0, <1>1, OthersUntouched DEF Untouched
  <1>2. CASE OnInitializationRace(c) \/ Drop(c)
    BY <1>0, <1>2 DEF OnInitializationRace, Drop, local
  <1>3. CASE HandlerStep(c)
    BY <1>0, <1>3, HandlerFrames
  <1>4. CASE OnUpdate(c) \/ OnAck(c) \/ OnNoPlace(c) \/ OnFailure(c)
    BY <1>0, <1>4 DEF OnUpdate, OnAck, OnNoPlace, OnFailure, local
  <1>5. ASSUME NEW kind, NEW us, NEW text, SendUpdate(c, kind, us, text), d = c
        PROVE  sent[d] \in Nat /\ sent'[d] \in Nat /\ sent[d] <= sent'[d]
    BY <1>0, <1>5, SendUpdateShape
  <1>6. CASE Edit(c) /\ d = c
    BY <1>5, <1>6 DEF Edit
  <1>7. CASE OnBootstrap(c) /\ d = c
    <2>1. sent' = sent \/ SendUpdate(c, "init", doc'[c], Visible(doc'[c]))
      BY <1>7, BootstrapEffect
    <2> QED
      BY <1>0, <1>5, <1>7, <2>1
  <1> QED
    BY <1>1, <1>2, <1>3, <1>4, <1>6, <1>7 DEF ClientStep, SessionStep

LEMMA FramesNext ==
  ASSUME Shapes, TextEntersOnce, LocksHold, FramesHold, Grows, [Next]_vars
  PROVE  FramesHold'
  <1>1. ASSUME NEW c \in Clients, ClientStep(c) PROVE FramesHold'
    <2>1. \A d \in Clients : FramesOf(d)'
      BY <1>1, OwnFramesHold, OtherFrames
    <2>2. ASSUME NEW id \in committed' PROVE \E d \in Clients : \E k \in 1..sent'[d] : id = <<d, k>>
      <3>1. \E d \in Clients : \E k \in 1..sent[d] : id = <<d, k>>
        BY <1>1, SavedFrame DEF FramesHold, FramesOf
      <3> QED
        BY <1>1, <3>1, NumbersGrow
    <2> QED
      BY <2>1, <2>2 DEF FramesHold
  <1>2. CASE WorkerStep
    BY <1>2, WorkerStores DEF FramesHold, FramesOf, Frames, Held, sockets, local
  <1>3. CASE UNCHANGED vars
    BY <1>3 DEF vars, stored, sockets, local, FramesHold, FramesOf, Frames, Held, Stored, Rows
  <1> QED
    BY <1>1, <1>2, <1>3 DEF Next, ClientStep

-----------------------------------------------------------------------------
(* Answers *)

\* What a client's handler has read of the snapshot is stored.
LEMMA ReadIsStored ==
  ASSUME Shapes, AnswersHold, Grows, NEW c \in Clients, ClientStep(c), handler'[c].phase = "reading"
  PROVE  handler'[c].snapshot \subseteq Stored'
  <1>1. CASE ReadSnapshot(c)
    BY <1>1 DEF ReadSnapshot, Shapes, Stored, Grows
  <1>2. CASE handler' = handler
    BY <1>2 DEF AnswersHold, Grows
  <1>3. CASE Accept(c)
    BY <1>3, AcceptEffect DEF Initializes, Shapes
  <1>4. CASE Hangup(c) \/ Publish(c) \/ Append_(c) \/ Join(c) \/ ReadUpdates(c)
    BY <1>4 DEF Hangup, Publish, Append_, Join, ReadUpdates, Shapes, Closed, Idle
  <1> QED
    BY <1>1, <1>2, <1>3, <1>4
    DEF ClientStep, HandlerStep, SessionStep, Refuse, Edit, Drop, OnBootstrap, OnUpdate, OnAck,
        OnInitializationRace, Destroy, OnNoPlace, OnFailure

\* What a handler is done with is stored.
LEMMA DoneIsStored ==
  ASSUME FramesHold, NEW c \in Clients, handler[c].phase = "done"
  PROVE  handler[c].frame.us \subseteq Stored /\ handler[c].frame.id \in committed
  BY DEF FramesHold, FramesOf, Frames, Held

LEMMA AnswersNext ==
  ASSUME Shapes, TextEntersOnce, LocksHold, FramesHold, AnswersHold, Grows, [Next]_vars
  PROVE  AnswersHold'
  <1>1. ASSUME NEW c \in Clients, ClientStep(c) PROVE AnswersHold'
    <2>1. acked' \subseteq Stored'
      <3>1. CASE acked' = acked
        BY <3>1 DEF AnswersHold, Grows
      <3>2. CASE Publish(c)
        BY <3>2, PublishEffect, DoneIsStored DEF AnswersHold, Grows
      <3> QED
        BY <1>1, <3>1, <3>2
        DEF ClientStep, HandlerStep, SessionStep, Join, ReadSnapshot, ReadUpdates, Refuse, Accept, Append_,
            Edit, Drop, OnBootstrap, OnUpdate, OnAck, OnInitializationRace, OnNoPlace, OnFailure, ghosts
    <2>2. ASSUME NEW d \in Clients, handler'[d].phase = "reading" PROVE handler'[d].snapshot \subseteq Stored'
      <3>1. CASE d = c
        BY <1>1, <2>2, <3>1, ReadIsStored
      <3>2. CASE d # c
        BY <1>1, <2>2, <3>2, OthersUntouched DEF Untouched, AnswersHold, Grows
      <3> QED
        BY <3>1, <3>2
    <2>3. ASSUME NEW d \in Clients, NEW m \in Range(queue'[d])
          PROVE  /\ m.kind = "ack" => m.id \in committed'
                 /\ m.kind = "update" => m.us \subseteq Stored'
                 /\ m.kind = "bootstrap" => m.us \subseteq Stored' /\ m.updates \subseteq Stored'
      <3>1. CASE m \in Range(queue[d])
        BY <3>1 DEF AnswersHold, Grows
      <3>2. CASE \E what : m = Error(what)
        BY <3>2 DEF Error
      <3>3. CASE /\ handler[c].phase = "reading" /\ m.kind = "bootstrap"
                 /\ m.us = handler[c].snapshot /\ m.updates = Rows
        BY <3>3 DEF AnswersHold, Grows, Stored
      <3>4. CASE handler[c].phase = "done" /\ m = Ack(handler[c].frame)
        BY <3>4, DoneIsStored DEF Ack, Grows
      <3>5. CASE /\ handler[c].phase = "done" \/ Appends(c)
                 /\ m = News(handler[c].frame)
        BY <3>5, DoneIsStored, AppendStores DEF Grows, News
      <3> QED
        BY <1>1, <3>1, <3>2, <3>3, <3>4, <3>5, QueueMessages DEF NewMessage
    <2> QED
      BY <2>1, <2>2, <2>3 DEF AnswersHold
  <1>2. CASE WorkerStep
    BY <1>2, WorkerStores DEF AnswersHold, sockets, ghosts
  <1>3. CASE UNCHANGED vars
    BY <1>3 DEF vars, stored, sockets, ghosts, AnswersHold, Stored, Rows
  <1> QED
    BY <1>1, <1>2, <1>3 DEF Next, ClientStep

-----------------------------------------------------------------------------
(* The plain text *)

\* Before the document is initialized a client has nothing but its base, and so
\* it types nothing, and what it adds is its base.
LEMMA BaseIsFirst ==
  ASSUME NEW c \in Clients, doc[c] \subseteq OnlyBase(c)
  PROVE  ~MayUndo(c) /\ Base(c) \subseteq OnlyBase(c)
  <1>1. ~MayUndo(c)
    BY DEF MayUndo, OnlyBase, Update
  <1>2. ASSUME Visible(doc[c]) = {} PROVE Base(c) = OnlyBase(c)
    <2>1. ASSUME NEW u \in doc[c] PROVE u \in Visible(doc[c])
      <3>1. u.n = 1
        BY <2>1 DEF OnlyBase, Update
      <3>2. 1..(u.n - 1) = {}
        BY <3>1
      <3> QED
        BY <3>2 DEF Visible
    <2>2. {u \in doc[c] : u.by = Me(c)} = {}
      BY <1>2, <2>1
    <2>3. MyNext(c, TRUE) = Update(Me(c), 1, TRUE)
      <3>1. MyNext(c, TRUE) = Update(Me(c), 1 + 0, TRUE)
        BY <2>2, FS_EmptySet DEF MyNext
      <3>2. 1 + 0 = 1
        OBVIOUS
      <3> QED
        BY <3>1, <3>2
    <2> QED
      BY <1>2, <2>3 DEF Base, OnlyBase
  <1> QED
    BY <1>1, <1>2 DEF Base

\* A client may type only once the document is initialized.
LEMMA TypingIsLate ==
  ASSUME TextEntersOnce, NEW c \in Clients, Edit(c)
  PROVE  initialized
  <1>1. ASSUME ~initialized PROVE FALSE
    <2>1. ~MayUndo(c)
      BY <1>1, BaseIsFirst DEF TextEntersOnce
    <2>2. ~MayType(c)
      BY <1>1 DEF TextEntersOnce, MayType
    <2> QED
      BY <2>1, <2>2 DEF Edit
  <1> QED
    BY <1>1

LEMMA HeadIsThere ==
  ASSUME Shapes, NEW c \in Clients, queue[c] # <<>>
  PROVE  Head(queue[c]) \in Range(queue[c])
  BY TailElements DEF Shapes

\* What a client has before anyone initialized the document.
LEMMA PlainTextOnly ==
  ASSUME Shapes, AnswersHold, TextEntersOnce, Grows, NEW c \in Clients, ClientStep(c), ~initialized'
  PROVE  /\ \A d \in Clients : doc'[d] \subseteq OnlyBase(d)'
         /\ \A d \in Clients : \A f \in Frames(d)' : f.text = Visible(f.us)
  <1>0. /\ ~initialized /\ Stored = {}
        /\ \A d \in Clients : doc[d] \subseteq OnlyBase(d)
        /\ \A d \in Clients : \A f \in Frames(d) : f.text = Visible(f.us)
    BY DEF Grows, TextEntersOnce, Stored, Rows
  <1>1. ~Edit(c)
    BY <1>0, TypingIsLate
  <1>2. ASSUME NEW d \in Clients \ {c}
        PROVE  doc'[d] \subseteq OnlyBase(d)' /\ \A f \in Frames(d)' : f.text = Visible(f.us)
    <2>1. Untouched(d)
      BY OthersUntouched
    <2>2. doc'[d] = doc[d] /\ Me(d)' = Me(d) /\ Frames(d)' = Frames(d)
      BY <2>1 DEF Untouched, Me, Frames, Held
    <2> QED
      BY <1>0, <2>2 DEF OnlyBase
  <1>3. \A f \in Frames(c)' : f.text = Visible(f.us)
    <2>1. ASSUME NEW f, NewFrame(c, f) PROVE f.text = Visible(f.us)
      BY <1>1, <2>1 DEF NewFrame
    <2> QED
      BY <1>0, <2>1, ClientFrames DEF OwnFrames
  <1>4. doc'[c] \subseteq OnlyBase(c)'
    <2>1. CASE doc'[c] = {}
      BY <2>1
    <2>2. CASE doc' = doc /\ session' = session
      BY <1>0, <2>2 DEF OnlyBase, Me
    <2>3. CASE OnBootstrap(c)
      <3> DEFINE m == Head(queue[c])
      <3>1. queue[c] # <<>> /\ m.kind = "bootstrap" /\ session' = session
        BY <2>3, BootstrapEffect
      <3>2. m \in Range(queue[c])
        BY <3>1, HeadIsThere
      <3>3. m.us = {} /\ m.updates = {} /\ ~m.initialized
        BY <1>0, <3>1, <3>2 DEF AnswersHold, TextEntersOnce
      <3>4. \/ /\ doc' = [doc EXCEPT ![c] = doc[c] \cup m.us \cup m.updates]
               /\ wire' = [wire EXCEPT ![c] = @ \o pending[c]]
               /\ UNCHANGED <<pending, sent>>
            \/ /\ doc' = [doc EXCEPT ![c] = doc[c] \cup m.us \cup Base(c) \cup m.updates]
               /\ SendUpdate(c, "init", doc'[c], Visible(doc'[c]))
        BY <2>3, BootstrapEffect DEF Shapes
      <3>5. doc'[c] \subseteq doc[c] \cup Base(c)
        BY <3>3, <3>4 DEF Shapes
      <3> QED
        BY <1>0, <3>1, <3>5, BaseIsFirst DEF OnlyBase, Me
    <2>4. ~OnUpdate(c)
      BY <1>0, HeadIsThere DEF OnUpdate, TextEntersOnce
    <2>5. CASE OnInitializationRace(c)
      BY <2>1, <2>5 DEF OnInitializationRace, Destroy, Shapes
    <2>6. CASE HandlerStep(c) \/ Drop(c) \/ OnAck(c) \/ OnNoPlace(c) \/ OnFailure(c)
      BY <2>2, <2>6
      DEF HandlerStep, Join, ReadSnapshot, ReadUpdates, Refuse, Accept, Append_, Publish, Drop, OnAck,
          OnNoPlace, OnFailure, local
    <2> QED
      BY <1>1, <2>3, <2>4, <2>5, <2>6 DEF ClientStep, SessionStep
  <1> QED
    BY <1>2, <1>3, <1>4

\* Only a message that carries no base may be appended.
FramesCarry ==
  \A c \in Clients : \A f \in Frames(c) :
    /\ f.kind \in {"init", "update"}
    /\ f.kind = "update" => initialized /\ \A u \in f.us : ~u.base

LEMMA FramesCarryNext ==
  ASSUME Shapes, TextEntersOnce, Grows, NEW c \in Clients, ClientStep(c)
  PROVE  FramesCarry'
  <1>0. FramesCarry /\ (wasInit[c] => initialized)
    BY DEF TextEntersOnce, FramesCarry
  <1>1. ASSUME NEW d \in Clients \ {c} PROVE Frames(d)' = Frames(d)
    BY OthersUntouched DEF Untouched, Frames, Held
  <1>2. ASSUME NEW f \in Frames(c)'
        PROVE  f.kind \in {"init", "update"} /\ (f.kind = "update" => initialized /\ \A u \in f.us : ~u.base)
    <2>1. CASE f \in Frames(c)
      BY <1>0, <2>1 DEF FramesCarry
    <2>2. CASE NewFrame(c, f)
      BY <1>0, <2>2 DEF NewFrame
    <2> QED
      BY <1>2, <2>1, <2>2, ClientFrames DEF OwnFrames
  <1> QED
    BY <1>0, <1>1, <1>2 DEF FramesCarry, Grows

\* The sessions know when the document is initialized.
Knows(c) ==
  /\ handler[c].phase = "appending" => handler[c].frame.kind = "update"
  /\ handler[c].phase = "reading" /\ handler[c].initialized => initialized
  /\ wasInit[c] => initialized
  /\ ready[c] /\ ~readOnly[c] => initialized

\* What a step puts into the flags of its session.
LEMMA FlagsEffect ==
  ASSUME Shapes, NEW c \in Clients, SessionStep(c)
  PROVE  \/ UNCHANGED <<wasInit, ready, readOnly>>
         \/ Head(queue[c]).kind \in {"ack", "update"} /\ queue[c] # <<>>
            /\ wasInit'[c] \in {wasInit[c], TRUE}
         \/ /\ queue[c] # <<>> /\ Head(queue[c]).kind = "bootstrap"
            /\ wasInit'[c] = Head(queue[c]).initialized
            /\ (ready'[c] /\ ~readOnly'[c] => Head(queue[c]).initialized)
         \/ wasInit'[c] = FALSE /\ ready'[c] = FALSE
         \/ wasInit' = wasInit /\ readOnly'[c] = TRUE
  <1> USE DEF Shapes, local, screen
  <1>1. CASE OnBootstrap(c)
    <2> DEFINE f == Head(queue[c])
    <2>1. /\ queue[c] # <<>> /\ f.kind = "bootstrap"
          /\ wasInit' = [wasInit EXCEPT ![c] = f.initialized]
          /\ readOnly' = [readOnly EXCEPT ![c] = f.readOnly]
          /\ ready'[c] <=> f.initialized \/ f.readOnly
      BY <1>1, BootstrapEffect
    <2> HIDE DEF f
    <2>2. wasInit'[c] = f.initialized /\ readOnly'[c] = f.readOnly
      BY <2>1
    <2>3. ready'[c] /\ ~readOnly'[c] => f.initialized
      BY <2>1, <2>2
    <2> QED
      BY <2>1, <2>2, <2>3 DEF f
  <1>2. CASE Edit(c) \/ Drop(c) \/ OnFailure(c)
    BY <1>2 DEF Edit, Drop, OnFailure
  <1>3. CASE OnUpdate(c) \/ OnAck(c)
    BY <1>3 DEF OnUpdate, OnAck
  <1>4. CASE OnInitializationRace(c)
    <2>1. wasInit'[c] = FALSE /\ ready'[c] = FALSE
      BY <1>4 DEF OnInitializationRace
    <2> QED
      BY <2>1
  <1>5. CASE OnNoPlace(c)
    <2>1. wasInit' = wasInit /\ readOnly'[c] = TRUE
      BY <1>5 DEF OnNoPlace
    <2> QED
      BY <2>1
  <1> QED
    BY <1>1, <1>2, <1>3, <1>4, <1>5 DEF SessionStep

LEMMA HandlerKnows ==
  ASSUME Shapes, TextEntersOnce, Grows, NEW c \in Clients, HandlerStep(c)
  PROVE  Knows(c)'
  <1> USE DEF Shapes, screen, local
  <1>0. Knows(c)
    BY DEF TextEntersOnce, Knows
  <1>1. UNCHANGED <<wasInit, ready, readOnly>>
    BY DEF HandlerStep, Join, ReadSnapshot, ReadUpdates, Refuse, Accept, Append_, Publish
  <1>2. /\ handler'[c].phase = "appending" => handler'[c].frame.kind = "update"
        /\ handler'[c].phase = "reading" /\ handler'[c].initialized => initialized'
    <2>1. CASE Accept(c)
      BY <2>1, AcceptEffect DEF Initializes
    <2>2. CASE ReadSnapshot(c)
      BY <2>2 DEF ReadSnapshot, stored
    <2>3. CASE Join(c) \/ ReadUpdates(c) \/ Append_(c) \/ Publish(c)
      BY <2>3 DEF Join, ReadUpdates, Append_, Publish, Idle
    <2>4. CASE Refuse(c)
      BY <1>0, <2>4 DEF Refuse, Knows, Grows
    <2> QED
      BY <2>1, <2>2, <2>3, <2>4 DEF HandlerStep
  <1> QED
    BY <1>0, <1>1, <1>2 DEF Knows, Grows

LEMMA SessionKnows ==
  ASSUME Shapes, TextEntersOnce, AnswersHold, Grows, NEW c \in Clients, SessionStep(c)
  PROVE  Knows(c)'
  <1>0. Knows(c)
    BY DEF TextEntersOnce, Knows
  <1>1. handler'[c] \in {handler[c], Closed}
    BY HangupEffect
    DEF SessionStep, Edit, Drop, OnBootstrap, OnUpdate, OnAck, OnInitializationRace, Destroy, OnNoPlace,
        OnFailure, Shapes
  <1>2. ASSUME queue[c] # <<>>, Head(queue[c]).kind \in {"ack", "update"} PROVE initialized
    BY <1>2, HeadIsThere DEF AnswersHold, TextEntersOnce
  <1>3. ASSUME queue[c] # <<>>, Head(queue[c]).kind = "bootstrap", Head(queue[c]).initialized PROVE initialized
    BY <1>3, HeadIsThere DEF TextEntersOnce
  <1>4. (wasInit'[c] => initialized') /\ (ready'[c] /\ ~readOnly'[c] => initialized')
    <2>1. CASE UNCHANGED <<wasInit, ready, readOnly>>
      BY <1>0, <2>1 DEF Knows, Grows
    <2>2. CASE queue[c] # <<>> /\ Head(queue[c]).kind \in {"ack", "update"}
      BY <1>2, <2>2 DEF Grows
    <2>3. CASE /\ queue[c] # <<>> /\ Head(queue[c]).kind = "bootstrap"
               /\ wasInit'[c] = Head(queue[c]).initialized
               /\ (ready'[c] /\ ~readOnly'[c] => Head(queue[c]).initialized)
      BY <1>3, <2>3 DEF Grows
    <2>4. CASE wasInit'[c] = FALSE /\ ready'[c] = FALSE
      BY <2>4
    <2>5. CASE wasInit' = wasInit /\ readOnly'[c] = TRUE
      BY <1>0, <2>5 DEF Knows, Grows
    <2> QED
      BY <2>1, <2>2, <2>3, <2>4, <2>5, FlagsEffect
  <1>5. /\ handler'[c].phase = "appending" => handler'[c].frame.kind = "update"
        /\ handler'[c].phase = "reading" /\ handler'[c].initialized => initialized'
    BY <1>0, <1>1 DEF Knows, Grows, Closed
  <1> QED
    BY <1>4, <1>5 DEF Knows

QueueKnows ==
  \A c \in Clients : \A m \in Range(queue[c]) :
    /\ m.kind = "update" \/ m = Error("initialized") => initialized
    /\ m.kind = "bootstrap" /\ m.initialized => initialized

LEMMA QueueKnowsNext ==
  ASSUME Shapes, TextEntersOnce, FramesHold, Grows, NEW c \in Clients, ClientStep(c)
  PROVE  QueueKnows'
  <1> SUFFICES ASSUME NEW d \in Clients, NEW m \in Range(queue'[d])
               PROVE  /\ m.kind = "update" \/ m = Error("initialized") => initialized'
                      /\ m.kind = "bootstrap" /\ m.initialized => initialized'
    BY DEF QueueKnows
  <1>1. CASE m \in Range(queue[d])
    BY <1>1 DEF TextEntersOnce, Grows
  <1>2. CASE \E what \in {"limit", "initialized", "failed"} : m = Error(what) /\ (what = "initialized" => initialized)
    BY <1>2 DEF Error, Grows
  <1>3. CASE /\ handler[c].phase = "reading" /\ m.kind = "bootstrap"
             /\ m.initialized = handler[c].initialized
    <2>1. m # Error("initialized")
      BY <1>3 DEF Error
    <2> QED
      BY <1>3, <2>1 DEF TextEntersOnce, Grows
  <1>4. CASE m = Ack(handler[c].frame)
    BY <1>4 DEF Ack, Error
  <1>5. CASE handler[c].phase = "done"
    BY <1>5, DoneIsStored DEF TextEntersOnce, Grows
  <1>6. CASE Appends(c)
    <2>1. handler[c].frame \in Frames(c) /\ handler[c].frame.kind = "update"
      BY <1>6 DEF Appends, Frames, Held, TextEntersOnce
    <2> QED
      BY <2>1 DEF TextEntersOnce, Grows
  <1> QED
    BY <1>1, <1>2, <1>3, <1>4, <1>5, <1>6, QueueMessages DEF NewMessage

\* The document itself: empty before it is initialized, one base afterwards.
OneBase ==
  /\ ~initialized => snapshot = {} /\ rows = {} /\ committed = {}
  /\ \A u, v \in Stored : u.base /\ v.base => u = v
  /\ initialized /\ rows = {} => projection = Visible(snapshot)

LEMMA OneBaseNext ==
  ASSUME Shapes, TextEntersOnce, FramesHold, NEW c \in Clients, ClientStep(c)
  PROVE  OneBase'
  <1>0. OneBase
    BY DEF TextEntersOnce, OneBase
  <1>1. CASE StoreKept
    BY <1>0, <1>1 DEF StoreKept, OneBase, Stored, Rows
  <1>2. CASE Appends(c)
    <2> DEFINE f == handler[c].frame
    <2>1. f \in Frames(c) /\ f.kind = "update"
      BY <1>2 DEF Appends, Frames, Held, TextEntersOnce
    <2>2. initialized /\ \A u \in f.us : ~u.base
      BY <2>1 DEF TextEntersOnce
    <2>3. Stored' = Stored \cup f.us /\ initialized' = initialized /\ rows' # {}
      BY <1>2, AppendStores
    <2> QED
      BY <1>0, <2>2, <2>3 DEF OneBase
  <1>3. CASE Initializes(c)
    <2> DEFINE f == Head(wire[c])
    <2>1. f \in Frames(c)
      BY <1>3, TailElements DEF Initializes, Frames, Shapes
    <2>2. /\ Stored' = f.us /\ initialized' /\ snapshot' = Stored' /\ projection' = f.text
          /\ ~initialized
      BY <1>3, InitializeStores
    <2>3. f.text = Visible(f.us) /\ doc[c] \subseteq OnlyBase(c)
      BY <2>1, <2>2 DEF TextEntersOnce
    <2>4. f.us \subseteq OnlyBase(c)
      BY <2>1, <2>3 DEF FramesHold, FramesOf
    <2> QED
      BY <2>2, <2>3, <2>4 DEF OneBase, OnlyBase
  <1> QED
    BY <1>1, <1>2, <1>3, ClientStores

LEMMA TextNext ==
  ASSUME Shapes, LocksHold, FramesHold, AnswersHold, TextEntersOnce, Grows, [Next]_vars
  PROVE  TextEntersOnce'
  <1>1. ASSUME NEW c \in Clients, ClientStep(c) PROVE TextEntersOnce'
    <2>1. OneBase' /\ QueueKnows' /\ FramesCarry'
      BY <1>1, OneBaseNext, QueueKnowsNext, FramesCarryNext
    <2>2. \A d \in Clients : Knows(d)'
      <3>1. Knows(c)'
        BY <1>1, HandlerKnows, SessionKnows DEF ClientStep
      <3>2. ASSUME NEW d \in Clients \ {c} PROVE Knows(d)'
        <4>1. Untouched(d) /\ Knows(d)
          BY <1>1, OthersUntouched DEF TextEntersOnce, Knows
        <4> QED
          BY <4>1 DEF Untouched, Knows, Grows
      <3> QED
        BY <3>1, <3>2
    <2>3. ~initialized' =>
             /\ \A d \in Clients : doc'[d] \subseteq OnlyBase(d)'
             /\ \A d \in Clients : \A f \in Frames(d)' : f.text = Visible(f.us)
      BY <1>1, PlainTextOnly
    <2> QED
      BY <2>1, <2>2, <2>3 DEF TextEntersOnce, OneBase, QueueKnows, FramesCarry, Knows
  <1>2. CASE WorkerStep
    <2>1. /\ Stored' = Stored /\ UNCHANGED <<initialized, committed, sockets, screen, local>>
          /\ StoreKept \/ (snapshot' = Stored /\ projection' = Visible(snapshot') /\ rows' \subseteq rows)
      BY <1>2, WorkerStores
    <2>2. OneBase'
      BY <2>1 DEF TextEntersOnce, OneBase, StoreKept, Stored, Rows
    <2>3. \A c \in Clients : Frames(c)' = Frames(c) /\ OnlyBase(c)' = OnlyBase(c)
      BY <2>1 DEF Frames, Held, OnlyBase, Me, sockets, local
    <2> QED
      BY <2>1, <2>2, <2>3 DEF TextEntersOnce, OneBase, sockets, screen, local
  <1>3. CASE UNCHANGED vars
    BY <1>3 DEF vars, stored, sockets, screen, local, TextEntersOnce, Frames, Held, OnlyBase, Me, Stored, Rows
  <1> QED
    BY <1>1, <1>2, <1>3 DEF Next, ClientStep

-----------------------------------------------------------------------------
(* Nothing is missed *)

LEMMA OwnElse ==
  ASSUME Shapes, AnswersHold, FramesHold, NothingElse, Grows, NEW c \in Clients, ClientStep(c)
  PROVE  /\ connection'[c] = "synced" => pending'[c] = <<>>
         /\ c \notin givenUp' => \A u \in doc'[c] : u \in Stored' \/ Carries(u, Range(pending'[c]))
  <1> DEFINE Covered == \A u \in doc'[c] : u \in Stored' \/ Carries(u, Range(pending'[c]))
  <1>0. /\ connection[c] = "synced" => pending[c] = <<>>
        /\ c \notin givenUp => \A u \in doc[c] : u \in Stored \/ Carries(u, Range(pending[c]))
    BY DEF NothingElse
  <1>1. ASSUME doc'[c] = doc[c], Range(pending[c]) \subseteq Range(pending'[c]), c \notin givenUp PROVE Covered
    BY <1>0, <1>1 DEF Carries, Grows
  <1>2. CASE UNCHANGED <<doc, pending, givenUp>> /\ connection'[c] \in {connection[c], "connecting", "offline"}
    BY <1>0, <1>1, <1>2
  <1>3. CASE HandlerStep(c) \/ Drop(c) \/ OnFailure(c)
    BY <1>2, <1>3
    DEF HandlerStep, Join, ReadSnapshot, ReadUpdates, Refuse, Accept, Append_, Publish, Drop, OnFailure,
        local, screen, ghosts, Shapes
  <1>4. CASE Edit(c)
    <2> DEFINE f == Frame(c, IF wasInit[c] THEN "update" ELSE "init", {Typed(c)}, Visible(doc[c] \cup {Typed(c)}))
    <2>1. /\ SendUpdate(c, IF wasInit[c] THEN "update" ELSE "init", {Typed(c)}, Visible(doc[c] \cup {Typed(c)}))
          /\ doc'[c] = doc[c] \cup {Typed(c)} /\ givenUp' = givenUp /\ connection'[c] # "synced"
      BY <1>4 DEF Edit, Shapes, ghosts
    <2>2. f.us = {Typed(c)}
      BY DEF Frame
    <2>3. Range(pending'[c]) = Range(pending[c]) \cup {f}
      BY <2>1, SendUpdateShape
    <2> HIDE DEF f
    <2> QED
      BY <1>0, <2>1, <2>2, <2>3 DEF Carries, Grows
  <1>5. CASE OnBootstrap(c)
    <2>1. connection'[c] = Settled(c, pending'[c]) /\ givenUp' = givenUp /\ queue[c] # <<>>
      BY <1>5, BootstrapEffect DEF ghosts, Shapes
    <2>2. connection'[c] = "synced" => pending'[c] = <<>>
      BY <2>1 DEF Settled
    <2>3. CASE SendUpdate(c, "init", doc'[c], Visible(doc'[c]))
      <3> DEFINE f == Frame(c, "init", doc'[c], Visible(doc'[c]))
      <3>1. f.us = doc'[c]
        BY DEF Frame
      <3>2. Range(pending'[c]) = Range(pending[c]) \cup {f}
        BY <2>3, SendUpdateShape
      <3> HIDE DEF f
      <3> QED
        BY <2>2, <3>1, <3>2 DEF Carries
    <2>4. CASE /\ pending' = pending
               /\ doc' = [doc EXCEPT ![c] = doc[c] \cup Head(queue[c]).us \cup Head(queue[c]).updates]
      <3>1. Head(queue[c]).us \subseteq Stored /\ Head(queue[c]).updates \subseteq Stored
        BY <1>5, HeadIsThere DEF AnswersHold, OnBootstrap
      <3>2. doc'[c] = doc[c] \cup Head(queue[c]).us \cup Head(queue[c]).updates
        BY <2>4 DEF Shapes
      <3> QED
        BY <1>0, <2>1, <2>2, <2>4, <3>1, <3>2 DEF Carries, Grows
    <2> QED
      BY <1>5, <2>3, <2>4, BootstrapEffect
  <1>6. CASE OnUpdate(c)
    <2>1. Head(queue[c]).us \subseteq Stored
      BY <1>6, HeadIsThere DEF AnswersHold, OnUpdate
    <2>2. doc'[c] = doc[c] \cup Head(queue[c]).us /\ pending' = pending /\ givenUp' = givenUp
      BY <1>6 DEF OnUpdate, ghosts, Shapes
    <2>3. connection'[c] = Settled(c, pending[c])
      BY <1>6 DEF OnUpdate, Shapes
    <2> QED
      BY <1>0, <2>1, <2>2, <2>3 DEF Carries, Grows, Settled
  <1>7. CASE OnAck(c)
    <2>1. /\ Range(pending'[c]) \subseteq Range(pending[c])
          /\ \A f \in Range(pending[c]) \ Range(pending'[c]) : f.id = Head(queue[c]).id
          /\ connection'[c] = Settled(c, pending'[c]) /\ doc' = doc /\ givenUp' = givenUp
          /\ queue[c] # <<>> /\ Head(queue[c]).kind = "ack"
      BY <1>7, AckEffect DEF ghosts, Shapes
    <2>2. Head(queue[c]).id \in committed
      BY <2>1, HeadIsThere DEF AnswersHold
    <2>3. \A f \in Range(pending[c]) \ Range(pending'[c]) : f.us \subseteq Stored
      BY <2>1, <2>2 DEF FramesHold, FramesOf, Frames
    <2>4. c \notin givenUp' => Covered
      BY <1>0, <2>1, <2>3 DEF Carries, Grows
    <2>5. connection'[c] = "synced" => pending'[c] = <<>>
      BY <2>1 DEF Settled
    <2> QED
      BY <2>4, <2>5
  <1>8. CASE OnInitializationRace(c)
    BY <1>8 DEF OnInitializationRace, Destroy, Shapes
  <1>9. CASE OnNoPlace(c)
    <2>1. /\ pending'[c] = <<>> /\ doc' = doc
          /\ IF pending[c] = <<>> THEN givenUp' = givenUp ELSE givenUp' = givenUp \cup {c}
      BY <1>9 DEF OnNoPlace, Shapes
    <2> QED
      BY <1>1, <2>1
  <1> QED
    BY <1>3, <1>4, <1>5, <1>6, <1>7, <1>8, <1>9 DEF ClientStep, SessionStep

LEMMA ElseNext ==
  ASSUME Shapes, LocksHold, AnswersHold, FramesHold, NothingElse, Grows, [Next]_vars
  PROVE  NothingElse'
  <1>1. ASSUME NEW c \in Clients, ClientStep(c) PROVE NothingElse'
    <2>1. ASSUME NEW d \in Clients \ {c}
          PROVE  /\ connection'[d] = "synced" => pending'[d] = <<>>
                 /\ d \notin givenUp' => \A u \in doc'[d] : u \in Stored' \/ Carries(u, Range(pending'[d]))
      BY <1>1, OthersUntouched DEF Untouched, NothingElse, Grows
    <2> QED
      BY <1>1, <2>1, OwnElse DEF NothingElse
  <1>2. CASE WorkerStep
    BY <1>2, WorkerStores DEF NothingElse, screen, local, ghosts
  <1>3. CASE UNCHANGED vars
    BY <1>3 DEF vars, stored, screen, local, ghosts, NothingElse, Stored, Rows
  <1> QED
    BY <1>1, <1>2, <1>3 DEF Next, ClientStep

\* A client in the room that missed nothing and gave nothing up.
Follows(c) ==
  handler[c].phase \in {"idle", "appending", "done"} /\ c \notin missed \cup givenUp /\ ~Late(c)

\* Whatever another client does, a client that is late stays late, and what it
\* had or would be told stays on its way.
LEMMA OthersStayLate ==
  ASSUME Shapes, TextEntersOnce, FramesHold, Grows, NEW c \in Clients, ClientStep(c),
         NEW d \in Clients \ {c}, Late(d)
  PROVE  Late(d)'
  <1>1. pending'[d] = pending[d] /\ initialized'
    BY OthersUntouched DEF Untouched, Late, Grows
  <1>2. Range(queue[d]) \subseteq Range(queue'[d])
    BY OthersQueues
  <1>3. ASSUME NEW f \in Range(pending[d]), f.id \in committed' PROVE f.id \in committed
    <2>1. f \in Frames(d)
      BY DEF Frames
    <2>2. FramesOf(c) /\ FramesOf(d)
      BY DEF FramesHold
    <2>3. \A g \in Frames(c) : f.id # g.id
      BY <2>1, <2>2 DEF FramesOf
    <2> QED
      BY <1>3, <2>3, SavedFrame
  <1> QED
    BY <1>1, <1>2, <1>3 DEF Late

LEMMA OthersOnTheWay ==
  ASSUME Shapes, TextEntersOnce, NEW c \in Clients, ClientStep(c), NEW d \in Clients \ {c},
         handler[d].phase \in {"idle", "appending", "done"}, d \notin missed', NEW u, OnTheWay(d, u)
  PROVE  OnTheWay(d, u)'
  <1>1. doc'[d] = doc[d] /\ Range(queue[d]) \subseteq Range(queue'[d])
    BY OthersUntouched, OthersQueues DEF Untouched
  <1>2. \A e \in Clients \ {c} : handler'[e] = handler[e]
    BY OthersUntouched DEF Untouched
  <1>3. d \in Room
    BY DEF Room
  <1>4. CASE u \in doc[d] \/ \E m \in Range(queue[d]) : u \in Told(m)
    BY <1>1, <1>4 DEF OnTheWay, Told
  <1>5. CASE \E e \in Clients \ {c, d} : handler[e].phase = "done" /\ u \in handler[e].frame.us
    BY <1>2, <1>5 DEF OnTheWay
  <1>6. CASE handler[c].phase = "done" /\ u \in handler[c].frame.us
    <2>1. CASE Heard(c)
      <3> DEFINE frame == handler[c].frame
                 reached == Broadcast(c, frame)[d]
      <3>0. queue'[d] = reached
        BY <2>1 DEF Heard
      <3>1. News(frame) \in Range(queue'[d])
        <4> HIDE DEF frame
        <4>1. Range(reached) = Range(queue[d]) \cup {News(frame)}
          BY <1>3, BroadcastShape
        <4> QED
          BY <3>0, <4>1
      <3>2. u \in Told(News(handler[c].frame))
        BY <1>6 DEF Told, News
      <3> QED
        BY <3>1, <3>2 DEF OnTheWay, Told
    <2>2. CASE Publish(c)
      <3>1. \/ queue' = Broadcast(c, handler[c].frame)
            \/ missed' = missed \cup (Room \ {c})
            \/ queue' = [Broadcast(c, handler[c].frame) EXCEPT ![c] = queue[c]]
        BY <2>2, PublishEffect
      <3>2. missed' # missed \cup (Room \ {c})
        BY <1>3
      <3>3. Heard(c)
        BY <3>1, <3>2, BroadcastShape DEF Heard
      <3> QED
        BY <2>1, <3>3
    <2>3. CASE Hangup(c)
      BY <1>6, <2>1, <2>3, HangupEffect
    <2>4. CASE handler' = handler
      BY <1>6, <2>4 DEF OnTheWay
    <2>5. ~(Join(c) \/ ReadSnapshot(c) \/ ReadUpdates(c) \/ Accept(c) \/ Append_(c))
      BY <1>6 DEF Join, ReadSnapshot, ReadUpdates, Accept, Append_, Closed, Idle
    <2> QED
      BY <2>2, <2>3, <2>4, <2>5
      DEF ClientStep, HandlerStep, SessionStep, Refuse, Edit, Drop, OnBootstrap, OnUpdate, OnAck,
          OnInitializationRace, Destroy, OnNoPlace, OnFailure
  <1> QED
    BY <1>4, <1>5, <1>6 DEF OnTheWay

\* What another client adds to the document is on its way to this one.
LEMMA OthersAdd ==
  ASSUME Shapes, TextEntersOnce, NEW c \in Clients, ClientStep(c), NEW d \in Clients \ {c},
         handler[d].phase \in {"idle", "appending", "done"}, NEW u \in Stored', u \notin Stored
  PROVE  OnTheWay(d, u)'
  <1>1. CASE StoreKept
    BY <1>1 DEF StoreKept, Stored, Rows
  <1>2. CASE Initializes(c)
    <2>1. handler'[c].phase = "done" /\ handler'[c].frame = Head(wire[c])
      BY <1>2 DEF Initializes, Shapes
    <2> QED
      BY <1>2, <2>1, InitializeStores DEF OnTheWay
  <1>3. CASE Appends(c)
    <2>0. u \in handler[c].frame.us
      BY <1>3, AppendStores
    <2>1. CASE Append_(c)
      <3>1. handler'[c].phase = "done" /\ handler'[c].frame = handler[c].frame
        BY <2>1 DEF Append_, Shapes
      <3> QED
        BY <2>0, <3>1 DEF OnTheWay
    <2>2. CASE Hangup(c) /\ Heard(c)
      <3>1. News(handler[c].frame) \in Range(queue'[d])
        BY <2>2, BroadcastShape DEF Heard, Room
      <3>2. u \in Told(News(handler[c].frame))
        BY <2>0 DEF Told, News
      <3> QED
        BY <3>1, <3>2 DEF OnTheWay, Told
    <2>3. CASE Hangup(c) /\ StoreKept
      BY <1>1, <2>3
    <2>4. CASE Append_(c) \/ Hangup(c) \/ StoreKept
      BY <1>1, <2>1, <2>2, <2>3, <2>4, HangupEffect
    <2>5. CASE Accept(c)
      BY <1>3, <2>5, AcceptEffect DEF Appends, Idle
    <2>6. UNCHANGED stored => StoreKept
      BY DEF stored, StoreKept
    <2> QED
      BY <2>4, <2>5, <2>6
      DEF ClientStep, HandlerStep, SessionStep, Join, ReadSnapshot, ReadUpdates, Refuse, Publish, Edit,
          Drop, OnBootstrap, OnUpdate, OnAck, OnInitializationRace, Destroy, OnNoPlace, OnFailure
  <1> QED
    BY <1>1, <1>2, <1>3, ClientStores

LEMMA OthersMissNothing ==
  ASSUME Shapes, TextEntersOnce, FramesHold, NothingIsMissed, Grows, NEW c \in Clients, ClientStep(c),
         NEW d \in Clients \ {c}, Follows(d)', NEW u \in Stored'
  PROVE  OnTheWay(d, u)'
  <1>1. handler'[d] = handler[d] /\ d \notin missed' /\ d \notin missed \cup givenUp
    BY OthersUntouched DEF Untouched, Follows
  <1>2. ~Late(d)
    BY OthersStayLate DEF Follows
  <1>3. Follows(d)
    BY <1>1, <1>2 DEF Follows
  <1>4. CASE u \in Stored
    BY <1>1, <1>3, <1>4, OthersOnTheWay DEF NothingIsMissed, Follows
  <1>5. CASE u \notin Stored
    BY <1>3, <1>5, OthersAdd DEF Follows
  <1> QED
    BY <1>4, <1>5

\* A client whose step stores nothing keeps what it has been told.
Keeps(c) ==
  /\ StoreKept /\ handler[c].phase \in {"idle", "appending", "done"} /\ c \notin missed \cup givenUp
  /\ doc[c] \subseteq doc'[c]
  /\ \A f \in Range(pending[c]) : f \in Range(pending'[c]) \/ f.id \in committed
  /\ \A m \in Range(queue[c]) :
       \/ m \in Range(queue'[c])
       \/ Told(m) \subseteq doc'[c] /\ (m.kind = "bootstrap" => m.initialized)

LEMMA KeepsOnTheWay ==
  ASSUME Shapes, NothingIsMissed, Grows, NEW c \in Clients, ClientStep(c), Follows(c)', Keeps(c),
         NEW u \in Stored'
  PROVE  OnTheWay(c, u)'
  <1>1. \A e \in Clients \ {c} : handler'[e] = handler[e]
    BY OthersUntouched DEF Untouched
  <1>2. Stored' = Stored /\ committed' = committed
    BY DEF Keeps, StoreKept, Stored, Rows
  <1>3. Late(c) => Late(c)'
    BY <1>2 DEF Keeps, Late, Grows
  <1>4. OnTheWay(c, u)
    BY <1>2, <1>3 DEF Keeps, Follows, NothingIsMissed
  <1> QED
    BY <1>1, <1>4 DEF Keeps, OnTheWay, Told

LEMMA HandlerMissesNothing ==
  ASSUME Shapes, TextEntersOnce, FramesHold, NothingIsMissed, Grows, NEW c \in Clients, HandlerStep(c),
         Follows(c)', NEW u \in Stored'
  PROVE  OnTheWay(c, u)'
  <1>0. ClientStep(c) /\ doc' = doc /\ pending' = pending
    BY HandlerFrames DEF ClientStep
  <1>1. ASSUME StoreKept, handler[c].phase \in {"idle", "appending", "done"}, c \notin missed \cup givenUp,
               Range(queue[c]) \subseteq Range(queue'[c])
        PROVE  OnTheWay(c, u)'
    <2>1. Keeps(c)
      BY <1>0, <1>1 DEF Keeps
    <2> QED
      BY <1>0, <2>1, KeepsOnTheWay
  <1>2. CASE Join(c) \/ ReadSnapshot(c)
    BY <1>2 DEF Join, ReadSnapshot, Follows, Shapes
  <1>3. CASE ReadUpdates(c)
    <2> DEFINE e == [kind |-> "bootstrap", initialized |-> handler[c].initialized,
                     us |-> handler[c].snapshot, updates |-> Rows, readOnly |-> ~editor[c]]
    <2>1. queue' = Send(queue, c, e) /\ StoreKept
      BY <1>3 DEF ReadUpdates, stored, StoreKept
    <2>2. DOMAIN queue = Clients /\ \A b \in Clients : IsSeq(queue[b])
      BY DEF Shapes
    <2>3. /\ e.kind = "bootstrap" /\ Told(e) = handler[c].snapshot \cup Rows
          /\ e.initialized = handler[c].initialized
      BY DEF Told
    <2> HIDE DEF e
    <2>4. e \in Range(queue'[c])
      BY <2>1, <2>2, SendShape
    <2>5. Stored' = Stored /\ initialized' = initialized
      BY <2>1 DEF StoreKept, Stored, Rows
    <2>6. CASE ~handler[c].initialized
      <3>1. ~Late(c)' /\ ~e.initialized
        BY <2>3, <2>6 DEF Follows
      <3>2. ~initialized
        BY <2>3, <2>4, <2>5, <3>1 DEF Late
      <3> QED
        BY <2>5, <3>2 DEF TextEntersOnce, Stored, Rows
    <2>7. CASE handler[c].initialized
      <3>1. handler[c].snapshot = snapshot
        BY <1>3, <2>7 DEF ReadUpdates, Follows
      <3>2. u \in Told(e)
        BY <2>3, <2>5, <3>1 DEF Stored
      <3> QED
        BY <2>4, <3>2 DEF OnTheWay, Told
    <2> QED
      BY <2>6, <2>7
  <1>4. CASE Refuse(c)
    <2>1. /\ handler[c] = Idle /\ UNCHANGED <<stored, missed, givenUp>>
          /\ \E what : queue' = Send(queue, c, Error(what))
      BY <1>4, RefuseEffect DEF ghosts
    <2>2. c \notin missed \cup givenUp
      BY <2>1 DEF Follows
    <2>3. DOMAIN queue = Clients /\ \A b \in Clients : IsSeq(queue[b])
      BY DEF Shapes
    <2>4. Range(queue[c]) \subseteq Range(queue'[c])
      BY <2>1, <2>3, SendShape
    <2> QED
      BY <1>1, <2>1, <2>2, <2>4 DEF Idle, stored, StoreKept
  <1>5. CASE Accept(c)
    <2>1. handler[c] = Idle /\ UNCHANGED <<queue, missed, givenUp>> /\ (StoreKept \/ Initializes(c))
      BY <1>5, AcceptEffect DEF ghosts
    <2>2. CASE StoreKept
      BY <1>1, <2>1, <2>2 DEF Follows, Idle
    <2>3. CASE Initializes(c)
      <3>1. Head(wire[c]) \in Frames(c) /\ u \in Head(wire[c]).us
        BY <2>3, TailElements, InitializeStores DEF Initializes, Frames, Shapes
      <3> QED
        BY <1>0, <3>1 DEF FramesHold, FramesOf, OnTheWay
    <2> QED
      BY <2>1, <2>2, <2>3
  <1>6. CASE Append_(c)
    <2>1. Appends(c) /\ queue' = queue /\ c \notin missed \cup givenUp
      BY <1>6 DEF Append_, Appends, ghosts, Follows
    <2>2. handler[c].frame \in Frames(c) /\ handler[c].frame.kind = "update"
      BY <2>1 DEF Appends, Frames, Held, TextEntersOnce
    <2>3. CASE u \in handler[c].frame.us
      BY <1>0, <2>2, <2>3 DEF FramesHold, FramesOf, OnTheWay
    <2>4. CASE u \in Stored
      <3>1. ASSUME NEW f \in Range(pending[c]), f.kind = "init", f.id \notin committed
            PROVE  f.id \notin committed'
        <4>1. f \in Frames(c) /\ f # handler[c].frame
          BY <2>2, <3>1 DEF Frames
        <4>2. f.id # handler[c].frame.id
          BY <2>2, <4>1 DEF FramesHold, FramesOf
        <4> QED
          BY <2>1, <3>1, <4>2, AppendStores
      <3>2. ~Late(c)
        BY <1>0, <2>1, <3>1 DEF Follows, Late, Grows
      <3>3. OnTheWay(c, u)
        BY <2>1, <2>4, <3>2 DEF NothingIsMissed, Appends
      <3>4. \A d \in Clients \ {c} : handler'[d] = handler[d]
        BY <1>0, OthersUntouched DEF Untouched
      <3> QED
        BY <1>0, <2>1, <3>3, <3>4 DEF OnTheWay, Told
    <2> QED
      BY <2>1, <2>3, <2>4, AppendStores
  <1>7. CASE Publish(c)
    <2>1. handler[c].phase = "done" /\ UNCHANGED <<stored, givenUp>> /\ missed \subseteq missed'
      BY <1>7, PublishEffect
    <2>2. c \notin missed \cup givenUp
      BY <2>1 DEF Follows
    <2>3. \/ queue' = Broadcast(c, handler[c].frame)
          \/ queue' = Send(queue, c, Ack(handler[c].frame))
          \/ queue' = [Broadcast(c, handler[c].frame) EXCEPT ![c] = queue[c]]
      BY <1>7, PublishEffect
    <2>4. DOMAIN queue = Clients /\ \A b \in Clients : IsSeq(queue[b])
      BY DEF Shapes
    <2>5. CASE queue' = Broadcast(c, handler[c].frame)
      BY <1>1, <2>1, <2>2, <2>5, BroadcastShape DEF stored, StoreKept
    <2>6. CASE queue' = Send(queue, c, Ack(handler[c].frame))
      <3>1. Range(queue[c]) \subseteq Range(queue'[c])
        BY <2>4, <2>6, SendShape
      <3> QED
        BY <1>1, <2>1, <2>2, <3>1 DEF stored, StoreKept
    <2>7. CASE queue' = [Broadcast(c, handler[c].frame) EXCEPT ![c] = queue[c]]
      <3>1. queue'[c] = queue[c]
        BY <2>7, BroadcastShape
      <3> QED
        BY <1>1, <2>1, <2>2, <3>1 DEF stored, StoreKept
    <2> QED
      BY <2>3, <2>5, <2>6, <2>7
  <1> QED
    BY <1>2, <1>3, <1>4, <1>5, <1>6, <1>7 DEF HandlerStep

\* A message that has been handled leaves the queue.
LEMMA Handled ==
  ASSUME Shapes, NEW c \in Clients, queue[c] # <<>>, queue' = [queue EXCEPT ![c] = Tail(@)],
         NEW m \in Range(queue[c]), m \notin Range(queue'[c])
  PROVE  m = Head(queue[c])
  BY TailElements DEF Shapes

LEMMA SessionMissesNothing ==
  ASSUME Shapes, TextEntersOnce, FramesHold, AnswersHold, NothingIsMissed, Grows,
         NEW c \in Clients, SessionStep(c), Follows(c)', NEW u \in Stored'
  PROVE  OnTheWay(c, u)'
  <1> USE DEF ghosts
  <1>0. ClientStep(c)
    BY DEF ClientStep
  <1>1. ASSUME Keeps(c) PROVE OnTheWay(c, u)'
    BY <1>0, <1>1, KeepsOnTheWay
  <1>2. CASE Edit(c)
    <2>1. /\ UNCHANGED <<stored, handler, queue, missed, givenUp>> /\ doc[c] \subseteq doc'[c]
          /\ \E kind, us, text : SendUpdate(c, kind, us, text)
      BY <1>2 DEF Edit, Shapes
    <2>2. Range(pending[c]) \subseteq Range(pending'[c])
      BY <2>1, SendUpdateShape
    <2> QED
      BY <1>1, <2>1, <2>2 DEF Keeps, Follows, stored, StoreKept
  <1>3. CASE Drop(c) \/ OnInitializationRace(c)
    BY <1>3, HangupEffect DEF Drop, OnInitializationRace, Destroy, Follows, Shapes, Closed
  <1>4. CASE OnBootstrap(c)
    <2> DEFINE f == Head(queue[c])
    <2>1. /\ queue[c] # <<>> /\ f.kind = "bootstrap" /\ queue' = [queue EXCEPT ![c] = Tail(@)]
          /\ UNCHANGED <<stored, handler, missed, givenUp>>
      BY <1>4, BootstrapEffect
    <2>2. doc[c] \subseteq doc'[c] /\ Told(f) \subseteq doc'[c] /\ Range(pending[c]) \subseteq Range(pending'[c])
      <3>1. CASE /\ doc' = [doc EXCEPT ![c] = doc[c] \cup f.us \cup f.updates]
                 /\ UNCHANGED <<pending, sent>>
        BY <2>1, <3>1 DEF Shapes, Told
      <3>2. CASE /\ doc' = [doc EXCEPT ![c] = doc[c] \cup f.us \cup Base(c) \cup f.updates]
                 /\ SendUpdate(c, "init", doc'[c], Visible(doc'[c]))
        <4>1. Range(pending[c]) \subseteq Range(pending'[c])
          BY <3>2, SendUpdateShape
        <4> QED
          BY <2>1, <3>2, <4>1 DEF Shapes, Told
      <3> QED
        BY <1>4, <3>1, <3>2, BootstrapEffect DEF Shapes
    <2>3. CASE f.initialized
      <3>1. Keeps(c)
        BY <2>1, <2>2, <2>3, Handled DEF Keeps, Follows, stored, StoreKept
      <3> QED
        BY <1>1, <3>1
    <2>4. CASE ~f.initialized /\ SendUpdate(c, "init", doc'[c], Visible(doc'[c]))
      <3> DEFINE g == Frame(c, "init", doc'[c], Visible(doc'[c]))
      <3>1. g.kind = "init" /\ g.id = <<c, sent[c] + 1>>
        BY DEF Frame
      <3>2. g \in Range(pending'[c])
        BY <2>4, SendUpdateShape
      <3> HIDE DEF g
      <3>3. g.id \notin committed
        <4> SUFFICES ASSUME g.id \in committed PROVE FALSE
          OBVIOUS
        <4>1. PICK d \in Clients : \E k \in 1..sent[d] : g.id = <<d, k>>
          BY DEF FramesHold
        <4> QED
          BY <3>1, <4>1 DEF Shapes
      <3>4. committed' = committed /\ initialized' = initialized /\ Stored' = Stored
        BY <2>1 DEF stored, Stored, Rows
      <3>5. ~initialized
        BY <3>1, <3>2, <3>3, <3>4 DEF Follows, Late
      <3> QED
        BY <3>4, <3>5 DEF TextEntersOnce, Stored, Rows
    <2> QED
      BY <1>4, <2>3, <2>4, BootstrapEffect
  <1>5. CASE OnUpdate(c)
    <2>1. /\ queue[c] # <<>> /\ Head(queue[c]).kind = "update" /\ queue' = [queue EXCEPT ![c] = Tail(@)]
          /\ UNCHANGED <<stored, handler, missed, givenUp, pending>>
          /\ doc'[c] = doc[c] \cup Head(queue[c]).us
      BY <1>5 DEF OnUpdate, Received, Shapes
    <2>2. Told(Head(queue[c])) \subseteq doc'[c]
      BY <2>1 DEF Told
    <2> QED
      BY <1>1, <2>1, <2>2, Handled DEF Keeps, Follows, stored, StoreKept
  <1>6. CASE OnAck(c)
    <2>1. /\ queue[c] # <<>> /\ Head(queue[c]).kind = "ack" /\ queue' = [queue EXCEPT ![c] = Tail(@)]
          /\ UNCHANGED <<stored, handler, missed, givenUp, doc>>
          /\ \A f \in Range(pending[c]) \ Range(pending'[c]) : f.id = Head(queue[c]).id
      BY <1>6, AckEffect
    <2>2. Told(Head(queue[c])) = {} /\ Head(queue[c]).id \in committed
      BY <2>1, HeadIsThere DEF Told, AnswersHold
    <2> QED
      BY <1>1, <2>1, <2>2, Handled DEF Keeps, Follows, stored, StoreKept
  <1>7. CASE OnNoPlace(c)
    <2>1. /\ queue[c] # <<>> /\ Head(queue[c]) = Error("limit") /\ queue' = [queue EXCEPT ![c] = Tail(@)]
          /\ UNCHANGED <<stored, handler, missed, doc>> /\ pending'[c] = <<>>
          /\ IF pending[c] = <<>> THEN givenUp' = givenUp ELSE givenUp' = givenUp \cup {c}
      BY <1>7 DEF OnNoPlace, Received, local, Shapes
    <2>2. pending[c] = <<>> /\ givenUp' = givenUp
      BY <2>1 DEF Follows
    <2>3. Told(Head(queue[c])) = {} /\ Head(queue[c]).kind # "bootstrap"
      BY <2>1 DEF Told, Error
    <2> QED
      BY <1>1, <2>1, <2>2, <2>3, Handled, EmptyElements DEF Keeps, Follows, stored, StoreKept
  <1>8. CASE OnFailure(c)
    <2>1. /\ queue[c] # <<>> /\ Head(queue[c]) = Error("failed") /\ queue' = [queue EXCEPT ![c] = Tail(@)]
          /\ UNCHANGED <<stored, handler, missed, givenUp, doc, pending>>
      BY <1>8 DEF OnFailure, Received, local
    <2>2. Told(Head(queue[c])) = {} /\ Head(queue[c]).kind # "bootstrap"
      BY <2>1 DEF Told, Error
    <2> QED
      BY <1>1, <2>1, <2>2, Handled DEF Keeps, Follows, stored, StoreKept
  <1> QED
    BY <1>2, <1>3, <1>4, <1>5, <1>6, <1>7, <1>8 DEF SessionStep

LEMMA MissedNext ==
  ASSUME Shapes, LocksHold, FramesHold, AnswersHold, TextEntersOnce, NothingIsMissed, Grows, [Next]_vars
  PROVE  NothingIsMissed'
  <1>1. ASSUME NEW c \in Clients, ClientStep(c) PROVE NothingIsMissed'
    <2>1. ASSUME NEW d \in Clients, Follows(d)', NEW u \in Stored' PROVE OnTheWay(d, u)'
      <3>1. CASE d # c
        BY <1>1, <2>1, <3>1, OthersMissNothing
      <3>2. CASE d = c
        BY <1>1, <2>1, <3>2, HandlerMissesNothing, SessionMissesNothing DEF ClientStep
      <3> QED
        BY <3>1, <3>2
    <2> QED
      BY <2>1 DEF NothingIsMissed, Follows
  <1>2. CASE WorkerStep
    <2>1. Stored' = Stored /\ UNCHANGED <<initialized, committed, handler, queue, doc, pending, missed, givenUp>>
      BY <1>2, WorkerStores DEF sockets, local, ghosts
    <2> QED
      BY <2>1 DEF NothingIsMissed, Late, OnTheWay, Told
  <1>3. CASE UNCHANGED vars
    <2>1. Stored' = Stored /\ UNCHANGED <<initialized, committed, handler, queue, doc, pending, missed, givenUp>>
      BY <1>3 DEF vars, stored, sockets, local, ghosts, Stored, Rows
    <2> QED
      BY <2>1 DEF NothingIsMissed, Late, OnTheWay, Told
  <1> QED
    BY <1>1, <1>2, <1>3 DEF Next, ClientStep

-----------------------------------------------------------------------------
(* The theorems *)

LEMMA InvInit == Init => IInv
  <1> SUFFICES ASSUME Init PROVE IInv
    OBVIOUS
  <1>1. Shapes
    BY ShapesInit
  <1> USE DEF Init, DocumentInit, RoomInit, SessionInit
  <1>2. Stored = {}
    BY DEF Stored, Rows
  <1>3. \A c \in Clients : /\ Range(queue[c]) = {} /\ Range(wire[c]) = {} /\ Range(pending[c]) = {}
                           /\ handler[c].phase = "closed" /\ doc[c] = {}
    BY EmptyElements DEF Closed
  <1>4. \A c \in Clients : Frames(c) = {}
    BY <1>3 DEF Frames, Held
  <1>5. LocksHold
    BY <1>3 DEF LocksHold, Idle
  <1>6. FramesHold /\ AnswersHold
    BY <1>2, <1>3, <1>4 DEF FramesHold, FramesOf, AnswersHold
  <1>7. TextEntersOnce
    BY <1>2, <1>3, <1>4 DEF TextEntersOnce
  <1>8. NothingElse /\ NothingIsMissed
    BY <1>2, <1>3 DEF NothingElse, NothingIsMissed
  <1> QED
    BY <1>1, <1>5, <1>6, <1>7, <1>8 DEF IInv

LEMMA InvNext == IInv /\ [Next]_vars => IInv' /\ Grows
  <1> SUFFICES ASSUME IInv, [Next]_vars PROVE IInv' /\ Grows
    OBVIOUS
  <1>1. Grows
    BY StoreGrows DEF IInv
  <1>2. Shapes' /\ LocksHold'
    BY ShapesNext, LocksNext, DescriptionAssumption DEF IInv
  <1>3. FramesHold' /\ AnswersHold'
    BY <1>1, FramesNext, AnswersNext DEF IInv
  <1>4. TextEntersOnce' /\ NothingElse' /\ NothingIsMissed'
    BY <1>1, TextNext, ElseNext, MissedNext DEF IInv
  <1> QED
    BY <1>1, <1>2, <1>3, <1>4 DEF IInv

\* The invariant the properties rest on.
THEOREM Invariance == Spec => []IInv
  BY InvInit, InvNext, PTL DEF Spec

\* docs/collaboration.md:46: what the socket handler has acknowledged to an
\* editor stays in the stored document, whatever the editors append, whoever
\* initializes it and whenever the worker compacts it or stops half way.
THEOREM AcknowledgedStays == Spec => []AcknowledgedIsKept
  <1>1. IInv => AcknowledgedIsKept
    BY DEF IInv, AnswersHold, AcknowledgedIsKept
  <1> QED
    BY <1>1, Invariance, PTL

\* No step of the handlers or of the worker takes an update out of the stored
\* document, forgets a saved message or takes the initialization back.
THEOREM StoredOnlyGrows == Spec => [][Grows]_vars
  <1>1. IInv /\ [Next]_vars => [Grows]_vars
    BY InvNext
  <1> QED
    BY <1>1, Invariance, PTL DEF Spec

\* However many editors open the task first, its plain text is in the stored
\* document at most once, and with no updates left to compact the searchable
\* text is what the document shows.
THEOREM TextIsThereOnce == Spec => []DocumentIsOne
  <1>1. IInv => DocumentIsOne
    <2> SUFFICES ASSUME IInv PROVE DocumentIsOne
      OBVIOUS
    <2> DEFINE bases == {u \in Stored : u.base}
    <2>1. \A u, v \in bases : u = v
      BY DEF IInv, TextEntersOnce
    <2>2. CASE bases = {}
      BY <2>2, FS_EmptySet DEF IInv, TextEntersOnce, DocumentIsOne
    <2>3. CASE bases # {}
      <3>1. PICK u \in bases : TRUE
        BY <2>3
      <3>2. bases = {u}
        BY <2>1, <3>1
      <3>3. Cardinality(bases) = 1
        BY <3>2, FS_Singleton
      <3> QED
        BY <3>3 DEF IInv, TextEntersOnce, DocumentIsOne
    <2> QED
      BY <2>2, <2>3
  <1> QED
    BY <1>1, Invariance, PTL

\* A session that says it is synced has nothing that is not stored, unless it
\* gave up what was pending; and one that is quiet while nothing is being saved
\* shows exactly the stored document, unless it missed a publication or its
\* bootstrap was torn by a compaction.
THEOREM SessionsMeet == Spec => []SessionsConverge
  <1>1. IInv => SessionsConverge
    <2> SUFFICES ASSUME IInv, NEW c \in Clients
                 PROVE  /\ connection[c] = "synced" /\ c \notin givenUp => doc[c] \subseteq Stored
                        /\ (\A d \in Clients : handler[d] \in {Idle, Closed}) /\ Settled_(c)
                             /\ c \notin missed \cup givenUp => doc[c] = Stored
      BY DEF SessionsConverge
    <2>1. ASSUME pending[c] = <<>>, c \notin givenUp PROVE doc[c] \subseteq Stored
      BY <2>1, EmptyElements DEF IInv, NothingElse, Carries
    <2>2. connection[c] = "synced" /\ c \notin givenUp => doc[c] \subseteq Stored
      BY <2>1 DEF IInv, NothingElse
    <2>3. ASSUME \A d \in Clients : handler[d] \in {Idle, Closed}, Settled_(c), c \notin missed \cup givenUp
          PROVE  doc[c] = Stored
      <3>1. handler[c].phase = "idle" /\ Range(queue[c]) = {} /\ Range(pending[c]) = {}
        BY <2>3, EmptyElements DEF Settled_, Idle
      <3>2. ~Late(c)
        BY <3>1 DEF Late
      <3>3. \A d \in Clients : handler[d].phase # "done"
        BY <2>3 DEF Idle, Closed
      <3>4. \A u \in Stored : OnTheWay(c, u)
        BY <2>3, <3>1, <3>2 DEF IInv, NothingIsMissed
      <3>5. Stored \subseteq doc[c]
        BY <3>1, <3>3, <3>4 DEF OnTheWay
      <3> QED
        BY <2>1, <2>3, <3>5 DEF Settled_
    <2> QED
      BY <2>2, <2>3
  <1> QED
    BY <1>1, Invariance, PTL

-----------------------------------------------------------------------------
(* Presence: types *)

TaskNames == Tasks \cup {None}
Entries == Tasks \cup {None, Absent}

PresenceFrames ==
  [type : {"presence", "leave", "welcome"}, session : Sessions, task : Entries]

Connections == [tab : Tabs, task : TaskNames, at : Instances, stage : {"joined", "listed", "open", "gone"},
            seen : SUBSET PresenceFrames, queue : Seq(PresenceFrames)]

PresenceTypes ==
  /\ task \in [Tabs -> TaskNames] /\ socket \in [Tabs -> Nat] /\ self \in [Tabs -> Nat]
  /\ peers \in [Tabs -> [Sessions -> Entries]]
  /\ conn \in Seq(Connections) /\ Accepted \subseteq Sessions
  /\ lease \in [Sessions -> Entries]

Gone(s) == conn[s].stage = "gone"

-----------------------------------------------------------------------------
(* Presence: the frames of a waiting *)

\* Every presence of session s in the queue has the end of s behind it.
EndFollows(waiting, s) ==
  \A p \in DOMAIN waiting : waiting[p].type = "presence" /\ waiting[p].session = s =>
    \E n \in DOMAIN waiting : n > p /\ waiting[n].type = "leave" /\ waiting[n].session = s

EndAhead(waiting, s) == \E p \in DOMAIN waiting : waiting[p].type = "leave" /\ waiting[p].session = s

\* What is in the queue of session r: presences and ends of others, and its own
\* welcome.
FrameFits(f, r) ==
  /\ f.session \in Accepted
  /\ (f.type = "welcome" <=> f.session = r)

LEMMA EndFollowsAppend ==
  ASSUME NEW waiting \in Seq(PresenceFrames), NEW f \in PresenceFrames, NEW s,
         EndFollows(waiting, s), f.type = "presence" => f.session # s
  PROVE  EndFollows(Append(waiting, f), s)
  <1> DEFINE q == Append(waiting, f)
  <1>1. /\ DOMAIN q = 1..Len(waiting) + 1 /\ q[Len(waiting) + 1] = f /\ Len(waiting) \in Nat
        /\ DOMAIN waiting = 1..Len(waiting) /\ \A p \in 1..Len(waiting) : q[p] = waiting[p]
    OBVIOUS
  <1> HIDE DEF q
  <1> SUFFICES ASSUME NEW p \in DOMAIN q, q[p].type = "presence", q[p].session = s
               PROVE  \E n \in DOMAIN q : n > p /\ q[n].type = "leave" /\ q[n].session = s
    BY DEF EndFollows, q
  <1>2. p \in 1..Len(waiting)
    BY <1>1
  <1>3. PICK n \in DOMAIN waiting : n > p /\ waiting[n].type = "leave" /\ waiting[n].session = s
    BY <1>1, <1>2 DEF EndFollows
  <1> QED
    BY <1>1, <1>3

LEMMA FramesAppended ==
  ASSUME NEW waiting \in Seq(PresenceFrames), NEW f \in PresenceFrames,
         NEW q, q = Append(waiting, f), NEW p \in DOMAIN q
  PROVE  q[p] = f \/ (p \in DOMAIN waiting /\ q[p] = waiting[p])
  <1>1. /\ DOMAIN q = 1..Len(waiting) + 1 /\ q[Len(waiting) + 1] = f /\ Len(waiting) \in Nat
        /\ DOMAIN waiting = 1..Len(waiting) /\ \A n \in 1..Len(waiting) : q[n] = waiting[n]
    OBVIOUS
  <1>2. p = Len(waiting) + 1 \/ p \in 1..Len(waiting)
    BY <1>1
  <1> QED
    BY <1>1, <1>2

LEMMA FramesJoined ==
  ASSUME NEW waiting \in Seq(PresenceFrames), NEW more \in Seq(PresenceFrames),
         NEW q, q = waiting \o more, NEW p \in DOMAIN q
  PROVE  (p \in DOMAIN waiting /\ q[p] = waiting[p]) \/ \E n \in DOMAIN more : q[p] = more[n]
  <1>1. /\ DOMAIN q = 1..Len(waiting) + Len(more) /\ Len(waiting) \in Nat /\ Len(more) \in Nat
        /\ DOMAIN waiting = 1..Len(waiting) /\ DOMAIN more = 1..Len(more)
        /\ q[p] = IF p <= Len(waiting) THEN waiting[p] ELSE more[p - Len(waiting)]
    OBVIOUS
  <1>2. CASE p <= Len(waiting)
    BY <1>1, <1>2
  <1>3. CASE ~(p <= Len(waiting))
    <2>1. p - Len(waiting) \in DOMAIN more
      BY <1>1, <1>3
    <2> QED
      BY <1>1, <1>3, <2>1
  <1> QED
    BY <1>2, <1>3

LEMMA EndAppended ==
  ASSUME NEW waiting \in Seq(PresenceFrames), NEW f \in PresenceFrames, NEW s,
         f.type = "leave", f.session = s
  PROVE  EndFollows(Append(waiting, f), s) /\ EndAhead(Append(waiting, f), s)
  <1> DEFINE q == Append(waiting, f)
  <1>1. /\ DOMAIN q = 1..Len(waiting) + 1 /\ q[Len(waiting) + 1] = f /\ Len(waiting) \in Nat
    OBVIOUS
  <1> HIDE DEF q
  <1>2. EndAhead(q, s)
    BY <1>1 DEF EndAhead
  <1>3. EndFollows(q, s)
    <2> SUFFICES ASSUME NEW p \in DOMAIN q, q[p].type = "presence"
                 PROVE  \E n \in DOMAIN q : n > p /\ q[n].type = "leave" /\ q[n].session = s
      BY DEF EndFollows
    <2>1. p # Len(waiting) + 1
      BY <1>1
    <2>2. Len(waiting) + 1 > p /\ Len(waiting) + 1 \in DOMAIN q
      BY <1>1, <2>1
    <2> QED
      BY <1>1, <2>2
  <1> QED
    BY <1>2, <1>3 DEF q

LEMMA EndAheadAppend ==
  ASSUME NEW waiting \in Seq(PresenceFrames), NEW f \in PresenceFrames, NEW s, EndAhead(waiting, s)
  PROVE  EndAhead(Append(waiting, f), s)
  <1> DEFINE q == Append(waiting, f)
  <1>1. /\ DOMAIN q = 1..Len(waiting) + 1 /\ DOMAIN waiting = 1..Len(waiting) /\ Len(waiting) \in Nat
        /\ \A p \in 1..Len(waiting) : q[p] = waiting[p]
    OBVIOUS
  <1> HIDE DEF q
  <1>2. EndAhead(q, s)
    BY <1>1 DEF EndAhead
  <1> QED
    BY <1>2 DEF q

\* What is put behind a queue says nothing of s, or the end of s is to come.
LEMMA EndFollowsConcat ==
  ASSUME NEW waiting \in Seq(PresenceFrames), NEW more \in Seq(PresenceFrames), NEW s,
         EndFollows(waiting, s),
         \A p \in DOMAIN more : more[p].type = "presence" => more[p].session # s
  PROVE  EndFollows(waiting \o more, s)
  <1> DEFINE q == waiting \o more
  <1>1. /\ DOMAIN q = 1..Len(waiting) + Len(more) /\ Len(waiting) \in Nat /\ Len(more) \in Nat
        /\ DOMAIN waiting = 1..Len(waiting) /\ DOMAIN more = 1..Len(more)
        /\ \A p \in DOMAIN q : q[p] = IF p <= Len(waiting) THEN waiting[p] ELSE more[p - Len(waiting)]
    OBVIOUS
  <1> HIDE DEF q
  <1> SUFFICES ASSUME NEW p \in DOMAIN q, q[p].type = "presence", q[p].session = s
               PROVE  \E n \in DOMAIN q : n > p /\ q[n].type = "leave" /\ q[n].session = s
    BY DEF EndFollows, q
  <1>2. p <= Len(waiting)
    <2> SUFFICES ASSUME ~(p <= Len(waiting)) PROVE FALSE
      OBVIOUS
    <2>1. p - Len(waiting) \in DOMAIN more /\ q[p] = more[p - Len(waiting)]
      BY <1>1
    <2> QED
      BY <2>1
  <1>3. p \in DOMAIN waiting /\ waiting[p] = q[p]
    BY <1>1, <1>2
  <1>4. PICK n \in DOMAIN waiting : n > p /\ waiting[n].type = "leave" /\ waiting[n].session = s
    BY <1>3 DEF EndFollows
  <1>5. n \in DOMAIN q /\ q[n] = waiting[n]
    BY <1>1, <1>4
  <1> QED
    BY <1>4, <1>5

LEMMA EndAheadConcat ==
  ASSUME NEW waiting \in Seq(PresenceFrames), NEW more \in Seq(PresenceFrames), NEW s,
         EndAhead(waiting, s)
  PROVE  EndAhead(waiting \o more, s)
  <1> DEFINE q == waiting \o more
  <1>1. /\ DOMAIN q = 1..Len(waiting) + Len(more) /\ Len(waiting) \in Nat /\ Len(more) \in Nat
        /\ DOMAIN waiting = 1..Len(waiting)
        /\ \A p \in DOMAIN q : q[p] = IF p <= Len(waiting) THEN waiting[p] ELSE more[p - Len(waiting)]
    OBVIOUS
  <1> HIDE DEF q
  <1>2. EndAhead(q, s)
    BY <1>1 DEF EndAhead
  <1> QED
    BY <1>2 DEF q

LEMMA EndsOfTail ==
  ASSUME NEW waiting \in Seq(PresenceFrames), waiting # <<>>, NEW s
  PROVE  /\ EndFollows(waiting, s) => EndFollows(Tail(waiting), s)
         /\ EndAhead(waiting, s) /\ ~(Head(waiting).type = "leave" /\ Head(waiting).session = s)
              => EndAhead(Tail(waiting), s)
         /\ EndFollows(waiting, s) /\ Head(waiting).type = "presence" /\ Head(waiting).session = s
              => EndAhead(Tail(waiting), s)
  <1> DEFINE q == Tail(waiting)
  <1>1. /\ DOMAIN waiting = 1..Len(waiting) /\ Len(waiting) \in Nat /\ Len(waiting) # 0
        /\ DOMAIN q = 1..Len(waiting) - 1 /\ Head(waiting) = waiting[1]
        /\ \A p \in 1..Len(waiting) - 1 : q[p] = waiting[p + 1]
    OBVIOUS
  <1> HIDE DEF q
  <1>2. \A n \in DOMAIN waiting : n > 1 => n - 1 \in DOMAIN q /\ q[n - 1] = waiting[n]
    <2> SUFFICES ASSUME NEW n \in DOMAIN waiting, n > 1
                 PROVE  n - 1 \in DOMAIN q /\ q[n - 1] = waiting[n]
      OBVIOUS
    <2>1. n - 1 \in 1..Len(waiting) - 1 /\ (n - 1) + 1 = n
      BY <1>1
    <2> QED
      BY <1>1, <2>1
  <1>3. ASSUME EndFollows(waiting, s) PROVE EndFollows(q, s)
    <2> SUFFICES ASSUME NEW p \in DOMAIN q, q[p].type = "presence", q[p].session = s
                 PROVE  \E n \in DOMAIN q : n > p /\ q[n].type = "leave" /\ q[n].session = s
      BY DEF EndFollows
    <2>1. p + 1 \in DOMAIN waiting /\ waiting[p + 1] = q[p] /\ p \in Nat
      BY <1>1
    <2>2. PICK n \in DOMAIN waiting : n > p + 1 /\ waiting[n].type = "leave" /\ waiting[n].session = s
      BY <1>3, <2>1 DEF EndFollows
    <2>3. n > 1 /\ n - 1 > p
      BY <1>1, <2>1, <2>2
    <2> QED
      BY <1>2, <2>2, <2>3
  <1>4. ASSUME EndAhead(waiting, s), ~(waiting[1].type = "leave" /\ waiting[1].session = s)
        PROVE  EndAhead(q, s)
    <2>1. PICK n \in DOMAIN waiting : waiting[n].type = "leave" /\ waiting[n].session = s
      BY <1>4 DEF EndAhead
    <2>2. n > 1
      BY <1>1, <1>4, <2>1
    <2> QED
      BY <1>2, <2>1, <2>2 DEF EndAhead
  <1>5. ASSUME EndFollows(waiting, s), waiting[1].type = "presence", waiting[1].session = s
        PROVE  EndAhead(q, s)
    <2>1. 1 \in DOMAIN waiting
      BY <1>1
    <2>2. PICK n \in DOMAIN waiting : n > 1 /\ waiting[n].type = "leave" /\ waiting[n].session = s
      BY <1>5, <2>1 DEF EndFollows
    <2> QED
      BY <1>2, <2>2 DEF EndAhead
  <1> QED
    BY <1>1, <1>3, <1>4, <1>5 DEF q

\* A finite set as a sequence has its elements and no others.
LEMMA SetAsSeq ==
  ASSUME NEW S, IsFiniteSet(S)
  PROVE  /\ SetToSeq(S) \in Seq(S)
         /\ \A p \in DOMAIN SetToSeq(S) : SetToSeq(S)[p] \in S
  <1>1. Cardinality(S) \in Nat
    BY FS_CardinalityType
  <1>2. ExistsBijection(1..Cardinality(S), S)
    BY FS_CardinalityType
  <1>3. PICK f : f \in Bijection(1..Cardinality(S), S)
    BY <1>2 DEF ExistsBijection
  <1>4. f \in [1..Cardinality(S) -> S] /\ IsInjective(f)
    BY <1>3 DEF Bijection, Injection, IsInjective
  <1>5. SetToSeq(S) \in [1..Cardinality(S) -> S]
    BY <1>4 DEF SetToSeq
  <1> QED
    BY <1>1, <1>5

-----------------------------------------------------------------------------
(* Presence: the inductive invariant *)

SocketFits(t) ==
  socket[t] # 0 =>
    /\ socket[t] \in Accepted /\ conn[socket[t]].tab = t /\ ~Gone(socket[t])
    /\ task[t] # None

ConnFits(r) ==
  /\ ~Listening(r) => conn[r].queue = <<>> /\ conn[r].seen = {}
  /\ IsFiniteSet(conn[r].seen)
  /\ \A f \in conn[r].seen : f.type = "presence" /\ f.session # r /\ f.session \in Accepted
  /\ \A p \in DOMAIN conn[r].queue : FrameFits(conn[r].queue[p], r)

\* A lease is of a session, and outlives it only where nobody announced the end.
LeaseFits(s) ==
  lease[s] # Absent => s \in Accepted /\ (Gone(s) => s \in orphaned)

\* The map of a tab is about other sessions, and empty while no task is open.
TabFits(t) ==
  \A s \in Sessions : peers[t][s] # Absent =>
    s \in Accepted /\ s # self[t] /\ s # socket[t] /\ task[t] # None

\* What a session that ended is still said to do, its end takes back.
Unsaid(s, r) ==
  /\ EndFollows(conn[r].queue, s)
  /\ \A f \in conn[r].seen : f.session # s

EndFits(s, r) ==
  Gone(s) => s \in orphaned \/ <<conn[r].tab, s>> \in missedEnds \/ Unsaid(s, r)

Underway(t, s) == socket[t] # 0 /\ EndAhead(conn[socket[t]].queue, s)

PeerFits(t, s) ==
  peers[t][s] # Absent /\ Gone(s) =>
    s \in orphaned \/ <<t, s>> \in missedEnds \/ Underway(t, s)

PresenceInv ==
  /\ PresenceTypes
  /\ \A t \in Tabs : SocketFits(t)
  /\ \A r \in Accepted : ConnFits(r)
  /\ \A s \in Sessions : LeaseFits(s)
  /\ \A t \in Tabs : TabFits(t)
  /\ \A s, r \in Accepted : EndFits(s, r)
  /\ \A t \in Tabs, s \in Accepted : PeerFits(t, s)

LEMMA ConnTyped ==
  ASSUME PresenceTypes
  PROVE  /\ Len(conn) \in Nat /\ Accepted = 1..Len(conn)
         /\ \A r \in Accepted :
              /\ conn[r] \in Connections /\ r \in Nat /\ r # 0 /\ r \in Sessions
              /\ conn[r].tab \in Tabs /\ conn[r].seen \subseteq PresenceFrames
              /\ conn[r].queue \in Seq(PresenceFrames)
  <1>1. conn \in Seq(Connections) /\ Accepted \subseteq Sessions
    BY DEF PresenceTypes
  <1>2. Len(conn) \in Nat /\ DOMAIN conn = 1..Len(conn)
    BY <1>1
  <1>3. \A r \in 1..Len(conn) : conn[r] \in Connections
    BY <1>1
  <1> HIDE <1>1
  <1> SUFFICES ASSUME NEW r \in Accepted
               PROVE  /\ conn[r] \in Connections /\ r \in Nat /\ r # 0 /\ r \in Sessions
                      /\ conn[r].tab \in Tabs /\ conn[r].seen \subseteq PresenceFrames
                      /\ conn[r].queue \in Seq(PresenceFrames)
    BY <1>2 DEF Accepted
  <1>4. r \in 1..Len(conn)
    BY <1>2 DEF Accepted
  <1>5. conn[r] \in Connections
    BY <1>3, <1>4
  <1>6. conn[r].tab \in Tabs /\ conn[r].seen \subseteq PresenceFrames /\ conn[r].queue \in Seq(PresenceFrames)
    BY <1>5 DEF Connections
  <1> QED
    BY <1>1, <1>2, <1>4, <1>5, <1>6

\* A list the handler reads is of sessions that have not ended, or whose end
\* nobody announced.
LEMMA ListedKeeps ==
  ASSUME PresenceInv, NEW s \in Accepted, ~Gone(s),
         NEW X \in SUBSET PresenceFrames, IsFiniteSet(X),
         \A f \in X : /\ f.type = "presence" /\ f.session \in Accepted
                      /\ Gone(f.session) => f.session \in orphaned,
         Listed(s, X), UNCHANGED <<browser, lease, presenceHistory>>
  PROVE  PresenceInv'
  <1>1. /\ PresenceTypes
        /\ \A t \in Tabs : SocketFits(t) /\ TabFits(t)
        /\ \A r \in Accepted : ConnFits(r)
        /\ \A r \in Sessions : LeaseFits(r)
        /\ \A x, r \in Accepted : EndFits(x, r)
        /\ \A t \in Tabs, x \in Accepted : PeerFits(t, x)
    BY DEF PresenceInv
  <1>2. /\ Len(conn) \in Nat /\ Accepted = 1..Len(conn)
        /\ \A r \in Accepted :
              /\ conn[r] \in Connections /\ r \in Nat /\ r # 0 /\ r \in Sessions
              /\ conn[r].tab \in Tabs /\ conn[r].seen \subseteq PresenceFrames
              /\ conn[r].queue \in Seq(PresenceFrames)
    BY <1>1, ConnTyped
  <1> DEFINE read == IF Listening(s) THEN {f \in X : f.session # s} ELSE {}
  <1>3. read \in SUBSET PresenceFrames /\ IsFiniteSet(read)
    <2>1. {f \in X : f.session # s} \subseteq X
      OBVIOUS
    <2> QED
      BY <2>1, FS_Subset, FS_EmptySet
  <1>4. /\ UNCHANGED <<task, socket, self, peers, lease, orphaned, missedEnds>>
        /\ conn' = [conn EXCEPT ![s].stage = "listed", ![s].seen = read]
    BY DEF Listed, browser, presenceHistory
  <1> HIDE DEF read
  <1>5. [conn[s] EXCEPT !.stage = "listed", !.seen = read] \in Connections
    BY <1>2, <1>3 DEF Connections
  <1>6. conn' \in Seq(Connections) /\ Accepted' = Accepted
    <2>1. conn \in [1..Len(conn) -> Connections] /\ s \in 1..Len(conn)
      BY <1>1, <1>2 DEF PresenceTypes
    <2>2. conn' = [conn EXCEPT ![s] = [conn[s] EXCEPT !.stage = "listed", !.seen = read]]
      BY <1>4
    <2>3. conn' \in [1..Len(conn) -> Connections]
      BY <1>5, <2>1, <2>2
    <2> QED
      BY <1>2, <2>3 DEF Accepted
  <1>7. /\ conn'[s] = [conn[s] EXCEPT !.stage = "listed", !.seen = read]
        /\ \A r \in Accepted : r # s => conn'[r] = conn[r]
    BY <1>4, <1>2 DEF Accepted
  <1>8. \A r \in Accepted :
          /\ conn'[r].tab = conn[r].tab /\ conn'[r].queue = conn[r].queue
          /\ Gone(r)' = Gone(r) /\ Listening(r)' = Listening(r)
    BY <1>2, <1>4, <1>7 DEF Connections, Gone, Listening
  <1>9. /\ conn'[s].seen = read
        /\ \A r \in Accepted : r # s => conn'[r].seen = conn[r].seen
    BY <1>2, <1>7 DEF Connections
  <1> HIDE <1>7
  <1>10. PresenceTypes'
    BY <1>1, <1>4, <1>6 DEF PresenceTypes, Accepted
  <1>11. \A t \in Tabs : SocketFits(t)'
    BY <1>1, <1>4, <1>6, <1>8 DEF SocketFits
  <1>12. ASSUME NEW r \in Accepted PROVE ConnFits(r)'
    <2>1. ConnFits(r)
      BY <1>1
    <2>2. conn'[r].queue = conn[r].queue /\ Listening(r)' = Listening(r)
      BY <1>8
    <2>3. (\A p \in DOMAIN conn[r].queue : FrameFits(conn[r].queue[p], r))'
      BY <2>1, <2>2, <1>6 DEF ConnFits, FrameFits
    <2>4. CASE r = s
      BY <2>1, <2>2, <2>3, <2>4, <1>3, <1>6, <1>9 DEF ConnFits, read
    <2>5. CASE r # s
      <3>1. conn'[r].seen = conn[r].seen
        BY <2>5, <1>9
      <3> QED
        BY <2>1, <2>2, <2>3, <3>1, <1>6 DEF ConnFits
    <2> QED
      BY <2>4, <2>5
  <1>13. \A r \in Sessions : LeaseFits(r)'
    BY <1>1, <1>4, <1>6, <1>8 DEF LeaseFits
  <1>14. \A t \in Tabs : TabFits(t)'
    BY <1>1, <1>4, <1>6, <1>8 DEF TabFits
  <1>15. ASSUME NEW x \in Accepted, NEW r \in Accepted PROVE EndFits(x, r)'
    <2>1. EndFits(x, r)
      BY <1>1
    <2>2. /\ conn'[r].queue = conn[r].queue /\ conn'[r].tab = conn[r].tab
          /\ Gone(x)' = Gone(x)
      BY <1>8
    <2>3. Unsaid(x, r) /\ Gone(x) => x \in orphaned \/ Unsaid(x, r)'
      <3>1. CASE r = s
        BY <2>2, <3>1, <1>9 DEF Unsaid, read
      <3>2. CASE r # s
        <4>1. conn'[r].seen = conn[r].seen
          BY <3>2, <1>9
        <4> QED
          BY <2>2, <4>1 DEF Unsaid
      <3> QED
        BY <3>1, <3>2
    <2> QED
      BY <2>1, <2>2, <2>3, <1>4 DEF EndFits
  <1>16. ASSUME NEW t \in Tabs, NEW x \in Accepted PROVE PeerFits(t, x)'
    <2>1. PeerFits(t, x) /\ SocketFits(t)
      BY <1>1
    <2> QED
      BY <2>1, <1>4, <1>8 DEF PeerFits, Underway, SocketFits
  <1> QED
    BY <1>6, <1>10, <1>11, <1>12, <1>13, <1>14, <1>15, <1>16 DEF PresenceInv

LEMMA LeasedAreFew ==
  ASSUME PresenceInv
  PROVE  /\ Leased \subseteq PresenceFrames /\ IsFiniteSet(Leased)
         /\ \A f \in Leased : /\ f.type = "presence" /\ f.session \in Accepted
                              /\ Gone(f.session) => f.session \in orphaned
  <1>1. /\ PresenceTypes
        /\ \A r \in Sessions : LeaseFits(r)
    BY DEF PresenceInv
  <1>2. Len(conn) \in Nat /\ Accepted = 1..Len(conn)
    BY <1>1, ConnTyped
  <1> DEFINE held == {r \in Sessions : lease[r] # Absent}
             F == [r \in held |-> Presence(r, lease[r])]
  <1>3. held \subseteq 1..Len(conn)
    BY <1>1, <1>2 DEF LeaseFits
  <1>4. IsFiniteSet(held)
    <2>1. 1 \in Int /\ Len(conn) \in Int
      BY <1>2
    <2>2. IsFiniteSet(1..Len(conn))
      BY <2>1, FS_Interval
    <2> HIDE DEF held
    <2> QED
      BY <1>3, <2>2, FS_Subset
  <1>5. F \in Surjection(held, Leased)
    BY DEF Surjection, Leased
  <1>6. IsFiniteSet(Leased)
    BY <1>4, <1>5, FS_Surjection
  <1>7. ASSUME NEW f \in Leased
        PROVE  /\ f \in PresenceFrames /\ f.type = "presence" /\ f.session \in Accepted
               /\ Gone(f.session) => f.session \in orphaned
    <2>1. PICK r \in held : f = Presence(r, lease[r])
      BY <1>7 DEF Leased
    <2>2. lease[r] \in Entries /\ LeaseFits(r)
      BY <1>1 DEF PresenceTypes
    <2> QED
      BY <2>1, <2>2 DEF Presence, PresenceFrames, LeaseFits
  <1> QED
    BY <1>6, <1>7

LEMMA InHubAreFew ==
  ASSUME PresenceInv, NEW i
  PROVE  /\ InHub(i) \subseteq PresenceFrames /\ IsFiniteSet(InHub(i))
         /\ \A f \in InHub(i) : /\ f.type = "presence" /\ f.session \in Accepted
                                /\ ~Gone(f.session)
  <1>1. PresenceTypes
    BY DEF PresenceInv
  <1>2. Len(conn) \in Nat /\ Accepted = 1..Len(conn) /\ Accepted \subseteq Sessions
    BY <1>1, ConnTyped DEF PresenceTypes
  <1> DEFINE F == [r \in Here(i) |-> Presence(r, None)]
  <1>3. Here(i) \subseteq 1..Len(conn)
    BY <1>2 DEF Here
  <1>4. IsFiniteSet(Here(i))
    <2>1. 1 \in Int /\ Len(conn) \in Int
      BY <1>2
    <2>2. IsFiniteSet(1..Len(conn))
      BY <2>1, FS_Interval
    <2> HIDE DEF Here
    <2> QED
      BY <1>3, <2>2, FS_Subset
  <1>5. F \in Surjection(Here(i), InHub(i))
    BY DEF Surjection, InHub
  <1>6. IsFiniteSet(InHub(i))
    BY <1>4, <1>5, FS_Surjection
  <1>7. ASSUME NEW f \in InHub(i)
        PROVE  /\ f \in PresenceFrames /\ f.type = "presence" /\ f.session \in Accepted
               /\ ~Gone(f.session)
    <2>1. PICK r \in Here(i) : f = Presence(r, None)
      BY <1>7 DEF InHub
    <2> QED
      BY <2>1, <1>2 DEF Presence, PresenceFrames, Here, InRoom, Gone, Entries
  <1> QED
    BY <1>6, <1>7

LEMMA ListPresenceKeeps ==
  ASSUME PresenceInv, NEW s \in Accepted, ListPresence(s)
  PROVE  PresenceInv'
  <1>1. ~Gone(s) /\ UNCHANGED <<browser, lease, presenceHistory>>
    BY DEF ListPresence, Gone
  <1>2. CASE Listed(s, Leased)
    <2>1. PICK X : X = Leased
      OBVIOUS
    <2>2. X \in SUBSET PresenceFrames /\ IsFiniteSet(X) /\ Listed(s, X)
      BY <2>1, <1>2, LeasedAreFew
    <2>3. \A f \in X : /\ f.type = "presence" /\ f.session \in Accepted
                       /\ Gone(f.session) => f.session \in orphaned
      BY <2>1, LeasedAreFew
    <2> QED
      BY <1>1, <2>2, <2>3, ListedKeeps
  <1>3. CASE Listed(s, InHub(conn[s].at))
    <2>1. PICK i : i = conn[s].at
      OBVIOUS
    <2>2. PICK X : X = InHub(i)
      OBVIOUS
    <2>3. X \in SUBSET PresenceFrames /\ IsFiniteSet(X) /\ Listed(s, X)
      BY <2>1, <2>2, <1>3, InHubAreFew
    <2>4. \A f \in X : /\ f.type = "presence" /\ f.session \in Accepted
                       /\ Gone(f.session) => f.session \in orphaned
      BY <2>2, InHubAreFew
    <2> QED
      BY <1>1, <2>3, <2>4, ListedKeeps
  <1> QED
    BY <1>2, <1>3 DEF ListPresence

\* What a broadcast does to each connection.
LEMMA ToRoomOf ==
  ASSUME NEW cs \in Seq(Connections), NEW f \in PresenceFrames, NEW room
  PROVE  /\ ToRoom(cs, f, room) \in Seq(Connections)
         /\ DOMAIN ToRoom(cs, f, room) = DOMAIN cs
         /\ \A r \in DOMAIN cs :
              /\ ToRoom(cs, f, room)[r].tab = cs[r].tab
              /\ ToRoom(cs, f, room)[r].stage = cs[r].stage
              /\ ToRoom(cs, f, room)[r].seen = cs[r].seen
              /\ ToRoom(cs, f, room)[r].queue =
                   IF r \in room /\ r # f.session /\ Listening(r)
                     THEN Append(cs[r].queue, f) ELSE cs[r].queue
  <1> DEFINE told(r) == r \in room /\ r # f.session /\ Listening(r)
             after(r) == IF told(r) THEN [cs[r] EXCEPT !.queue = Append(cs[r].queue, f)] ELSE cs[r]
  <1>1. Len(cs) \in Nat /\ DOMAIN cs = 1..Len(cs) /\ \A r \in DOMAIN cs : cs[r] \in Connections
    OBVIOUS
  <1>2. ToRoom(cs, f, room) = [r \in 1..Len(cs) |-> after(r)]
    BY <1>1 DEF ToRoom
  <1> HIDE DEF told
  <1>3. ASSUME NEW r \in 1..Len(cs)
        PROVE  /\ after(r) \in Connections /\ after(r).tab = cs[r].tab
               /\ after(r).stage = cs[r].stage /\ after(r).seen = cs[r].seen
               /\ after(r).queue = IF told(r) THEN Append(cs[r].queue, f) ELSE cs[r].queue
    <2>1. cs[r] \in Connections
      BY <1>1
    <2>2. Append(cs[r].queue, f) \in Seq(PresenceFrames)
      BY <2>1 DEF Connections
    <2> QED
      BY <2>1, <2>2 DEF Connections
  <1>4. \A r \in 1..Len(cs) : ToRoom(cs, f, room)[r] = after(r)
    BY <1>2
  <1> HIDE DEF after
  <1>5. [r \in 1..Len(cs) |-> after(r)] \in Seq(Connections)
    BY <1>1, <1>3
  <1> QED
    BY <1>1, <1>2, <1>3, <1>4, <1>5 DEF told

\* A handler tells a room of its session: what it tells fits the queues, and
\* an end it does not tell every tab is remembered.
LEMMA ToldKeeps ==
  ASSUME PresenceInv, NEW s \in Accepted, NEW f \in PresenceFrames, NEW room,
         NEW cs \in Seq(Connections), DOMAIN cs = Accepted,
         f.session = s, f.type # "welcome",
         \A r \in Accepted : cs[r].tab = conn[r].tab /\ (r # s => cs[r] = conn[r]),
         ~Listening(s) => cs[s].queue = <<>> /\ cs[s].seen = {},
         IsFiniteSet(cs[s].seen), cs[s].seen \subseteq conn[s].seen,
         \A p \in DOMAIN cs[s].queue : FrameFits(cs[s].queue[p], s),
         \A x \in Accepted : Unsaid(x, s) => EndFollows(cs[s].queue, x),
         \A x \in Accepted : EndAhead(conn[s].queue, x) => EndAhead(cs[s].queue, x),
         cs[s].stage = "gone" =>
           /\ ~Listening(s) /\ f.type = "leave"
           /\ \/ s \in orphaned'
              \/ room = Accepted /\ \A t \in Deaf(s) : <<t, s>> \in missedEnds',
         cs[s].stage # "gone" => ~Gone(s) /\ f.type = "presence",
         conn' = ToRoom(cs, f, room), UNCHANGED browser,
         orphaned \subseteq orphaned', missedEnds \subseteq missedEnds',
         lease' \in [Sessions -> Entries],
         \A x \in Sessions : x # s => lease'[x] = lease[x],
         lease'[s] # Absent => cs[s].stage # "gone" \/ s \in orphaned'
  PROVE  PresenceInv'
  <1>1. /\ PresenceTypes
        /\ \A t \in Tabs : SocketFits(t) /\ TabFits(t)
        /\ \A r \in Accepted : ConnFits(r)
        /\ \A r \in Sessions : LeaseFits(r)
        /\ \A x, r \in Accepted : EndFits(x, r)
        /\ \A t \in Tabs, x \in Accepted : PeerFits(t, x)
    BY DEF PresenceInv
  <1>2. /\ Len(conn) \in Nat /\ Accepted = 1..Len(conn)
        /\ \A r \in Accepted :
              /\ conn[r] \in Connections /\ r \in Nat /\ r # 0 /\ r \in Sessions
              /\ conn[r].tab \in Tabs /\ conn[r].seen \subseteq PresenceFrames
              /\ conn[r].queue \in Seq(PresenceFrames)
    BY <1>1, ConnTyped
  <1>3. UNCHANGED <<task, socket, self, peers>>
    BY DEF browser
  <1> DEFINE told(r) == r \in room /\ r # s /\ Listening(r)
  <1>4. /\ conn' \in Seq(Connections) /\ Accepted' = Accepted
        /\ \A r \in Accepted :
              /\ conn'[r].tab = conn[r].tab /\ conn'[r].stage = cs[r].stage
              /\ conn'[r].seen = cs[r].seen
              /\ conn'[r].queue = IF told(r) THEN Append(cs[r].queue, f) ELSE cs[r].queue
    BY ToRoomOf DEF Accepted
  <1>5. \A r \in Accepted : Listening(r)' = Listening(r)
    BY <1>2, <1>3, <1>4 DEF Listening
  <1>6. \A r \in Accepted : r # s =>
          /\ Gone(r)' = Gone(r) /\ conn'[r].seen = conn[r].seen
          /\ conn'[r].queue = IF told(r) THEN Append(conn[r].queue, f) ELSE conn[r].queue
    BY <1>4 DEF Gone
  <1>7. /\ Gone(s)' = (cs[s].stage = "gone") /\ conn'[s].seen = cs[s].seen
        /\ conn'[s].queue = cs[s].queue
    BY <1>4 DEF Gone
  <1> HIDE DEF told
  <1>8. PresenceTypes'
    BY <1>1, <1>3, <1>4 DEF PresenceTypes, Accepted
  <1>9. ASSUME NEW t \in Tabs PROVE SocketFits(t)'
    <2>1. SocketFits(t)
      BY <1>1
    <2>2. PICK r : r = socket[t]
      OBVIOUS
    <2>3. r # 0 => r \in Accepted /\ conn[r].tab = t /\ ~Gone(r) /\ Listening(r) /\ task[t] # None
      BY <2>1, <2>2 DEF SocketFits, Listening
    <2>4. r # 0 => ~Gone(r)'
      <3>1. CASE r = s
        BY <3>1, <2>3, <1>7
      <3>2. CASE r # s
        BY <3>2, <2>3, <1>6
      <3> QED
        BY <3>1, <3>2
    <2>5. r # 0 => conn'[r].tab = t
      BY <2>3, <1>4
    <2> QED
      BY <2>2, <2>3, <2>4, <2>5, <1>3, <1>4 DEF SocketFits, Gone
  <1>10. \A t \in Tabs : TabFits(t)'
    BY <1>1, <1>3, <1>4 DEF TabFits
  <1>11. ASSUME NEW r \in Accepted PROVE ConnFits(r)'
    <2>1. ConnFits(r)
      BY <1>1
    <2>2. CASE r = s
      <3>1. (\A p \in DOMAIN conn[s].queue : FrameFits(conn[s].queue[p], s))'
        BY <1>4, <1>7 DEF FrameFits
      <3>2. /\ cs[s].seen \subseteq conn[s].seen /\ IsFiniteSet(cs[s].seen)
            /\ ~Listening(s) => cs[s].queue = <<>> /\ cs[s].seen = {}
        OBVIOUS
      <3> QED
        BY <2>1, <2>2, <3>1, <3>2, <1>4, <1>5, <1>7 DEF ConnFits
    <2>3. CASE r # s
      <3>1. /\ conn'[r].seen = conn[r].seen
            /\ conn'[r].queue = IF told(r) THEN Append(conn[r].queue, f) ELSE conn[r].queue
        BY <2>3, <1>6
      <3>2. ~Listening(r) => ~told(r)
        BY DEF told
      <3>3. FrameFits(f, r)
        BY <2>3 DEF FrameFits
      <3>4. conn[r].queue \in Seq(PresenceFrames)
        BY <1>2
      <3>5. \A p \in DOMAIN conn'[r].queue : conn'[r].queue[p] = f
              \/ (p \in DOMAIN conn[r].queue /\ conn'[r].queue[p] = conn[r].queue[p])
        <4>1. PICK q : q = conn[r].queue
          OBVIOUS
        <4>2. PICK more : more = Append(q, f)
          OBVIOUS
        <4>3. \A p \in DOMAIN more : more[p] = f \/ (p \in DOMAIN q /\ more[p] = q[p])
          BY <3>4, <4>1, <4>2, FramesAppended
        <4> QED
          BY <3>1, <4>1, <4>2, <4>3
      <3>6. (\A p \in DOMAIN conn[r].queue : FrameFits(conn[r].queue[p], r))'
        <4>1. \A p \in DOMAIN conn[r].queue : FrameFits(conn[r].queue[p], r)
          BY <2>1 DEF ConnFits
        <4>2. \A p \in DOMAIN conn'[r].queue : FrameFits(conn'[r].queue[p], r)
          BY <3>3, <3>5, <4>1
        <4> QED
          BY <4>2, <1>4 DEF FrameFits
      <3> QED
        BY <2>1, <3>1, <3>2, <3>6, <1>4, <1>5 DEF ConnFits
    <2> QED
      BY <2>2, <2>3
  <1>12. ASSUME NEW x \in Sessions PROVE LeaseFits(x)'
    <2>1. LeaseFits(x)
      BY <1>1
    <2>2. CASE x = s
      BY <2>2, <1>4, <1>7 DEF LeaseFits
    <2>3. CASE x # s
      BY <2>1, <2>3, <1>4, <1>6 DEF LeaseFits
    <2> QED
      BY <2>2, <2>3
  <1>13. ASSUME NEW x \in Accepted, NEW r \in Accepted PROVE EndFits(x, r)'
    <2> SUFFICES ASSUME Gone(x)', x \notin orphaned', <<conn[r].tab, x>> \notin missedEnds'
                 PROVE  Unsaid(x, r)'
      BY <1>4 DEF EndFits
    <2>1. CASE x # s
      <3>1. Unsaid(x, r)
        BY <2>1, <1>1, <1>6 DEF EndFits
      <3>2. CASE r = s
        BY <3>1, <3>2, <1>7 DEF Unsaid
      <3>3. CASE r # s
        <4>1. EndFollows(Append(conn[r].queue, f), x)
          BY <3>1, <2>1, <1>2, EndFollowsAppend DEF Unsaid
        <4>2. EndFollows(conn'[r].queue, x)
          BY <4>1, <3>1, <3>3, <1>6 DEF Unsaid
        <4> QED
          BY <4>2, <3>1, <3>3, <1>6 DEF Unsaid
      <3> QED
        BY <3>2, <3>3
    <2>2. CASE x = s
      <3>1. /\ ~Listening(s) /\ f.type = "leave" /\ room = Accepted
            /\ \A t \in Deaf(s) : <<t, s>> \in missedEnds'
        BY <2>2, <1>7
      <3>2. CASE ~Listening(r)
        <4>1. conn'[r].queue = <<>> /\ conn'[r].seen = {}
          BY <1>5, <1>11, <3>2 DEF ConnFits
        <4> QED
          BY <4>1 DEF Unsaid, EndFollows
      <3>3. CASE Listening(r)
        <4>1. r # s /\ told(r)
          BY <3>1, <3>3 DEF told
        <4>2. conn[r].tab \in Tabs /\ socket[conn[r].tab] = r /\ r # 0
          BY <1>2, <3>3 DEF Listening
        <4>3. task[conn[r].tab] # None
          BY <1>1, <4>2 DEF SocketFits
        <4>4. \A g \in conn[r].seen : g.session # s
          BY <2>2, <3>1, <4>2, <4>3 DEF Deaf
        <4>5. EndFollows(Append(conn[r].queue, f), s)
          BY <3>1, <1>2, EndAppended
        <4> QED
          BY <2>2, <4>1, <4>4, <4>5, <1>6 DEF Unsaid
      <3> QED
        BY <3>2, <3>3
    <2> QED
      BY <2>1, <2>2
  <1>14. ASSUME NEW t \in Tabs, NEW x \in Accepted PROVE PeerFits(t, x)'
    <2> SUFFICES ASSUME peers[t][x] # Absent, Gone(x)', x \notin orphaned',
                        <<t, x>> \notin missedEnds'
                 PROVE  Underway(t, x)'
      BY <1>3 DEF PeerFits
    <2>1. SocketFits(t) /\ TabFits(t) /\ PeerFits(t, x) /\ x \in Sessions
      BY <1>1, <1>2
    <2>2. CASE x # s
      <3>1. Underway(t, x)
        BY <2>1, <2>2, <1>6 DEF PeerFits
      <3>2. PICK r : r = socket[t]
        OBVIOUS
      <3>3. r \in Accepted /\ r # 0 /\ EndAhead(conn[r].queue, x)
        BY <2>1, <3>1, <3>2 DEF Underway, SocketFits
      <3>4. EndAhead(conn'[r].queue, x)
        <4>1. CASE r = s
          BY <3>3, <4>1, <1>7
        <4>2. CASE r # s
          <5>1. EndAhead(Append(conn[r].queue, f), x)
            BY <3>3, <1>2, EndAheadAppend
          <5> QED
            BY <3>3, <4>2, <5>1, <1>6
        <4> QED
          BY <4>1, <4>2
      <3> QED
        BY <3>2, <3>3, <3>4, <1>3 DEF Underway
    <2>3. CASE x = s
      <3>1. /\ ~Listening(s) /\ f.type = "leave" /\ room = Accepted
            /\ \A u \in Deaf(s) : <<u, s>> \in missedEnds'
        BY <2>3, <1>7
      <3>2. s # socket[t] /\ task[t] # None
        BY <2>1, <2>3 DEF TabFits
      <3>3. socket[t] # 0
        BY <2>3, <3>1, <3>2 DEF Deaf
      <3>4. PICK r : r = socket[t]
        OBVIOUS
      <3>5. r \in Accepted /\ r # 0 /\ Listening(r) /\ r # s
        BY <2>1, <3>2, <3>3, <3>4 DEF SocketFits, Listening
      <3>6. told(r)
        BY <3>1, <3>5 DEF told
      <3>7. EndAhead(Append(conn[r].queue, f), s)
        BY <3>1, <3>5, <1>2, EndAppended
      <3> QED
        BY <2>3, <3>4, <3>5, <3>6, <3>7, <1>3, <1>6 DEF Underway
    <2> QED
      BY <2>2, <2>3
  <1> QED
    BY <1>4, <1>8, <1>9, <1>10, <1>11, <1>12, <1>13, <1>14 DEF PresenceInv

LEMMA AnnouncedKeeps ==
  ASSUME PresenceInv, NEW s \in Accepted, NEW f \in PresenceFrames,
         NEW cs \in Seq(Connections), DOMAIN cs = Accepted,
         f.session = s, f.type = "presence",
         \A r \in Accepted : cs[r].tab = conn[r].tab /\ (r # s => cs[r] = conn[r]),
         ~Listening(s) => cs[s].queue = <<>> /\ cs[s].seen = {},
         IsFiniteSet(cs[s].seen), cs[s].seen \subseteq conn[s].seen,
         \A p \in DOMAIN cs[s].queue : FrameFits(cs[s].queue[p], s),
         \A x \in Accepted : Unsaid(x, s) => EndFollows(cs[s].queue, x),
         \A x \in Accepted : EndAhead(conn[s].queue, x) => EndAhead(cs[s].queue, x),
         cs[s].stage # "gone", ~Gone(s),
         Announced(cs, s, f), UNCHANGED <<browser, presenceHistory>>
  PROVE  PresenceInv'
  <1>1. /\ PresenceTypes /\ lease \in [Sessions -> Entries] /\ f.task \in Entries
        /\ orphaned \subseteq orphaned' /\ missedEnds \subseteq missedEnds'
        /\ s \in Sessions /\ UNCHANGED browser
    BY DEF PresenceInv, PresenceTypes, PresenceFrames, presenceHistory
  <1>2. PICK here : here = Here(conn[s].at)
    OBVIOUS
  <1>3. PICK all : all = Accepted
    OBVIOUS
  <1>4. /\ lease' \in [Sessions -> Entries]
        /\ \A x \in Sessions : x # s => lease'[x] = lease[x]
    BY <1>1 DEF Announced
  <1>5. CASE conn' = ToRoom(cs, f, all)
    BY <1>1, <1>4, <1>5, ToldKeeps
  <1>6. CASE conn' = ToRoom(cs, f, here)
    BY <1>1, <1>4, <1>6, ToldKeeps
  <1> QED
    BY <1>2, <1>3, <1>5, <1>6 DEF Announced

LEMMA AnnounceKeeps ==
  ASSUME PresenceInv, NEW s \in Accepted, Announce(s)
  PROVE  PresenceInv'
  <1>1. PresenceTypes /\ ConnFits(s)
    BY DEF PresenceInv
  <1>2. PICK cs : cs = conn
    OBVIOUS
  <1>3. cs \in Seq(Connections) /\ DOMAIN cs = Accepted
    BY <1>1, <1>2 DEF PresenceTypes, Accepted
  <1>4. PICK f : f = Presence(s, conn[s].task)
    OBVIOUS
  <1>5. f \in PresenceFrames /\ f.session = s /\ f.type = "presence"
    BY <1>1, <1>4, ConnTyped DEF Presence, PresenceFrames, Connections, TaskNames, Entries
  <1>6. /\ cs[s].stage # "gone" /\ ~Gone(s) /\ Announced(cs, s, f)
        /\ UNCHANGED <<browser, presenceHistory>>
    BY <1>2, <1>4 DEF Announce, Gone
  <1>7. /\ \A r \in Accepted : cs[r].tab = conn[r].tab /\ (r # s => cs[r] = conn[r])
        /\ ~Listening(s) => cs[s].queue = <<>> /\ cs[s].seen = {}
        /\ IsFiniteSet(cs[s].seen) /\ cs[s].seen \subseteq conn[s].seen
        /\ \A p \in DOMAIN cs[s].queue : FrameFits(cs[s].queue[p], s)
        /\ \A x \in Accepted : Unsaid(x, s) => EndFollows(cs[s].queue, x)
        /\ \A x \in Accepted : EndAhead(conn[s].queue, x) => EndAhead(cs[s].queue, x)
    BY <1>1, <1>2 DEF ConnFits, Unsaid
  <1> QED
    BY <1>3, <1>5, <1>6, <1>7, AnnouncedKeeps

LEMMA EnterKeeps ==
  ASSUME PresenceInv, NEW s \in Accepted, Enter(s)
  PROVE  PresenceInv'
  <1>1. PresenceTypes /\ ConnFits(s)
    BY DEF PresenceInv
  <1>2. /\ Len(conn) \in Nat /\ Accepted = 1..Len(conn) /\ conn[s] \in Connections
        /\ s \in Sessions /\ conn[s].seen \subseteq PresenceFrames
        /\ conn[s].queue \in Seq(PresenceFrames) /\ conn \in [1..Len(conn) -> Connections]
    BY <1>1, ConnTyped DEF PresenceTypes
  <1>3. PICK waiting : waiting = conn[s].queue
    OBVIOUS
  <1>4. PICK more : more = SetToSeq(conn[s].seen) \o <<Welcome(s)>>
    OBVIOUS
  <1>5. PICK seen : seen = conn[s].seen
    OBVIOUS
  <1>6. PICK frames : frames = SetToSeq(seen)
    OBVIOUS
  <1>7. /\ IsFiniteSet(seen) /\ seen \subseteq PresenceFrames
        /\ \A g \in seen : g.type = "presence" /\ g.session # s /\ g.session \in Accepted
    BY <1>1, <1>2, <1>5 DEF ConnFits
  <1>8. frames \in Seq(seen) /\ \A p \in DOMAIN frames : frames[p] \in seen
    BY <1>6, <1>7, SetAsSeq
  <1>9. PICK w : w = Welcome(s)
    OBVIOUS
  <1>10. w \in PresenceFrames /\ w.type = "welcome" /\ w.session = s
    BY <1>2, <1>9 DEF Welcome, PresenceFrames, Entries
  <1>11. frames \in Seq(PresenceFrames)
    BY <1>7, <1>8
  <1>12. more = Append(frames, w)
    <2>1. frames \o <<w>> = Append(frames, w)
      BY <1>10, <1>11
    <2> QED
      BY <2>1, <1>4, <1>5, <1>6, <1>9
  <1>13. more \in Seq(PresenceFrames)
    BY <1>10, <1>11, <1>12
  <1>14. ASSUME NEW p \in DOMAIN more
         PROVE  more[p] = w \/ more[p] \in seen
    <2>1. more[p] = w \/ (p \in DOMAIN frames /\ more[p] = frames[p])
      BY <1>10, <1>11, <1>12, FramesAppended
    <2> QED
      BY <2>1, <1>8
  <1>15. PICK q : q = IF Listening(s) THEN waiting \o more ELSE waiting
    OBVIOUS
  <1>16. q \in Seq(PresenceFrames)
    BY <1>2, <1>3, <1>13, <1>15
  <1>17. PICK c : c = [conn[s] EXCEPT !.stage = "open", !.seen = {}, !.queue = q]
    OBVIOUS
  <1>18. c \in Connections /\ c.tab = conn[s].tab /\ c.stage = "open" /\ c.seen = {} /\ c.queue = q
    BY <1>2, <1>16, <1>17 DEF Connections
  <1>19. PICK cs : cs = Greeted(s)
    OBVIOUS
  <1>20. cs = [conn EXCEPT ![s] = c]
    <2>1. waiting \o more = conn[s].queue \o SetToSeq(conn[s].seen) \o <<Welcome(s)>>
      <3>1. (waiting \o frames) \o <<w>> = waiting \o (frames \o <<w>>)
        <4>1. waiting \in Seq(PresenceFrames) /\ <<w>> \in Seq(PresenceFrames)
          BY <1>2, <1>3, <1>10
        <4> QED
          BY <4>1, <1>11, ConcatAssociative
      <3> QED
        BY <3>1, <1>3, <1>4, <1>5, <1>6, <1>9
    <2> QED
      BY <2>1, <1>3, <1>15, <1>17, <1>19 DEF Greeted
  <1>21. cs \in Seq(Connections) /\ DOMAIN cs = Accepted /\ cs[s] = c
         /\ \A r \in Accepted : r # s => cs[r] = conn[r]
    <2>1. cs \in [1..Len(conn) -> Connections]
      BY <1>2, <1>18, <1>20
    <2> QED
      BY <2>1, <1>2, <1>20
  <1>22. PICK f : f = Presence(s, None)
    OBVIOUS
  <1>23. f \in PresenceFrames /\ f.session = s /\ f.type = "presence"
    BY <1>2, <1>22 DEF Presence, PresenceFrames, Entries
  <1>24. ~Gone(s) /\ Announced(cs, s, f) /\ UNCHANGED <<browser, presenceHistory>>
    BY <1>19, <1>22 DEF Enter, Gone
  <1>25. ~Listening(s) => cs[s].queue = <<>> /\ cs[s].seen = {}
    BY <1>1, <1>3, <1>15, <1>18, <1>21 DEF ConnFits
  <1>26. \A p \in DOMAIN cs[s].queue : FrameFits(cs[s].queue[p], s)
    <2>1. \A p \in DOMAIN waiting : FrameFits(waiting[p], s)
      BY <1>1, <1>3 DEF ConnFits
    <2>2. \A p \in DOMAIN more : FrameFits(more[p], s)
      BY <1>7, <1>10, <1>14 DEF FrameFits
    <2>3. \A p \in DOMAIN (waiting \o more) : FrameFits((waiting \o more)[p], s)
      <3>1. PICK both : both = waiting \o more
        OBVIOUS
      <3>2. ASSUME NEW p \in DOMAIN both
            PROVE  (p \in DOMAIN waiting /\ both[p] = waiting[p])
                     \/ \E n \in DOMAIN more : both[p] = more[n]
        BY <3>1, <3>2, <1>2, <1>3, <1>13, FramesJoined
      <3>3. \A p \in DOMAIN both : FrameFits(both[p], s)
        BY <2>1, <2>2, <3>2
      <3> QED
        BY <3>1, <3>3
    <2> QED
      BY <2>1, <2>3, <1>15, <1>18, <1>21
  <1>27. ASSUME NEW x \in Accepted, Unsaid(x, s) PROVE EndFollows(cs[s].queue, x)
    <2>1. EndFollows(waiting, x) /\ \A g \in seen : g.session # x
      BY <1>27, <1>3, <1>5 DEF Unsaid
    <2>2. \A p \in DOMAIN more : more[p].type = "presence" => more[p].session # x
      BY <2>1, <1>10, <1>14
    <2>3. waiting \in Seq(PresenceFrames)
      BY <1>2, <1>3
    <2>4. EndFollows(waiting \o more, x)
      BY <2>1, <2>2, <2>3, <1>13, EndFollowsConcat
    <2> QED
      BY <2>1, <2>4, <1>15, <1>18, <1>21
  <1>28. ASSUME NEW x \in Accepted, EndAhead(conn[s].queue, x) PROVE EndAhead(cs[s].queue, x)
    <2>1. EndAhead(waiting, x) /\ waiting \in Seq(PresenceFrames)
      BY <1>28, <1>2, <1>3
    <2>2. EndAhead(waiting \o more, x)
      BY <2>1, <1>13, EndAheadConcat
    <2> QED
      BY <2>1, <2>2, <1>15, <1>18, <1>21
  <1>29. IsFiniteSet(cs[s].seen) /\ cs[s].seen \subseteq conn[s].seen
    BY <1>18, <1>21, FS_EmptySet
  <1>30. \A r \in Accepted : cs[r].tab = conn[r].tab /\ (r # s => cs[r] = conn[r])
    BY <1>18, <1>21
  <1>31. cs[s].stage # "gone"
    BY <1>18, <1>21
  <1> QED
    BY <1>21, <1>23, <1>24, <1>25, <1>26, <1>27, <1>28, <1>29, <1>30, <1>31, AnnouncedKeeps

LEMMA PartKeeps ==
  ASSUME PresenceInv, NEW s \in Accepted, Part(s)
  PROVE  PresenceInv'
  <1>1. PresenceTypes /\ ConnFits(s) /\ lease \in [Sessions -> Entries] /\ s \in Sessions
    BY DEF PresenceInv, PresenceTypes
  <1>2. /\ Len(conn) \in Nat /\ Accepted = 1..Len(conn) /\ conn[s] \in Connections
        /\ conn \in [1..Len(conn) -> Connections]
    BY <1>1, ConnTyped DEF PresenceTypes
  <1>3. ~Listening(s) /\ conn[s].stage = "open" /\ UNCHANGED browser
    BY DEF Part
  <1>4. PICK cs : cs = [conn EXCEPT ![s].stage = "gone"]
    OBVIOUS
  <1>5. PICK c : c = [conn[s] EXCEPT !.stage = "gone"]
    OBVIOUS
  <1>6. /\ c \in Connections /\ c.tab = conn[s].tab /\ c.stage = "gone" /\ c.seen = conn[s].seen
        /\ c.queue = conn[s].queue
    BY <1>2, <1>5 DEF Connections
  <1>7. /\ cs \in Seq(Connections) /\ DOMAIN cs = Accepted /\ cs[s] = c
        /\ \A r \in Accepted : r # s => cs[r] = conn[r]
    <2>1. cs = [conn EXCEPT ![s] = c]
      BY <1>4, <1>5
    <2>2. cs \in [1..Len(conn) -> Connections]
      BY <1>2, <1>6, <2>1
    <2> QED
      BY <2>1, <2>2, <1>2
  <1>8. PICK f : f = Leave(s)
    OBVIOUS
  <1>9. f \in PresenceFrames /\ f.session = s /\ f.type = "leave"
    BY <1>1, <1>8 DEF Leave, PresenceFrames, Entries
  <1>10. /\ \A r \in Accepted : cs[r].tab = conn[r].tab /\ (r # s => cs[r] = conn[r])
         /\ ~Listening(s) => cs[s].queue = <<>> /\ cs[s].seen = {}
         /\ IsFiniteSet(cs[s].seen) /\ cs[s].seen \subseteq conn[s].seen
         /\ \A p \in DOMAIN cs[s].queue : FrameFits(cs[s].queue[p], s)
         /\ \A x \in Accepted : Unsaid(x, s) => EndFollows(cs[s].queue, x)
         /\ \A x \in Accepted : EndAhead(conn[s].queue, x) => EndAhead(cs[s].queue, x)
         /\ cs[s].stage = "gone"
    BY <1>1, <1>6, <1>7 DEF ConnFits, Unsaid
  <1>11. CASE /\ lease' = [lease EXCEPT ![s] = Absent]
              /\ conn' = ToRoom(cs, f, Accepted)
              /\ missedEnds' = missedEnds \cup {<<t, s>> : t \in Deaf(s)}
              /\ UNCHANGED orphaned
    <2>1. PICK all : all = Accepted
      OBVIOUS
    <2>2. /\ lease' \in [Sessions -> Entries] /\ lease'[s] = Absent
          /\ \A x \in Sessions : x # s => lease'[x] = lease[x]
      BY <1>1, <1>11 DEF Entries
    <2>3. \A t \in Deaf(s) : <<t, s>> \in missedEnds'
      BY <1>11
    <2>4. conn' = ToRoom(cs, f, all)
      BY <2>1, <1>11
    <2> QED
      BY <2>1, <2>2, <2>3, <2>4, <1>3, <1>7, <1>9, <1>10, <1>11, ToldKeeps
  <1>12. CASE /\ conn' = ToRoom(cs, f, Here(conn[s].at))
              /\ orphaned' = orphaned \cup {s}
              /\ UNCHANGED <<lease, missedEnds>>
    <2>1. PICK here : here = Here(conn[s].at)
      OBVIOUS
    <2>2. conn' = ToRoom(cs, f, here)
      BY <2>1, <1>12
    <2>3. /\ lease' \in [Sessions -> Entries] /\ \A x \in Sessions : lease'[x] = lease[x]
      BY <1>1, <1>12
    <2> QED
      BY <2>2, <2>3, <1>3, <1>7, <1>9, <1>10, <1>12, ToldKeeps
  <1> QED
    BY <1>4, <1>8, <1>11, <1>12 DEF Part

LEMMA ExpireKeeps ==
  ASSUME PresenceInv, NEW s \in Accepted, Expire(s)
  PROVE  PresenceInv'
  <1>1. /\ UNCHANGED <<task, socket, self, peers, conn, orphaned, missedEnds>>
        /\ lease' = [lease EXCEPT ![s] = Absent]
    BY DEF Expire, browser, presenceHistory
  <1>2. /\ PresenceTypes
        /\ \A t \in Tabs : SocketFits(t) /\ TabFits(t)
        /\ \A r \in Accepted : ConnFits(r)
        /\ \A r \in Sessions : LeaseFits(r)
        /\ \A x, r \in Accepted : EndFits(x, r)
        /\ \A t \in Tabs, x \in Accepted : PeerFits(t, x)
    BY DEF PresenceInv
  <1>3. PresenceTypes' /\ Accepted' = Accepted
    BY <1>1, <1>2 DEF PresenceTypes, Entries, Accepted
  <1>4. \A t \in Tabs : SocketFits(t)' /\ TabFits(t)'
    BY <1>1, <1>2 DEF SocketFits, TabFits, Gone, Accepted
  <1>5. \A r \in Accepted : ConnFits(r)'
    BY <1>1, <1>2 DEF ConnFits, Listening, FrameFits, Accepted
  <1>6. ASSUME NEW r \in Sessions PROVE LeaseFits(r)'
    <2>1. lease'[r] # Absent => lease[r] # Absent
      BY <1>1, <1>2 DEF PresenceTypes
    <2> QED
      BY <2>1, <1>1, <1>2 DEF LeaseFits, Gone, Accepted
  <1>7. ASSUME NEW x \in Accepted, NEW r \in Accepted PROVE EndFits(x, r)'
    BY <1>1, <1>2 DEF EndFits, Gone, Unsaid
  <1>8. ASSUME NEW t \in Tabs, NEW x \in Accepted PROVE PeerFits(t, x)'
    BY <1>1, <1>2 DEF PeerFits, Gone, Underway
  <1> QED
    BY <1>3, <1>4, <1>5, <1>6, <1>7, <1>8 DEF PresenceInv

\* Sockets close: their queues are gone with them, and the ends that waited
\* there are remembered unless the tab forgets its peers.
Silenced(off, who) ==
  /\ conn' \in Seq(Connections) /\ Accepted' = Accepted
  /\ \A r \in Accepted : conn'[r].tab = conn[r].tab
  /\ \A r \in Accepted \ off : conn'[r] = conn[r]
  /\ \A r \in off : /\ conn'[r].queue = <<>> /\ conn'[r].seen = {}
                    /\ Gone(r)' => Gone(r) \/ r \in orphaned'
  /\ \A r \in Accepted : Listening(r) /\ conn[r].tab \in who => r \in off
  /\ \A t \in Tabs \ who : socket[t] \notin off
  /\ task' \in [Tabs -> TaskNames] /\ self' \in [Tabs -> Nat]
  /\ peers' \in [Tabs -> [Sessions -> Entries]]
  /\ socket' = [t \in Tabs |-> IF t \in who THEN 0 ELSE socket[t]]
  /\ \A t \in Tabs \ who :
       /\ task'[t] = task[t] /\ self'[t] = self[t] /\ peers'[t] = peers[t]
       /\ \A x \in Accepted : <<t, x>> \in missedEnds => <<t, x>> \in missedEnds'
  /\ \A t \in who : \A x \in Sessions : peers'[t][x] # Absent =>
       /\ peers'[t][x] = peers[t][x] /\ task'[t] = task[t] /\ self'[t] = self[t]
       /\ <<t, x>> \in missedEnds \/ x \in Unheard(t) => <<t, x>> \in missedEnds'
  /\ lease' = lease /\ orphaned \subseteq orphaned'

LEMMA SilencedKeeps ==
  ASSUME PresenceInv, NEW off \in SUBSET Accepted, NEW who \in SUBSET Tabs, Silenced(off, who)
  PROVE  PresenceInv'
  <1> USE DEF Silenced
  <1>1. /\ PresenceTypes
        /\ \A t \in Tabs : SocketFits(t) /\ TabFits(t)
        /\ \A r \in Accepted : ConnFits(r)
        /\ \A r \in Sessions : LeaseFits(r)
        /\ \A x, r \in Accepted : EndFits(x, r)
        /\ \A t \in Tabs, x \in Accepted : PeerFits(t, x)
    BY DEF PresenceInv
  <1>2. \A r \in Accepted : r # 0 /\ r \in Sessions /\ conn[r].tab \in Tabs
    BY <1>1, ConnTyped
  <1>3. PresenceTypes'
    BY <1>1 DEF PresenceTypes, Accepted
  <1>4. \A t \in Tabs : socket'[t] = IF t \in who THEN 0 ELSE socket[t]
    OBVIOUS
  <1>5. ASSUME NEW r \in Accepted, Listening(r)'
        PROVE  Listening(r) /\ conn[r].tab \notin who
    BY <1>2, <1>4, <1>5 DEF Listening
  <1>6. ASSUME NEW r \in Accepted, Gone(r)' PROVE Gone(r) \/ r \in orphaned'
    BY <1>6 DEF Gone
  <1>7. ASSUME NEW t \in Tabs PROVE SocketFits(t)'
    <2>1. SocketFits(t)
      BY <1>1
    <2>2. CASE t \in who
      BY <2>2, <1>4 DEF SocketFits
    <2>3. CASE t \notin who
      <3>1. PICK r : r = socket[t]
        OBVIOUS
      <3>2. socket'[t] = r /\ task'[t] = task[t] /\ r \notin off
        BY <2>3, <3>1, <1>4
      <3>3. r # 0 => r \in Accepted /\ conn'[r] = conn[r]
        BY <2>1, <3>1, <3>2 DEF SocketFits
      <3> QED
        BY <2>1, <3>1, <3>2, <3>3 DEF SocketFits, Gone
    <2> QED
      BY <2>2, <2>3
  <1>8. ASSUME NEW r \in Accepted PROVE ConnFits(r)'
    <2>1. ConnFits(r)
      BY <1>1
    <2>2. CASE r \in off
      <3>1. conn'[r].queue = <<>> /\ conn'[r].seen = {}
        BY <2>2
      <3> QED
        BY <3>1, FS_EmptySet DEF ConnFits
    <2>3. CASE r \notin off
      <3>1. conn'[r] = conn[r]
        BY <2>3
      <3>2. ~Listening(r)' => ~Listening(r)
        BY <2>3, <1>2, <1>4 DEF Listening
      <3>3. (\A p \in DOMAIN conn[r].queue : FrameFits(conn[r].queue[p], r))'
        BY <2>1, <3>1 DEF ConnFits, FrameFits
      <3> QED
        BY <2>1, <3>1, <3>2, <3>3 DEF ConnFits
    <2> QED
      BY <2>2, <2>3
  <1>9. ASSUME NEW x \in Sessions PROVE LeaseFits(x)'
    BY <1>1, <1>6 DEF LeaseFits
  <1>10. ASSUME NEW t \in Tabs PROVE TabFits(t)'
    <2>1. TabFits(t)
      BY <1>1
    <2>2. CASE t \in who
      <3>1. socket'[t] = 0
        BY <2>2, <1>4
      <3> QED
        BY <2>1, <2>2, <3>1, <1>2 DEF TabFits
    <2>3. CASE t \notin who
      BY <2>1, <2>3, <1>4 DEF TabFits
    <2> QED
      BY <2>2, <2>3
  <1>11. ASSUME NEW x \in Accepted, NEW r \in Accepted PROVE EndFits(x, r)'
    <2>1. EndFits(x, r)
      BY <1>1
    <2>2. CASE ~Listening(r)'
      <3>1. conn'[r].queue = <<>> /\ conn'[r].seen = {}
        BY <2>2, <1>8 DEF ConnFits
      <3> QED
        BY <3>1 DEF EndFits, Unsaid, EndFollows
    <2>3. CASE Listening(r)'
      <3>1. Listening(r) /\ conn[r].tab \in Tabs \ who
        BY <2>3, <1>2, <1>5
      <3>2. r \notin off
        BY <3>1 DEF Listening
      <3>3. conn'[r] = conn[r]
        BY <3>2
      <3>4. <<conn[r].tab, x>> \in missedEnds => <<conn[r].tab, x>> \in missedEnds'
        BY <3>1
      <3> QED
        BY <2>1, <3>3, <3>4, <1>6 DEF EndFits, Unsaid
    <2> QED
      BY <2>2, <2>3
  <1>12. ASSUME NEW t \in Tabs, NEW x \in Accepted PROVE PeerFits(t, x)'
    <2> SUFFICES ASSUME peers'[t][x] # Absent, Gone(x)', x \notin orphaned',
                        <<t, x>> \notin missedEnds'
                 PROVE  Underway(t, x)'
      BY DEF PeerFits
    <2>1. Gone(x) /\ x \in Sessions
      BY <1>2, <1>6
    <2>2. PeerFits(t, x) /\ SocketFits(t)
      BY <1>1
    <2>3. CASE t \in who
      <3>1. peers[t][x] # Absent /\ <<t, x>> \notin missedEnds /\ x \notin Unheard(t)
        BY <2>1, <2>3
      <3>2. Underway(t, x)
        BY <2>1, <2>2, <3>1 DEF PeerFits
      <3>3. x \in Unheard(t)
        BY <3>2 DEF Underway, EndAhead, Unheard, ToSet
      <3> QED
        BY <3>1, <3>3
    <2>4. CASE t \notin who
      <3>1. Underway(t, x)
        BY <2>1, <2>2, <2>4 DEF PeerFits
      <3>2. PICK r : r = socket[t]
        OBVIOUS
      <3>3. r \in Accepted /\ r \notin off /\ r # 0 /\ EndAhead(conn[r].queue, x)
        BY <2>2, <2>4, <3>1, <3>2 DEF SocketFits, Underway
      <3>4. socket'[t] = r /\ conn'[r] = conn[r]
        BY <2>4, <3>2, <3>3, <1>4
      <3> QED
        BY <3>3, <3>4 DEF Underway
    <2> QED
      BY <2>3, <2>4
  <1> QED
    BY <1>3, <1>7, <1>8, <1>9, <1>10, <1>11, <1>12 DEF PresenceInv

\* The connection of a tab's socket, when the tab closes it or loses it.
LEMMA HungUpOf ==
  ASSUME PresenceInv, NEW t \in Tabs
  PROVE  /\ HungUp(t) \in Seq(Connections) /\ DOMAIN HungUp(t) = Accepted
         /\ \A r \in Accepted :
              /\ HungUp(t)[r].tab = conn[r].tab /\ HungUp(t)[r].stage = conn[r].stage
              /\ r = socket[t] => HungUp(t)[r].queue = <<>> /\ HungUp(t)[r].seen = {}
              /\ r # socket[t] => HungUp(t)[r] = conn[r]
  <1>1. PresenceTypes /\ SocketFits(t)
    BY DEF PresenceInv
  <1>2. /\ Len(conn) \in Nat /\ Accepted = 1..Len(conn) /\ conn \in Seq(Connections)
        /\ \A r \in Accepted : r # 0 /\ conn[r] \in Connections
        /\ conn \in [1..Len(conn) -> Connections] /\ DOMAIN conn = Accepted
    BY <1>1, ConnTyped DEF PresenceTypes, Accepted
  <1>3. CASE socket[t] = 0
    BY <1>2, <1>3 DEF HungUp
  <1>4. CASE socket[t] # 0
    <2>1. PICK s : s = socket[t]
      OBVIOUS
    <2>2. s \in Accepted
      BY <1>1, <1>4, <2>1 DEF SocketFits
    <2>3. PICK c : c = [conn[s] EXCEPT !.queue = <<>>, !.seen = {}]
      OBVIOUS
    <2>4. /\ c \in Connections /\ c.tab = conn[s].tab /\ c.stage = conn[s].stage
          /\ c.queue = <<>> /\ c.seen = {}
      <3>1. <<>> \in Seq(PresenceFrames) /\ {} \in SUBSET PresenceFrames
        OBVIOUS
      <3> QED
        BY <1>2, <2>2, <2>3, <3>1 DEF Connections
    <2>5. HungUp(t) = [conn EXCEPT ![s] = c]
      BY <1>4, <2>1, <2>3 DEF HungUp
    <2>6. HungUp(t) \in [1..Len(conn) -> Connections]
      BY <1>2, <2>4, <2>5
    <2>7. HungUp(t) \in Seq(Connections) /\ DOMAIN HungUp(t) = Accepted
      BY <1>2, <2>6
    <2> QED
      BY <1>2, <2>1, <2>2, <2>4, <2>5, <2>7
  <1> QED
    BY <1>3, <1>4

LEMMA MountKeeps ==
  ASSUME PresenceInv, NEW t \in Tabs, NEW k \in TaskNames, Mount(t, k)
  PROVE  PresenceInv'
  <1>1. PresenceTypes /\ SocketFits(t)
    BY DEF PresenceInv
  <1>2. PICK off : off = {r \in Accepted : r = socket[t]}
    OBVIOUS
  <1>3. PICK who : who = {t}
    OBVIOUS
  <1>4. /\ conn' \in Seq(Connections) /\ Accepted' = Accepted
        /\ \A r \in Accepted : conn'[r].tab = conn[r].tab /\ conn'[r].stage = conn[r].stage
        /\ \A r \in Accepted \ off : conn'[r] = conn[r]
        /\ \A r \in off : conn'[r].queue = <<>> /\ conn'[r].seen = {}
    BY <1>2, HungUpOf DEF Mount, Accepted
  <1>5. /\ task' = [task EXCEPT ![t] = k] /\ socket' = [socket EXCEPT ![t] = 0]
        /\ self' = [self EXCEPT ![t] = 0]
        /\ peers' = [peers EXCEPT ![t] = [s \in Sessions |-> Absent]]
        /\ missedEnds' = {m \in missedEnds : m[1] # t}
        /\ lease' = lease /\ orphaned' = orphaned
    BY DEF Mount
  <1>6. /\ task' \in [Tabs -> TaskNames] /\ self' \in [Tabs -> Nat]
        /\ peers' \in [Tabs -> [Sessions -> Entries]]
        /\ socket' = [u \in Tabs |-> IF u \in who THEN 0 ELSE socket[u]]
    BY <1>1, <1>3, <1>5 DEF PresenceTypes, Entries
  <1>7. \A r \in Accepted : Listening(r) /\ conn[r].tab \in who => r \in off
    BY <1>2, <1>3 DEF Listening
  <1>8. ASSUME NEW u \in Tabs \ who PROVE socket[u] \notin off
    <2>1. SocketFits(u)
      BY DEF PresenceInv
    <2> QED
      BY <2>1, <1>1, <1>2, <1>3, ConnTyped DEF SocketFits
  <1>9. \A u \in Tabs \ who :
          /\ task'[u] = task[u] /\ self'[u] = self[u] /\ peers'[u] = peers[u]
          /\ \A x \in Accepted : <<u, x>> \in missedEnds => <<u, x>> \in missedEnds'
    BY <1>1, <1>3, <1>5 DEF PresenceTypes
  <1>10. \A u \in who : \A x \in Sessions : peers'[u][x] = Absent
    BY <1>1, <1>3, <1>5 DEF PresenceTypes
  <1>11. off \in SUBSET Accepted /\ who \in SUBSET Tabs
    BY <1>2, <1>3
  <1>12. \A r \in off : /\ conn'[r].queue = <<>> /\ conn'[r].seen = {}
                        /\ Gone(r)' => Gone(r) \/ r \in orphaned'
    BY <1>4, <1>11 DEF Gone
  <1>13. \A r \in Accepted : conn'[r].tab = conn[r].tab
    BY <1>4
  <1>14. \A u \in who : \A x \in Sessions : peers'[u][x] # Absent =>
           /\ peers'[u][x] = peers[u][x] /\ task'[u] = task[u] /\ self'[u] = self[u]
           /\ <<u, x>> \in missedEnds \/ x \in Unheard(u) => <<u, x>> \in missedEnds'
    BY <1>10
  <1>15. lease' = lease /\ orphaned \subseteq orphaned'
    BY <1>5
  <1>16. Silenced(off, who)
    BY <1>4, <1>6, <1>7, <1>8, <1>9, <1>12, <1>13, <1>14, <1>15 DEF Silenced
  <1> QED
    BY <1>11, <1>16, SilencedKeeps

LEMMA LoseSocketKeeps ==
  ASSUME PresenceInv, NEW t \in Tabs, LoseSocket(t)
  PROVE  PresenceInv'
  <1>1. PresenceTypes /\ SocketFits(t)
    BY DEF PresenceInv
  <1>2. PICK off : off = {r \in Accepted : r = socket[t]}
    OBVIOUS
  <1>3. PICK who : who = {t}
    OBVIOUS
  <1>4. /\ conn' \in Seq(Connections) /\ Accepted' = Accepted
        /\ \A r \in Accepted : conn'[r].tab = conn[r].tab /\ conn'[r].stage = conn[r].stage
        /\ \A r \in Accepted \ off : conn'[r] = conn[r]
        /\ \A r \in off : conn'[r].queue = <<>> /\ conn'[r].seen = {}
    BY <1>2, HungUpOf DEF LoseSocket, Accepted
  <1>5. /\ socket' = [socket EXCEPT ![t] = 0]
        /\ missedEnds' = missedEnds \cup ({t} \X Unheard(t))
        /\ UNCHANGED <<task, self, peers, lease, orphaned>>
    BY DEF LoseSocket
  <1>6. /\ task' \in [Tabs -> TaskNames] /\ self' \in [Tabs -> Nat]
        /\ peers' \in [Tabs -> [Sessions -> Entries]]
        /\ socket' = [u \in Tabs |-> IF u \in who THEN 0 ELSE socket[u]]
    BY <1>1, <1>3, <1>5 DEF PresenceTypes
  <1>7. \A r \in Accepted : Listening(r) /\ conn[r].tab \in who => r \in off
    BY <1>2, <1>3 DEF Listening
  <1>8. ASSUME NEW u \in Tabs \ who PROVE socket[u] \notin off
    <2>1. SocketFits(u)
      BY DEF PresenceInv
    <2> QED
      BY <2>1, <1>1, <1>2, <1>3, ConnTyped DEF SocketFits
  <1>9. \A u \in Tabs \ who :
          /\ task'[u] = task[u] /\ self'[u] = self[u] /\ peers'[u] = peers[u]
          /\ \A x \in Accepted : <<u, x>> \in missedEnds => <<u, x>> \in missedEnds'
    BY <1>5
  <1>10. \A u \in who : \A x \in Sessions :
           /\ peers'[u][x] = peers[u][x] /\ task'[u] = task[u] /\ self'[u] = self[u]
           /\ <<u, x>> \in missedEnds \/ x \in Unheard(u) => <<u, x>> \in missedEnds'
    BY <1>3, <1>5
  <1>11. off \in SUBSET Accepted /\ who \in SUBSET Tabs
    BY <1>2, <1>3
  <1>12. \A r \in off : /\ conn'[r].queue = <<>> /\ conn'[r].seen = {}
                        /\ Gone(r)' => Gone(r) \/ r \in orphaned'
    BY <1>4, <1>11 DEF Gone
  <1>13. \A r \in Accepted : conn'[r].tab = conn[r].tab
    BY <1>4
  <1>14. \A u \in who : \A x \in Sessions : peers'[u][x] # Absent =>
           /\ peers'[u][x] = peers[u][x] /\ task'[u] = task[u] /\ self'[u] = self[u]
           /\ <<u, x>> \in missedEnds \/ x \in Unheard(u) => <<u, x>> \in missedEnds'
    BY <1>10
  <1>15. lease' = lease /\ orphaned \subseteq orphaned'
    BY <1>5
  <1>16. Silenced(off, who)
    BY <1>4, <1>6, <1>7, <1>8, <1>9, <1>12, <1>13, <1>14, <1>15 DEF Silenced
  <1> QED
    BY <1>11, <1>16, SilencedKeeps

LEMMA CrashKeeps ==
  ASSUME PresenceInv, NEW i, Crash(i)
  PROVE  PresenceInv'
  <1>1. PresenceTypes
    BY DEF PresenceInv
  <1>2. PICK off : off = Here(i)
    OBVIOUS
  <1>3. PICK who : who = {u \in Tabs : socket[u] \in off}
    OBVIOUS
  <1>4. off \in SUBSET Accepted /\ who \in SUBSET Tabs
    BY <1>2, <1>3 DEF Here
  <1>5. /\ conn' = [s \in Accepted |-> IF s \in off
                      THEN [conn[s] EXCEPT !.stage = "gone", !.queue = <<>>, !.seen = {}] ELSE conn[s]]
        /\ socket' = [u \in Tabs |-> IF socket[u] \in off THEN 0 ELSE socket[u]]
        /\ orphaned' = orphaned \cup off
        /\ missedEnds' = missedEnds \cup UNION {{u} \X Unheard(u) : u \in who}
        /\ UNCHANGED <<task, self, peers, lease>>
    BY <1>2, <1>3 DEF Crash
  <1>6. /\ Len(conn) \in Nat /\ Accepted = 1..Len(conn)
        /\ \A r \in Accepted : conn[r] \in Connections
    BY <1>1, ConnTyped
  <1>7. ASSUME NEW r \in Accepted
        PROVE  /\ conn'[r] \in Connections /\ conn'[r].tab = conn[r].tab
               /\ r \in off => conn'[r].queue = <<>> /\ conn'[r].seen = {}
               /\ r \notin off => conn'[r] = conn[r]
    <2>1. CASE r \in off
      <3>1. conn'[r] = [conn[r] EXCEPT !.stage = "gone", !.queue = <<>>, !.seen = {}]
        BY <2>1, <1>5
      <3>2. <<>> \in Seq(PresenceFrames) /\ {} \in SUBSET PresenceFrames
        OBVIOUS
      <3> QED
        BY <2>1, <3>1, <3>2, <1>6 DEF Connections
    <2>2. CASE r \notin off
      BY <2>2, <1>5, <1>6
    <2> QED
      BY <2>1, <2>2
  <1>8. conn' \in Seq(Connections) /\ Accepted' = Accepted
    <2>1. conn' \in [1..Len(conn) -> Connections]
      BY <1>5, <1>6, <1>7
    <2> QED
      BY <2>1, <1>6 DEF Accepted
  <1>9. /\ task' \in [Tabs -> TaskNames] /\ self' \in [Tabs -> Nat]
        /\ peers' \in [Tabs -> [Sessions -> Entries]]
        /\ socket' = [u \in Tabs |-> IF u \in who THEN 0 ELSE socket[u]]
    BY <1>1, <1>3, <1>5 DEF PresenceTypes
  <1>10. \A r \in Accepted : Listening(r) /\ conn[r].tab \in who => r \in off
    BY <1>3 DEF Listening
  <1>11. \A u \in Tabs \ who : socket[u] \notin off
    BY <1>3
  <1>12. \A u \in Tabs : /\ task'[u] = task[u] /\ self'[u] = self[u] /\ peers'[u] = peers[u]
                         /\ \A x : <<u, x>> \in missedEnds => <<u, x>> \in missedEnds'
    BY <1>5
  <1>13. ASSUME NEW u \in who, NEW x \in Unheard(u) PROVE <<u, x>> \in missedEnds'
    <2>1. <<u, x>> \in {u} \X Unheard(u)
      OBVIOUS
    <2> QED
      BY <2>1, <1>5
  <1>14. \A r \in off : r \in orphaned'
    BY <1>5
  <1>15. lease' = lease /\ orphaned \subseteq orphaned'
    BY <1>5
  <1>16. \A r \in off : /\ conn'[r].queue = <<>> /\ conn'[r].seen = {}
                        /\ Gone(r)' => Gone(r) \/ r \in orphaned'
    BY <1>4, <1>7, <1>14
  <1>17. \A r \in Accepted : conn'[r].tab = conn[r].tab
    BY <1>7
  <1>18. \A r \in Accepted \ off : conn'[r] = conn[r]
    BY <1>7
  <1>19. \A u \in who : \A x \in Sessions : peers'[u][x] # Absent =>
           /\ peers'[u][x] = peers[u][x] /\ task'[u] = task[u] /\ self'[u] = self[u]
           /\ <<u, x>> \in missedEnds \/ x \in Unheard(u) => <<u, x>> \in missedEnds'
    BY <1>4, <1>12, <1>13
  <1>20. \A u \in Tabs \ who :
          /\ task'[u] = task[u] /\ self'[u] = self[u] /\ peers'[u] = peers[u]
          /\ \A x \in Accepted : <<u, x>> \in missedEnds => <<u, x>> \in missedEnds'
    BY <1>12
  <1>21. Silenced(off, who)
    BY <1>8, <1>9, <1>10, <1>11, <1>15, <1>16, <1>17, <1>18, <1>19, <1>20 DEF Silenced
  <1> QED
    BY <1>4, <1>21, SilencedKeeps

LEMMA JoinRoomKeeps ==
  ASSUME PresenceInv, NEW t \in Tabs, NEW i \in Instances, JoinRoom(t, i)
  PROVE  PresenceInv'
  <1>1. /\ PresenceTypes
        /\ \A u \in Tabs : SocketFits(u) /\ TabFits(u)
        /\ \A r \in Accepted : ConnFits(r)
        /\ \A r \in Sessions : LeaseFits(r)
        /\ \A x, r \in Accepted : EndFits(x, r)
        /\ \A u \in Tabs, x \in Accepted : PeerFits(u, x)
    BY DEF PresenceInv
  <1>2. /\ Len(conn) \in Nat /\ Accepted = 1..Len(conn) /\ conn \in Seq(Connections)
        /\ \A r \in Accepted : r # 0 /\ conn[r] \in Connections /\ conn[r].tab \in Tabs
    BY <1>1, ConnTyped DEF PresenceTypes
  <1>3. PICK n : n = Len(conn) + 1
    OBVIOUS
  <1>4. n \in Nat /\ n # 0 /\ n \notin Accepted /\ n \in Sessions
    BY <1>2, <1>3 DEF JoinRoom
  <1>5. PICK c : c = [tab |-> t, task |-> task[t], at |-> i, stage |-> "joined",
                      seen |-> {}, queue |-> <<>>]
    OBVIOUS
  <1>6. /\ c \in Connections /\ c.tab = t /\ c.stage = "joined" /\ c.seen = {} /\ c.queue = <<>>
    <2>1. <<>> \in Seq(PresenceFrames) /\ {} \in SUBSET PresenceFrames
      OBVIOUS
    <2>2. task[t] \in TaskNames
      BY <1>1 DEF PresenceTypes
    <2> QED
      BY <2>1, <2>2, <1>5 DEF Connections
  <1>7. /\ task[t] # None /\ socket[t] = 0
        /\ conn' = Append(conn, c) /\ socket' = [socket EXCEPT ![t] = n]
        /\ UNCHANGED <<task, self, peers, lease, orphaned, missedEnds>>
    BY <1>3, <1>5 DEF JoinRoom, presenceHistory
  <1>8. /\ conn' \in Seq(Connections) /\ Accepted' = Accepted \cup {n} /\ conn'[n] = c
        /\ \A r \in Accepted : conn'[r] = conn[r]
    <2>1. /\ Append(conn, c) \in Seq(Connections) /\ Len(Append(conn, c)) = Len(conn) + 1
          /\ Append(conn, c)[Len(conn) + 1] = c
          /\ \A r \in 1..Len(conn) : Append(conn, c)[r] = conn[r]
      BY <1>2, <1>6
    <2>2. DOMAIN conn' = 1..Len(conn) + 1
      BY <2>1, <1>7
    <2> QED
      BY <2>1, <2>2, <1>2, <1>3, <1>7 DEF Accepted
  <1>9. socket'[t] = n /\ \A u \in Tabs : u # t => socket'[u] = socket[u]
    BY <1>1, <1>7 DEF PresenceTypes
  <1>10. PresenceTypes'
    <2>1. socket' \in [Tabs -> Nat]
      BY <1>1, <1>4, <1>7 DEF PresenceTypes
    <2>2. Accepted' \subseteq Sessions
      BY <1>1, <1>4, <1>8 DEF PresenceTypes
    <2> QED
      BY <2>1, <2>2, <1>1, <1>7, <1>8 DEF PresenceTypes
  <1>11. /\ \A r \in Accepted : Gone(r)' = Gone(r)
         /\ ~Gone(n)'
    BY <1>6, <1>8 DEF Gone
  <1>12. ASSUME NEW u \in Tabs PROVE SocketFits(u)'
    <2>1. SocketFits(u)
      BY <1>1
    <2>2. PICK r : r = socket'[u]
      OBVIOUS
    <2>3. r # 0 => r \in Accepted' /\ conn'[r].tab = u /\ ~Gone(r)' /\ task'[u] # None
      <3>1. CASE u = t
        <4>1. r = n /\ conn'[r] = c
          BY <3>1, <2>2, <1>8, <1>9
        <4> QED
          BY <3>1, <4>1, <1>6, <1>7, <1>8 DEF Gone
      <3>2. CASE u # t
        <4>1. r = socket[u]
          BY <3>2, <2>2, <1>9
        <4>2. r # 0 => r \in Accepted /\ conn'[r] = conn[r]
          BY <2>1, <4>1, <1>8 DEF SocketFits
        <4> QED
          BY <2>1, <4>1, <4>2, <1>7, <1>8 DEF SocketFits, Gone
      <3> QED
        BY <3>1, <3>2
    <2> QED
      BY <2>2, <2>3 DEF SocketFits, Gone
  <1>13. \A r \in Accepted : Listening(r)' = Listening(r)
    <2> SUFFICES ASSUME NEW r \in Accepted PROVE Listening(r)' = Listening(r)
      OBVIOUS
    <2>1. conn[r].tab \in Tabs /\ conn'[r].tab = conn[r].tab /\ r # 0 /\ r # n
      BY <1>2, <1>4, <1>8
    <2> QED
      BY <2>1, <1>7, <1>9 DEF Listening
  <1>14. ASSUME NEW r \in Accepted' PROVE ConnFits(r)'
    <2>1. CASE r = n
      <3>1. conn'[r].queue = <<>> /\ conn'[r].seen = {}
        BY <2>1, <1>6, <1>8
      <3> QED
        BY <3>1, FS_EmptySet DEF ConnFits
    <2>2. CASE r # n
      <3>1. r \in Accepted /\ ConnFits(r)
        BY <2>2, <1>1, <1>8
      <3>2. conn'[r] = conn[r]
        BY <3>1, <1>8
      <3>3. (\A p \in DOMAIN conn[r].queue : FrameFits(conn[r].queue[p], r))'
        BY <3>1, <3>2, <1>8 DEF ConnFits, FrameFits
      <3> QED
        BY <3>1, <3>2, <3>3, <1>8, <1>13 DEF ConnFits
    <2> QED
      BY <2>1, <2>2
  <1>15. ASSUME NEW s \in Sessions PROVE LeaseFits(s)'
    BY <1>1, <1>7, <1>8, <1>11 DEF LeaseFits
  <1>16. ASSUME NEW u \in Tabs PROVE TabFits(u)'
    BY <1>1, <1>4, <1>7, <1>8, <1>9 DEF TabFits
  <1>17. ASSUME NEW x \in Accepted', NEW r \in Accepted' PROVE EndFits(x, r)'
    <2>1. CASE x = n
      BY <2>1, <1>11 DEF EndFits
    <2>2. CASE x # n /\ r = n
      BY <2>2, <1>6, <1>8 DEF EndFits, Unsaid, EndFollows
    <2>3. CASE x # n /\ r # n
      <3>1. x \in Accepted /\ r \in Accepted
        BY <2>3, <1>8
      <3>2. EndFits(x, r) /\ conn'[r] = conn[r] /\ Gone(x)' = Gone(x)
        BY <3>1, <1>1, <1>8, <1>11
      <3> QED
        BY <3>2, <1>7 DEF EndFits, Unsaid
    <2> QED
      BY <2>1, <2>2, <2>3
  <1>18. ASSUME NEW u \in Tabs, NEW x \in Accepted' PROVE PeerFits(u, x)'
    <2>1. CASE x = n
      BY <2>1, <1>11 DEF PeerFits
    <2>2. CASE x # n
      <3>1. x \in Accepted
        BY <2>2, <1>8
      <3>2. PeerFits(u, x) /\ Gone(x)' = Gone(x) /\ SocketFits(u)
        BY <3>1, <1>1, <1>11
      <3>3. CASE u = t
        BY <3>2, <3>3, <1>7 DEF PeerFits, Underway
      <3>4. CASE u # t
        <4>1. PICK r : r = socket[u]
          OBVIOUS
        <4>2. Underway(u, x) => r # 0 /\ r \in Accepted /\ EndAhead(conn[r].queue, x)
          BY <3>2, <4>1 DEF Underway, SocketFits
        <4>3. socket'[u] = r
          BY <3>4, <4>1, <1>9
        <4>4. Underway(u, x) => Underway(u, x)'
          BY <4>2, <4>3, <1>8 DEF Underway
        <4> QED
          BY <3>2, <4>4, <1>7 DEF PeerFits
      <3> QED
        BY <3>3, <3>4
    <2> QED
      BY <2>1, <2>2
  <1> QED
    BY <1>10, <1>12, <1>14, <1>15, <1>16, <1>17, <1>18 DEF PresenceInv

LEMMA ReceiveKeeps ==
  ASSUME PresenceInv, NEW t \in Tabs, Receive(t)
  PROVE  PresenceInv'
  <1>1. /\ PresenceTypes
        /\ \A u \in Tabs : SocketFits(u) /\ TabFits(u)
        /\ \A r \in Accepted : ConnFits(r)
        /\ \A r \in Sessions : LeaseFits(r)
        /\ \A x, r \in Accepted : EndFits(x, r)
        /\ \A u \in Tabs, x \in Accepted : PeerFits(u, x)
    BY DEF PresenceInv
  <1>2. /\ Len(conn) \in Nat /\ Accepted = 1..Len(conn) /\ conn \in Seq(Connections)
        /\ conn \in [1..Len(conn) -> Connections]
        /\ \A r \in Accepted : /\ r # 0 /\ r \in Nat /\ r \in Sessions /\ conn[r] \in Connections
                               /\ conn[r].tab \in Tabs /\ conn[r].queue \in Seq(PresenceFrames)
    BY <1>1, ConnTyped DEF PresenceTypes
  <1>3. PICK s : s = socket[t]
    OBVIOUS
  <1>4. s \in Accepted /\ s # 0 /\ conn[s].tab = t /\ task[t] # None
    BY <1>1, <1>3 DEF Receive, SocketFits
  <1>5. PICK q : q = conn[s].queue
    OBVIOUS
  <1>6. q \in Seq(PresenceFrames) /\ q # <<>>
    BY <1>2, <1>3, <1>4, <1>5 DEF Receive
  <1>7. PICK f : f = Head(q)
    OBVIOUS
  <1>8. /\ f \in PresenceFrames /\ Tail(q) \in Seq(PresenceFrames) /\ FrameFits(f, s)
        /\ f.session \in Sessions /\ f.task \in Entries
    <2>1. 1 \in DOMAIN q /\ q[1] = f /\ f \in PresenceFrames /\ Tail(q) \in Seq(PresenceFrames)
      BY <1>6, <1>7
    <2>2. ConnFits(s)
      BY <1>1, <1>4
    <2> QED
      BY <2>1, <2>2, <1>5 DEF ConnFits, PresenceFrames
  <1>9. PICK c : c = [conn[s] EXCEPT !.queue = Tail(q)]
    OBVIOUS
  <1>10. /\ c \in Connections /\ c.tab = conn[s].tab /\ c.stage = conn[s].stage
         /\ c.seen = conn[s].seen /\ c.queue = Tail(q)
    BY <1>2, <1>4, <1>8, <1>9 DEF Connections
  <1>11. /\ conn' = [conn EXCEPT ![s] = c]
         /\ peers' = [peers EXCEPT ![t] = Applied(t, f)]
         /\ self' = [self EXCEPT ![t] = IF f.type = "welcome" THEN f.session ELSE self[t]]
         /\ UNCHANGED <<task, socket, lease, orphaned, missedEnds>>
    BY <1>3, <1>5, <1>7, <1>9 DEF Receive, presenceHistory
  <1>12. /\ conn' \in Seq(Connections) /\ Accepted' = Accepted /\ conn'[s] = c
         /\ \A r \in Accepted : r # s => conn'[r] = conn[r]
    <2>1. conn' \in [1..Len(conn) -> Connections]
      BY <1>2, <1>10, <1>11
    <2> QED
      BY <2>1, <1>2, <1>4, <1>11 DEF Accepted
  <1>13. \A r \in Accepted :
           /\ conn'[r].tab = conn[r].tab /\ conn'[r].stage = conn[r].stage
           /\ conn'[r].seen = conn[r].seen
           /\ conn'[r].queue = IF r = s THEN Tail(q) ELSE conn[r].queue
    BY <1>10, <1>12
  <1>14. \A r \in Accepted : Gone(r)' = Gone(r) /\ Listening(r)' = Listening(r)
    BY <1>11, <1>13 DEF Gone, Listening
  <1>15. Applied(t, f) \in [Sessions -> Entries]
    BY <1>1, <1>8 DEF Applied, PresenceTypes, Entries
  <1>16. /\ peers'[t] = Applied(t, f) /\ \A u \in Tabs : u # t => peers'[u] = peers[u]
         /\ self'[t] = IF f.type = "welcome" THEN f.session ELSE self[t]
         /\ \A u \in Tabs : u # t => self'[u] = self[u]
    BY <1>1, <1>11 DEF PresenceTypes
  <1>17. PresenceTypes'
    <2>1. self' \in [Tabs -> Nat]
      BY <1>1, <1>2, <1>8, <1>11 DEF PresenceTypes, FrameFits
    <2>2. peers' \in [Tabs -> [Sessions -> Entries]]
      BY <1>1, <1>11, <1>15 DEF PresenceTypes
    <2> QED
      BY <2>1, <2>2, <1>1, <1>11, <1>12 DEF PresenceTypes
  <1>18. ASSUME NEW u \in Tabs PROVE SocketFits(u)'
    <2>1. PICK r : r = socket[u]
      OBVIOUS
    <2>2. r # 0 => r \in Accepted /\ conn'[r].tab = conn[r].tab /\ conn'[r].stage = conn[r].stage
      BY <2>1, <1>1, <1>13 DEF SocketFits
    <2> QED
      BY <2>1, <2>2, <1>1, <1>11, <1>12 DEF SocketFits, Gone
  <1>19. ASSUME NEW r \in Accepted PROVE ConnFits(r)'
    <2>1. ConnFits(r)
      BY <1>1
    <2>2. CASE r = s
      <3>1. Listening(s)' /\ conn'[r].seen = conn[r].seen /\ conn'[r].queue = Tail(q)
        BY <2>2, <1>3, <1>4, <1>13, <1>14 DEF Listening
      <3>2. \A p \in DOMAIN q : FrameFits(q[p], s)
        BY <2>1, <2>2, <1>5 DEF ConnFits
      <3>3. \A p \in DOMAIN Tail(q) : p + 1 \in DOMAIN q /\ Tail(q)[p] = q[p + 1]
        BY <1>6
      <3>4. (\A p \in DOMAIN conn[r].queue : FrameFits(conn[r].queue[p], r))'
        BY <2>2, <3>1, <3>2, <3>3, <1>12 DEF FrameFits
      <3> QED
        BY <2>1, <2>2, <3>1, <3>4, <1>12 DEF ConnFits
    <2>3. CASE r # s
      <3>1. conn'[r] = conn[r] /\ Listening(r)' = Listening(r)
        BY <2>3, <1>12, <1>14
      <3>2. (\A p \in DOMAIN conn[r].queue : FrameFits(conn[r].queue[p], r))'
        BY <2>1, <3>1, <1>12 DEF ConnFits, FrameFits
      <3> QED
        BY <2>1, <3>1, <3>2, <1>12 DEF ConnFits
    <2> QED
      BY <2>2, <2>3
  <1>20. ASSUME NEW x \in Sessions PROVE LeaseFits(x)'
    BY <1>1, <1>11, <1>12, <1>14 DEF LeaseFits
  <1>21. ASSUME NEW u \in Tabs PROVE TabFits(u)'
    <2>1. TabFits(u)
      BY <1>1
    <2>2. CASE u = t
      <3>1. CASE f.type = "welcome"
        <4>1. self'[t] = s /\ peers'[t] = peers[t]
          BY <3>1, <1>8, <1>16 DEF FrameFits, Applied
        <4> QED
          BY <2>1, <2>2, <4>1, <1>3, <1>11, <1>12 DEF TabFits
      <3>2. CASE f.type # "welcome" /\ f.session = self[t]
        <4>1. self'[t] = self[t] /\ peers'[t] = peers[t]
          BY <3>2, <1>16 DEF Applied
        <4> QED
          BY <2>1, <2>2, <4>1, <1>11, <1>12 DEF TabFits
      <3>3. CASE f.type # "welcome" /\ f.session # self[t]
        <4>1. /\ self'[t] = self[t] /\ f.session # s /\ f.session \in Accepted
              /\ \A x \in Sessions : x # f.session => peers'[t][x] = peers[t][x]
          BY <3>3, <1>1, <1>8, <1>16 DEF FrameFits, Applied, PresenceTypes
        <4> QED
          BY <2>1, <2>2, <3>3, <4>1, <1>3, <1>4, <1>11, <1>12 DEF TabFits
      <3> QED
        BY <3>1, <3>2, <3>3
    <2>3. CASE u # t
      BY <2>1, <2>3, <1>11, <1>12, <1>16 DEF TabFits
    <2> QED
      BY <2>2, <2>3
  <1>22. ASSUME NEW x \in Accepted, NEW r \in Accepted PROVE EndFits(x, r)'
    <2>1. EndFits(x, r) /\ Gone(x)' = Gone(x) /\ conn'[r].tab = conn[r].tab
      BY <1>1, <1>13, <1>14
    <2>2. Unsaid(x, r) => Unsaid(x, r)'
      <3>1. CASE r = s
        <4>1. EndFollows(q, x) => EndFollows(Tail(q), x)
          BY <1>6, EndsOfTail
        <4> QED
          BY <3>1, <4>1, <1>5, <1>13 DEF Unsaid
      <3>2. CASE r # s
        BY <3>2, <1>12 DEF Unsaid
      <3> QED
        BY <3>1, <3>2
    <2> QED
      BY <2>1, <2>2, <1>11 DEF EndFits
  <1>23. ASSUME NEW u \in Tabs, NEW x \in Accepted PROVE PeerFits(u, x)'
    <2> SUFFICES ASSUME peers'[u][x] # Absent, Gone(x), x \notin orphaned,
                        <<u, x>> \notin missedEnds
                 PROVE  Underway(u, x)'
      BY <1>11, <1>14 DEF PeerFits
    <2>1. PeerFits(u, x) /\ SocketFits(u) /\ TabFits(u) /\ x \in Sessions
      BY <1>1, <1>2
    <2>2. CASE u = t
      <3>1. EndFollows(q, x)
        <4>1. EndFits(x, s)
          BY <1>1, <1>4
        <4> QED
          BY <2>2, <4>1, <1>4, <1>5 DEF EndFits, Unsaid
      <3>2. EndAhead(Tail(q), x)
        <4>1. CASE f.type = "presence" /\ f.session = x
          BY <3>1, <4>1, <1>6, <1>7, EndsOfTail
        <4>2. CASE ~(f.type = "presence" /\ f.session = x)
          <5>1. f.type \in {"presence", "leave", "welcome"}
            BY <1>8 DEF PresenceFrames
          <5>2. peers[t][x] # Absent
            BY <2>1, <2>2, <4>2, <5>1, <1>1, <1>8, <1>16 DEF Applied, PresenceTypes
          <5>3. EndAhead(q, x)
            BY <2>1, <2>2, <5>2, <1>3, <1>5 DEF PeerFits, Underway
          <5>4. x # self[t]
            BY <2>1, <2>2, <5>2 DEF TabFits
          <5>5. ~(f.type = "leave" /\ f.session = x)
            <6> SUFFICES ASSUME f.type = "leave", f.session = x PROVE FALSE
              OBVIOUS
            <6>1. peers'[t] = [peers[t] EXCEPT ![x] = Absent]
              BY <5>4, <1>16 DEF Applied
            <6> QED
              BY <2>1, <2>2, <6>1, <1>1 DEF PresenceTypes
          <5> QED
            BY <5>3, <5>5, <1>6, <1>7, EndsOfTail
        <4> QED
          BY <4>1, <4>2
      <3> QED
        BY <2>2, <3>2, <1>3, <1>4, <1>11, <1>13 DEF Underway
    <2>3. CASE u # t
      <3>1. peers[u][x] # Absent
        BY <2>3, <1>16
      <3>2. Underway(u, x)
        BY <2>1, <3>1 DEF PeerFits
      <3>3. PICK r : r = socket[u]
        OBVIOUS
      <3>4. r # 0 /\ r \in Accepted /\ conn[r].tab = u /\ EndAhead(conn[r].queue, x)
        BY <2>1, <3>2, <3>3 DEF Underway, SocketFits
      <3>5. r # s
        BY <2>3, <3>4, <1>4
      <3>6. conn'[r] = conn[r]
        BY <3>4, <3>5, <1>12
      <3> QED
        BY <3>3, <3>4, <3>6, <1>11 DEF Underway
    <2> QED
      BY <2>2, <2>3
  <1> QED
    BY <1>12, <1>17, <1>18, <1>19, <1>20, <1>21, <1>22, <1>23 DEF PresenceInv

LEMMA PresenceStarts == PresenceInit => PresenceInv
  <1> SUFFICES ASSUME PresenceInit PROVE PresenceInv
    OBVIOUS
  <1>1. /\ task = [t \in Tabs |-> None] /\ socket = [t \in Tabs |-> 0] /\ self = [t \in Tabs |-> 0]
        /\ peers = [t \in Tabs |-> [s \in Sessions |-> Absent]]
        /\ conn = <<>> /\ lease = [s \in Sessions |-> Absent]
    BY DEF PresenceInit
  <1>2. Accepted = {} /\ conn \in Seq(Connections)
    BY <1>1 DEF Accepted
  <1>3. PresenceTypes
    BY <1>1, <1>2 DEF PresenceTypes, TaskNames, Entries
  <1>4. \A t \in Tabs : SocketFits(t) /\ TabFits(t)
    BY <1>1 DEF SocketFits, TabFits
  <1>5. \A s \in Sessions : LeaseFits(s)
    BY <1>1 DEF LeaseFits
  <1> QED
    BY <1>2, <1>3, <1>4, <1>5 DEF PresenceInv

LEMMA PresenceSteps == PresenceInv /\ [PresenceNext]_presenceVars => PresenceInv'
  <1> SUFFICES ASSUME PresenceInv, [PresenceNext]_presenceVars PROVE PresenceInv'
    OBVIOUS
  <1>1. ASSUME NEW t \in Tabs, NEW k \in Tasks \cup {None}, Mount(t, k) PROVE PresenceInv'
    BY <1>1, MountKeeps DEF TaskNames
  <1>2. ASSUME NEW t \in Tabs, NEW i \in Instances, JoinRoom(t, i) PROVE PresenceInv'
    BY <1>2, JoinRoomKeeps
  <1>3. ASSUME NEW t \in Tabs, LoseSocket(t) \/ Receive(t) PROVE PresenceInv'
    BY <1>3, LoseSocketKeeps, ReceiveKeeps
  <1>4. ASSUME NEW s \in Accepted, Handler(s) \/ Expire(s) PROVE PresenceInv'
    BY <1>4, ListPresenceKeeps, EnterKeeps, AnnounceKeeps, PartKeeps, ExpireKeeps DEF Handler
  <1>5. ASSUME NEW i \in Instances, Crash(i) PROVE PresenceInv'
    BY <1>5, CrashKeeps
  <1>6. ASSUME UNCHANGED presenceVars PROVE PresenceInv'
    <2>1. UNCHANGED <<task, socket, self, peers, conn, lease, orphaned, missedEnds>>
      BY <1>6 DEF presenceVars, browser, presenceHistory
    <2> QED
      BY <2>1 DEF PresenceInv, PresenceTypes, Accepted, SocketFits, ConnFits, LeaseFits, TabFits,
         EndFits, PeerFits, Unsaid, Underway, Gone, Listening, FrameFits
  <1> QED
    BY <1>1, <1>2, <1>3, <1>4, <1>5, <1>6 DEF PresenceNext

LEMMA PresenceInvHolds == PresenceSpec => []PresenceInv
  BY PresenceStarts, PresenceSteps, PTL DEF PresenceSpec

\* Whoever a tab still shows and has gone is on the way out of its map, or is
\* one of the ends the code cannot bring to it.
THEOREM GhostsExplained == PresenceSpec => []GhostsAreExplained
  <1>1. PresenceInv => GhostsAreExplained
    <2> SUFFICES ASSUME PresenceInv, NEW t \in Tabs, NEW s \in Accepted,
                        peers[t][s] # Absent, ~InRoom(s)
                 PROVE  s \in orphaned \/ <<t, s>> \in missedEnds \/ s \in Unheard(t)
      BY DEF GhostsAreExplained
    <2>1. PeerFits(t, s) /\ Gone(s)
      BY DEF PresenceInv, InRoom, Gone
    <2>2. Underway(t, s) => s \in Unheard(t)
      BY DEF Underway, EndAhead, Unheard, ToSet
    <2> QED
      BY <2>1, <2>2 DEF PeerFits
  <1> QED
    BY <1>1, PresenceInvHolds, PTL

==============================================================================
