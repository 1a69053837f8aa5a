---------------------------- MODULE ConsoleProofs ----------------------------
(***************************************************************************)
(* One tab of the console, for any sessions, clicks, rows and faults: its  *)
(* rows have their types, what is on the screen is of the session the user *)
(* looks at, and only rows between history and stream can be missing.      *)
(*                                                                         *)
(* What is missing is an invariant only with two halves of it told apart:  *)
(* PastShown, which no later step can break while the session is looked    *)
(* at, and StreamShown, which holds from the moment a connection is up and *)
(* counts the rows still on the wire.                                      *)
(***************************************************************************)
EXTENDS Console, TLAPS

\* A task is of a session that exists; an answer goes where its card came from.
TaskFits(t, known) ==
    /\ t.of \in known \cup {None}
    /\ t.kind = "load" => t.of \in known /\ t.from \in Nat
    /\ t.kind = "answer" => t.of = t.card[1]

\* A connection is of a session that exists, and has a wire only while it is up.
LinkFits ==
    /\ stream \in [of : listed \cup {None}, state : {"none", "asked", "up", "over", "closed"},
                   from : Nat]
    /\ stream.state # "none" => stream.of \in listed
    /\ wire \in Seq(Nat)
    /\ wire # << >> => stream.state = "up"
    /\ \A k \in 1 .. Len(wire) : wire[k] \in 1 .. Len(rows[stream.of])

Fits ==
    /\ rows \in [Session -> Seq(Kind)]
    /\ listed \subseteq Session
    /\ current \in listed \cup {None}
    /\ LinkFits
    /\ \A t \in tasks : TaskFits(t, listed)

\* What a stream, a prompt or a card leaves on the screen is of this session.
ShownFits(s) ==
    /\ \A x \in shown : x.by # "load" => x.of = s
    /\ \A c \in cards : c[1] = s
    /\ draft \in {None, s}

OnShow(i) == \E x \in shown : x.of = current /\ x.row = i

\* The history on the screen is whole.
PastShown ==
    current # None =>
        /\ past \in 0 .. Len(rows[current])
        /\ \A i \in History(current, past) : OnShow(i)

\* Nothing is on the wire of a stream but what the screen will get.
Watching ==
    stream.state = "up" /\ stream.of = current /\ ~strayed /\ \A t \in tasks : t.kind # "load"

\* A message after the stream's start is on the screen or on the wire.
StreamShown ==
    Watching =>
        \A i \in History(current, Len(rows[current])) :
            i > stream.from => OnShow(i) \/ \E k \in 1 .. Len(wire) : wire[k] = i

ConsoleInv == Fits /\ ShownFits(current) /\ PastShown /\ StreamShown

-----------------------------------------------------------------------------
(* Sequences: one that has grown, and one whose head was read.             *)
LEMMA Grown ==
  ASSUME NEW S, NEW q \in Seq(S), NEW e \in S
  PROVE  /\ Append(q, e) \in Seq(S)
         /\ Len(q) \in Nat
         /\ Len(Append(q, e)) = Len(q) + 1
         /\ \A i \in 1 .. Len(q) : Append(q, e)[i] = q[i]
         /\ Append(q, e)[Len(q) + 1] = e
OBVIOUS

LEMMA HeadRead ==
  ASSUME NEW S, NEW q \in Seq(S), q # << >>
  PROVE  /\ Tail(q) \in Seq(S) /\ Head(q) = q[1] /\ Len(q) \in Nat /\ 1 \in 1 .. Len(q)
         /\ Len(Tail(q)) = Len(q) - 1
         /\ \A k \in 1 .. Len(Tail(q)) : Tail(q)[k] = q[k + 1] /\ k + 1 \in 1 .. Len(q)
         /\ \A k \in 1 .. Len(q) : k # 1 => k - 1 \in 1 .. Len(Tail(q)) /\ Tail(q)[k - 1] = q[k]
OBVIOUS

-----------------------------------------------------------------------------
(* What many actions have in common.                                       *)

\* A step that changes tasks only: one is added, some are over, no load is.
LEMMA TaskStep ==
  ASSUME ConsoleInv, NEW x, TaskFits(x, listed), x.kind # "load",
         tasks' \subseteq tasks \cup {x},
         \A t \in tasks : t.kind = "load" => t \in tasks',
         UNCHANGED <<rows, listed, current, stream, wire, shown, cards, draft, past, strayed>>
  PROVE  ConsoleInv'
<1>1. Fits'
  BY DEF ConsoleInv, Fits, LinkFits
<1>2. ShownFits(current)' /\ PastShown'
  BY DEF ConsoleInv, ShownFits, PastShown, OnShow, History
<1>3. Watching' => Watching
  BY DEF Watching
<1>4. StreamShown'
  BY <1>3 DEF ConsoleInv, StreamShown, OnShow, History
<1> QED
  BY <1>1, <1>2, <1>4 DEF ConsoleInv

\* Nothing of all this changes.
LEMMA Unmoved ==
  ASSUME ConsoleInv,
         UNCHANGED <<rows, listed, current, tasks, stream, wire, shown, cards, draft, past, strayed>>
  PROVE  ConsoleInv'
BY DEF ConsoleInv, Fits, LinkFits, ShownFits, PastShown, OnShow, StreamShown, Watching, History

\* selectSession: the screen is cleared and a load is on its way.
LEMMA SelectStep ==
  ASSUME ConsoleInv, NEW s \in Session, NEW others \in SUBSET tasks, Select(s, others),
         listed \subseteq listed', s \in listed', listed' \subseteq Session,
         UNCHANGED <<rows, stream, wire>>
  PROVE  ConsoleInv'
<1>1. Task("load", s).kind = "load" /\ Task("load", s).of = s /\ Task("load", s).from \in Nat
  BY ConsoleAssumption DEF Task, ConsoleInv, Fits
<1>2. Fits'
  <2>1. \A t \in tasks' : TaskFits(t, listed')
    BY <1>1 DEF Select, ConsoleInv, Fits, TaskFits
  <2>2. LinkFits'
    BY DEF ConsoleInv, Fits, LinkFits
  <2> QED
    BY <2>1, <2>2 DEF ConsoleInv, Fits, Select
<1>3. ShownFits(current)'
  BY DEF Select, ClearScreen, ShownFits
<1>4. PastShown'
  BY DEF Select, ClearScreen, PastShown, History, ConsoleInv, Fits
<1>5. StreamShown'
  BY <1>1 DEF Select, StreamShown, Watching
<1> QED
  BY <1>2, <1>3, <1>4, <1>5 DEF ConsoleInv

\* startStream: the old connection is over, whatever it was of.
LEMMA StartFits ==
  ASSUME Fits, NEW s \in listed, StartStream(s), UNCHANGED <<rows, listed>>
  PROVE  LinkFits' /\ stream'.state # "up"
BY DEF StartStream, Fits, LinkFits, Asked, NoStream

-----------------------------------------------------------------------------
(* The stream.                                                             *)

LEMMA ConnectedKeeps == ConsoleInv /\ Connected => ConsoleInv'
<1> SUFFICES ASSUME ConsoleInv, Connected PROVE ConsoleInv'
  OBVIOUS
<1> DEFINE n == Len(rows[stream.of])
<1>1. stream.of \in listed /\ stream.of \in Session /\ n \in Nat
  BY DEF ConsoleInv, Fits, LinkFits, Connected
<1>2. CASE cursor
  <2>1. stream' = [stream EXCEPT !.state = "up", !.from = n] /\ wire' = << >>
    BY <1>2 DEF Connected
  <2>2. Fits'
    BY <1>1, <2>1 DEF ConsoleInv, Fits, LinkFits, Connected, server
  <2>3. StreamShown'
    BY <1>1, <2>1 DEF StreamShown, Connected, server, History, Watching, ConsoleInv, Fits, LinkFits
  <2> QED
    BY <2>2, <2>3 DEF ConsoleInv, Connected, server, screen, ShownFits, PastShown, OnShow, History
<1>3. CASE ~cursor
  <2>1. stream' = [stream EXCEPT !.state = "up", !.from = 0] /\ wire' = [i \in 1 .. n |-> i]
    BY <1>3 DEF Connected
  <2>2. wire' \in Seq(Nat) /\ Len(wire') = n /\ \A i \in 1 .. n : wire'[i] = i
    BY <1>1, <2>1
  <2>3. Fits'
    <3>1. \A k \in 1 .. Len(wire') : wire'[k] \in 1 .. Len(rows'[stream'.of])
      BY <1>1, <2>1, <2>2 DEF ConsoleInv, Fits, LinkFits, Connected, server
    <3>2. stream' \in [of : listed \cup {None}, state : {"none", "asked", "up", "over", "closed"},
                       from : Nat] /\ stream'.of \in listed /\ stream'.state = "up"
      BY <1>1, <2>1 DEF ConsoleInv, Fits, LinkFits
    <3>3. UNCHANGED <<rows, listed, current, tasks>>
      BY DEF Connected, server
    <3>4. LinkFits'
      BY <2>2, <3>1, <3>2, <3>3 DEF LinkFits
    <3> QED
      BY <3>3, <3>4 DEF ConsoleInv, Fits
  <2>4. StreamShown'
    <3> SUFFICES ASSUME Watching', NEW i \in History(current, Len(rows[current]))'
                 PROVE (\E k \in 1 .. Len(wire) : wire[k] = i)'
      BY DEF StreamShown
    <3>1. i \in 1 .. n
      BY <2>1 DEF History, Watching, Connected, server, ConsoleInv, Fits, LinkFits
    <3> QED
      BY <2>2, <3>1
  <2> QED
    BY <2>3, <2>4 DEF ConsoleInv, Connected, server, screen, ShownFits, PastShown, OnShow, History
<1> QED
  BY <1>2, <1>3

\* The connection ends, or a timer starts another.
LEMMA LinkKeeps ==
  ASSUME ConsoleInv, LinkFits', stream'.state # "up",
         UNCHANGED <<rows, listed, current, tasks, screen>>
  PROVE  ConsoleInv'
<1>1. Fits' /\ ShownFits(current)' /\ PastShown'
  BY DEF ConsoleInv, Fits, ShownFits, PastShown, OnShow, History, screen
<1>2. StreamShown'
  BY DEF StreamShown, Watching
<1> QED
  BY <1>1, <1>2 DEF ConsoleInv

LEMMA BreaksKeeps == ConsoleInv /\ Breaks => ConsoleInv'
<1> SUFFICES ASSUME ConsoleInv, Breaks PROVE ConsoleInv'
  OBVIOUS
<1>1. /\ stream' = [stream EXCEPT !.state = "over"] /\ wire' = << >> /\ UNCHANGED <<rows, listed>>
      /\ stream.of \in listed
  BY DEF Breaks, server, ConsoleInv, Fits, LinkFits
<1>2. wire' \in Seq(Nat) /\ Len(wire') = 0
  BY <1>1
<1>3. \A k \in 1 .. Len(wire') : wire'[k] \in 1 .. Len(rows'[stream'.of])
  BY <1>2
<1>4. LinkFits' /\ stream'.state # "up"
  <2>1. stream' \in [of : listed \cup {None}, state : {"none", "asked", "up", "over", "closed"},
                     from : Nat] /\ stream'.of \in listed /\ stream'.state = "over"
    BY <1>1 DEF ConsoleInv, Fits, LinkFits
  <2> QED
    BY <1>1, <1>2, <1>3, <2>1 DEF LinkFits
<1> QED
  BY <1>4, LinkKeeps DEF Breaks, server

LEMMA ClosesKeeps == ConsoleInv /\ Closes => ConsoleInv'
<1> SUFFICES ASSUME ConsoleInv, Closes PROVE ConsoleInv'
  OBVIOUS
<1>1. LinkFits' /\ stream'.state # "up"
  BY DEF ConsoleInv, Fits, LinkFits, Closes, server
<1> QED
  BY <1>1, LinkKeeps DEF Closes, server

LEMMA TimerKeeps == ASSUME ConsoleInv, NEW s \in Session, TimerFires(s) PROVE ConsoleInv'
<1>1. CASE current = s
  <2>1. s \in listed
    BY <1>1, ConsoleAssumption DEF ConsoleInv, Fits
  <2>2. LinkFits' /\ stream'.state # "up"
    BY <1>1, <2>1, StartFits DEF TimerFires, ConsoleInv, server
  <2> QED
    BY <2>2, LinkKeeps DEF TimerFires, server
<1>2. CASE current # s
  <2>1. UNCHANGED <<rows, listed, current, tasks, stream, wire, shown, cards, draft, past, strayed>>
    BY <1>2 DEF TimerFires, server, screen
  <2> QED
    BY <2>1, Unmoved
<1> QED
  BY <1>1, <1>2

(* A frame is read: off the wire, and on the screen when its session is    *)
(* the one looked at.                                                      *)
LEMMA ReadFrameKeeps == ConsoleInv /\ ReadFrame => ConsoleInv'
<1> SUFFICES ASSUME ConsoleInv, ReadFrame PROVE ConsoleInv'
  OBVIOUS
<1>1. UNCHANGED <<rows, listed, current, tasks, stream, past, strayed>> /\ wire' = Tail(wire)
  BY DEF ReadFrame, server
<1>2. wire \in Seq(Nat) /\ wire # << >> /\ stream.state = "up" /\ stream.of \in Session
  BY DEF ReadFrame, ConsoleInv, Fits, LinkFits
<1>3. /\ Tail(wire) \in Seq(Nat) /\ Head(wire) = wire[1] /\ Len(wire) \in Nat /\ 1 \in 1 .. Len(wire)
      /\ \A k \in 1 .. Len(Tail(wire)) : Tail(wire)[k] = wire[k + 1] /\ k + 1 \in 1 .. Len(wire)
      /\ \A k \in 1 .. Len(wire) :
           k # 1 => k - 1 \in 1 .. Len(Tail(wire)) /\ Tail(wire)[k - 1] = wire[k]
  BY <1>2, HeadRead
<1>4. Fits'
  BY <1>1, <1>2, <1>3 DEF ConsoleInv, Fits, LinkFits
<1>5. shown \subseteq shown'
  BY DEF ReadFrame, Handle, OfCurrent
<1>6. ShownFits(current)'
  <2>1. CASE stream.of = current
    <3>1. Handle(Head(wire))
      BY <2>1 DEF ReadFrame, OfCurrent
    <3>2. \A x \in shown' : x.by # "load" => x.of = current
      BY <2>1, <3>1 DEF Handle, Item, ConsoleInv, ShownFits
    <3>3. cards' \subseteq cards \cup {<<stream.of, Head(wire)>>}
      BY <3>1 DEF Handle, QuestionCard
    <3>4. draft' \in {None, current}
      BY <2>1, <3>1 DEF Handle, DraftBubble, ConsoleInv, ShownFits
    <3> QED
      BY <1>1, <2>1, <3>2, <3>3, <3>4 DEF ConsoleInv, ShownFits
  <2>2. CASE stream.of # current
    BY <1>1, <2>2 DEF ReadFrame, OfCurrent, ConsoleInv, ShownFits
  <2> QED
    BY <2>1, <2>2
<1>7. PastShown'
  BY <1>1, <1>5 DEF ConsoleInv, PastShown, OnShow, History
<1>8. StreamShown'
  <2> SUFFICES ASSUME Watching', NEW i \in History(current, Len(rows[current]))', i > stream'.from
               PROVE OnShow(i)' \/ (\E k \in 1 .. Len(wire) : wire[k] = i)'
    BY DEF StreamShown
  <2>1. Watching /\ i \in History(current, Len(rows[current])) /\ i > stream.from
    BY <1>1 DEF Watching, History
  <2>2. OnShow(i) \/ \E k \in 1 .. Len(wire) : wire[k] = i
    BY <2>1 DEF ConsoleInv, StreamShown
  <2>3. CASE OnShow(i)
    BY <1>1, <1>5, <2>3 DEF OnShow
  <2>4. CASE i = Head(wire)
    <3>1. Handle(i) /\ rows[stream.of][i] = "message"
      BY <2>1, <2>4 DEF ReadFrame, OfCurrent, Watching, History
    <3>2. Item(i, "event") \in shown'
      BY <3>1 DEF Handle
    <3> QED
      BY <1>1, <2>1, <3>2 DEF OnShow, Item, Watching
  <2>5. ASSUME NEW k \in 1 .. Len(wire), wire[k] = i, k # 1
        PROVE (\E j \in 1 .. Len(wire) : wire[j] = i)'
    BY <1>1, <1>3, <2>5
  <2> QED
    BY <1>3, <2>2, <2>3, <2>4, <2>5
<1> QED
  BY <1>4, <1>6, <1>7, <1>8 DEF ConsoleInv

(* A row is appended, and goes on the wire of a connection that is up.     *)
LEMMA AppendKeeps ==
  ASSUME ConsoleInv, NEW s \in Session, NEW kind \in Kind, AppendRow(s, kind)
  PROVE  ConsoleInv'
<1>1. UNCHANGED <<listed, current, tasks, stream, shown, cards, draft, past, strayed>>
  BY DEF AppendRow, screen
<1>2. rows \in [Session -> Seq(Kind)] /\ rows' = [rows EXCEPT ![s] = Append(@, kind)]
  BY DEF AppendRow, ConsoleInv, Fits
<1>3. /\ rows[s] \in Seq(Kind) /\ rows'[s] = Append(rows[s], kind)
      /\ rows' \in [Session -> Seq(Kind)]
      /\ \A r \in Session : r # s => rows'[r] = rows[r]
  BY <1>2
<1>4. /\ Len(rows[s]) \in Nat /\ Len(rows'[s]) = Len(rows[s]) + 1
      /\ \A i \in 1 .. Len(rows[s]) : rows'[s][i] = rows[s][i]
  BY <1>3, Grown
<1>5. \A r \in Session : Len(rows[r]) \in Nat
  BY <1>2
<1>6. wire \in Seq(Nat) /\ Len(wire) \in Nat
  BY DEF ConsoleInv, Fits, LinkFits
<1>7. /\ wire' \in Seq(Nat) /\ Len(wire') \in Nat /\ Len(wire) <= Len(wire')
      /\ \A k \in 1 .. Len(wire) : wire'[k] = wire[k]
      /\ \A k \in 1 .. Len(wire') : k \in 1 .. Len(wire) \/ (wire'[k] = Len(rows'[s]) /\ stream.of = s)
      /\ wire' # << >> => wire # << >> \/ stream.state = "up"
      /\ stream.of = s /\ stream.state = "up" => wire'[Len(wire')] = Len(rows'[s]) /\ Len(wire') \in 1 .. Len(wire')
  <2>1. CASE stream.of = s /\ stream.state = "up"
    <3>0. wire' = Append(wire, Len(rows'[s]))
      BY <2>1, Zenon DEF AppendRow
    <3>1. wire' = Append(wire, Len(rows'[s])) /\ Len(rows'[s]) \in Nat
      BY <3>0, <1>4
    <3>2. wire' \in Seq(Nat) /\ Len(wire') = Len(wire) + 1 /\ wire'[Len(wire) + 1] = Len(rows'[s])
          /\ \A k \in 1 .. Len(wire) : wire'[k] = wire[k]
      BY <1>6, <3>1, Grown
    <3> QED
      BY <2>1, <1>6, <3>2
  <2>2. CASE ~(stream.of = s /\ stream.state = "up")
    <3>1. wire' = wire
      BY <2>2, Zenon DEF AppendRow
    <3> QED
      BY <2>2, <1>6, <3>1
  <2> QED
    BY <2>1, <2>2
<1>8. Fits'
  <2>1. ASSUME NEW k \in 1 .. Len(wire') PROVE wire'[k] \in 1 .. Len(rows'[stream.of])
    <3>1. CASE k \in 1 .. Len(wire)
      <4>1. wire'[k] = wire[k] /\ wire[k] \in 1 .. Len(rows[stream.of])
        BY <3>1, <1>7 DEF ConsoleInv, Fits, LinkFits
      <4>2. wire # << >>
        BY <3>1
      <4>3. stream.of \in Session
        BY <4>2 DEF ConsoleInv, Fits, LinkFits
      <4>4. CASE stream.of = s
        BY <4>1, <4>4, <1>4
      <4>5. CASE stream.of # s
        BY <4>1, <4>3, <4>5, <1>3
      <4> QED
        BY <4>4, <4>5
    <3>2. CASE wire'[k] = Len(rows'[s]) /\ stream.of = s
      BY <3>2, <1>4
    <3> QED
      BY <3>1, <3>2, <1>7
  <2>2. wire' # << >> => stream.state = "up"
    BY <1>7 DEF ConsoleInv, Fits, LinkFits
  <2> QED
    BY <1>1, <1>3, <1>7, <2>1, <2>2 DEF ConsoleInv, Fits, LinkFits
<1>9. ShownFits(current)'
  BY <1>1 DEF ConsoleInv, ShownFits
<1>10. ASSUME current # None PROVE current \in Session
  BY <1>10 DEF ConsoleInv, Fits
<1>11. PastShown'
  <2> SUFFICES ASSUME current # None
               PROVE /\ past \in 0 .. Len(rows'[current])
                     /\ \A i \in History(current, past)' : OnShow(i)
    BY <1>1 DEF PastShown, OnShow
  <2>1. past \in 0 .. Len(rows[current]) /\ \A i \in History(current, past) : OnShow(i)
    BY DEF ConsoleInv, PastShown
  <2>2. \A i \in 1 .. past : rows'[current][i] = rows[current][i]
    <3>1. CASE current = s
      BY <2>1, <3>1, <1>4
    <3>2. CASE current # s
      BY <3>2, <1>3, <1>10
    <3> QED
      BY <3>1, <3>2
  <2>3. History(current, past)' = History(current, past)
    BY <1>1, <2>2 DEF History
  <2> QED
    BY <2>1, <2>3, <1>3, <1>4, <1>10
<1>12. StreamShown'
  <2> SUFFICES ASSUME Watching', NEW i \in History(current, Len(rows[current]))', i > stream'.from
               PROVE OnShow(i)' \/ (\E k \in 1 .. Len(wire) : wire[k] = i)'
    BY DEF StreamShown
  <2>1. Watching /\ stream.of = current /\ stream.state = "up" /\ i > stream.from
    BY <1>1 DEF Watching
  <2>2. stream.of \in Session
    BY <2>1 DEF ConsoleInv, Fits, LinkFits
  <2>3. i \in 1 .. Len(rows'[current]) /\ rows'[current][i] = "message"
    BY <1>1 DEF History
  <2>4. CASE i \in 1 .. Len(rows[current])
    <3>1. rows[current][i] = "message"
      BY <2>1, <2>2, <2>3, <2>4, <1>3, <1>4
    <3>2. i \in History(current, Len(rows[current]))
      BY <2>4, <3>1 DEF History
    <3>3. OnShow(i) \/ \E k \in 1 .. Len(wire) : wire[k] = i
      BY <2>1, <3>2 DEF ConsoleInv, StreamShown
    <3>4. (\E k \in 1 .. Len(wire) : wire[k] = i) => (\E k \in 1 .. Len(wire) : wire[k] = i)'
      BY <1>6, <1>7
    <3> QED
      BY <1>1, <3>3, <3>4 DEF OnShow
  <2>5. CASE i \notin 1 .. Len(rows[current])
    <3>1. current = s /\ i = Len(rows'[s])
      BY <2>1, <2>2, <2>3, <2>5, <1>3, <1>4, <1>5
    <3> QED
      BY <2>1, <3>1, <1>7
  <2> QED
    BY <2>4, <2>5
<1> QED
  BY <1>8, <1>9, <1>11, <1>12 DEF ConsoleInv

-----------------------------------------------------------------------------
(* Loads.                                                                  *)

\* The end of a load starts a stream of its session, so no other one is up.
LEMMA LoadEnded ==
  ASSUME ConsoleInv, NEW t \in tasks, LoadEnds(t), UNCHANGED rows, listed' = listed
  PROVE  Fits' /\ StreamShown' /\ t.of \in Session
<1>1. t.of \in listed /\ t.of \in Session
  BY DEF LoadEnds, ConsoleInv, Fits, TaskFits
<1>2. LinkFits' /\ stream'.state # "up"
  BY <1>1, StartFits DEF LoadEnds, ConsoleInv
<1>3. Fits'
  BY <1>2 DEF LoadEnds, ConsoleInv, Fits, server
<1> QED
  BY <1>1, <1>2, <1>3 DEF StreamShown, Watching

LEMMA LoadedKeeps == ASSUME ConsoleInv, NEW t \in tasks, Loaded(t) PROVE ConsoleInv'
<1>1. UNCHANGED <<rows, listed, current, cards, draft>> /\ LoadEnds(t)
  BY DEF Loaded, LoadEnds, ShowHistory, server
<1>2. Fits' /\ StreamShown' /\ t.of \in Session
  BY <1>1, LoadEnded
<1>3. PICK n \in t.from .. Len(rows[t.of]) : ShowHistory(t, n)
  BY DEF Loaded
<1>4. /\ shown \subseteq shown'
      /\ \A x \in shown' : x \in shown \/ x.by = "load"
      /\ \A i \in History(t.of, n) : \E x \in shown' : x.of = t.of /\ x.row = i
  <2>1. /\ shown \subseteq shown'
        /\ \A x \in shown' : x \in shown \/ x.by = "load"
    BY <1>3 DEF ShowHistory
  <2>2. ASSUME NEW i \in History(t.of, n) PROVE [of |-> t.of, row |-> i, by |-> "load"] \in shown'
    BY <1>3, <2>2, Zenon DEF ShowHistory
  <2> QED
    BY <2>1, <2>2
<1>5. ShownFits(current)'
  BY <1>1, <1>4 DEF ConsoleInv, ShownFits
<1>6. PastShown'
  <2> SUFFICES ASSUME current # None
               PROVE /\ past' \in 0 .. Len(rows[current])
                     /\ \A i \in History(current, past') : \E x \in shown' : x.of = current /\ x.row = i
    BY <1>1 DEF PastShown, OnShow, History
  <2>1. CASE t.of = current /\ n \in 0 .. Len(rows[current])
    BY <1>3, <1>4, <2>1 DEF ShowHistory
  <2>2. CASE t.of # current
    BY <1>3, <1>4, <2>2 DEF ShowHistory, ConsoleInv, PastShown, OnShow
  <2>3. t.from \in Nat
    BY <1>1 DEF LoadEnds, ConsoleInv, Fits, TaskFits
  <2> QED
    BY <1>2, <2>1, <2>2, <2>3 DEF ConsoleInv, Fits
<1> QED
  BY <1>2, <1>5, <1>6 DEF ConsoleInv

LEMMA LoadFailsKeeps == ASSUME ConsoleInv, NEW t \in tasks, LoadFails(t) PROVE ConsoleInv'
<1>1. UNCHANGED <<rows, listed, current, shown, cards, draft, past>> /\ LoadEnds(t)
  BY DEF LoadFails, LoadEnds, server, screen
<1>2. Fits' /\ StreamShown'
  BY <1>1, LoadEnded
<1>3. ShownFits(current)' /\ PastShown'
  BY <1>1 DEF ConsoleInv, ShownFits, PastShown, OnShow, History
<1> QED
  BY <1>2, <1>3 DEF ConsoleInv

-----------------------------------------------------------------------------
(* The other tasks and the user.                                           *)

LEMMA GivesUpKeeps == ASSUME ConsoleInv, NEW t \in tasks, GivesUp(t) PROVE ConsoleInv'
<1>1. /\ tasks' = tasks \ {t} /\ t.kind # "load"
      /\ UNCHANGED <<rows, listed, current, stream, wire, shown, cards, draft, past, strayed>>
  BY DEF GivesUp, server, link, screen
<1>2. TaskFits(t, listed)
  BY DEF ConsoleInv, Fits
<1> QED
  BY <1>1, <1>2, TaskStep

LEMMA PostedKeeps == ASSUME ConsoleInv, NEW t \in tasks, Posted(t) PROVE ConsoleInv'
<1>1. /\ tasks' = tasks \ {t} /\ t.kind # "load"
      /\ UNCHANGED <<rows, listed, current, stream, wire, shown, cards, draft, past, strayed>>
  BY DEF Posted, server, link, screen
<1>2. TaskFits(t, listed)
  BY DEF ConsoleInv, Fits
<1> QED
  BY <1>1, <1>2, TaskStep

LEMMA RequestKeeps ==
  ASSUME ConsoleInv, NEW kind \in {"create", "delete"}, NEW s \in Session \cup {None},
         ClickRequest(kind, s)
  PROVE  ConsoleInv'
<1>1. /\ tasks' = tasks \cup {Task(kind, s)}
      /\ UNCHANGED <<rows, listed, current, stream, wire, shown, cards, draft, past, strayed>>
  BY DEF ClickRequest, server, link, screen
<1>2. TaskFits(Task(kind, s), listed) /\ Task(kind, s).kind # "load"
  BY DEF ClickRequest, OnScreen, Task, TaskFits
<1> QED
  BY <1>1, <1>2, TaskStep

LEMMA CreatedKeeps ==
  ASSUME ConsoleInv, NEW t \in tasks, NEW s \in Session, Created(t, s)
  PROVE  ConsoleInv'
<1>1. /\ listed' = listed \cup {s} /\ Select(s, tasks \ {t})
      /\ UNCHANGED <<rows, stream, wire>>
  BY DEF Created, link
<1>2. listed' \subseteq Session
  BY <1>1 DEF ConsoleInv, Fits
<1> QED
  BY <1>1, <1>2, SelectStep

LEMMA EndedKeeps == ASSUME ConsoleInv, NEW t \in tasks, Ended(t) PROVE ConsoleInv'
<1>1. /\ UNCHANGED <<rows, listed, stream, wire, strayed>> /\ t.kind # "load"
      /\ listed \subseteq Session /\ TaskFits(t, listed)
  BY DEF Ended, server, link, ConsoleInv, Fits
<1>2. ASSUME NEW first \in listed, Select(first, tasks \ {t}) PROVE ConsoleInv'
  BY <1>1, <1>2, SelectStep
<1>3. CASE tasks' = tasks \ {t} /\ UNCHANGED <<current, screen>>
  BY <1>1, <1>3, TaskStep DEF screen
<1> QED
  BY <1>2, <1>3 DEF Ended

LEMMA LoggedInKeeps == ASSUME ConsoleInv, NEW t \in tasks, LoggedIn(t) PROVE ConsoleInv'
<1>1. /\ UNCHANGED <<rows, listed, stream, wire, strayed>> /\ t.kind # "load"
      /\ listed \subseteq Session /\ TaskFits(t, listed)
  BY DEF LoggedIn, server, link, ConsoleInv, Fits
<1>2. ASSUME NEW first \in listed, Select(first, tasks \ {t}) PROVE ConsoleInv'
  BY <1>1, <1>2, SelectStep
<1>3. CASE tasks' = tasks \ {t} /\ UNCHANGED <<current, screen>>
  BY <1>1, <1>3, TaskStep DEF screen
<1> QED
  BY <1>2, <1>3 DEF LoggedIn

LEMMA LoginKeeps == ConsoleInv /\ Login => ConsoleInv'
<1> SUFFICES ASSUME ConsoleInv, Login PROVE ConsoleInv'
  OBVIOUS
<1>1. /\ tasks' = tasks \cup {FirstTask}
      /\ UNCHANGED <<rows, listed, current, stream, wire, shown, cards, draft, past, strayed>>
  BY DEF Login, server, link, screen
<1>2. TaskFits(FirstTask, listed) /\ FirstTask.kind # "load"
  BY DEF FirstTask, TaskFits
<1> QED
  BY <1>1, <1>2, TaskStep

LEMMA LogoutKeeps == ConsoleInv /\ Logout => ConsoleInv'
<1> SUFFICES ASSUME ConsoleInv, Logout PROVE ConsoleInv'
  OBVIOUS
<1>1. current' = None /\ stream' = NoStream /\ wire' = << >> /\ UNCHANGED <<rows, listed, tasks>>
  BY DEF Logout, server
<1>2. wire' \in Seq(Nat) /\ Len(wire') = 0
  BY <1>1
<1>3. LinkFits'
  BY <1>1, <1>2 DEF LinkFits, NoStream
<1>4. Fits'
  BY <1>1, <1>3 DEF ConsoleInv, Fits
<1>5. ShownFits(current)' /\ PastShown'
  BY <1>1 DEF Logout, ClearScreen, ShownFits, PastShown
<1>6. StreamShown'
  BY <1>1 DEF StreamShown, Watching, NoStream
<1> QED
  BY <1>4, <1>5, <1>6 DEF ConsoleInv

LEMMA ClickKeeps == ASSUME ConsoleInv, NEW s \in Session, ClickSession(s) PROVE ConsoleInv'
<1>1. Select(s, tasks) /\ UNCHANGED <<rows, listed, stream, wire>> /\ s \in listed
  BY DEF ClickSession, OnScreen, server, link
<1> QED
  BY <1>1, SelectStep DEF ConsoleInv, Fits

(* A prompt's bubble is of the session it goes to.                         *)
LEMMA PromptKeeps == ConsoleInv /\ SendPrompt => ConsoleInv'
<1> SUFFICES ASSUME ConsoleInv, SendPrompt PROVE ConsoleInv'
  OBVIOUS
<1> DEFINE bubble == [of |-> current, row |-> 0, by |-> "user"]
<1>1. /\ tasks' = tasks \cup {Task("prompt", current)} /\ shown' = shown \cup {bubble}
      /\ UNCHANGED <<rows, listed, current, stream, wire, cards, draft, past, strayed>>
  BY DEF SendPrompt, server, link
<1>2. TaskFits(Task("prompt", current), listed) /\ Task("prompt", current).kind # "load"
  BY DEF Task, TaskFits, ConsoleInv, Fits
<1>3. Fits'
  BY <1>1, <1>2 DEF ConsoleInv, Fits, LinkFits
<1>4. ShownFits(current)'
  BY <1>1 DEF ConsoleInv, ShownFits
<1>5. PastShown'
  BY <1>1 DEF ConsoleInv, PastShown, OnShow, History
<1>6. Watching' => Watching
  BY <1>1 DEF Watching
<1>7. StreamShown'
  BY <1>1, <1>6 DEF ConsoleInv, StreamShown, OnShow, History
<1> QED
  BY <1>3, <1>4, <1>5, <1>7 DEF ConsoleInv

(* The answer of a card goes to the session of the card: it is the one     *)
(* looked at.                                                              *)
LEMMA AnswerKeeps == ASSUME ConsoleInv, NEW q \in cards, AnswerCard(q) PROVE ConsoleInv'
<1>1. /\ tasks' = tasks \cup {Answer(q)} /\ cards' = cards \ {q}
      /\ UNCHANGED <<rows, listed, current, stream, wire, shown, draft, past, strayed>>
  BY DEF AnswerCard, server, link
<1>2. Answer(q).kind = "answer" /\ Answer(q).of = current /\ Answer(q).card = q
  BY DEF Answer
<1>3. TaskFits(Answer(q), listed)
  BY <1>2 DEF TaskFits, ConsoleInv, Fits, ShownFits
<1>4. Fits'
  BY <1>1, <1>3 DEF ConsoleInv, Fits, LinkFits
<1>5. ShownFits(current)' /\ PastShown'
  BY <1>1 DEF ConsoleInv, ShownFits, PastShown, OnShow, History
<1>6. Watching' => Watching
  BY <1>1 DEF Watching
<1>7. StreamShown'
  BY <1>1, <1>6 DEF ConsoleInv, StreamShown, OnShow, History
<1> QED
  BY <1>4, <1>5, <1>7 DEF ConsoleInv

-----------------------------------------------------------------------------
LEMMA ConsoleStart == Init => ConsoleInv
<1> SUFFICES ASSUME Init PROVE ConsoleInv
  OBVIOUS
<1>1. rows = [s \in Session |-> << >>] /\ << >> \in Seq(Kind)
  BY DEF Init
<1>2. rows \in [Session -> Seq(Kind)]
  BY <1>1
<1>3. LinkFits
  BY DEF Init, LinkFits, NoStream
<1>4. Fits
  BY <1>2, <1>3, ConsoleAssumption DEF Init, Fits, TaskFits, FirstTask
<1> QED
  BY <1>4 DEF Init, ConsoleInv, ShownFits, PastShown, StreamShown, Watching, NoStream

LEMMA ConsoleStep == ConsoleInv /\ [Next]_vars => ConsoleInv'
<1> SUFFICES ASSUME ConsoleInv, [Next]_vars PROVE ConsoleInv'
  OBVIOUS
<1>1. CASE UserStep
  <2>1. ASSUME NEW s \in Session, ClickRequest("delete", s) PROVE ConsoleInv'
    BY <2>1, RequestKeeps
  <2>2. ASSUME ClickRequest("create", None) PROVE ConsoleInv'
    BY <2>2, RequestKeeps
  <2> QED
    BY <1>1, <2>1, <2>2, LoginKeeps, LogoutKeeps, PromptKeeps, AnswerKeeps, ClickKeeps DEF UserStep
<1>2. CASE ScriptStep
  BY <1>2, ConnectedKeeps, ReadFrameKeeps, TimerKeeps, LoadedKeeps, EndedKeeps, LoggedInKeeps,
     PostedKeeps, CreatedKeeps DEF ScriptStep
<1>3. CASE FaultStep
  BY <1>3, BreaksKeeps, ClosesKeeps, LoadFailsKeeps, GivesUpKeeps DEF FaultStep
<1>4. CASE \E s \in Session, k \in Kind : AppendRow(s, k)
  BY <1>4, AppendKeeps
<1>5. CASE UNCHANGED vars
  BY <1>5, Unmoved DEF vars
<1> QED
  BY <1>1, <1>2, <1>3, <1>4, <1>5 DEF Next

LEMMA ConsoleSafe == ConsoleInv => ConsoleTypeOK /\ ScreenIsOfCurrent /\ MissingOnlyInGap
<1> SUFFICES ASSUME ConsoleInv PROVE ConsoleTypeOK /\ ScreenIsOfCurrent /\ MissingOnlyInGap
  OBVIOUS
<1>1. ConsoleTypeOK
  <2>1. ToSet(wire) \subseteq (IF stream.of = None THEN {} ELSE 1 .. Len(rows[stream.of]))
    <3>1. \A i \in ToSet(wire) : wire # << >> /\ \E k \in 1 .. Len(wire) : wire[k] = i
      BY DEF ToSet, ConsoleInv, Fits, LinkFits
    <3>2. wire # << >> => stream.of \in Session
      BY DEF ConsoleInv, Fits, LinkFits
    <3> QED
      BY <3>1, <3>2, ConsoleAssumption DEF ConsoleInv, Fits, LinkFits
  <2> QED
    BY <2>1 DEF ConsoleTypeOK, ConsoleInv, Fits, LinkFits, ShownFits, TaskFits
<1>2. ScreenIsOfCurrent
  BY DEF ScreenIsOfCurrent, ConsoleInv, Fits, TaskFits, ShownFits
<1>3. MissingOnlyInGap
  <2> SUFFICES ASSUME stream.state = "up", stream.of = current, wire = << >>, ~strayed,
                      \A t \in tasks : t.kind # "load",
                      NEW i \in History(current, Len(rows[current])),
                      i <= past \/ i > stream.from
               PROVE OnShow(i)
    BY DEF MissingOnlyInGap, OnShow
  <2>1. current # None
    BY ConsoleAssumption DEF ConsoleInv, Fits, LinkFits
  <2>2. CASE i <= past
    <3>1. i \in History(current, past)
      BY <2>1, <2>2 DEF History, ConsoleInv, PastShown
    <3> QED
      BY <2>1, <3>1 DEF ConsoleInv, PastShown
  <2>3. CASE i > stream.from
    <3>1. Watching
      BY DEF Watching
    <3>2. ~ \E k \in 1 .. Len(wire) : wire[k] = i
      OBVIOUS
    <3> QED
      BY <2>3, <3>1, <3>2 DEF ConsoleInv, StreamShown
  <2> QED
    BY <2>2, <2>3
<1> QED
  BY <1>1, <1>2, <1>3

(* Rows, connection, wire and tasks have their types, and everything is of
   a session that exists (web-console.ts:1263 onward).                     *)
THEOREM ConsoleTyped == ConsoleSpec => []ConsoleTypeOK
BY ConsoleStart, ConsoleStep, ConsoleSafe, PTL DEF ConsoleSpec

(* An old stream, a late answer or a timer never puts anything of another
   session on the screen, except a history that came late, and an answer
   goes to the session that asked (web-console.ts:1810, 1587, 1731).       *)
THEOREM ScreenFitsSession == ConsoleSpec => []ScreenIsOfCurrent
BY ConsoleStart, ConsoleStep, ConsoleSafe, PTL DEF ConsoleSpec

(* Of the messages of a session only those journaled between its history
   and its stream can be missing, unless one load overtook another
   (web-console.ts:1588-1589).                                             *)
THEOREM OnlyGapIsMissing == ConsoleSpec => []MissingOnlyInGap
BY ConsoleStart, ConsoleStep, ConsoleSafe, PTL DEF ConsoleSpec
=============================================================================
