------------------------------ MODULE Console ------------------------------
(***************************************************************************)
(* One tab of the web console (web-console.ts, the script from line 1263). *)
(* The script is one thread: what it does between two awaits is one step,  *)
(* and every await of an answer is a task whose answer is a later step, so *)
(* that clicks, stream events, timers and answers interleave as they do in *)
(* a browser.  What it shows is abstracted to which rows of which session  *)
(* are on the screen and whether history or stream put them there.         *)
(***************************************************************************)
EXTENDS Integers, Sequences, SequencesExt, FiniteSets

CONSTANTS
    Session,
    Existing,     \* the sessions of the user before the tab opens
    None,
    MaxEvents,    \* bound: rows, of all sessions
    MaxClicks,    \* bound: what the user does
    MaxFaults     \* bound: requests and connections that fail

\* The event types handleServerEvent tells apart on the screen: the two deltas
\* are one, and "end" stands for session.idle and worker.execution.error.
Kind == {"delta", "question", "resolved", "message", "end"}

ASSUME ConsoleAssumption ==
    /\ None \notin Session
    /\ Existing \subseteq Session
    /\ {MaxEvents, MaxClicks, MaxFaults} \subseteq Nat

VARIABLES
    rows,      \* session_events: per session, the kinds of its rows
    listed,    \* GET /sessions; the script's copy, sessions, may be in any order
    token,     \* whether the tab is logged in
    current,   \* currentSessionId
    tasks,     \* the answers the script waits for; two alike are one
    stream,    \* eventSourceController's connection
    wire,      \* rows sent on it and not read
    cursor,    \* whether lastEventID is set
    timers,    \* retry timers, by the session they are for
    shown,     \* messages, tool cards and the user's own bubbles on the screen
    cards,     \* question cards on the screen that can still be answered
    asked,     \* displayedQuestionIDs
    draft,     \* the session whose deltas the draft bubble holds, or None
    past,      \* how many rows the history on the screen was made of
    strayed,   \* history: the last load ended in another session, or after a logout
    clicks, faults

server == <<rows, listed>>
screen == <<shown, cards, draft, past>>
link == <<stream, wire, timers>>
vars == <<rows, listed, token, current, tasks, stream, wire, cursor,
          timers, shown, cards, asked, draft, past, strayed, clicks, faults>>

NoStream == [of |-> None, state |-> "none", from |-> 0]

\* A stream, a task: what a call leaves running.  from is the newest row the
\* server had handled when a request was sent.
Asked(s) == [of |-> s, state |-> "asked", from |-> 0]
Task(kind, s) ==
    [kind |-> kind, of |-> s, sent |-> token,
     from |-> IF s = None THEN 0 ELSE Len(rows[s])]

\* doLogin, and the start of a tab that has a token: refreshAll, then the first.
FirstTask == [kind |-> "first", of |-> None, sent |-> TRUE, from |-> 0]

Init ==
    /\ rows = [s \in Session |-> << >>] /\ listed = Existing
    /\ token = TRUE /\ current = None /\ tasks = {FirstTask}
    /\ stream = NoStream /\ wire = << >> /\ cursor = FALSE
    /\ timers = [s \in Session |-> 0]
    /\ shown = {} /\ cards = {} /\ asked = {} /\ draft = None /\ past = 0
    /\ strayed = FALSE /\ clicks = 0 /\ faults = 0

Click == clicks < MaxClicks /\ clicks' = clicks + 1
Fault == faults < MaxFaults /\ faults' = faults + 1

-----------------------------------------------------------------------------
(* startStream and stopStream.                                             *)

KeepWire(s) ==                                            \* mutant: frames of the old one
    /\ stream' = IF token THEN Asked(s) ELSE NoStream
    /\ UNCHANGED wire

\* stopStream aborts the connection; without a session or a token that is all.
StartStream(s) ==
    /\ stream' = IF token THEN Asked(s) ELSE NoStream
    /\ wire' = << >>

\* The server subscribes the connection and replays.  After any cursor of the
\* console, an event id, there is nothing to replay: see Replay of EventStream.
Connected ==
    /\ stream.state = "asked"
    /\ LET n == Len(rows[stream.of])
       IN /\ stream' = [stream EXCEPT !.state = "up", !.from = IF cursor THEN n ELSE 0]
          /\ wire' = IF cursor THEN << >> ELSE [i \in 1 .. n |-> i]
    /\ UNCHANGED <<server, token, current, tasks, cursor, timers, screen,
                   asked, strayed, clicks, faults>>

NoRetry(s) == UNCHANGED timers                            \* mutant: forgets to retry
Retry(s) == timers' = [timers EXCEPT ![s] = @ + 1]

\* fetch or read throws: a timer of two seconds for the session of the stream.
Breaks ==
    /\ stream.state \in {"asked", "up"} /\ Fault
    /\ stream' = [stream EXCEPT !.state = "over"]
    /\ wire' = << >>
    /\ Retry(stream.of)
    /\ UNCHANGED <<server, token, current, tasks, cursor, screen, asked, strayed, clicks>>

\* The server closes the response: chunk.done, and no timer.
Closes ==
    /\ stream.state = "up" /\ wire = << >> /\ Fault
    /\ stream' = [stream EXCEPT !.state = "closed"]
    /\ UNCHANGED <<server, token, current, tasks, wire, cursor, timers, screen,
                   asked, strayed, clicks>>

TimerFires(s) ==
    /\ timers[s] > 0
    /\ timers' = [timers EXCEPT ![s] = @ - 1]
    /\ IF current = s THEN StartStream(s) ELSE UNCHANGED <<stream, wire>>
    /\ UNCHANGED <<server, token, current, tasks, cursor, screen, asked, strayed,
                   clicks, faults>>

-----------------------------------------------------------------------------
(* handleServerEvent.                                                      *)

Item(i, by) == [of |-> stream.of, row |-> i, by |-> by]

\* A resolved question is the newest one before it; the master has one at a time.
QuestionOf(s, i) == LET qs == {j \in 1 .. i : rows[s][j] = "question"}
                    IN CHOOSE j \in qs : \A k \in qs : k <= j

AnyEvent(s) == TRUE                                       \* mutant: no filter
OfCurrent(s) == s = current

\* getOrDraftAssistantBubble: deltas go to the draft on the screen or to a new one.
DraftBubble(kind) ==
    draft' = CASE kind = "delta" -> stream.of
               [] kind = "resolved" -> draft
               [] OTHER -> None

\* renderQuestionCard: a question that was displayed once is not again.
QuestionCard(q) ==
    /\ cards' = IF q \in asked THEN cards ELSE cards \cup {q}
    /\ asked' = asked \cup {q}

Handle(i) ==
    LET kind == rows[stream.of][i] IN
    /\ DraftBubble(kind)
    /\ shown' = IF kind = "message" THEN shown \cup {Item(i, "event")} ELSE shown
    /\ \/ kind = "question" /\ QuestionCard(<<stream.of, i>>)
       \/ kind = "resolved" /\ cards' = cards \ {<<stream.of, QuestionOf(stream.of, i)>>} /\ UNCHANGED asked
       \/ kind \notin {"question", "resolved"} /\ UNCHANGED <<cards, asked>>

\* A frame is read: the cursor moves whether or not its event is for the screen.
ReadFrame ==
    /\ wire # << >>
    /\ wire' = Tail(wire)
    /\ cursor' = TRUE
    /\ IF OfCurrent(stream.of) THEN Handle(Head(wire))
                               ELSE UNCHANGED <<draft, shown, cards, asked>>
    /\ UNCHANGED <<server, token, current, tasks, stream, timers, past, strayed, clicks, faults>>

\* The master appends a row, and sends it to a connection that is up.
AppendRow(s, kind) ==
    /\ s \in listed
    /\ FoldSet(LAMBDA t, n : n + Len(rows[t]), 0, Session) < MaxEvents
    /\ kind = "resolved" => "question" \in ToSet(rows[s])
    /\ rows' = [rows EXCEPT ![s] = Append(@, kind)]
    /\ wire' = IF stream.of = s /\ stream.state = "up" THEN Append(wire, Len(rows'[s])) ELSE wire
    /\ UNCHANGED <<listed, token, current, tasks, stream, cursor, timers, screen,
                   asked, strayed, clicks, faults>>

-----------------------------------------------------------------------------
(* selectSession and loadMessages.                                         *)

ClearScreen == shown' = {} /\ cards' = {} /\ draft' = None /\ past' = 0

\* The old connection stays until the history of the new session has come.
Select(s, others) ==
    /\ current' = s
    /\ ClearScreen
    /\ tasks' = others \cup {Task("load", s)}

\* renderSessionList: what can be clicked; nothing before the first refresh.
OnScreen(s) == token /\ s \in listed /\ \A t \in tasks : t.kind # "first"

ClickSession(s) ==
    /\ OnScreen(s) /\ Click
    /\ Select(s, tasks)
    /\ UNCHANGED <<server, token, link, cursor, asked, strayed, faults>>

History(s, n) == {i \in 1 .. n : rows[s][i] = "message"}

LateClear(t, n) ==                                        \* mutant: clears after the await
    /\ shown' = {[of |-> t.of, row |-> i, by |-> "load"] : i \in History(t.of, n)}
    /\ past' = n
    /\ UNCHANGED <<cards, draft>>

\* The history, of the rows there were when the server answered, goes to
\* whatever container is on the screen.
ShowHistory(t, n) ==
    /\ shown' = shown \cup {[of |-> t.of, row |-> i, by |-> "load"] : i \in History(t.of, n)}
    /\ past' = IF t.of = current THEN n ELSE past
    /\ UNCHANGED <<cards, draft>>

LoadEnds(t) ==
    /\ t \in tasks /\ t.kind = "load"
    /\ StartStream(t.of)
    /\ tasks' = tasks \ {t}
    /\ strayed' = (t.of # current \/ ~token)
    /\ UNCHANGED <<server, token, current, cursor, timers, asked, clicks>>

Loaded(t) ==
    /\ LoadEnds(t)
    /\ t.sent /\ \E n \in t.from .. Len(rows[t.of]) : ShowHistory(t, n)
    /\ UNCHANGED faults

\* A request fails, or was never sent for want of a token.
Fails(t) == IF t.sent THEN Fault ELSE UNCHANGED faults

\* loadMessages catches the error: the stream starts all the same.
LoadFails(t) == LoadEnds(t) /\ Fails(t) /\ UNCHANGED screen

-----------------------------------------------------------------------------
(* The list of sessions, creating and deleting, login and logout.          *)

\* The request of a click fails: a toast, no more.
GivesUp(t) ==
    /\ t \in tasks /\ t.kind \in {"create", "delete"} /\ Fault
    /\ tasks' = tasks \ {t}
    /\ UNCHANGED <<server, token, current, link, cursor, screen, asked, strayed, clicks>>

ClickRequest(kind, s) ==
    /\ token /\ Click
    /\ IF kind = "create" THEN s = None ELSE OnScreen(s)
    /\ tasks' = tasks \cup {Task(kind, s)}
    /\ UNCHANGED <<server, token, current, link, cursor, screen, asked, strayed, faults>>

\* The new session is selected, whatever became of the refresh before.
Created(t, s) ==
    /\ t \in tasks /\ t.kind = "create"
    /\ s \notin listed
    /\ listed' = listed \cup {s}
    /\ Select(s, tasks \ {t})
    /\ UNCHANGED <<rows, token, link, cursor, asked, strayed, clicks, faults>>

\* The tab goes on to the first of its list when the current session was ended.
\* GET /sessions lists ended sessions too, so there is one.
Ended(t) ==
    /\ t \in tasks /\ t.kind = "delete"
    /\ IF current = t.of
       THEN \E first \in listed : Select(first, tasks \ {t})
       ELSE tasks' = tasks \ {t} /\ UNCHANGED <<current, screen>>
    /\ UNCHANGED <<server, token, link, cursor, asked, strayed, clicks, faults>>

Login ==
    /\ ~token /\ Click
    /\ token' = TRUE
    /\ tasks' = tasks \cup {FirstTask}
    /\ UNCHANGED <<server, current, link, cursor, screen, asked, strayed, faults>>

LoggedIn(t) ==
    /\ t \in tasks /\ t.kind = "first"
    /\ \/ /\ \E first \in listed : Select(first, tasks \ {t})
          /\ UNCHANGED faults
       \/ /\ listed # {} => Fault
          /\ listed = {} => UNCHANGED faults
          /\ tasks' = tasks \ {t} /\ UNCHANGED <<current, screen>>
    /\ UNCHANGED <<server, token, link, cursor, asked, strayed, clicks>>

Logout ==
    /\ token /\ Click
    /\ token' = FALSE /\ current' = None
    /\ stream' = NoStream /\ wire' = << >>
    /\ ClearScreen
    /\ UNCHANGED <<server, tasks, cursor, timers, asked, strayed, faults>>

-----------------------------------------------------------------------------
(* Prompts and answers.                                                    *)

\* isSending is global: one prompt at a time, whatever session is selected.
SendPrompt ==
    /\ current # None /\ Click
    /\ \A t \in tasks : t.kind # "prompt"
    /\ shown' = shown \cup {[of |-> current, row |-> 0, by |-> "user"]}
    /\ tasks' = tasks \cup {Task("prompt", current)}
    /\ UNCHANGED <<server, token, current, link, cursor, cards, draft, past, asked, strayed, faults>>

Answer(q) == [kind |-> "answer", of |-> current, sent |-> token, from |-> 0, card |-> q]

\* The button of a card: the answer goes to the session selected now, and the
\* button stays disabled whatever becomes of it.
AnswerCard(q) ==
    /\ q \in cards /\ Click
    /\ cards' = cards \ {q}
    /\ tasks' = tasks \cup {Answer(q)}
    /\ UNCHANGED <<server, token, current, link, cursor, shown, draft, past, asked, strayed, faults>>

\* Accepted or refused, a toast or a label is all that follows.
Posted(t) ==
    /\ t \in tasks /\ t.kind \in {"prompt", "answer"}
    /\ tasks' = tasks \ {t}
    /\ UNCHANGED <<server, token, current, link, cursor, screen, asked, strayed, clicks, faults>>

-----------------------------------------------------------------------------
UserStep ==
    \/ Login \/ Logout \/ SendPrompt
    \/ \E q \in cards : AnswerCard(q)
    \/ \E s \in Session : ClickSession(s) \/ ClickRequest("delete", s)
    \/ ClickRequest("create", None)

ScriptStep ==
    \/ Connected \/ ReadFrame
    \/ \E s \in Session : TimerFires(s)
    \/ \E t \in tasks : Loaded(t) \/ Ended(t) \/ LoggedIn(t) \/ Posted(t) \/ \E s \in Session : Created(t, s)

FaultStep == Breaks \/ Closes \/ \E t \in tasks : LoadFails(t) \/ GivesUp(t)

Next == UserStep \/ ScriptStep \/ FaultStep \/ \E s \in Session, k \in Kind : AppendRow(s, k)

\* Requests are answered, timers fire, and what was sent is read.
ConsoleSpec == Init /\ [][Next]_vars
FairConsole ==
    /\ ConsoleSpec
    /\ WF_vars(Connected) /\ WF_vars(ReadFrame)
    /\ \A s \in Session : WF_vars(TimerFires(s))
    /\ WF_vars(\E t \in tasks : Loaded(t) \/ LoadFails(t))
    /\ WF_vars(\E t \in tasks : LoggedIn(t))

-----------------------------------------------------------------------------
ConsoleTypeOK ==
    /\ current \in Session \cup {None} /\ draft \in Session \cup {None}
    /\ stream.of \in Session \cup {None}
    /\ stream.state \in {"none", "asked", "up", "over", "closed"}
    /\ ToSet(wire) \subseteq (IF stream.of = None THEN {} ELSE 1 .. Len(rows[stream.of]))
    /\ \A t \in tasks : t.of \in listed \cup {None}

\* web-console.ts:1810, 1587: an old stream runs on while the history of
\* another session is awaited, and still: what a stream puts on the screen, the
\* draft, the questions and the user's own bubbles are of the session the user
\* looks at, and the answer to a card goes to the session that asks (1731).
ScreenIsOfCurrent ==
    /\ \A x \in shown : x.by # "load" => x.of = current
    /\ \A t \in tasks : t.kind = "answer" => t.of = t.card[1]
    /\ \A c \in cards : c[1] = current
    /\ draft \in {None, current}

\* web-console.ts:1588-1589: once history and stream of a session have come, and
\* no load overtook another, only rows that fell between the two are missing.
MissingOnlyInGap ==
    (/\ stream.state = "up" /\ stream.of = current /\ wire = << >>
     /\ ~strayed /\ \A t \in tasks : t.kind # "load")
    => \A i \in History(current, Len(rows[current])) :
         i <= past \/ i > stream.from => \E x \in shown : x.of = current /\ x.row = i

\* web-console.ts:1803: the session the user looks at gets its stream, over
\* connections that fail, unless a load of another session came in between or
\* the server closed the stream.
StreamReturns ==
    \A s \in Session :
        (current = s /\ token) ~>
            \/ current # s \/ ~token \/ strayed
            \/ stream.of = s /\ stream.state \in {"up", "closed"}
=============================================================================
