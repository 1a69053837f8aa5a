---------------------------- MODULE EventStream ----------------------------
(***************************************************************************)
(* The event stream of one session: rows of session_events appended by the *)
(* master (event-journal.ts), served over SSE as a replay followed by live *)
(* events (server.ts, stream), and read by clients whose connection breaks *)
(* and who connect again.                                                  *)
(*                                                                         *)
(* A row is its seq.  subscribe, the replay query and the sending of its   *)
(* rows run without waiting for anything outside the process (bun:sqlite   *)
(* answers at once), so a connection starts in one step.                   *)
(***************************************************************************)
EXTENDS Integers, Sequences, SequencesExt

CONSTANTS
    Client,
    Resume,      \* how a client connects again, by Client; see ResumeKind
    MaxEvents,   \* bound: events of the session
    MaxDrops     \* bound: broken connections

\* "seq": ?after=N with the seq of the last event, the route of the documents;
\* "id": Last-Event-ID with its id, as the web console and every EventSource do;
\* "never": stream() of client.ts, which returns when its connection ends.
ResumeKind == {"seq", "id", "never"}

ASSUME StreamAssumption ==
    /\ Resume \in [Client -> ResumeKind]
    /\ {MaxEvents, MaxDrops} \subseteq Nat

VARIABLES
    rows,     \* the seq of the newest row, 0 for none
    conn,     \* "new", "up", or "down"
    sent,     \* what the server has sent on the connection
    wire,     \* sent and not read yet, in order
    seen,     \* what the client has read, over all its connections
    drops

streamVars == <<rows, conn, sent, wire, seen, drops>>

Init ==
    /\ rows = 0
    /\ conn = [c \in Client |-> "new"]
    /\ sent = [c \in Client |-> {}]
    /\ wire = [c \in Client |-> << >>]
    /\ seen = [c \in Client |-> << >>]
    /\ drops = 0

\* The cursor a client sends: 0 stands for no cursor.  seen never shrinks.
Cursor(c) == IF seen[c] = << >> THEN 0 ELSE Last(seen[c])

\* The rows after a cursor, by seq.
RowsAfter(n) == [k \in 1 .. rows - n |-> n + k]

AfterOrEqual(c) == RowsAfter(IF Cursor(c) = 0 THEN 0 ELSE Cursor(c) - 1)   \* mutant: gte for gt

\* replay(after): seq > Number(after).  Number("evt_...") is NaN, which SQLite
\* stores as NULL, and no seq is greater than NULL.
Replay(c) ==
    IF Resume[c] = "id" /\ Cursor(c) # 0 THEN << >> ELSE RowsAfter(Cursor(c))

Connect(c) ==
    /\ conn[c] = "new" \/ (conn[c] = "down" /\ Resume[c] # "never")
    /\ conn' = [conn EXCEPT ![c] = "up"]
    /\ sent' = [sent EXCEPT ![c] = ToSet(Replay(c))]
    /\ wire' = [wire EXCEPT ![c] = Replay(c)]
    /\ UNCHANGED <<rows, seen, drops>>

\* append calls every subscriber; each one drops what it has sent already.
Listens(c) == conn[c] = "up" /\ rows + 1 \notin sent[c]

AppendEvent ==
    /\ rows < MaxEvents
    /\ rows' = rows + 1
    /\ sent' = [c \in Client |-> IF Listens(c) THEN sent[c] \cup {rows + 1} ELSE sent[c]]
    /\ wire' = [c \in Client |-> IF Listens(c) THEN Append(wire[c], rows + 1) ELSE wire[c]]
    /\ UNCHANGED <<conn, seen, drops>>

Read(c) ==
    /\ wire[c] # << >>
    /\ seen' = [seen EXCEPT ![c] = Append(@, Head(wire[c]))]
    /\ wire' = [wire EXCEPT ![c] = Tail(@)]
    /\ UNCHANGED <<rows, conn, sent, drops>>

\* The connection breaks, or the master restarts: what was under way is gone.
Drop(c) ==
    /\ conn[c] = "up"
    /\ drops < MaxDrops
    /\ drops' = drops + 1
    /\ conn' = [conn EXCEPT ![c] = "down"]
    /\ sent' = [sent EXCEPT ![c] = {}]
    /\ wire' = [wire EXCEPT ![c] = << >>]
    /\ UNCHANGED <<rows, seen>>

Next == AppendEvent \/ \E c \in Client : Connect(c) \/ Read(c) \/ Drop(c)

StreamSpec == Init /\ [][Next]_streamVars

-----------------------------------------------------------------------------
\* README.md:81: over all its connections a client reads events once and in
\* order, and it misses none, unless it resumes by id.
NoGapNoRepeat ==
    \A c \in Client : \A i \in DOMAIN seen[c] :
        /\ \A j \in 1 .. i - 1 : seen[c][j] < seen[c][i]
        /\ Resume[c] # "id" => seen[c][i] = i

\* test/web-console.test.ts:18: a stream that broke goes on with the event after
\* the last one consumed, also for the console, which resumes by id.
ResumesFromLast ==
    \A c \in Client : \A i \in DOMAIN seen[c] : seen[c][i] = i
=============================================================================
