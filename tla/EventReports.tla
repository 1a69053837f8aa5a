---------------------------- MODULE EventReports ----------------------------
(***************************************************************************)
(* How the events of a turn travel from a worker into the journal: the     *)
(* worker's job queue of one session (session-actor.ts), the publications  *)
(* of a job (index.ts), the numbering of events (stream-hub.ts), the       *)
(* reports with their retries (event-reporter.ts) and the ingestion by the *)
(* master, keyed by source id (event-journal.ts).                          *)
(*                                                                         *)
(* One session on one worker that keeps its lease: a restart is shorter    *)
(* than the heartbeat timeout.  TurnDispatch has the leases.               *)
(***************************************************************************)
EXTENDS Integers, Sequences, FiniteSets

CONSTANTS
    Turn,         \* turn ids
    RetryCount,   \* attempts of the reporter, 3 in the code
    Snapshotter,  \* whether the worker was started with one
    MaxLost,      \* bound: attempts without an answer
    MaxRestarts,  \* bound: restarts of the process
    MaxDeltas,    \* bound: deltas of the session
    MaxJobs       \* bound: jobs of one process

ASSUME ReportAssumption ==
    /\ RetryCount \in Nat \ {0}
    /\ Snapshotter \in BOOLEAN
    /\ {MaxLost, MaxRestarts, MaxDeltas, MaxJobs} \subseteq Nat

VARIABLES
    tstatus,    \* turns.status, "none" before the row
    journal,    \* session_events of the session
    jobs,       \* what the actor has queued in this process, oldest first
    tail,       \* tails: the job a new one waits for, 0 for none
    nextID,     \* the hub's next event id
    registered, \* reportEvent is the reporter; before, it does nothing
    open,       \* reports the worker waits for, with the attempt they are at
    late,       \* requests no worker waits for, which may still arrive or not
    published,  \* history: every event the hub has numbered
    answered,   \* history: events whose report was answered 202
    restarts,
    lost

procVars   == <<jobs, tail, nextID, registered, open>>
masterVars == <<tstatus, journal>>
countVars  == <<restarts, lost>>
vars == <<procVars, masterVars, late, published, answered, countVars>>

\* Who publishes: a job itself, the reader of its event stream, or the
\* handler of its rejection, which runs outside the queue.
Publisher == {"job", "reader", "catch"}

\* executor.snapshot returns one, or nothing, or throws.
Snapshot == IF Snapshotter THEN {<< >>, <<"snapshot">>, <<"snapshot.error">>} ELSE {<< >>}

\* What a job publishes after the executor returned: its result, the
\* announcement of a snapshot or the error of the export, and its end.  A
\* result is a reply, nothing (a failed step) or a question without messages.
Script == UNION {
    {<<"message">> \o snapshot \o <<"session.idle">>,
     snapshot \o <<"session.idle">>,
     <<"question">> \o snapshot \o <<"waiting">>} : snapshot \in Snapshot}

JobStep == {"queued", "opening", "executing", "closing", "done"}

\* The master already has the worker's row; the worker has not read the answer.
Init ==
    /\ tstatus = [t \in Turn |-> "none"]
    /\ journal = << >>
    /\ jobs = << >> /\ tail = 0 /\ nextID = 1 /\ registered = FALSE /\ open = {}
    /\ late = {} /\ published = {} /\ answered = {}
    /\ restarts = 0 /\ lost = 0

Active(t) == tstatus[t] = "active"
Rows == {journal[i] : i \in 1 .. Len(journal)}

-----------------------------------------------------------------------------
(* The master.                                                             *)

\* append: the first event of a source id wins.
AppendRow(e) ==
    journal' = IF \E r \in Rows : r.src = e.src THEN journal ELSE Append(journal, e)

\* complete or fail, whether the row is new or not.
Settle(e) ==
    tstatus' =
        IF ~Active(e.turn) THEN tstatus
        ELSE CASE e.kind = "session.idle" -> [tstatus EXCEPT ![e.turn] = "completed"]
               [] e.kind = "error"        -> [tstatus EXCEPT ![e.turn] = "failed"]
               [] OTHER                   -> tstatus

NewRowsOnly(e) ==               \* mutant: only a new row settles the turn
    /\ AppendRow(e)
    /\ IF \E r \in Rows : r.src = e.src THEN UNCHANGED tstatus ELSE Settle(e)

Ingest(e) == AppendRow(e) /\ Settle(e)

\* The master dies between the two writes.
HalfIngested(e) == AppendRow(e) /\ UNCHANGED tstatus

-----------------------------------------------------------------------------
(* The actor: every job of the session waits for the one before it.        *)

NoTail == 0                     \* mutant: the tail is not moved on
NewTail == Len(jobs) + 1

Enqueue(t, at, todo) ==
    /\ Len(jobs) < MaxJobs
    /\ jobs' = Append(jobs, [turn |-> t, prev |-> tail, at |-> at, next |-> todo, reader |-> "idle"])
    /\ tail' = NewTail

\* A prompt reaches the worker; the master admits one active turn.
Prompt(t) ==
    /\ tstatus[t] = "none"
    /\ \A r \in Turn : ~Active(r)
    /\ tstatus' = [tstatus EXCEPT ![t] = "active"]
    /\ Enqueue(t, "queued", << >>)
    /\ UNCHANGED <<journal, nextID, registered, open, late, published, answered, countVars>>

\* A user who saw a question answers it, more than once if they like.
Reply(t) ==
    /\ Active(t)
    /\ \E r \in Rows : r.turn = t /\ r.kind = "question"
    /\ Enqueue(t, "queued", <<"resolved">>)
    /\ UNCHANGED <<masterVars, nextID, registered, open, late, published, answered, countVars>>

Turned(j) == jobs[j].prev # 0 => jobs[jobs[j].prev].at = "done"

\* A prompt job executes at once; a reply publishes "resolved" before.
Begin(j) ==
    /\ jobs[j].at = "queued"
    /\ Turned(j)
    /\ jobs' = [jobs EXCEPT ![j].at = IF jobs[j].next = << >> THEN "executing" ELSE "opening"]
    /\ UNCHANGED <<tail, nextID, registered, open, late, published, answered, masterVars, countVars>>

-----------------------------------------------------------------------------
(* Publishing: the hub numbers the event, then the reporter sends it.      *)

Numbered(by, j, kind) ==
    [life |-> restarts, src |-> nextID, turn |-> jobs[j].turn, kind |-> kind, by |-> by, job |-> j,
     sent |-> registered]

Report(e) == [event |-> e, attempt |-> 1]

SameID(e) ==                    \* mutant: the counter stays
    /\ published' = published \cup {e}
    /\ open' = IF registered THEN open \cup {Report(e)} ELSE open
    /\ UNCHANGED <<nextID, registered>>

\* Before registration the event is numbered and nothing is sent: whoever
\* publishes goes on as if it had been answered.
StartReport(e) ==
    /\ nextID' = nextID + 1
    /\ published' = published \cup {e}
    /\ open' = IF registered THEN open \cup {Report(e)} ELSE open
    /\ UNCHANGED registered

\* The answer of the registration gives the worker its token.
Register ==
    /\ ~registered
    /\ registered' = TRUE
    /\ UNCHANGED <<jobs, tail, nextID, open, late, published, answered, masterVars, countVars>>

Awaits(j, by) == \E r \in open : r.event.job = j /\ r.event.by = by

NeverAwaits(j) ==               \* mutant: publish is not awaited
    /\ jobs[j].at \in {"opening", "closing"} /\ jobs[j].next # << >>
    /\ StartReport(Numbered("job", j, Head(jobs[j].next)))
    /\ jobs' = [jobs EXCEPT ![j].next = Tail(jobs[j].next)]
    /\ UNCHANGED <<tail, late, answered, masterVars, countVars>>

Publish(j) ==
    /\ jobs[j].at \in {"opening", "closing"}
    /\ jobs[j].next # << >>
    /\ ~Awaits(j, "job")
    /\ StartReport(Numbered("job", j, Head(jobs[j].next)))
    /\ jobs' = [jobs EXCEPT ![j].next = Tail(jobs[j].next)]
    /\ UNCHANGED <<tail, late, answered, masterVars, countVars>>

Continue(j) ==
    /\ jobs[j].at \in {"opening", "closing"}
    /\ jobs[j].next = << >>
    /\ ~Awaits(j, "job")
    /\ jobs' = [jobs EXCEPT ![j].at = IF @ = "opening" THEN "executing" ELSE "done"]
    /\ UNCHANGED <<tail, nextID, registered, open, late, published, answered, masterVars, countVars>>

\* The executor's stream reader hands over one delta at a time, and what it
\* had buffered even after the job is over.
Delta(j) ==
    /\ \/ jobs[j].at = "executing" /\ jobs[j].reader # "stopped"
       \/ jobs[j].reader = "busy"
    /\ Cardinality({e \in published : e.by = "reader"}) < MaxDeltas
    /\ ~Awaits(j, "reader")
    /\ StartReport(Numbered("reader", j, "delta"))
    /\ jobs' = [jobs EXCEPT ![j].reader = "busy"]
    /\ UNCHANGED <<tail, late, answered, masterVars, countVars>>

\* The executor returns and the snapshot is exported, or the export throws.
Executed(j) ==
    /\ jobs[j].at = "executing"
    /\ \E script \in Script :
           jobs' = [jobs EXCEPT ![j].at = "closing", ![j].next = script]
    /\ UNCHANGED <<tail, nextID, registered, open, late, published, answered, masterVars, countVars>>

-----------------------------------------------------------------------------
(* A job that rejects is over for the queue; its handler publishes the     *)
(* error while the next job may already run.                               *)

EndJob(j) == jobs' = [jobs EXCEPT ![j].at = "done", ![j].next = << >>]

Throws(j) ==
    /\ jobs[j].at = "executing"
    /\ EndJob(j)
    /\ StartReport(Numbered("catch", j, "error"))
    /\ UNCHANGED <<tail, late, answered, masterVars, countVars>>

\* The master answers 202.
Answered(r) ==
    /\ Ingest(r.event)
    /\ open' = open \ {r}
    /\ answered' = answered \cup {r.event}
    /\ UNCHANGED <<jobs, tail, nextID, registered, late, published, countVars>>

Unanswered(r) ==
    /\ lost < MaxLost
    /\ lost' = lost + 1
    /\ \/ (Ingest(r.event) \/ HalfIngested(r.event)) /\ UNCHANGED late
       \/ late' = late \cup {r.event} /\ UNCHANGED masterVars

MayRetry(r) == r.attempt < RetryCount

Retry(r) ==
    /\ Unanswered(r)
    /\ MayRetry(r)
    /\ open' = (open \ {r}) \cup {[r EXCEPT !.attempt = @ + 1]}
    /\ UNCHANGED <<jobs, tail, nextID, registered, published, answered, restarts>>

EndsNoJob(r) ==                 \* mutant: a report that is given up ends no job
    /\ Unanswered(r)
    /\ ~MayRetry(r)
    /\ open' = open \ {r}
    /\ UNCHANGED <<jobs, tail, nextID, registered, published, answered, restarts>>

\* The last attempt failed.  The publication rejects: a job ends with an
\* error event, but for the announcement of a snapshot, whose failure it
\* announces in turn; a reader stops reading; an error goes to the console.
GiveUp(r) ==
    /\ Unanswered(r)
    /\ ~MayRetry(r)
    /\ LET j == r.event.job
           e == Numbered("catch", j, "error")
       IN  CASE r.event.by = "job" /\ r.event.kind = "snapshot" ->
                  /\ jobs' = [jobs EXCEPT ![j].next = <<"snapshot.error">> \o @]
                  /\ open' = open \ {r}
                  /\ UNCHANGED <<nextID, published>>
             [] r.event.by = "job" /\ r.event.kind # "snapshot" ->
                  /\ EndJob(j)
                  /\ nextID' = nextID + 1
                  /\ open' = (open \ {r}) \cup {Report(e)}
                  /\ published' = published \cup {e}
             [] r.event.by = "reader" ->
                  /\ jobs' = [jobs EXCEPT ![j].reader = "stopped"]
                  /\ open' = open \ {r}
                  /\ UNCHANGED <<nextID, published>>
             [] r.event.by = "catch" ->
                  /\ open' = open \ {r}
                  /\ UNCHANGED <<jobs, nextID, published>>
    /\ UNCHANGED <<tail, registered, answered, restarts>>

\* A request the worker gave up on arrives after all.
ArrivesLate(e) ==
    /\ late' = late \ {e}
    /\ Ingest(e) \/ HalfIngested(e)
    /\ UNCHANGED <<procVars, published, answered, countVars>>

\* The process dies and starts again with empty maps.
Restart ==
    /\ restarts < MaxRestarts
    /\ restarts' = restarts + 1
    /\ jobs' = << >> /\ tail' = 0 /\ nextID' = 1 /\ registered' = FALSE /\ open' = {}
    /\ late' = late \cup {r.event : r \in open}
    /\ UNCHANGED <<masterVars, published, answered, lost>>

-----------------------------------------------------------------------------
JobProgress(j) == Begin(j) \/ Publish(j) \/ Continue(j) \/ Executed(j) \/ Throws(j)

Next ==
    \/ \E t \in Turn : Prompt(t) \/ Reply(t)
    \/ \E j \in 1 .. Len(jobs) : JobProgress(j) \/ Delta(j)
    \/ \E r \in open : Answered(r) \/ Retry(r) \/ GiveUp(r)
    \/ \E e \in late : ArrivesLate(e)
    \/ Register
    \/ Restart

Spec == Init /\ [][Next]_vars

\* Jobs go on, and a report that is not lost is answered.  Nothing is assumed
\* of the registration.
Fairness ==
    /\ \A j \in 1 .. MaxJobs : WF_vars(j <= Len(jobs) /\ JobProgress(j))
    /\ WF_vars(\E r \in open : Answered(r))

FairSpec == Spec /\ Fairness

-----------------------------------------------------------------------------
(* Properties.                                                             *)

\* test/session-actor.test.ts:4: the work of one session is serialized, in
\* the order it was queued, whatever earlier jobs end with.
OneJobAtATime ==
    \A i, j \in 1 .. Len(jobs) : i < j /\ jobs[i].at # "done" => jobs[j].at = "queued"

Before(e, f) == e.life = f.life /\ e.job = f.job /\ e.src < f.src

\* Events a row may lack before it: the announcement of a snapshot that was
\* given up, and what was published before the worker was registered.
MayBeMissing(e) == e.kind = "snapshot" \/ ~e.sent

\* What a job publishes by itself gets into the journal in order, over lost,
\* late and repeated reports, whose end is half ingested or given up: whoever
\* reads the idle of a turn has read its messages.  (Up to the source ids a
\* restart uses again.)
JobEventsInOrder ==
    \A i \in 1 .. Len(journal) : \A e \in published :
        journal[i].by = "job" /\ e.by = "job" /\ Before(e, journal[i]) /\ ~MayBeMissing(e) =>
            \/ \E k \in 1 .. i - 1 : journal[k] = e
            \/ \E r \in Rows : r.src = e.src /\ r.life < e.life

\* README.md:37 and :41: the report is idempotent and the master persists
\* the worker's events.  What was answered 202 is in the journal, up to the
\* source ids a restart uses again.
AnsweredIsJournaled ==
    \A e \in answered : e \in Rows \/ \E r \in Rows : r.src = e.src /\ r.life < e.life

\* The turn's jobs are over and its last own event asks the user.
AsksUser(t) ==
    /\ \A j \in 1 .. Len(jobs) : jobs[j].turn = t => jobs[j].at = "done"
    /\ \E r \in Rows :
         /\ r.turn = t /\ r.kind = "waiting"
         /\ \A e \in published : e.turn = t /\ e.by = "job" => e.src <= r.src

Dropped(t) == \E e \in published : e.turn = t /\ ~e.sent

\* index.ts:92-93: while fewer attempts are lost than the reporter makes, the
\* process lives and is registered, a turn that was admitted ends, by its idle
\* or its error, or its worker asks the user and waits: also when the master
\* died between the row of the end and the turn's status.
TurnEnds ==
    \A t \in Turn : Active(t) ~>
        (~Active(t) \/ AsksUser(t) \/ restarts > 0 \/ lost >= RetryCount \/ Dropped(t))
=============================================================================
