------------------------------ MODULE Executor ------------------------------
(***************************************************************************)
(* The turns of one session on workers that run OpenCode themselves        *)
(* (opencode-executor.ts, the jobs of worker/index.ts): the session moves  *)
(* between workers, OpenCode exits and is started again, and a prompt must *)
(* carry what OpenCode on this worker does not know.                       *)
(*                                                                         *)
(* A job is the sequence of its requests to OpenCode.  The reads of one    *)
(* poll are separate requests, so each outcome of a poll has the condition *)
(* of its own read only.  SessionActor runs one job at a time.             *)
(***************************************************************************)
EXTENDS Integers, Sequences, SequencesExt, FiniteSets

CONSTANTS
    Worker, None,
    First,        \* the worker the session is placed on
    MaxTurns,     \* bound: prompts of the user
    MaxMoves,     \* bound: takeovers
    MaxExits,     \* bound: OpenCode exits, of all workers
    MaxFaults     \* bound: requests to OpenCode that fail

ASSUME ExecutorAssumption ==
    /\ None \notin Worker /\ First \in Worker
    /\ {MaxTurns, MaxMoves, MaxExits, MaxFaults} \subseteq Nat

VARIABLES
    turns,      \* the master's rows: status and whose reply is stored, 0 for none
    owner,      \* the session's worker
    epoch,      \* its lease epoch
    been,       \* history: workers that have owned the session
    returned,   \* history: it came back to one of them
    job,        \* per worker: the job of the session, with its turn and phase
    hydrated,   \* per worker: hydratedSessions has the session
    safePoint,  \* per worker: safePoints of the session
    snapshot,   \* the last export: its safe point, and whether OpenCode worked
    up,         \* per worker: OpenCode runs
    ctx,        \* per worker: OpenCode's messages of the session, on its disk
    queue,      \* per worker: prompts OpenCode works on, the first one now
    asking,     \* per worker: its question tool waits
    abandoned,  \* history: turns whose job ended while OpenCode had their prompt
    moves, exits, faults

master == <<turns, owner, epoch, been, returned, moves>>
memory == <<hydrated, safePoint>>
openCode == <<up, ctx, queue, asking, exits>>
vars == <<turns, owner, epoch, been, returned, job, hydrated, safePoint, snapshot,
          up, ctx, queue, asking, abandoned, moves, exits, faults>>

NoJob == [phase |-> "none", kind |-> "execute", turn |-> 0, epoch |-> 0, known |-> 0,
          restore |-> FALSE, failed |-> FALSE, reply |-> 0, history |-> {}]

Init ==
    /\ turns = << >> /\ owner = First /\ epoch = 1 /\ been = {owner} /\ returned = FALSE
    /\ job = [w \in Worker |-> NoJob]
    /\ hydrated = [w \in Worker |-> FALSE] /\ safePoint = [w \in Worker |-> None]
    /\ snapshot = [at |-> None, works |-> FALSE]
    /\ up = [w \in Worker |-> TRUE] /\ ctx = [w \in Worker |-> << >>]
    /\ queue = [w \in Worker |-> << >>] /\ asking = [w \in Worker |-> FALSE]
    /\ abandoned = {} /\ moves = 0 /\ exits = 0 /\ faults = 0

Fault == faults < MaxFaults /\ faults' = faults + 1

-----------------------------------------------------------------------------
(* The master: see TurnDispatch for what is left out here.                 *)

Active == {t \in DOMAIN turns : turns[t].status = "active"}
Replied == {t \in DOMAIN turns : turns[t].reply # 0}

\* history() of the session: every prompt, and the replies stored.
HistoryLength == Len(turns) + Cardinality(Replied)

Unchecked == Len(turns) < MaxTurns                        \* mutant: an active turn is ignored
MayPrompt == Len(turns) < MaxTurns /\ Active = {}

\* The history is read before the turn is created (server.ts:183).  A turn the
\* master fails because its call to the worker failed (server.ts:192-193) may
\* leave a job there that the next prompt queues behind; such calls are not
\* modelled, and without them a job is the active turn's.
Prompt ==
    /\ MayPrompt
    /\ turns' = Append(turns, [status |-> "active", reply |-> 0])
    /\ job' = [job EXCEPT ![owner] =
                 [NoJob EXCEPT !.phase = "queued", !.turn = Len(turns) + 1, !.epoch = epoch,
                               !.known = HistoryLength, !.history = {turns[t].reply : t \in Replied}]]
    /\ UNCHANGED <<owner, epoch, been, returned, moves, memory, snapshot, openCode, abandoned, faults>>

\* question.reply for the active turn, under the lease it was made with.  Only
\* the first answer is: control takes more (server.ts:294-312), and SessionActor
\* runs their jobs one after the other.
Answer ==
    /\ \E t \in Active :
         /\ job[owner] = [NoJob EXCEPT !.phase = "waiting", !.turn = t, !.epoch = epoch]
         /\ job' = [job EXCEPT ![owner].phase = "queued", ![owner].kind = "resume"]
    /\ UNCHANGED <<master, memory, snapshot, openCode, abandoned, faults>>

Move(w) ==
    /\ moves < MaxMoves /\ w # owner
    /\ moves' = moves + 1
    /\ owner' = w /\ epoch' = epoch + 1
    /\ been' = been \cup {w} /\ returned' = (returned \/ w \in been)
    /\ UNCHANGED <<turns, job, memory, snapshot, openCode, abandoned, faults>>

-----------------------------------------------------------------------------
(* execute and resume.                                                     *)

LongerByTwo(w) == ~hydrated[w] /\ job[w].known > Len(ctx[w]) + 2    \* mutant: a margin
RestoreHistory(w) == ~hydrated[w] /\ job[w].known > Len(ctx[w])

\* waitHealthy, which lets a job go on.
Healthy(w) == up[w]

\* The messages a job finds in the context before it posts anything.
KnownMessages(w) == Len(ctx[w])

\* waitHealthy, ensureSession, context, subscribeEvents.  known is the length
\* of the history before and the number of known messages after.
Begin(w) ==
    /\ job[w].phase = "queued" /\ Healthy(w)
    /\ job' = [job EXCEPT ![w].phase = "begun", ![w].known = KnownMessages(w),
                          ![w].restore = (job[w].kind = "execute" /\ RestoreHistory(w))]
    /\ UNCHANGED <<master, memory, snapshot, openCode, abandoned, faults>>

User(w) == [role |-> "user", turn |-> job[w].turn, stop |-> TRUE,
            past |-> IF job[w].restore THEN job[w].history ELSE {}]

Received(w) ==
    /\ ctx' = [ctx EXCEPT ![w] = Append(@, User(w))]
    /\ queue' = [queue EXCEPT ![w] = Append(@, job[w].turn)]
    /\ UNCHANGED <<up, asking, exits>>

PostPrompt(w) ==
    /\ job[w].phase = "begun" /\ job[w].kind = "execute" /\ up[w]
    /\ Received(w)
    /\ hydrated' = [hydrated EXCEPT ![w] = TRUE]
    /\ job' = [job EXCEPT ![w].phase = "polling"]
    /\ UNCHANGED <<master, safePoint, snapshot, abandoned, faults>>

\* The reply to a question; one that OpenCode refuses is logged and the polls
\* begin.
PostReply(w) ==
    /\ job[w].phase = "begun" /\ job[w].kind = "resume"
    /\ \/ up[w] /\ asking' = [asking EXCEPT ![w] = FALSE] /\ UNCHANGED faults
       \/ up[w] /\ Fault /\ UNCHANGED asking
    /\ job' = [job EXCEPT ![w].phase = "polling"]
    /\ UNCHANGED <<master, memory, snapshot, up, ctx, queue, exits, abandoned>>

AnyReply(w) == {i \in job[w].known + 1 .. Len(ctx[w]) : ctx[w][i].role = "assistant"}   \* mutant: finish is not read
OldReply(w) == {i \in DOMAIN ctx[w] : ctx[w][i].role = "assistant" /\ ctx[w][i].stop}   \* mutant: nothing is known

\* extractCompletedAssistantReply: the last unknown one that finished.
CompletedReplies(w) ==
    {i \in job[w].known + 1 .. Len(ctx[w]) : ctx[w][i].role = "assistant" /\ ctx[w][i].stop}

GiveUp(w) == IF job[w].turn \in ToSet(queue[w]) THEN {job[w].turn} ELSE {}

TakeReply(w) ==
    /\ job[w].phase = "polling" /\ up[w] /\ CompletedReplies(w) # {}
    /\ \E i \in CompletedReplies(w) :
         /\ \A j \in CompletedReplies(w) : j <= i
         /\ job' = [job EXCEPT ![w].phase = "replied", ![w].reply = ctx[w][i].turn]
         /\ abandoned' = abandoned \cup IF ctx[w][i].turn = job[w].turn THEN {} ELSE GiveUp(w)
    /\ safePoint' = [safePoint EXCEPT ![w] = "idle"]
    /\ UNCHANGED <<master, hydrated, snapshot, openCode, faults>>

\* pendingQuestions: the list or else the context has the question.
Pending(w) == up[w] /\ asking[w]

SeeQuestion(w) ==
    /\ job[w].phase = "polling" /\ Pending(w)
    /\ job' = [job EXCEPT ![w].phase = "asked"]
    /\ safePoint' = [safePoint EXCEPT ![w] = "waiting_input"]
    /\ UNCHANGED <<master, hydrated, snapshot, openCode, abandoned, faults>>

\* A failed step was heard of: the job ends without a reply.
Suspend(w) ==
    /\ job[w].phase = "polling" /\ up[w] /\ job[w].failed
    /\ job' = [job EXCEPT ![w].phase = "replied"]
    /\ safePoint' = [safePoint EXCEPT ![w] = "idle"]
    /\ abandoned' = abandoned \cup GiveUp(w)
    /\ UNCHANGED <<master, hydrated, snapshot, openCode, faults>>

Throw(w) ==
    /\ job' = [job EXCEPT ![w].phase = "thrown"]
    /\ UNCHANGED <<master, memory, snapshot>>

NoDeadline(w) == FALSE /\ Throw(w) /\ UNCHANGED <<abandoned, openCode, faults>>    \* mutant
TimeOut(w) ==
    /\ job[w].phase = "polling"
    /\ Throw(w)
    /\ abandoned' = abandoned \cup GiveUp(w)
    /\ UNCHANGED <<openCode, faults>>

\* The reply to a question arrives, and the call that posted it fails.
ReplyReceived(w) ==
    /\ job[w].phase = "begun" /\ job[w].kind = "resume" /\ up[w]
    /\ asking' = [asking EXCEPT ![w] = FALSE]
    /\ UNCHANGED <<up, ctx, queue, exits>>

\* OpenCode does not run (waitHealthy gives up, fetch is refused), or a request
\* fails; a POST that fails may have arrived.
RequestFails(w) ==
    /\ job[w].phase \in {"queued", "begun", "polling"}
    /\ IF up[w] THEN Fault ELSE UNCHANGED faults
    /\ Throw(w)
    /\ \/ abandoned' = abandoned \cup GiveUp(w) /\ (UNCHANGED openCode \/ ReplyReceived(w))
       \/ /\ job[w].phase = "begun" /\ job[w].kind = "execute" /\ up[w]
          /\ Received(w)
          /\ abandoned' = abandoned \cup {job[w].turn}

-----------------------------------------------------------------------------
(* What the job does with the result: publishSnapshot, then its end.       *)

\* What export finds is the session as OpenCode has it at that moment.
Export(w) == [at |-> safePoint[w], works |-> queue[w] # << >> /\ ~asking[w]]

\* snapshot: only a session that reached a safe point is exported.
Snapshot(w) == IF safePoint[w] = None THEN snapshot ELSE Export(w)

PublishSnapshot(w) ==
    /\ job[w].phase \in {"replied", "asked"}
    /\ snapshot' = Snapshot(w)
    /\ job' = [job EXCEPT ![w].phase = IF @ = "asked" THEN "toWait" ELSE "toEnd"]
    /\ UNCHANGED <<master, memory, openCode, abandoned, faults>>

\* The reports: those under an old lease are refused.
Settle(w, status) ==
    turns' = IF job[w].epoch = epoch
             THEN [turns EXCEPT ![job[w].turn] = [status |-> status, reply |-> job[w].reply]]
             ELSE turns

EndJob(w) ==
    /\ \/ /\ job[w].phase = "toEnd" /\ Settle(w, "completed")
          /\ job' = [job EXCEPT ![w] = NoJob]
       \/ /\ job[w].phase = "thrown" /\ Settle(w, "failed")
          /\ job' = [job EXCEPT ![w] = NoJob]
       \/ /\ job[w].phase = "toWait" /\ UNCHANGED turns
          /\ job' = [job EXCEPT ![w] = [NoJob EXCEPT !.phase = "waiting", !.turn = job[w].turn,
                                                     !.epoch = job[w].epoch]]
    /\ UNCHANGED <<owner, epoch, been, returned, moves, memory, snapshot, openCode, abandoned, faults>>

-----------------------------------------------------------------------------
(* OpenCode.                                                               *)

Assistant(w, stop) == [role |-> "assistant", turn |-> Head(queue[w]), stop |-> stop, past |-> {}]
Works(w) == up[w] /\ queue[w] # << >> /\ ~asking[w]

\* A message that ends in tool calls, before the one that ends the turn.
OcStep(w) ==
    /\ Works(w)
    /\ \A i \in DOMAIN ctx[w] : ctx[w][i].turn = Head(queue[w]) => ctx[w][i].role = "user"
    /\ ctx' = [ctx EXCEPT ![w] = Append(@, Assistant(w, FALSE))]
    /\ UNCHANGED <<up, queue, asking, exits, job>>

OcReply(w) ==
    /\ Works(w)
    /\ ctx' = [ctx EXCEPT ![w] = Append(@, Assistant(w, TRUE))]
    /\ queue' = [queue EXCEPT ![w] = Tail(@)]
    /\ UNCHANGED <<up, asking, exits, job>>

OcAsk(w) ==
    /\ Works(w)
    /\ asking' = [asking EXCEPT ![w] = TRUE]
    /\ UNCHANGED <<up, ctx, queue, exits, job>>

\* The handlers of a job are in place from before its post to its result.
Subscribed(w) == job[w].phase \in {"begun", "polling"}

\* subscribeEvents: session.next.step.failed reaches the job that is subscribed.
Heard(w) == job' = IF Subscribed(w) THEN [job EXCEPT ![w].failed = TRUE] ELSE job

OcFail(w) ==
    /\ Works(w)
    /\ queue' = [queue EXCEPT ![w] = Tail(@)]
    /\ Heard(w)
    /\ UNCHANGED <<up, ctx, asking, exits>>

OcExit(w) ==
    /\ up[w] /\ exits < MaxExits
    /\ exits' = exits + 1
    /\ up' = [up EXCEPT ![w] = FALSE]
    /\ queue' = [queue EXCEPT ![w] = << >>]
    /\ asking' = [asking EXCEPT ![w] = FALSE]
    /\ UNCHANGED <<ctx, job>>

OpenCodeStep(w) ==
    /\ OcStep(w) \/ OcReply(w) \/ OcAsk(w) \/ OcFail(w) \/ OcExit(w)
    /\ UNCHANGED <<master, memory, snapshot, abandoned, faults>>

\* The exit handler calls start(), which forgets what it knew of sessions.
Start(w) ==
    /\ ~up[w]
    /\ up' = [up EXCEPT ![w] = TRUE]
    /\ hydrated' = [hydrated EXCEPT ![w] = FALSE]
    /\ safePoint' = [safePoint EXCEPT ![w] = None]
    /\ UNCHANGED <<master, job, snapshot, ctx, queue, asking, exits, abandoned, faults>>

\* The loops of execute and resume are the same.
Poll(w) == TakeReply(w) \/ SeeQuestion(w) \/ Suspend(w) \/ TimeOut(w)

JobStep(w) ==
    \/ Begin(w) \/ PostPrompt(w) \/ PostReply(w) \/ Poll(w) \/ RequestFails(w)
    \/ PublishSnapshot(w) \/ EndJob(w)

Next ==
    \/ Prompt \/ Answer
    \/ \E w \in Worker : Move(w) \/ JobStep(w) \/ OpenCodeStep(w) \/ Start(w)

ExecutorSpec == Init /\ [][Next]_vars

\* A job's own code goes on; nothing is assumed of OpenCode or of the user.
FairExecutor == ExecutorSpec /\ \A w \in Worker : WF_vars(JobStep(w))

-----------------------------------------------------------------------------
ExecutorTypeOK ==
    /\ owner \in been /\ been \subseteq Worker
    /\ \A w \in Worker :
         /\ job[w].turn \in 0 .. Len(turns)
         /\ job[w].phase \in {"none", "queued", "begun", "polling", "replied", "asked", "toEnd",
                              "toWait", "thrown", "waiting"}
         /\ safePoint[w] \in {None, "idle", "waiting_input"}
         /\ ~up[w] => queue[w] = << >> /\ ~asking[w]
         /\ job[w].phase = "polling" => job[w].known <= Len(ctx[w])
    /\ Cardinality(Active) <= 1

\* The turns OpenCode on w has the replies of, by its messages up to i.
Told(w, i) ==
    (UNION {ctx[w][j].past : j \in 1 .. i})
      \cup {ctx[w][j].turn : j \in {k \in 1 .. i : ctx[w][k].role = "assistant" /\ ctx[w][k].stop}}

\* README.md:46, opencode-executor.ts:310: wherever a session runs, OpenCode has
\* the replies of all earlier turns when it gets a prompt; except in a session
\* that came back to a worker, whose executor may take it for known.
KnowsThePast ==
    returned \/ \A w \in Worker : \A i \in DOMAIN ctx[w] :
        ctx[w][i].role = "user" /\ turns[ctx[w][i].turn].status = "active"
            => {turns[t].reply : t \in {u \in Replied : u < ctx[w][i].turn}} \subseteq Told(w, i)

\* opencode-executor.ts:308: the reply stored for a turn was written for it, or
\* for one that a job gave up while OpenCode worked on it.
ReplyIsOfTurn == \A t \in Replied : turns[t].reply \in {t} \cup abandoned

\* session-snapshot.ts:75: a session is exported while OpenCode does not work on
\* it, unless a job gave up before OpenCode did.
SnapshotAtRest == snapshot.works => abandoned # {}

\* opencode-executor.ts:343, 391: a job comes to an end, whatever OpenCode does.
JobEnds == \A w \in Worker : (job[w].phase \notin {"none", "waiting"}) ~> (job[w].phase \in {"none", "waiting"})
=============================================================================
