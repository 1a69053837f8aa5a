----------------------------- MODULE GatewayRun -----------------------------
(***************************************************************************)
(* The gateway mode of the master: prompts and answers run against one     *)
(* OpenCode instance (opencode-gateway.ts) in functions of the master that *)
(* nobody waits for (server.ts, runGatewayPrompt and runGatewayResume).    *)
(*                                                                         *)
(* One session on a healthy worker row.  A run polls OpenCode, so every    *)
(* request is a step of its own and OpenCode moves on in between; what a   *)
(* run writes when it is done takes no request and is one step.            *)
(***************************************************************************)
EXTENDS Integers, Sequences, FiniteSets

CONSTANTS
    MaxTurns,    \* bound: turns of the session, numbered as they are created
    MaxRuns,     \* bound: runs of one master process
    MaxUpsets    \* bound: calls of the end route, failed requests, restarts

ASSUME GatewayAssumption == {MaxRuns, MaxUpsets} \subseteq Nat /\ MaxTurns \in Nat \ {0}

VARIABLES
    tstatus,   \* turns.status, "none" before the row
    tepoch,    \* turns.lease_epoch
    ended,     \* sessions.status is "ended"
    epoch,     \* sessions.lease_epoch
    journal,   \* session_events: [turn, kind, ref], the reply or question meant
    aborted,   \* the session is in the gateway's set aborted
    runs,      \* the runs this process has started, in order
    replies,   \* OpenCode: for which turn each finished reply was written
    busy,      \* OpenCode: "idle", "starting" on a message, "working" or "asking" in it
    busyFor,   \* OpenCode: the turn it works or asks for
    queue,     \* OpenCode: prompts it has not started on
    asked,     \* OpenCode: the number of its last question
    left,      \* history: turns a run left while OpenCode was not done
    twice,     \* history: turns that got a run while another was under way
    ends,
    faults,
    restarts

masterVars   == <<tstatus, tepoch, ended, epoch, journal>>
processVars  == <<aborted, runs>>
openCodeVars == <<replies, busy, busyFor, queue, asked>>
historyVars  == <<left, twice>>
boundVars    == <<ends, faults, restarts>>
gatewayVars  == <<masterVars, processVars, openCodeVars, historyVars, boundVars>>

Turn == 1 .. MaxTurns

RunStep == {"start", "send", "abort?", "question?", "reply?", "done"}

Init ==
    /\ tstatus = [t \in Turn |-> "none"] /\ tepoch = [t \in Turn |-> 0]
    /\ ended = FALSE /\ epoch = 1 /\ journal = << >>
    /\ aborted = FALSE /\ runs = << >>
    /\ replies = << >> /\ busy = "idle" /\ busyFor = 1 /\ queue = << >> /\ asked = 0
    /\ left = {} /\ twice = {}
    /\ ends = 0 /\ faults = 0 /\ restarts = 0

Active(t) == tstatus[t] = "active"
RunIDs == 1 .. Len(runs)
Event(t, kind, n) == [turn |-> t, kind |-> kind, ref |-> n]
Emitted(t, kind) == \E i \in 1 .. Len(journal) : journal[i].turn = t /\ journal[i].kind = kind

\* The turn of the run is not finished with in OpenCode.
AtWorkFor(t) ==
    \/ busy # "idle" /\ busyFor = t
    \/ \E i \in 1 .. Len(queue) : queue[i] = t

UnderWay(t) == \E i \in RunIDs : runs[i].turn = t /\ runs[i].at # "done"

Upset == ends + faults + restarts < MaxUpsets

-----------------------------------------------------------------------------
(* The routes.                                                             *)

\* A run knows the first replies and perhaps the message OpenCode is at.
StartRun(t, how, answers) ==
    /\ Len(runs) < MaxRuns
    /\ runs' = Append(runs, [turn |-> t, how |-> how, answers |-> answers, at |-> "start",
                             known |-> 0, saw |-> FALSE, failed |-> FALSE])

\* A prompt to an ended session takes it over under a new epoch, before it
\* turns out that another turn is active (409).
Prompt(t) ==
    /\ tstatus[t] = "none"
    /\ \A r \in Turn : r < t => tstatus[r] # "none"
    /\ ended' = FALSE
    /\ epoch' = IF ended THEN epoch + 1 ELSE epoch
    /\ IF \E r \in Turn : Active(r)
       THEN UNCHANGED <<tstatus, tepoch, runs>>
       ELSE /\ tstatus' = [tstatus EXCEPT ![t] = "active"]
            /\ tepoch' = [tepoch EXCEPT ![t] = epoch']
            /\ StartRun(t, "prompt", 0)
    /\ UNCHANGED <<journal, aborted, openCodeVars, historyVars, boundVars>>

\* runGatewayResume: the question is announced as resolved, then the run begins.
Resume(t, q) ==
    /\ journal' = Append(journal, Event(t, "resolved", q))
    /\ StartRun(t, "resume", q)

QuestionsShown == {journal[k].ref : k \in {k \in 1 .. Len(journal) : journal[k].kind = "question"}}

\* control, question.reply: any number of times while a turn is active, and
\* whichever turn the question belongs to.
Reply(t) ==
    /\ Active(t)
    /\ ~ended
    /\ tepoch[t] = epoch
    /\ \E q \in QuestionsShown : Resume(t, q)
    /\ twice' = IF UnderWay(t) THEN twice \cup {t} ELSE twice
    /\ UNCHANGED <<tstatus, tepoch, ended, epoch, aborted, openCodeVars, left, boundVars>>

\* The runs whose handlers are told of a failed step.
Subscribed(i) == runs[i].at \notin {"start", "done"}

\* subscribeEvents: every subscriber reads the event, and heeds it unless it
\* knew the message; an event without a message is passed over.
Heard ==
    runs' = [i \in RunIDs |->
        [runs[i] EXCEPT !.failed = @ \/ (Subscribed(i) /\ ~runs[i].saw /\ busy # "starting"),
                        !.saw = FALSE]]

\* OpenCode drops the step it is at.
StepFails == busy' = "idle" /\ Heard

\* sessions.end and gateway.abort, whose own request may or may not succeed.
\* The flag is set whether or not a run is under way to take it back.
End ==
    /\ Upset
    /\ ends' = ends + 1
    /\ ended' = TRUE
    /\ aborted' = TRUE
    /\ UNCHANGED <<runs, tstatus, tepoch, epoch, journal, openCodeVars, historyVars, faults, restarts>>

\* OpenCode's own abort, once the request of End has arrived.
NativeAbort ==
    /\ ends > 0
    /\ busy # "idle"
    /\ StepFails
    /\ UNCHANGED <<aborted, replies, busyFor, queue, asked, masterVars, historyVars, boundVars>>

-----------------------------------------------------------------------------
(* A run.                                                                  *)

Goto(i, at) == runs' = [runs EXCEPT ![i].at = at]

\* The variables of the function are gone.
Return(i) ==
    runs' = [runs EXCEPT ![i] =
        [@ EXCEPT !.at = "done", !.answers = 0, !.known = 0, !.saw = FALSE, !.failed = FALSE]]

\* knownAssistant: the messages in the context when the run begins, finished
\* replies and the one OpenCode is at.
Known(run) == [run EXCEPT !.known = Len(replies), !.saw = busy \in {"working", "asking"}]

KnowsNothing(i) ==             \* mutant: the context is not read before the prompt
    /\ runs[i].at = "start"
    /\ Goto(i, "send")
    /\ UNCHANGED <<aborted, masterVars, openCodeVars, historyVars, boundVars>>

\* ensureSession and context: which replies were there before.
Begin(i) ==
    /\ runs[i].at = "start"
    /\ runs' = [runs EXCEPT ![i] = [Known(runs[i]) EXCEPT !.at = "send"]]
    /\ UNCHANGED <<aborted, masterVars, openCodeVars, historyVars, boundVars>>

\* pendingQuestions: the list, or else the context, has the question.
Pending == busy = "asking"

\* OpenCode goes on with its message.  An answer to another question is refused,
\* which is only logged.
PostAnswer(i) == busy' = IF Pending /\ runs[i].answers = asked THEN "working" ELSE busy

Send(i) ==
    /\ runs[i].at = "send"
    /\ Goto(i, "abort?")
    /\ IF runs[i].how = "prompt"
       THEN queue' = Append(queue, runs[i].turn) /\ UNCHANGED busy
       ELSE PostAnswer(i) /\ UNCHANGED queue
    /\ UNCHANGED <<aborted, replies, busyFor, asked, masterVars, historyVars, boundVars>>

\* So is any other error OpenCode answers with.
AnswerRefused(i) ==
    /\ runs[i].at = "send" /\ runs[i].how = "resume"
    /\ Upset
    /\ faults' = faults + 1
    /\ Goto(i, "abort?")
    /\ UNCHANGED <<aborted, masterVars, openCodeVars, historyVars, ends, restarts>>

Leave(i) ==
    /\ Return(i)
    /\ left' = IF AtWorkFor(runs[i].turn) THEN left \cup {runs[i].turn} ELSE left

CompleteAsIdle(t) ==           \* mutant: the session's status is stored as the turn's
    tstatus' = IF Active(t) THEN [tstatus EXCEPT ![t] = "idle"] ELSE tstatus

\* complete() changes an active turn only; the events are written anyway.
Complete(t) == tstatus' = IF Active(t) THEN [tstatus EXCEPT ![t] = "completed"] ELSE tstatus

\* A run that returns without a question: messages, complete, session.idle.
Finish(i, messages) ==
    LET t == runs[i].turn
    IN  /\ Leave(i)
        /\ Complete(t)
        /\ journal' = journal \o messages \o <<Event(t, "session.idle", 0)>>

\* The first thing a poll looks at; the flag is taken back.
YieldToAbort(i) ==
    /\ runs[i].at = "abort?"
    /\ aborted
    /\ aborted' = FALSE
    /\ Finish(i, << >>)
    /\ UNCHANGED <<tepoch, ended, epoch, twice, openCodeVars, boundVars>>

NoAbort(i) ==
    /\ runs[i].at = "abort?"
    /\ ~aborted
    /\ Goto(i, "question?")
    /\ UNCHANGED <<aborted, masterVars, openCodeVars, historyVars, boundVars>>

Ask(i) ==
    LET t == runs[i].turn
    IN  /\ runs[i].at = "question?"
        /\ IF Pending
           THEN /\ Return(i)
                /\ journal' = journal \o <<Event(t, "question", asked), Event(t, "waiting", 0)>>
           ELSE Goto(i, "reply?") /\ UNCHANGED journal
        /\ UNCHANGED <<tstatus, tepoch, ended, epoch, aborted, openCodeVars, historyVars, boundVars>>

\* extractCompletedAssistantReply: the last reply not known before.
HasReply(i) == Len(replies) > runs[i].known

TakeReply(i) ==
    /\ runs[i].at = "reply?"
    /\ HasReply(i)
    /\ Finish(i, <<Event(runs[i].turn, "message", Len(replies))>>)
    /\ UNCHANGED <<tepoch, ended, epoch, aborted, twice, openCodeVars, boundVars>>

\* A failed step ends the run like an abort does.
Suspend(i) ==
    /\ runs[i].at = "reply?"
    /\ ~HasReply(i) /\ runs[i].failed
    /\ Finish(i, << >>)
    /\ UNCHANGED <<tepoch, ended, epoch, aborted, twice, openCodeVars, boundVars>>

PollAgain(i) ==
    /\ runs[i].at = "reply?"
    /\ ~HasReply(i) /\ ~runs[i].failed
    /\ Goto(i, "abort?")
    /\ UNCHANGED <<aborted, masterVars, openCodeVars, historyVars, boundVars>>

\* fail() and worker.execution.error.
Throw(i) ==
    LET t == runs[i].turn
    IN  /\ Return(i)
        /\ left' = IF AtWorkFor(t)' THEN left \cup {t} ELSE left
        /\ tstatus' = IF Active(t) THEN [tstatus EXCEPT ![t] = "failed"] ELSE tstatus
        /\ journal' = Append(journal, Event(t, "error", 0))
        /\ UNCHANGED <<tepoch, ended, epoch, aborted, twice, ends, restarts>>

RequestFails(i) ==
    /\ runs[i].at \in {"start", "send", "reply?"}
    /\ Upset
    /\ faults' = faults + 1
    /\ UNCHANGED openCodeVars
    /\ Throw(i)

\* OpenCode has the prompt or the answer, but its own answer does not arrive.
AnswerLost(i) ==
    /\ runs[i].at = "send"
    /\ Upset
    /\ faults' = faults + 1
    /\ IF runs[i].how = "prompt"
       THEN queue' = Append(queue, runs[i].turn) /\ UNCHANGED busy
       ELSE PostAnswer(i) /\ UNCHANGED queue
    /\ UNCHANGED <<replies, busyFor, asked>>
    /\ Throw(i)

NoDeadline(i) == FALSE         \* mutant: the poll loop has no deadline

\* Ten minutes have passed since the run sent its request.
TimeOut(i) ==
    /\ runs[i].at = "reply?"
    /\ ~HasReply(i) /\ ~runs[i].failed
    /\ UNCHANGED <<faults, openCodeVars>>
    /\ Throw(i)

-----------------------------------------------------------------------------
(* The master restarts, perhaps while a run writes what it returned.       *)

NewProcess ==
    /\ Upset
    /\ restarts' = restarts + 1
    /\ aborted' = FALSE
    /\ runs' = << >>
    /\ left' = left \cup {t \in Turn : AtWorkFor(t)}
    /\ UNCHANGED <<openCodeVars, twice, ends, faults>>

Restart ==
    /\ NewProcess
    /\ UNCHANGED masterVars

IdleFirst(i) ==                \* mutant: session.idle is written before complete
    /\ runs[i].at = "reply?" /\ HasReply(i)
    /\ NewProcess
    /\ journal' = journal \o <<Event(runs[i].turn, "message", Len(replies)),
                               Event(runs[i].turn, "session.idle", 0)>>
    /\ UNCHANGED <<tstatus, tepoch, ended, epoch>>

FinishCutShort(i) ==
    LET t == runs[i].turn
    IN  /\ runs[i].at = "reply?" /\ HasReply(i)
        /\ NewProcess
        /\ journal' = Append(journal, Event(t, "message", Len(replies)))
        /\ UNCHANGED tstatus \/ Complete(t)
        /\ UNCHANGED <<tepoch, ended, epoch>>

-----------------------------------------------------------------------------
(* OpenCode, as the gateway sees it.                                       *)

Take ==
    /\ busy = "idle" /\ queue # << >>
    /\ busy' = "starting" /\ busyFor' = Head(queue) /\ queue' = Tail(queue)
    /\ UNCHANGED <<replies, asked, masterVars, processVars, historyVars, boundVars>>

\* A message of the assistant appears.
Write ==
    /\ busy = "starting"
    /\ busy' = "working"
    /\ UNCHANGED <<replies, busyFor, queue, asked, masterVars, processVars, historyVars, boundVars>>

\* It ended with the call of a tool, and another one follows.
NextMessage ==
    /\ busy = "working"
    /\ busy' = "starting"
    /\ runs' = [i \in RunIDs |-> [runs[i] EXCEPT !.saw = FALSE]]
    /\ UNCHANGED <<aborted, replies, busyFor, queue, asked, masterVars, historyVars, boundVars>>

\* It is the reply, which a run that knew the message does not take for new.
Answer ==
    /\ busy = "working"
    /\ busy' = "idle" /\ replies' = Append(replies, busyFor)
    /\ runs' = [i \in RunIDs |->
           [runs[i] EXCEPT !.known = IF runs[i].saw THEN Len(replies) + 1 ELSE @, !.saw = FALSE]]
    /\ UNCHANGED <<aborted, busyFor, queue, asked, masterVars, historyVars, boundVars>>

Question ==
    /\ busy = "working"
    /\ busy' = "asking" /\ asked' = asked + 1
    /\ UNCHANGED <<replies, busyFor, queue, masterVars, processVars, historyVars, boundVars>>

StepFailed ==
    /\ busy \in {"starting", "working"}
    /\ StepFails
    /\ UNCHANGED <<aborted, replies, busyFor, queue, asked, masterVars, historyVars, boundVars>>

-----------------------------------------------------------------------------
Poll(i) ==
    \/ YieldToAbort(i) \/ NoAbort(i) \/ Ask(i)
    \/ TakeReply(i) \/ Suspend(i) \/ PollAgain(i)

RunStepOf(i) == Begin(i) \/ Send(i) \/ Poll(i)

Next ==
    \/ \E t \in Turn : Prompt(t) \/ Reply(t)
    \/ End \/ NativeAbort
    \/ \E i \in RunIDs :
          \/ RunStepOf(i)
          \/ RequestFails(i) \/ AnswerRefused(i) \/ AnswerLost(i) \/ TimeOut(i)
          \/ FinishCutShort(i)
    \/ Restart
    \/ Take \/ Write \/ NextMessage \/ Answer \/ Question \/ StepFailed

Spec == Init /\ [][Next]_gatewayVars

\* The requests of a run are answered or fail, and a run that polls for ever
\* passes its deadline.  Nothing is assumed of what OpenCode does.
RunFairness ==
    \A i \in 1 .. MaxRuns :
        /\ WF_gatewayVars(i \in RunIDs /\ RunStepOf(i))
        /\ SF_gatewayVars(i \in RunIDs /\ TimeOut(i))

FairSpec == Spec /\ RunFairness

-----------------------------------------------------------------------------
(* Properties.                                                             *)

GatewayTypeOK ==
    /\ tstatus \in [Turn -> {"none", "active", "completed", "failed"}]
    /\ tepoch \in [Turn -> 0 .. epoch]
    /\ \A i \in 1 .. Len(journal) :
         /\ journal[i].turn \in Turn
         /\ journal[i].kind = "message" => journal[i].ref \in 1 .. Len(replies)
    /\ \A i \in RunIDs : runs[i].at \in RunStep /\ runs[i].known \in 0 .. Len(replies)
    /\ \A i \in 1 .. Len(replies) : replies[i] \in Turn
    /\ busy \in {"idle", "starting", "working", "asking"} /\ busyFor \in Turn
    /\ left \cup twice \subseteq Turn

\* What is journaled as the answer to a turn was written for that turn: an
\* old reply is never taken for the new one.  Two things can break this, and
\* nothing else: a run left OpenCode while it still worked for its turn, or a
\* turn had two runs at once, of which one outlives it (a second answer to a
\* question, or one to an old question while the prompt of the turn runs).
ReplyOfItsTurn ==
    \A i \in 1 .. Len(journal) :
        journal[i].kind = "message" =>
            \/ replies[journal[i].ref] = journal[i].turn
            \/ replies[journal[i].ref] \in left \cup twice
            \/ journal[i].turn \in twice

\* A client that reads the end of a turn can prompt again: the turn is settled
\* before its end is journaled, whatever run or crash wrote it.
EndMeansSettled ==
    \A t \in Turn : Emitted(t, "session.idle") \/ Emitted(t, "error") => ~Active(t)

\* A turn does not hang on OpenCode: it ends, or its run asked the user and is
\* gone, or the master lost its runs.
TurnEndsOrAsks ==
    \A t \in Turn :
        Active(t) ~>
            \/ ~Active(t)
            \/ Emitted(t, "waiting") /\ ~UnderWay(t)
            \/ restarts > 0
=============================================================================
