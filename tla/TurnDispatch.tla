---------------------------- MODULE TurnDispatch ----------------------------
(***************************************************************************)
(* Turns on top of leases: a prompt becomes an idempotent turn, the master *)
(* sends it to the owning worker over the proxy, the worker reports events *)
(* back, and the master journals what the current lease may write          *)
(* (src/http/server.ts, turn-service.ts, event-journal.ts).                *)
(*                                                                         *)
(* This is the proxy deployment: the worker process runs the turn.  The    *)
(* granularity is that of SessionLease; the one place where the master     *)
(* waits inside a prompt is the proxy fetch, so a turn whose fetch is open *)
(* is in calls, and everything else may happen before it is answered.      *)
(* The worker is open: once a prompt was sent to it, any event of the turn *)
(* may reach the master at any time, again (the reporter retries), late or *)
(* never.  The control route changes no state of the master.               *)
(***************************************************************************)
EXTENDS SessionLease, Sequences

CONSTANTS
    Turn,     \* turn ids
    Key,      \* client idempotency keys
    NoTurn,   \* no such row
    PlainKind \* the event types that settle nothing, {"message"} is enough

ASSUME TurnAssumption ==
    /\ PlainKind \cap {"session.idle", "worker.execution.error"} = {}
    /\ NoTurn \notin [session : Session, key : Key, worker : Worker, epoch : Nat,
                      status : {"pending", "leased", "completed", "failed"}]

VARIABLES
    turns,    \* the turns table
    calls,    \* turns whose prompt fetch the master still waits for
    sent,     \* turns whose prompt went out to a running worker process
    journal,  \* session_events in seq order, per session
    reborn    \* workers whose process has been started again

turnVars == <<turns, calls, sent, journal>>
allVars  == <<leaseVars, turnVars, reborn>>

Terminal == {"session.idle", "worker.execution.error"}
Kind     == Terminal \cup PlainKind

TurnRow ==
    [session : Session, key : Key, worker : Worker, epoch : Nat,
     status : {"pending", "leased", "completed", "failed"}]

Event == [turn : Turn, kind : Kind, worker : Worker, epoch : Nat]

Turns     == {t \in Turn : turns[t] # NoTurn}
Active(t) == turns[t] # NoTurn /\ turns[t].status \in {"pending", "leased"}

TurnsOf(s) == {t \in Turns : turns[t].session = s}

TurnInit ==
    /\ turns = [t \in Turn |-> NoTurn]
    /\ calls = {}
    /\ sent = {}
    /\ journal = [s \in Session |-> << >>]
    /\ reborn = {}

Init == LeaseInit /\ TurnInit

-----------------------------------------------------------------------------
(* TurnService.                                                            *)

NoKeyKnown(s, k) == FALSE       \* mutant: no lookup by client key
KeyKnown(s, k) == \E t \in TurnsOf(s) : turns[t].key = k

BusyIfLeased(s) ==              \* mutant: a pending turn does not count
    \E t \in TurnsOf(s) : turns[t].status = "leased"
Busy(s) == \E t \in TurnsOf(s) : Active(t)

InsertStale(t, s, k, w, st) ==  \* mutant: the session was read before workerForPrompt
    /\ turns[t] = NoTurn /\ ~KeyKnown(s, k) /\ ~Busy(s)
    /\ turns' = [turns EXCEPT ![t] =
           [session |-> s, key |-> k, worker |-> w, epoch |-> epoch[s], status |-> st]]

\* createOrGet inserts a row for the worker and the epoch the prompt was
\* placed with (the session is read again after workerForPrompt: epoch').
Insert(t, s, k, w, st) ==
    /\ turns[t] = NoTurn
    /\ ~KeyKnown(s, k)
    /\ ~Busy(s)
    /\ turns' = [turns EXCEPT ![t] =
           [session |-> s, key |-> k, worker |-> w, epoch |-> epoch'[s], status |-> st]]

\* complete and fail change an active turn only.
SettleAnyway(t, st) ==          \* mutant: a settled turn is settled again
    [turns EXCEPT ![t].status = st]
Settle(t, st) ==
    IF Active(t) THEN [turns EXCEPT ![t].status = st] ELSE turns

\* isCurrentLease for the worker and the epoch a turn was created with.
ReportedByAnyone(t) == turns[t] # NoTurn     \* mutant: no lease check
LeaseByOwner(t) ==              \* mutant: the epoch is not compared
    turns[t] # NoTurn /\ owner[turns[t].session] = turns[t].worker
LeaseCurrent(t) ==
    /\ turns[t] # NoTurn
    /\ owner[turns[t].session] = turns[t].worker
    /\ epoch[turns[t].session] = turns[t].epoch

-----------------------------------------------------------------------------
(* The prompt route and the schedule trigger.                              *)

\* The fetch is opened; a process that is gone refuses the connection.
Dispatch(t, w) ==
    /\ calls' = calls \cup {t}
    /\ sent' = IF alive[w] THEN sent \cup {t} ELSE sent
    /\ UNCHANGED journal

Prompt(s, k, t, w) ==
    /\ WorkerForPrompt(s, w)
    /\ Insert(t, s, k, w, "leased")
    /\ Dispatch(t, w)
    /\ UNCHANGED crashes

\* A known key answers with the existing turn, an active turn with 409; the
\* worker was chosen before either is found out.
PromptWithoutTurn(s, k, w) ==
    /\ WorkerForPrompt(s, w)
    /\ KeyKnown(s, k) \/ Busy(s)
    /\ UNCHANGED <<crashes, turnVars>>

\* handleScheduleTrigger: a new session and its first turn in one segment.
Trigger(s, u, k, t, w) ==
    /\ CreateSession(s, u, w)
    /\ Insert(t, s, k, w, "leased")
    /\ Dispatch(t, w)

\* The fetch fails or the worker answers with an error: the turn fails,
\* whether the worker got the request or not.
CallFails(t) ==
    /\ t \in calls
    /\ calls' = calls \ {t}
    /\ turns' = Settle(t, "failed")
    /\ UNCHANGED <<leaseVars, sent, journal>>

\* The worker answers 202 as soon as the job is queued.
CallReturns(t) ==
    /\ t \in calls \cap sent
    /\ calls' = calls \ {t}
    /\ UNCHANGED <<leaseVars, turns, sent, journal>>

-----------------------------------------------------------------------------
(* ingestWorkerEvent.                                                      *)

Journaled(t, kind) ==
    /\ turns[t] # NoTurn
    /\ \E i \in 1 .. Len(journal[turns[t].session]) :
           /\ journal[turns[t].session][i].turn = t
           /\ journal[turns[t].session][i].kind = kind

\* A source id is the worker id and a number its process counts from 1, so
\* what a restarted worker reports may carry the id of an earlier event.
IdTaken(t) ==
    /\ turns[t].worker \in reborn
    /\ \E i \in 1 .. Len(journal[turns[t].session]) :
           journal[turns[t].session][i].worker = turns[t].worker

\* append: one row per source id, at the next seq; a known id changes nothing.
AppendEvent(t, kind) ==
    \/ /\ ~Journaled(t, kind)
       /\ journal' = [journal EXCEPT ![turns[t].session] =
             Append(@, [turn |-> t, kind |-> kind,
                        worker |-> turns[t].worker, epoch |-> turns[t].epoch])]
    \/ /\ Journaled(t, kind) \/ IdTaken(t)
       /\ journal' = journal

SettleForStatus(t, kind) ==     \* mutant: the execution status is stored as it is named
    CASE kind = "session.idle"           -> Settle(t, "idle")
      [] kind = "worker.execution.error" -> Settle(t, "error")
      [] OTHER                           -> turns

SettleFor(t, kind) ==
    CASE kind = "session.idle"           -> Settle(t, "completed")
      [] kind = "worker.execution.error" -> Settle(t, "failed")
      [] OTHER                           -> turns

Ingest(t, kind) ==
    /\ t \in sent
    /\ LeaseCurrent(t)
    /\ AppendEvent(t, kind)
    /\ turns' = SettleFor(t, kind)
    /\ UNCHANGED <<leaseVars, calls, sent>>

-----------------------------------------------------------------------------
(* The master dies inside a segment; open fetches die with it.  A trigger  *)
(* cut short is a CreateSession followed by one of these.                  *)

PromptCutShort(s, k, w) ==
    /\ WorkerForPrompt(s, w)
    /\ \/ UNCHANGED turns
       \/ \E t \in Turn : \E st \in {"pending", "leased"} : Insert(t, s, k, w, st)
    /\ Crash
    /\ calls' = {}
    /\ UNCHANGED <<sent, journal>>

SettleBeforeAppend(t, kind) ==  \* mutant: the turn is settled first
    /\ t \in sent /\ LeaseCurrent(t) /\ Crash
    /\ turns' = SettleFor(t, kind)
    /\ calls' = {}
    /\ UNCHANGED <<workerVars, sessionVars, upsets, sent, journal>>

IngestCutShort(t, kind) ==
    /\ t \in sent
    /\ LeaseCurrent(t)
    /\ Crash
    /\ AppendEvent(t, kind)
    /\ calls' = {}
    /\ UNCHANGED <<workerVars, sessionVars, upsets, turns, sent>>

SweepDies ==
    /\ SweepCutShort
    /\ calls' = {}
    /\ UNCHANGED <<turns, sent, journal>>

-----------------------------------------------------------------------------
CountRestarts ==
    reborn' = reborn \cup {w \in Worker : wstatus[w] # "unknown" /\ ~alive[w] /\ alive'[w]}

RegistryStep == WorkerStep /\ UNCHANGED turnVars

DirectoryStep ==
    /\ \/ \E s \in Session, u \in User, w \in Worker : CreateSession(s, u, w)
       \/ \E s \in Session : End(s)
       \/ Sweep
    /\ UNCHANGED turnVars

ClientStep ==
    \E s \in Session, k \in Key, w \in Worker :
        \/ \E t \in Turn : Prompt(s, k, t, w)
        \/ PromptWithoutTurn(s, k, w)
        \/ \E u \in User, t \in Turn : Trigger(s, u, k, t, w)

TurnStep ==
    \E t \in Turn :
        \/ CallFails(t)
        \/ CallReturns(t)
        \/ \E kind \in Kind : Ingest(t, kind)

CrashStep ==
    \/ \E s \in Session, k \in Key, w \in Worker : PromptCutShort(s, k, w)
    \/ \E t \in Turn, kind \in Kind : IngestCutShort(t, kind)
    \/ SweepDies

Next ==
    /\ RegistryStep \/ DirectoryStep \/ ClientStep \/ TurnStep \/ CrashStep
    /\ CountRestarts

Spec == Init /\ [][Next]_allVars

\* Everybody does their part: the scheduler runs, time passes, workers come
\* back and send heartbeats, fetches are answered, and every turn that was
\* sent to a worker gets its session.idle reported.
SystemFairness ==
    /\ WF_allVars(Sweep /\ UNCHANGED turnVars /\ CountRestarts)
    /\ \A w \in Worker :
        /\ WF_allVars(FallSilent(w) /\ UNCHANGED turnVars /\ CountRestarts)
        /\ WF_allVars(Start(w) /\ UNCHANGED turnVars /\ CountRestarts)
        /\ WF_allVars(Heartbeat(w) /\ UNCHANGED turnVars /\ CountRestarts)
    /\ \A t \in Turn :
        /\ WF_allVars((CallReturns(t) \/ CallFails(t)) /\ CountRestarts)
        /\ WF_allVars(Ingest(t, "session.idle") /\ CountRestarts)

FairSystem == Spec /\ SystemFairness

-----------------------------------------------------------------------------
(* Properties.                                                             *)

TurnTypeOK ==
    /\ turns \in [Turn -> TurnRow \cup {NoTurn}]
    /\ calls \subseteq Turn
    /\ sent \subseteq Turns
    /\ journal \in [Session -> Seq(Event)]
    /\ reborn \subseteq Worker

\* A session has at most one turn that is not settled, whatever the prompts,
\* triggers, takeovers and crashes (no constraint of the schema says so).
OneActiveTurn ==
    \A t, r \in Turn :
        Active(t) /\ Active(r) /\ turns[t].session = turns[r].session => t = r

\* README.md:40: a repeated idempotencyKey is not executed twice.  A turn is
\* sent when it is created, so two turns with one key would be two runs.
KeyAdmittedOnce ==
    \A t, r \in Turns :
        turns[t].session = turns[r].session /\ turns[t].key = turns[r].key => t = r

\* A turn is completed only when the journal a client replays says so, even
\* when the master dies between the event row and the turn row, unless the
\* report came from a restarted worker (EventReports says why).
CompletedHasIdle ==
    \A t \in Turns :
        turns[t].status = "completed" =>
            Journaled(t, "session.idle") \/ turns[t].worker \in reborn

\* A turn is never ahead of its session, and was created under a lease that
\* was really given to its worker.
TurnUnderGrant ==
    \A t \in Turns :
        /\ turns[t].epoch <= epoch[turns[t].session]
        /\ <<turns[t].session, turns[t].epoch, turns[t].worker>> \in grants

\* A settled turn stays as it is: no late report and no failed fetch that
\* crosses a report changes what the client was told.
SettledStays ==
    [][\A t \in Turns : ~Active(t) => turns'[t] = turns[t]]_allVars

\* Who wrote each event of a journal, and under which epoch.
LogOf(events) ==
    [i \in 1 .. Len(events) |-> [worker |-> events[i].worker, token |-> events[i].epoch]]

Abstract == INSTANCE FencedLog WITH
    holder <- owner,
    token  <- epoch,
    log    <- [s \in Session |-> LogOf(journal[s])]

\* README.md:42 and :45: the directory and the journal together are a fenced
\* log, however prompts, sweeps, reports, ends and crashes interleave.
ImplementsFencedLog == Abstract!Spec

\* README.md:42: once a session has moved, nothing of an earlier worker gets
\* into the journal behind an event of a later one, and the events of one
\* epoch come from one worker.
JournalFenced == Abstract!LogFenced

\* README.md:46: after a failure a session recovers from its durable history.
\* It can only run a new prompt once the turn of the lost lease is settled.
LostTurnSettles ==
    \A t \in Turn :
        (Active(t) /\ turns[t].epoch < epoch[turns[t].session]) ~> ~Active(t)
=============================================================================
