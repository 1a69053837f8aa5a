---------------------------- MODULE SessionLease ----------------------------
(***************************************************************************)
(* Which worker may run a session: the worker registry, the session table  *)
(* and the scheduler of the master (src/services).                         *)
(*                                                                         *)
(* Granularity: bun:sqlite answers synchronously, so a handler runs from   *)
(* one body read, timer or fetch to the next within one drain of the       *)
(* microtask queue and no other handler runs in between.  Every action     *)
(* below is such a segment.  What a master process that dies inside a      *)
(* segment leaves behind is an action of its own (SweepCutShort).          *)
(***************************************************************************)
EXTENDS PlacementRule, Integers, FiniteSets

CONSTANTS
    Session,      \* session ids newID("ses") may return
    User,         \* session owners
    NoUser,       \* user of a row that does not exist yet
    MaxSessions,  \* OPENCODE_MASTER_MAX_SESSIONS_PER_USER, 0 for no quota
    MaxUpsets,    \* bound: worker stops, silences of live workers, end calls
    MaxCrashes    \* bound: deaths of the master process

ASSUME LeaseAssumption ==
    /\ NoWorker \notin Worker
    /\ NoUser \notin User
    /\ MaxSessions \in Nat
    /\ MaxUpsets \in Nat
    /\ MaxCrashes \in Nat

VARIABLES
    alive,    \* the worker process runs and sends heartbeats
    fresh,    \* workers.last_heartbeat_at is younger than heartbeatTimeoutMs
    wstatus,  \* workers.status, "unknown" before the first registration
    user,     \* sessions.user_id
    status,   \* sessions.status, "none" before the row is inserted
    owner,    \* sessions.owner_worker_id
    epoch,    \* sessions.lease_epoch, 0 before the row is inserted
    grants,   \* history: every <<session, epoch, worker>> ever written
    upsets,   \* upsets so far
    crashes   \* master deaths so far

workerVars  == <<alive, fresh, wstatus>>
sessionVars == <<user, status, owner, epoch, grants>>
leaseVars   == <<workerVars, sessionVars, upsets, crashes>>

WorkerStatus  == {"unknown", "ok", "unhealthy"}
SessionStatus == {"none", "assigned", "recovering", "ended"}

Live == {s \in Session : status[s] \notin {"none", "ended"}}

LeaseInit ==
    /\ alive = [w \in Worker |-> FALSE]
    /\ fresh = [w \in Worker |-> FALSE]
    /\ wstatus = [w \in Worker |-> "unknown"]
    /\ user = [s \in Session |-> NoUser]
    /\ status = [s \in Session |-> "none"]
    /\ owner = [s \in Session |-> NoWorker]
    /\ epoch = [s \in Session |-> 0]
    /\ grants = {}
    /\ upsets = 0
    /\ crashes = 0

Upset == upsets < MaxUpsets /\ upsets' = upsets + 1

\* The master process dies and restarts on the same database.
Crash == crashes < MaxCrashes /\ crashes' = crashes + 1

-----------------------------------------------------------------------------
(* Workers and the registry.                                               *)

\* A worker process boots and registers; register() resets the row to "ok".
Start(w) ==
    /\ ~alive[w]
    /\ alive' = [alive EXCEPT ![w] = TRUE]
    /\ fresh' = [fresh EXCEPT ![w] = TRUE]
    /\ wstatus' = [wstatus EXCEPT ![w] = "ok"]
    /\ UNCHANGED <<sessionVars, upsets, crashes>>

\* A heartbeat reaches the master; an unhealthy row heals itself.
Heartbeat(w) ==
    /\ alive[w]
    /\ fresh' = [fresh EXCEPT ![w] = TRUE]
    /\ wstatus' = [wstatus EXCEPT ![w] = "ok"]
    /\ UNCHANGED <<alive, sessionVars, upsets, crashes>>

Stop(w) ==
    /\ alive[w]
    /\ Upset
    /\ alive' = [alive EXCEPT ![w] = FALSE]
    /\ UNCHANGED <<fresh, wstatus, sessionVars, crashes>>

\* heartbeatTimeoutMs pass without a heartbeat of w, because w is gone ...
FallSilent(w) ==
    /\ ~alive[w]
    /\ fresh[w]
    /\ fresh' = [fresh EXCEPT ![w] = FALSE]
    /\ UNCHANGED <<alive, wstatus, sessionVars, upsets, crashes>>

\* ... or although w runs: it stalls, or the network between them does.
CutOff(w) ==
    /\ alive[w]
    /\ fresh[w]
    /\ Upset
    /\ fresh' = [fresh EXCEPT ![w] = FALSE]
    /\ UNCHANGED <<alive, wstatus, sessionVars, crashes>>

-----------------------------------------------------------------------------
(* Placement and leases.                                                   *)

SameEpoch(s) == epoch[s]        \* mutant: the takeover keeps the epoch
NextEpoch(s) == epoch[s] + 1

\* The grants recorded when every session of moved goes to home[s].
Granted(moved, home) ==
    {<<s, NextEpoch(s), home[s]>> : s \in {r \in moved : home[r] # NoWorker}}

UnderQuota(u) ==
    \/ MaxSessions = 0
    \/ Cardinality({s \in Live : user[s] = u}) < MaxSessions

CreateSession(s, u, w) ==
    /\ status[s] = "none"
    /\ UnderQuota(u)
    /\ w \in Place(wstatus, NoWorker) \ {NoWorker}
    /\ user' = [user EXCEPT ![s] = u]
    /\ status' = [status EXCEPT ![s] = "assigned"]
    /\ owner' = [owner EXCEPT ![s] = w]
    /\ epoch' = [epoch EXCEPT ![s] = 1]
    /\ grants' = grants \cup {<<s, 1, w>>}
    /\ UNCHANGED <<workerVars, upsets, crashes>>

OwnerIsOk(s) == owner[s] # NoWorker /\ wstatus[owner[s]] = "ok"

\* workerForPrompt: the owner when the registry calls it ok, else a takeover.
\* An ended session has no owner, so a prompt brings it back to life.
WorkerForPrompt(s, w) ==
    /\ status[s] # "none"
    /\ \/ /\ OwnerIsOk(s)
          /\ w = owner[s]
          /\ UNCHANGED <<status, owner, epoch, grants>>
       \/ /\ ~OwnerIsOk(s)
          /\ w \in Place(wstatus, owner[s]) \ {NoWorker}
          /\ status' = [status EXCEPT ![s] = "assigned"]
          /\ owner' = [owner EXCEPT ![s] = w]
          /\ epoch' = [epoch EXCEPT ![s] = NextEpoch(s)]
          /\ grants' = grants \cup {<<s, NextEpoch(s), w>>}
    /\ UNCHANGED <<user, workerVars, upsets>>

EndKeepsOwner(s) ==             \* mutant: the row is only marked
    /\ status[s] # "none"
    /\ Upset
    /\ status' = [status EXCEPT ![s] = "ended"]
    /\ UNCHANGED <<user, owner, epoch, grants, workerVars, crashes>>

\* sessions.end: the lease is dropped and its epoch stays.
End(s) ==
    /\ status[s] # "none"
    /\ Upset
    /\ status' = [status EXCEPT ![s] = "ended"]
    /\ owner' = [owner EXCEPT ![s] = NoWorker]
    /\ UNCHANGED <<user, epoch, grants, workerVars, crashes>>

-----------------------------------------------------------------------------
(* The scheduler: mark every stale worker, then rehome what each one owns. *)

Stale == {w \in Worker : wstatus[w] = "ok" /\ ~fresh[w]}

OwnedBy(ws) == {s \in Live : owner[s] \in ws}

MarkUnhealthy(ws) ==
    wstatus' = [w \in Worker |-> IF w \in ws THEN "unhealthy" ELSE wstatus[w]]

Rehome(moved, home) ==
    /\ status' = [s \in Session |-> IF s \in moved THEN "recovering" ELSE status[s]]
    /\ owner' = [s \in Session |-> IF s \in moved THEN home[s] ELSE owner[s]]
    /\ epoch' = [s \in Session |-> IF s \in moved THEN NextEpoch(s) ELSE epoch[s]]
    /\ grants' = grants \cup Granted(moved, home)

NewHomes(moved) ==
    {home \in [moved -> Worker \cup {NoWorker}] :
        \A s \in moved : home[s] \in Place(wstatus', owner[s])}

SweepAll(marked, moved) ==
    /\ MarkUnhealthy(marked)
    /\ \E home \in NewHomes(moved) : Rehome(moved, home)
    /\ UNCHANGED <<alive, fresh, user, upsets>>

SweepOnlyMarks ==               \* mutant: stale workers keep their sessions
    /\ Stale # {}
    /\ SweepAll(Stale, {})
    /\ UNCHANGED crashes

Sweep ==
    /\ Stale # {}
    /\ SweepAll(Stale, OwnedBy(Stale))
    /\ UNCHANGED crashes

\* The master dies inside runOnce: some rows are marked, or all of them and
\* some sessions moved.  The restarted master finds nothing newly stale.
SweepCutShort ==
    /\ Crash
    /\ \E marked \in SUBSET Stale : \E moved \in SUBSET OwnedBy(marked) :
        /\ moved # {} => marked = Stale
        /\ SweepAll(marked, moved)

-----------------------------------------------------------------------------
WorkerStep ==
    \E w \in Worker :
        Start(w) \/ Heartbeat(w) \/ Stop(w) \/ FallSilent(w) \/ CutOff(w)

SessionStep ==
    \E s \in Session :
        \/ \E u \in User, w \in Worker : CreateSession(s, u, w)
        \/ \E w \in Worker : WorkerForPrompt(s, w) /\ (UNCHANGED crashes \/ Crash)
        \/ End(s)

LeaseNext == WorkerStep \/ SessionStep \/ Sweep \/ SweepCutShort

LeaseSpec == LeaseInit /\ [][LeaseNext]_leaseVars

\* The scheduler's interval keeps firing and time passes for a dead worker.
LeaseFairness ==
    /\ WF_leaseVars(Sweep)
    /\ \A w \in Worker : WF_leaseVars(FallSilent(w))

FairLeaseSpec == LeaseSpec /\ LeaseFairness

-----------------------------------------------------------------------------
(* Properties.                                                             *)

\* An ended session has given its lease back, an assigned one has it; a
\* recovering one may have found no worker.
OwnerFitsStatus ==
    \A s \in Session :
        /\ status[s] \in {"none", "ended"} => owner[s] = NoWorker
        /\ status[s] = "assigned" => owner[s] # NoWorker

LeaseTypeOK ==
    /\ alive \in [Worker -> BOOLEAN]
    /\ fresh \in [Worker -> BOOLEAN]
    /\ wstatus \in [Worker -> WorkerStatus]
    /\ user \in [Session -> User \cup {NoUser}]
    /\ status \in [Session -> SessionStatus]
    /\ owner \in [Session -> Worker \cup {NoWorker}]
    /\ epoch \in [Session -> Nat]
    /\ grants \subseteq Session \X Nat \X Worker
    /\ upsets \in 0 .. MaxUpsets
    /\ crashes \in 0 .. MaxCrashes
    /\ OwnerFitsStatus

\* The fencing token works: no epoch of a session is ever given to two
\* workers, over creations, takeovers by prompts, sweeps, ends and crashes.
OneWorkerPerEpoch ==
    \A g, h \in grants : g[1] = h[1] /\ g[2] = h[2] => g[3] = h[3]

\* A row never names an owner its current epoch was not given to.
OwnerHoldsEpoch ==
    \A s \in Session : owner[s] # NoWorker => <<s, epoch[s], owner[s]>> \in grants

\* No epoch above the current one was ever given out.
NoGrantAhead == \A g \in grants : g[2] <= epoch[g[1]]

LeaseInv == LeaseTypeOK /\ OneWorkerPerEpoch /\ OwnerHoldsEpoch /\ NoGrantAhead

\* The epoch never goes back, and a session never gets another worker (or
\* gets one back after losing it) under the epoch it had.
EpochFencesOwner ==
    [][\A s \in Session :
         /\ epoch'[s] >= epoch[s]
         /\ owner'[s] \notin {owner[s], NoWorker} => epoch'[s] > epoch[s]]_leaseVars

\* scheduler.ts:11-13: as long as no master dies, a dead worker does not keep a
\* session for ever.
SessionsLeaveDeadWorker ==
    \A w \in Worker : \A s \in Session :
        (owner[s] = w /\ ~alive[w]) ~> (owner[s] # w \/ alive[w] \/ crashes > 0)
=============================================================================
