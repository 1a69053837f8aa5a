----------------------------- MODULE KeepAlive -----------------------------
(***************************************************************************)
(* How a process becomes a worker of the master and stays one: the three   *)
(* programs that register (worker/index.ts, scripts/opencode-heartbeat.ts, *)
(* scripts/dev-worker.ts), the token each is given, its heartbeats, and    *)
(* the sweep that marks the rows nobody heartbeats for.                    *)
(*                                                                         *)
(* Time passes in ticks of one heartbeat interval.  Ages count up to what  *)
(* the code compares them with, so that time has no end.  The rows of two  *)
(* processes are different: each has an id of its own.                     *)
(***************************************************************************)
EXTENDS Integers, FiniteSets

CONSTANTS
    Process,
    Timeout,      \* heartbeatTimeoutMs, in ticks
    Delay,        \* bound: ticks from a heartbeat's timer to its request's end
    MaxFaults     \* bound: requests lost or refused, deaths, master restarts

ASSUME KeepAliveAssumption == {Timeout, Delay, MaxFaults} \subseteq Nat

VARIABLES
    program,    \* which of the three a process runs
    phase,      \* where it is
    valid,      \* whether it has a worker token that has not expired
    due,        \* ticks to its next timer
    beats,      \* ages of the heartbeats it is making: probing, or in the network
    status,     \* its row in workers; "none" before the first registration
    age,        \* ticks since last_heartbeat_at
    reads,      \* statuses that heartbeat handlers under way have read
    stale,      \* rows the sweep under way has read and not yet marked
    up,         \* whether the master runs
    missed,     \* history: heartbeats that failed since the last that did not
    faults

vars == <<program, phase, valid, due, beats, status, age, reads, stale, up, missed, faults>>
client == <<program, phase, valid, due, beats, missed>>
table == <<status, age>>

Init ==
    /\ program \in [Process -> {"worker", "script", "dev"}]
    /\ phase = [p \in Process |-> "login"]
    /\ valid = [p \in Process |-> FALSE] /\ due = [p \in Process |-> 0]
    /\ beats = [p \in Process |-> {}]
    /\ status = [p \in Process |-> "none"] /\ age = [p \in Process |-> 0]
    /\ reads = [p \in Process |-> {}] /\ stale = {}
    /\ up = FALSE
    /\ missed = [p \in Process |-> 0] /\ faults = 0

Fault == faults < MaxFaults /\ faults' = faults + 1

\* Counters stop where nothing depends on them any more.
Last == Timeout + 1
Bump(n) == IF n < Last THEN n + 1 ELSE n

-----------------------------------------------------------------------------
(* Registration.                                                           *)

\* A bootstrap that fails: the script waits and starts again, the worker
\* throws and exits.  The dev worker catches what its fetch throws and stays up
\* without heartbeats; it does not look at the status of an answer, and goes on
\* without a token when it is refused.
Fails(p, refused) ==
    CASE program[p] = "script" ->
            phase' = [phase EXCEPT ![p] = "login"] /\ due' = [due EXCEPT ![p] = 1]
      [] program[p] = "worker" ->
            phase' = [phase EXCEPT ![p] = "dead"] /\ UNCHANGED due
      [] program[p] = "dev" /\ ~refused ->
            phase' = [phase EXCEPT ![p] = "idle"] /\ UNCHANGED due
      [] program[p] = "dev" /\ refused ->
            /\ phase' = [phase EXCEPT ![p] = IF @ = "login" THEN "bare" ELSE "serving"]
            /\ due' = [due EXCEPT ![p] = 1]

\* POST /auth/token with the bootstrap key, which makes the token's user admin.
Login(p) ==
    /\ phase[p] = "login" /\ due[p] = 0 /\ up
    /\ phase' = [phase EXCEPT ![p] = "register"]
    /\ UNCHANGED <<program, valid, due, beats, table, reads, stale, up, missed, faults>>

\* The row of a registration is ok and heartbeated now, whatever it was.
Registered(p) ==
    /\ status' = [status EXCEPT ![p] = "ok"]
    /\ age' = [age EXCEPT ![p] = 0]

\* The script heartbeats at once, the others at their first interval.
Register(p) ==
    /\ phase[p] = "register" /\ up
    /\ Registered(p)
    /\ phase' = [phase EXCEPT ![p] = "serving"]
    /\ valid' = [valid EXCEPT ![p] = TRUE]
    /\ due' = [due EXCEPT ![p] = IF program[p] = "script" THEN 0 ELSE 1]
    /\ missed' = [missed EXCEPT ![p] = 0]
    /\ UNCHANGED <<program, beats, reads, stale, up, faults>>

\* The master cannot be reached, or the answer of a request it handled is lost.
BootstrapLost(p) ==
    /\ phase[p] \in {"login", "register", "bare"}
    /\ phase[p] = "login" => due[p] = 0
    /\ IF up THEN Fault ELSE UNCHANGED faults
    /\ \/ UNCHANGED table
       \/ up /\ phase[p] = "register" /\ Registered(p)
    /\ Fails(p, FALSE)
    /\ UNCHANGED <<program, valid, beats, reads, stale, up, missed>>

\* The master answers with an error; it always does when there is no token.
BootstrapRefused(p) ==
    /\ phase[p] \in {"login", "register", "bare"} /\ up
    /\ phase[p] = "login" => due[p] = 0
    /\ IF phase[p] = "bare" THEN UNCHANGED faults ELSE Fault
    /\ Fails(p, TRUE)
    /\ UNCHANGED <<program, valid, beats, table, reads, stale, up, missed>>

Dies(p) ==
    /\ phase[p] # "dead" /\ Fault
    /\ phase' = [phase EXCEPT ![p] = "dead"]
    /\ beats' = [beats EXCEPT ![p] = {}]
    /\ UNCHANGED <<program, valid, due, table, reads, stale, up, missed>>

\* It is started again, and registers its id anew.
Starts(p) ==
    /\ phase[p] = "dead" /\ Fault
    /\ phase' = [phase EXCEPT ![p] = "login"]
    /\ valid' = [valid EXCEPT ![p] = FALSE] /\ due' = [due EXCEPT ![p] = 0]
    /\ UNCHANGED <<program, beats, table, reads, stale, up, missed>>

-----------------------------------------------------------------------------
(* Heartbeats.                                                             *)

\* setInterval does not wait for the last heartbeat: they overlap.  The
\* script's probe ends in a load whether or not its OpenCode answers.
Timer(p) ==
    /\ phase[p] = "serving" /\ due[p] = 0
    /\ due' = [due EXCEPT ![p] = 1]
    /\ beats' = [beats EXCEPT ![p] = @ \cup {0}]
    /\ UNCHANGED <<program, phase, valid, table, reads, stale, up, missed, faults>>

\* The token of a registration lasts for hours, and is not renewed.
Expires(p) ==
    /\ valid[p]
    /\ valid' = [valid EXCEPT ![p] = FALSE]
    /\ UNCHANGED <<program, phase, due, beats, table, reads, stale, up, missed, faults>>

\* The handler's first await: it has read the row.
Arrives(p, b) ==
    /\ b \in beats[p] /\ up /\ valid[p]
    /\ beats' = [beats EXCEPT ![p] = @ \ {b}]
    /\ reads' = [reads EXCEPT ![p] = @ \cup {status[p]}]
    /\ UNCHANGED <<program, phase, valid, due, table, stale, up, missed, faults>>

NeverHeals(seen) == seen                                  \* mutant: keeps what it read
Healed(seen) == IF seen = "unhealthy" THEN "ok" ELSE seen

\* The second: it writes a status made from the one it read.
Heartbeat(p, seen) ==
    /\ seen \in reads[p]
    /\ reads' = [reads EXCEPT ![p] = @ \ {seen}]
    /\ status' = [status EXCEPT ![p] = Healed(seen)]
    /\ age' = [age EXCEPT ![p] = 0]
    /\ missed' = [missed EXCEPT ![p] = 0]
    /\ UNCHANGED <<program, phase, valid, due, beats, stale, up, faults>>

\* No master, no valid token, or a request lost: the error is logged, no more.
BeatFails(p, b) ==
    /\ b \in beats[p]
    /\ IF up /\ valid[p] THEN Fault ELSE UNCHANGED faults
    /\ beats' = [beats EXCEPT ![p] = @ \ {b}]
    /\ missed' = [missed EXCEPT ![p] = Bump(@)]
    /\ UNCHANGED <<program, phase, valid, due, table, reads, stale, up>>

-----------------------------------------------------------------------------
(* The master.                                                             *)

Silent(p) == age[p] >= Timeout                            \* mutant: a tick early
Stale(p) == age[p] > Timeout

\* registry.sweep: one read, then one write for each row not yet unhealthy.
SweepReads ==
    /\ up /\ stale = {}
    /\ stale' = {p \in Process : status[p] = "ok" /\ Stale(p)}
    /\ UNCHANGED <<client, table, reads, up, faults>>

SweepMarks(p) ==
    /\ p \in stale
    /\ stale' = stale \ {p}
    /\ status' = [status EXCEPT ![p] = "unhealthy"]
    /\ UNCHANGED <<client, age, reads, up, faults>>

MasterDies ==
    /\ up /\ Fault
    /\ up' = FALSE
    /\ missed' = [p \in Process |-> IF reads[p] = {} THEN missed[p] ELSE Bump(missed[p])]
    /\ reads' = [p \in Process |-> {}] /\ stale' = {}
    /\ UNCHANGED <<program, phase, valid, due, beats, table>>

MasterStarts ==
    /\ ~up
    /\ up' = TRUE
    /\ UNCHANGED <<client, table, reads, stale, faults>>

\* Timers fire on time, and the master handles a request within a tick.
Advance ==
    /\ \A p \in Process : /\ phase[p] = "serving" => due[p] > 0
                          /\ Delay \notin beats[p] /\ reads[p] = {}
    /\ stale = {}
    /\ age' = [p \in Process |-> Bump(age[p])]
    /\ due' = [p \in Process |-> IF due[p] > 0 THEN due[p] - 1 ELSE 0]
    /\ beats' = [p \in Process |-> {b + 1 : b \in beats[p]}]
    /\ UNCHANGED <<program, phase, valid, status, reads, stale, up, missed, faults>>

-----------------------------------------------------------------------------
Next ==
    \/ \E p \in Process :
         \/ Login(p) \/ Register(p) \/ BootstrapLost(p) \/ BootstrapRefused(p)
         \/ Expires(p) \/ Dies(p) \/ Starts(p) \/ Timer(p) \/ SweepMarks(p)
         \/ \E b \in 0 .. Delay : Arrives(p, b) \/ BeatFails(p, b)
         \/ \E seen \in {"ok", "unhealthy"} : Heartbeat(p, seen)
    \/ SweepReads \/ MasterDies \/ MasterStarts \/ Advance

\* Time passes, the master is started again, timers fire, requests are
\* answered, and the scheduler goes on.
KeepAliveSpec ==
    /\ Init /\ [][Next]_vars
    /\ WF_vars(Advance) /\ WF_vars(MasterStarts) /\ WF_vars(SweepReads)
    /\ \A p \in Process :
         /\ WF_vars(Login(p) \/ BootstrapLost(p) \/ BootstrapRefused(p) \/ Register(p))
         /\ WF_vars(Timer(p)) /\ WF_vars(SweepMarks(p))
         /\ WF_vars(\E b \in 0 .. Delay : Arrives(p, b) \/ BeatFails(p, b))
         /\ WF_vars(\E seen \in {"ok", "unhealthy"} : Heartbeat(p, seen))

-----------------------------------------------------------------------------
KeepAliveTypeOK ==
    /\ program \in [Process -> {"worker", "script", "dev"}]
    /\ phase \in [Process -> {"login", "register", "bare", "serving", "idle", "dead"}]
    /\ valid \in [Process -> BOOLEAN] /\ due \in [Process -> 0 .. 1]
    /\ beats \in [Process -> SUBSET (0 .. Delay)]
    /\ status \in [Process -> {"none", "ok", "unhealthy"}]
    /\ age \in [Process -> 0 .. Last] /\ missed \in [Process -> 0 .. Last]
    /\ reads \in [Process -> SUBSET {"ok", "unhealthy"}]
    /\ stale \subseteq Process /\ up \in BOOLEAN
    /\ \A p \in Process : phase[p] \in {"bare", "idle"} => program[p] = "dev"

\* worker-registry.ts:138: a sweep takes a worker that serves with a valid token
\* for stale only when it missed a heartbeat, however late the others were, or
\* when it is heard again before the mark.
SweepSparesPunctual ==
    \A p \in stale : phase[p] = "serving" /\ valid[p] => missed[p] > 0 \/ age[p] = 0

\* worker-registry.ts:109-110: a worker marked although it lives, by a sweep
\* that its heartbeat overtook or for heartbeats lost, is ok again while its
\* token lasts.
RowHeals ==
    \A p \in Process : (phase[p] = "serving" /\ status[p] = "unhealthy")
                         ~> (phase[p] # "serving" \/ status[p] = "ok" \/ ~valid[p])
=============================================================================
