-------------------------- MODULE TurnDispatchProofs --------------------------
(***************************************************************************)
(* Turns, leases and the journal together, for any constants: a session    *)
(* has at most one active turn, a client key at most one turn, a completed *)
(* turn has its session.idle in the journal, a settled turn stays settled, *)
(* and the directory with the journal implements FencedLog.                *)
(*                                                                         *)
(* The directory alone comes first: the fencing token is sound for any     *)
(* number of workers, sessions, failures and master crashes.  Every action *)
(* of SessionLease is shown to be a Move: each session keeps its epoch and *)
(* at most loses its owner, or goes to the next epoch, and the grants of   *)
(* the step are exactly those of the new epochs.  A Move preserves         *)
(* LeaseInv.                                                               *)
(*                                                                         *)
(* Of a step of the whole the lemmas keep only what the invariant needs:   *)
(* what it does to the directory (LeaseIInv and Move), to the turns table  *)
(* (TurnsKept, an insertion, or TurnsSettle) and to the journal            *)
(* (unchanged, or one event under the current lease).                      *)
(***************************************************************************)
EXTENDS TurnDispatch, TLAPS

-----------------------------------------------------------------------------
(* The directory alone.                                                    *)

Keeps(s)    == epoch'[s] = epoch[s] /\ owner'[s] \in {owner[s], NoWorker}
Advances(s) == epoch'[s] = epoch[s] + 1 /\ owner'[s] \in Worker \cup {NoWorker}

Move ==
    /\ \A s \in Session : Keeps(s) \/ Advances(s)
    /\ grants \subseteq grants'
    /\ \A g \in grants' \ grants :
         /\ g \in Session \X Nat \X Worker
         /\ g[2] = epoch[g[1]] + 1
         /\ g[2] = epoch'[g[1]]
         /\ g[3] = owner'[g[1]]
    /\ \A s \in Session :
         Advances(s) /\ owner'[s] # NoWorker => <<s, epoch'[s], owner'[s]>> \in grants'

\* A row that was never inserted has no epoch and no owner.
UnusedRow == \A s \in Session : status[s] = "none" => epoch[s] = 0 /\ owner[s] = NoWorker

LeaseIInv == LeaseInv /\ UnusedRow

LEMMA GrantShape ==
  ASSUME LeaseTypeOK, NEW g \in grants
  PROVE  g[1] \in Session /\ g[2] \in Nat /\ g[3] \in Worker /\ g = <<g[1], g[2], g[3]>>
BY DEF LeaseTypeOK

LEMMA MoveKeepsInv ==
  ASSUME LeaseInv, LeaseTypeOK', Move
  PROVE  LeaseInv'
<1>1. \A s \in Session : epoch[s] \in Nat /\ epoch'[s] \in Nat
  BY DEF LeaseInv, LeaseTypeOK
<1>2. \A g \in grants : g[1] \in Session /\ g[2] \in Nat /\ g[2] <= epoch[g[1]]
  BY GrantShape DEF LeaseInv, NoGrantAhead
<1>3. \A g \in grants' \ grants :
        /\ g[1] \in Session
        /\ g[2] = epoch[g[1]] + 1
        /\ g[2] = epoch'[g[1]]
        /\ g[3] = owner'[g[1]]
  BY DEF Move
<1>4. NoGrantAhead'
  <2> SUFFICES ASSUME NEW g \in grants' PROVE g[2] <= epoch'[g[1]]
    BY DEF NoGrantAhead
  <2>1. CASE g \in grants
    <3>1. g[1] \in Session /\ g[2] \in Nat /\ g[2] <= epoch[g[1]]
      BY <1>2, <2>1
    <3>2. epoch'[g[1]] = epoch[g[1]] \/ epoch'[g[1]] = epoch[g[1]] + 1
      BY <3>1 DEF Move, Keeps, Advances
    <3> QED
      BY <1>1, <3>1, <3>2
  <2>2. CASE g \notin grants
    BY <1>1, <1>3, <2>2
  <2> QED
    BY <2>1, <2>2
<1>5. OneWorkerPerEpoch'
  <2> SUFFICES ASSUME NEW g \in grants', NEW h \in grants', g[1] = h[1], g[2] = h[2]
               PROVE g[3] = h[3]
    BY DEF OneWorkerPerEpoch
  <2>1. CASE g \in grants /\ h \in grants
    BY <2>1 DEF LeaseInv, OneWorkerPerEpoch
  <2>2. CASE g \notin grants /\ h \notin grants
    BY <2>2, <1>3
  <2>3. CASE g \in grants /\ h \notin grants
    BY <2>3, <1>1, <1>2, <1>3
  <2>4. CASE g \notin grants /\ h \in grants
    BY <2>4, <1>1, <1>2, <1>3
  <2> QED
    BY <2>1, <2>2, <2>3, <2>4
<1>6. OwnerHoldsEpoch'
  <2> SUFFICES ASSUME NEW s \in Session, owner'[s] # NoWorker
               PROVE <<s, epoch'[s], owner'[s]>> \in grants'
    BY DEF OwnerHoldsEpoch
  <2>1. CASE Keeps(s)
    BY <2>1 DEF Keeps, Move, LeaseInv, OwnerHoldsEpoch
  <2>2. CASE Advances(s)
    BY <2>2 DEF Move
  <2> QED
    BY <2>1, <2>2 DEF Move
<1> QED
  BY <1>4, <1>5, <1>6 DEF LeaseInv

-----------------------------------------------------------------------------
(* The actions of the directory.                                           *)

LEMMA PlaceGivesWorker ==
  ASSUME NEW ws, NEW x, NEW w \in Place(ws, x) \ {NoWorker}
  PROVE  w \in Worker
BY DEF Place

LEMMA StandingStill ==
  ASSUME LeaseTypeOK, UNCHANGED <<owner, epoch, grants>>
  PROVE  Move
BY DEF Move, Keeps, Advances, LeaseTypeOK

LEMMA WorkerStepKeeps ==
  ASSUME LeaseIInv, WorkerStep
  PROVE  LeaseIInv' /\ Move
<1>1. PICK w \in Worker : Start(w) \/ Heartbeat(w) \/ Stop(w) \/ FallSilent(w) \/ CutOff(w)
  BY DEF WorkerStep
<1>2. UNCHANGED <<user, status, owner, epoch, grants, crashes>>
  BY <1>1 DEF Start, Heartbeat, Stop, FallSilent, CutOff, sessionVars
<1>3. /\ alive' \in [Worker -> BOOLEAN]
      /\ fresh' \in [Worker -> BOOLEAN]
      /\ wstatus' \in [Worker -> WorkerStatus]
  BY <1>1 DEF Start, Heartbeat, Stop, FallSilent, CutOff, LeaseIInv, LeaseInv, LeaseTypeOK,
              WorkerStatus
<1>4. upsets' \in 0 .. MaxUpsets
  BY <1>1, LeaseAssumption DEF Start, Heartbeat, Stop, FallSilent, CutOff, Upset, LeaseIInv, LeaseInv,
              LeaseTypeOK
<1>5. LeaseTypeOK'
  BY <1>2, <1>3, <1>4 DEF LeaseIInv, LeaseInv, LeaseTypeOK, OwnerFitsStatus
<1> QED
  BY <1>2, <1>5, StandingStill, MoveKeepsInv DEF LeaseIInv, LeaseInv, UnusedRow

LEMMA CreateKeeps ==
  ASSUME LeaseIInv, NEW s \in Session, NEW u \in User, NEW w \in Worker,
         CreateSession(s, u, w)
  PROVE  LeaseIInv' /\ Move
<1>1. epoch[s] = 0 /\ owner[s] = NoWorker
  BY DEF LeaseIInv, UnusedRow, CreateSession
<1>2. LeaseTypeOK'
  BY LeaseAssumption
     DEF CreateSession, LeaseIInv, LeaseInv, LeaseTypeOK, OwnerFitsStatus, workerVars, SessionStatus
<1>3. /\ \A r \in Session : r # s => epoch'[r] = epoch[r] /\ owner'[r] = owner[r]
      /\ epoch'[s] = 1 /\ owner'[s] = w
      /\ grants' = grants \cup {<<s, 1, w>>}
  BY DEF CreateSession, LeaseIInv, LeaseInv, LeaseTypeOK
<1>4. Move
  BY <1>1, <1>3 DEF Move, Keeps, Advances, LeaseIInv, LeaseInv, LeaseTypeOK
<1>5. UnusedRow'
  BY DEF CreateSession, UnusedRow, LeaseIInv, LeaseInv, LeaseTypeOK
<1> QED
  BY <1>2, <1>4, <1>5, MoveKeepsInv DEF LeaseIInv

LEMMA PromptKeeps ==
  ASSUME LeaseIInv, NEW s \in Session, NEW w \in Worker,
         WorkerForPrompt(s, w), UNCHANGED crashes \/ Crash
  PROVE  LeaseIInv' /\ Move
<1>0. crashes' \in 0 .. MaxCrashes
  BY LeaseAssumption DEF Crash, LeaseIInv, LeaseInv, LeaseTypeOK
<1>1. CASE UNCHANGED <<status, owner, epoch, grants>>
  <2>1. LeaseTypeOK'
    BY <1>0, <1>1 DEF WorkerForPrompt, LeaseIInv, LeaseInv, LeaseTypeOK, OwnerFitsStatus, workerVars
  <2> QED
    BY <1>1, <2>1, StandingStill, MoveKeepsInv DEF LeaseIInv, LeaseInv, UnusedRow
<1>2. CASE /\ status' = [status EXCEPT ![s] = "assigned"]
           /\ owner' = [owner EXCEPT ![s] = w]
           /\ epoch' = [epoch EXCEPT ![s] = NextEpoch(s)]
           /\ grants' = grants \cup {<<s, NextEpoch(s), w>>}
  <2>1. LeaseTypeOK'
    BY <1>0, <1>2, LeaseAssumption
       DEF WorkerForPrompt, LeaseIInv, LeaseInv, LeaseTypeOK, OwnerFitsStatus, workerVars,
                      SessionStatus, NextEpoch
  <2>2. /\ \A r \in Session : r # s => epoch'[r] = epoch[r] /\ owner'[r] = owner[r]
        /\ epoch'[s] = epoch[s] + 1 /\ owner'[s] = w
        /\ grants' = grants \cup {<<s, epoch[s] + 1, w>>}
        /\ \A r \in Session : epoch[r] \in Nat
    BY <1>2 DEF LeaseIInv, LeaseInv, LeaseTypeOK, NextEpoch
  <2>3. Move
    BY <2>2 DEF Move, Keeps, Advances
  <2>4. UnusedRow'
    BY <1>2 DEF UnusedRow, LeaseIInv, LeaseInv, LeaseTypeOK, WorkerForPrompt
  <2> QED
    BY <2>1, <2>3, <2>4, MoveKeepsInv DEF LeaseIInv
<1> QED
  BY <1>1, <1>2 DEF WorkerForPrompt

LEMMA EndKeeps ==
  ASSUME LeaseIInv, NEW s \in Session, End(s)
  PROVE  LeaseIInv' /\ Move
<1>1. LeaseTypeOK'
  BY LeaseAssumption
     DEF End, Upset, LeaseIInv, LeaseInv, LeaseTypeOK, OwnerFitsStatus, workerVars, SessionStatus
<1>2. Move
  BY DEF End, Move, Keeps, Advances, LeaseIInv, LeaseInv, LeaseTypeOK
<1>3. UnusedRow'
  BY DEF End, UnusedRow, LeaseIInv, LeaseInv, LeaseTypeOK
<1> QED
  BY <1>1, <1>2, <1>3, MoveKeepsInv DEF LeaseIInv

(* A sweep, whole or cut short: marked workers, moved sessions.            *)
LEMMA SweepKeeps ==
  ASSUME LeaseIInv, NEW marked \in SUBSET Stale, NEW moved \in SUBSET OwnedBy(marked),
         SweepAll(marked, moved), UNCHANGED crashes \/ Crash
  PROVE  LeaseIInv' /\ Move
<1>0. crashes' \in 0 .. MaxCrashes
  BY LeaseAssumption DEF Crash, LeaseIInv, LeaseInv, LeaseTypeOK
<1>1. PICK home \in NewHomes(moved) : Rehome(moved, home)
  BY DEF SweepAll
<1>2. moved \subseteq Session /\ \A s \in moved : status[s] # "none"
  BY DEF OwnedBy, Live
<1>3. \A s \in moved : home[s] \in Worker \cup {NoWorker}
  BY <1>1 DEF NewHomes
<1>4. /\ \A s \in moved : epoch'[s] = epoch[s] + 1 /\ owner'[s] = home[s]
                          /\ status'[s] = "recovering"
      /\ \A s \in Session \ moved : epoch'[s] = epoch[s] /\ owner'[s] = owner[s]
                                    /\ status'[s] = status[s]
  BY <1>1, <1>2 DEF Rehome, NextEpoch
<1>5. \A s \in Session : epoch[s] \in Nat
  BY DEF LeaseIInv, LeaseInv, LeaseTypeOK
<1>6. grants' = grants \cup {<<s, epoch[s] + 1, home[s]>> : s \in {r \in moved : home[r] # NoWorker}}
  BY <1>1 DEF Rehome, Granted, NextEpoch
<1>7. \A g \in grants' \ grants : \E s \in moved :
        home[s] # NoWorker /\ g = <<s, epoch[s] + 1, home[s]>>
  BY <1>6
<1>8. LeaseTypeOK'
  <2>1. grants' \subseteq Session \X Nat \X Worker
    BY <1>2, <1>3, <1>5, <1>7 DEF LeaseIInv, LeaseInv, LeaseTypeOK
  <2>2. wstatus' \in [Worker -> WorkerStatus]
    BY DEF SweepAll, MarkUnhealthy, LeaseIInv, LeaseInv, LeaseTypeOK, WorkerStatus
  <2>3. status' \in [Session -> SessionStatus]
    BY <1>1, <1>4 DEF Rehome, LeaseIInv, LeaseInv, LeaseTypeOK, SessionStatus
  <2>4. owner' \in [Session -> Worker \cup {NoWorker}]
    BY <1>1, <1>3 DEF Rehome, LeaseIInv, LeaseInv, LeaseTypeOK
  <2>5. epoch' \in [Session -> Nat]
    BY <1>1, <1>5 DEF Rehome, NextEpoch
  <2>6. OwnerFitsStatus'
    BY <1>4 DEF LeaseIInv, LeaseInv, LeaseTypeOK, OwnerFitsStatus
  <2> QED
    BY <1>0, <2>1, <2>2, <2>3, <2>4, <2>5, <2>6 DEF SweepAll, LeaseIInv, LeaseInv, LeaseTypeOK
<1>9. Move
  <2>1. \A s \in Session : Keeps(s) \/ Advances(s)
    BY <1>3, <1>4 DEF Keeps, Advances
  <2>2. grants \subseteq grants'
    BY <1>6
  <2>3. \A g \in grants' \ grants :
          /\ g \in Session \X Nat \X Worker
          /\ g[2] = epoch[g[1]] + 1
          /\ g[2] = epoch'[g[1]]
          /\ g[3] = owner'[g[1]]
    BY <1>2, <1>3, <1>4, <1>5, <1>7
  <2>4. \A s \in Session :
          Advances(s) /\ owner'[s] # NoWorker => <<s, epoch'[s], owner'[s]>> \in grants'
    BY <1>2, <1>4, <1>5, <1>6 DEF Advances
  <2> QED
    BY <2>1, <2>2, <2>3, <2>4 DEF Move
<1>10. UnusedRow'
  BY <1>2, <1>4 DEF UnusedRow, LeaseIInv
<1> QED
  BY <1>8, <1>9, <1>10, MoveKeepsInv DEF LeaseIInv

LEMMA LeaseStep ==
  ASSUME LeaseIInv, [LeaseNext]_leaseVars
  PROVE  LeaseIInv' /\ Move
<1>1. CASE WorkerStep
  BY <1>1, WorkerStepKeeps
<1>2. CASE SessionStep
  <2>1. PICK s \in Session :
          \/ \E u \in User, w \in Worker : CreateSession(s, u, w)
          \/ \E w \in Worker : WorkerForPrompt(s, w) /\ (UNCHANGED crashes \/ Crash)
          \/ End(s)
    BY <1>2 DEF SessionStep
  <2> QED
    BY <2>1, CreateKeeps, PromptKeeps, EndKeeps
<1>3. CASE Sweep
  <2>1. SweepAll(Stale, OwnedBy(Stale)) /\ UNCHANGED crashes
    BY <1>3 DEF Sweep
  <2> QED
    BY <2>1, SweepKeeps
<1>4. CASE SweepCutShort
  BY <1>4, SweepKeeps DEF SweepCutShort
<1>5. CASE UNCHANGED leaseVars
  <2>1. LeaseIInv'
    BY <1>5 DEF leaseVars, workerVars, sessionVars, LeaseIInv, LeaseInv, LeaseTypeOK, OwnerFitsStatus, UnusedRow,
                OneWorkerPerEpoch, OwnerHoldsEpoch, NoGrantAhead
  <2> QED
    BY <1>5, <2>1, StandingStill DEF leaseVars, sessionVars, LeaseIInv, LeaseInv
<1> QED
  BY <1>1, <1>2, <1>3, <1>4, <1>5 DEF LeaseNext

LEMMA LeaseStart == LeaseInit => LeaseIInv
BY LeaseAssumption DEF LeaseInit, LeaseIInv, LeaseInv, LeaseTypeOK, OwnerFitsStatus, UnusedRow, OneWorkerPerEpoch,
       OwnerHoldsEpoch, NoGrantAhead, WorkerStatus, SessionStatus

-----------------------------------------------------------------------------
(* Every row keeps its type and no epoch of a session is given to two
   workers, for any constants (session-service.ts:91-113).                 *)
THEOREM LeaseSafe ==
  LeaseSpec => [](LeaseTypeOK /\ OneWorkerPerEpoch /\ OwnerHoldsEpoch /\ NoGrantAhead)
<1>1. LeaseIInv => LeaseTypeOK /\ OneWorkerPerEpoch /\ OwnerHoldsEpoch /\ NoGrantAhead
  BY DEF LeaseIInv, LeaseInv
<1>2. LeaseIInv /\ [LeaseNext]_leaseVars => LeaseIInv'
  BY LeaseStep
<1> QED
  BY LeaseStart, <1>1, <1>2, PTL DEF LeaseSpec

(* Rows, owners, epochs and grants keep their types.                       *)
THEOREM LeaseTyped == LeaseSpec => []LeaseTypeOK
<1>1. LeaseTypeOK /\ OneWorkerPerEpoch /\ OwnerHoldsEpoch /\ NoGrantAhead => LeaseTypeOK
  OBVIOUS
<1> QED
  BY LeaseSafe, <1>1, PTL

(* An epoch never goes back, and a new owner always has a new one.         *)
THEOREM EpochFences == LeaseSpec => EpochFencesOwner
<1> DEFINE Fenced == \A s \in Session :
      /\ epoch'[s] >= epoch[s]
      /\ owner'[s] \notin {owner[s], NoWorker} => epoch'[s] > epoch[s]
<1>1. LeaseIInv /\ [LeaseNext]_leaseVars => LeaseIInv'
  BY LeaseStep
<1>2. LeaseIInv /\ [LeaseNext]_leaseVars => [Fenced]_leaseVars
  <2> SUFFICES ASSUME LeaseIInv, [LeaseNext]_leaseVars, NEW s \in Session
               PROVE /\ epoch'[s] >= epoch[s]
                     /\ owner'[s] \notin {owner[s], NoWorker} => epoch'[s] > epoch[s]
    OBVIOUS
  <2>1. Keeps(s) \/ Advances(s)
    BY LeaseStep DEF Move
  <2>2. epoch[s] \in Nat
    BY DEF LeaseIInv, LeaseInv, LeaseTypeOK
  <2> QED
    BY <2>1, <2>2 DEF Keeps, Advances
<1> QED
  BY LeaseStart, <1>1, <1>2, PTL DEF LeaseSpec, EpochFencesOwner

-----------------------------------------------------------------------------
(* The turns and the journal with it.                                      *)

TurnIInv ==
    /\ LeaseIInv
    /\ TurnTypeOK
    /\ OneActiveTurn
    /\ KeyAdmittedOnce
    /\ CompletedHasIdle
    /\ TurnUnderGrant

\* A row stays, or an active one is settled with everything else kept.
SettlesTo(t, st) ==
    turns'[t] = turns[t] \/ (Active(t) /\ turns'[t] = [turns[t] EXCEPT !.status = st])

\* Each journal only grows.
JournalGrows ==
    \A s \in Session :
        /\ Len(journal[s]) <= Len(journal'[s])
        /\ \A i \in 1 .. Len(journal[s]) : journal'[s][i] = journal[s][i]

-----------------------------------------------------------------------------
(* Sequences.                                                              *)

LEMMA ElementOfJournal ==
  ASSUME NEW S, NEW q \in Seq(S), NEW i \in 1 .. Len(q)
  PROVE  q[i] \in S
OBVIOUS

LEMMA AppendedJournal ==
  ASSUME NEW S, NEW q \in Seq(S), NEW e \in S
  PROVE  /\ Append(q, e) \in Seq(S)
         /\ Len(q) \in Nat
         /\ Len(Append(q, e)) = Len(q) + 1
         /\ \A i \in 1 .. Len(q) : Append(q, e)[i] = q[i]
         /\ Append(q, e)[Len(q) + 1] = e
OBVIOUS

\* The set of restarted workers only grows.
RestartsCounted == reborn \subseteq reborn' /\ reborn' \subseteq Worker

LEMMA RestartStep ==
  ASSUME TurnTypeOK, [Next]_allVars
  PROVE  RestartsCounted
BY DEF TurnTypeOK, RestartsCounted, Next, CountRestarts, allVars

-----------------------------------------------------------------------------
(* The directory part of every step.                                       *)

\* A crash that leaves the directory alone.
LEMMA PlainCrashKeeps ==
  ASSUME LeaseIInv, Crash, UNCHANGED <<workerVars, sessionVars, upsets>>
  PROVE  LeaseIInv' /\ Move
<1>1. crashes' \in 0 .. MaxCrashes
  BY LeaseAssumption DEF Crash, LeaseIInv, LeaseInv, LeaseTypeOK
<1>2. LeaseTypeOK'
  BY <1>1 DEF LeaseIInv, LeaseInv, LeaseTypeOK, OwnerFitsStatus, workerVars, sessionVars
<1> QED
  BY <1>2, StandingStill, MoveKeepsInv DEF LeaseIInv, LeaseInv, UnusedRow, sessionVars

LEMMA SameLeaseKeeps ==
  ASSUME LeaseIInv, UNCHANGED leaseVars
  PROVE  LeaseIInv' /\ Move
BY LeaseStep

LEMMA DirectoryPart ==
  ASSUME LeaseIInv, [Next]_allVars
  PROVE  LeaseIInv' /\ Move
<1>1. CASE RegistryStep
  BY <1>1, WorkerStepKeeps DEF RegistryStep
<1>2. CASE DirectoryStep
  <2>1. CASE \E s \in Session, u \in User, w \in Worker : CreateSession(s, u, w)
    BY <2>1, CreateKeeps
  <2>2. CASE \E s \in Session : End(s)
    BY <2>2, EndKeeps
  <2>3. CASE Sweep
    BY <2>3, LeaseStep DEF LeaseNext
  <2> QED
    BY <1>2, <2>1, <2>2, <2>3 DEF DirectoryStep
<1>3. CASE ClientStep
  BY <1>3, PromptKeeps, CreateKeeps DEF ClientStep, Prompt, PromptWithoutTurn, Trigger
<1>4. CASE TurnStep
  BY <1>4, SameLeaseKeeps DEF TurnStep, CallFails, CallReturns, Ingest
<1>5. CASE CrashStep
  <2>1. CASE \E s \in Session, k \in Key, w \in Worker : PromptCutShort(s, k, w)
    BY <2>1, PromptKeeps DEF PromptCutShort
  <2>2. CASE \E t \in Turn, kind \in Kind : IngestCutShort(t, kind)
    BY <2>2, PlainCrashKeeps DEF IngestCutShort
  <2>3. CASE SweepDies
    BY <2>3, LeaseStep DEF SweepDies, LeaseNext
  <2> QED
    BY <1>5, <2>1, <2>2, <2>3 DEF CrashStep
<1>6. CASE UNCHANGED allVars
  BY <1>6, SameLeaseKeeps DEF allVars
<1> QED
  BY <1>1, <1>2, <1>3, <1>4, <1>5, <1>6 DEF Next

-----------------------------------------------------------------------------
(* What a step does to the turns table.                                    *)

LEMMA NoTurnIsNoRow == NoTurn \notin TurnRow
BY TurnAssumption DEF TurnRow

LEMMA RowType ==
  ASSUME TurnTypeOK, NEW t \in Turns
  PROVE  /\ t \in Turn /\ turns[t] \in TurnRow
         /\ turns[t].session \in Session /\ turns[t].epoch \in Nat
         /\ turns[t].worker \in Worker /\ turns[t].key \in Key
<1>1. t \in Turn /\ turns[t] \in TurnRow
  BY DEF TurnTypeOK, Turns
<1> QED
  BY <1>1 DEF TurnRow

\* Settling a turn keeps the table typed and touches one active row.
LEMMA SettleKeeps ==
  ASSUME TurnTypeOK, NEW t \in Turn, NEW st \in {"completed", "failed"}, turns' = Settle(t, st)
  PROVE  /\ turns' \in [Turn -> TurnRow \cup {NoTurn}]
         /\ \A r \in Turn : r # t => turns'[r] = turns[r]
         /\ SettlesTo(t, st)
<1>1. CASE Active(t)
  <2>1. t \in Turns
    BY <1>1 DEF Active, Turns
  <2>2. [turns[t] EXCEPT !.status = st] \in TurnRow
    BY <2>1, RowType DEF TurnRow
  <2>3. turns' = [turns EXCEPT ![t] = [turns[t] EXCEPT !.status = st]]
    BY <1>1 DEF Settle
  <2> QED
    BY <1>1, <2>2, <2>3 DEF TurnTypeOK, SettlesTo
<1>2. CASE ~Active(t)
  BY <1>2 DEF Settle, SettlesTo, TurnTypeOK
<1> QED
  BY <1>1, <1>2

\* Rows that are kept or settled, in a directory that moves and a journal
\* that grows, preserve the invariants of the table.
TableSettles ==
    /\ turns' \in [Turn -> TurnRow \cup {NoTurn}]
    /\ \A r \in Turn : \E st \in {"completed", "failed"} : SettlesTo(r, st)
    /\ \A r \in Turns :
         turns'[r] # turns[r] /\ turns'[r].status = "completed" =>
            Journaled(r, "session.idle")' \/ turns[r].worker \in reborn

LEMMA SettledRow ==
  ASSUME TurnTypeOK, TableSettles, NEW r \in Turn
  PROVE  /\ r \in Turns' <=> r \in Turns
         /\ r \in Turns => /\ turns'[r].session = turns[r].session
                           /\ turns'[r].key = turns[r].key
                           /\ turns'[r].worker = turns[r].worker
                           /\ turns'[r].epoch = turns[r].epoch
         /\ Active(r)' => Active(r)
<1>1. PICK st \in {"completed", "failed"} : SettlesTo(r, st)
  BY DEF TableSettles
<1>2. CASE turns'[r] = turns[r]
  BY <1>2 DEF Turns, Active
<1>3. CASE Active(r) /\ turns'[r] = [turns[r] EXCEPT !.status = st]
  <2>1. r \in Turns
    BY <1>3 DEF Active, Turns
  <2>2. turns[r] \in TurnRow /\ turns'[r] \in TurnRow
    BY <2>1, <1>3, RowType DEF TurnRow
  <2> QED
    BY <2>1, <2>2, <1>3, NoTurnIsNoRow DEF Turns, Active, TurnRow
<1> QED
  BY <1>1, <1>2, <1>3 DEF SettlesTo

LEMMA JournaledStays ==
  ASSUME TurnTypeOK, TurnTypeOK', JournalGrows, NEW t \in Turns, NEW kind \in Kind,
         t \in Turns', turns'[t].session = turns[t].session, Journaled(t, kind)
  PROVE  Journaled(t, kind)'
<1>1. turns[t].session \in Session
  BY RowType
<1>2. PICK i \in 1 .. Len(journal[turns[t].session]) :
        /\ journal[turns[t].session][i].turn = t
        /\ journal[turns[t].session][i].kind = kind
  BY DEF Journaled
<1>3. Len(journal[turns[t].session]) \in Nat /\ Len(journal'[turns[t].session]) \in Nat
  BY <1>1 DEF TurnTypeOK
<1>4. i \in 1 .. Len(journal'[turns[t].session])
  BY <1>1, <1>3 DEF JournalGrows
<1>5. journal'[turns[t].session][i] = journal[turns[t].session][i]
  BY <1>1 DEF JournalGrows
<1> QED
  BY <1>2, <1>4, <1>5 DEF Journaled, Turns

LEMMA MoveKeepsGrant ==
  ASSUME LeaseIInv, Move, NEW s \in Session
  PROVE  epoch[s] <= epoch'[s] /\ grants \subseteq grants' /\ epoch[s] \in Nat
BY DEF LeaseIInv, LeaseInv, LeaseTypeOK, Move, Keeps, Advances

LEMMA SettleStep ==
  ASSUME TurnIInv, LeaseIInv', Move, TurnTypeOK', TableSettles, JournalGrows, reborn \subseteq reborn'
  PROVE  TurnIInv'
<1> USE DEF TurnIInv
<1>1. OneActiveTurn'
  <2> SUFFICES ASSUME NEW t \in Turn, NEW r \in Turn, Active(t)', Active(r)',
                      turns'[t].session = turns'[r].session
               PROVE t = r
    BY DEF OneActiveTurn
  <2>1. Active(t) /\ Active(r)
    BY SettledRow
  <2>2. t \in Turns /\ r \in Turns
    BY <2>1 DEF Active, Turns
  <2>3. turns[t].session = turns[r].session
    BY <2>2, SettledRow
  <2> QED
    BY <2>1, <2>3 DEF OneActiveTurn
<1>2. KeyAdmittedOnce'
  <2> SUFFICES ASSUME NEW t \in Turns', NEW r \in Turns',
                      turns'[t].session = turns'[r].session, turns'[t].key = turns'[r].key
               PROVE t = r
    BY DEF KeyAdmittedOnce
  <2>1. t \in Turn /\ r \in Turn
    BY DEF Turns
  <2>2. t \in Turns /\ r \in Turns
    BY <2>1, SettledRow
  <2>3. turns[t].session = turns[r].session /\ turns[t].key = turns[r].key
    BY <2>1, <2>2, SettledRow
  <2> QED
    BY <2>2, <2>3 DEF KeyAdmittedOnce
<1>3. CompletedHasIdle'
  <2> SUFFICES ASSUME NEW t \in Turns', turns'[t].status = "completed"
               PROVE Journaled(t, "session.idle")' \/ turns'[t].worker \in reborn'
    BY DEF CompletedHasIdle
  <2>1. /\ t \in Turn /\ t \in Turns
        /\ turns'[t].session = turns[t].session /\ turns'[t].worker = turns[t].worker
    BY SettledRow DEF Turns
  <2>2. CASE turns'[t] = turns[t]
    <3>1. /\ Journaled(t, "session.idle") \/ turns[t].worker \in reborn
          /\ "session.idle" \in Kind
      BY <2>1, <2>2 DEF CompletedHasIdle, Kind, Terminal
    <3> QED
      BY <2>1, <3>1, JournaledStays
  <2>3. CASE turns'[t] # turns[t]
    BY <2>1, <2>3 DEF TableSettles
  <2> QED
    BY <2>2, <2>3
<1>4. TurnUnderGrant'
  <2> SUFFICES ASSUME NEW t \in Turns'
               PROVE /\ turns'[t].epoch <= epoch'[turns'[t].session]
                     /\ <<turns'[t].session, turns'[t].epoch, turns'[t].worker>> \in grants'
    BY DEF TurnUnderGrant
  <2>1. t \in Turn /\ t \in Turns
    BY SettledRow DEF Turns
  <2>2. /\ turns'[t].session = turns[t].session
        /\ turns'[t].epoch = turns[t].epoch
        /\ turns'[t].worker = turns[t].worker
    BY <2>1, SettledRow
  <2>3. turns[t].session \in Session /\ turns[t].epoch \in Nat
    BY <2>1, RowType
  <2>4. /\ turns[t].epoch <= epoch[turns[t].session]
        /\ <<turns[t].session, turns[t].epoch, turns[t].worker>> \in grants
    BY <2>1 DEF TurnUnderGrant
  <2>5. /\ epoch[turns[t].session] <= epoch'[turns[t].session]
        /\ grants \subseteq grants'
        /\ epoch[turns[t].session] \in Nat
    BY <2>3, MoveKeepsGrant
  <2>6. epoch'[turns[t].session] \in Nat
    BY <2>3 DEF LeaseIInv, LeaseInv, LeaseTypeOK
  <2> QED
    BY <2>2, <2>3, <2>4, <2>5, <2>6
<1> QED
  BY <1>1, <1>2, <1>3, <1>4

\* A step that inserts a row: the prompt, the trigger, a prompt cut short.
LEMMA InsertStep ==
  ASSUME TurnIInv, LeaseIInv', Move,
         NEW t \in Turn, NEW s \in Session, NEW k \in Key, NEW w \in Worker,
         NEW st \in {"pending", "leased"}, Insert(t, s, k, w, st),
         owner'[s] = w, calls' \subseteq Turn, sent' \subseteq sent \cup {t}, UNCHANGED journal,
         reborn \subseteq reborn', reborn' \subseteq Worker
  PROVE  TurnIInv'
<1> USE DEF TurnIInv
<1> DEFINE row == [session |-> s, key |-> k, worker |-> w, epoch |-> epoch'[s], status |-> st]
<1>1. row \in TurnRow
  BY DEF TurnRow, LeaseIInv, LeaseInv, LeaseTypeOK
<1>2. /\ turns[t] = NoTurn
      /\ turns'[t] = row
      /\ \A r \in Turn : r # t => turns'[r] = turns[r]
      /\ turns' \in [Turn -> TurnRow \cup {NoTurn}]
  BY <1>1 DEF Insert, TurnTypeOK
<1>3. /\ t \notin Turns /\ t \in Turns'
      /\ \A r \in Turn : r \in Turns' => r = t \/ (r \in Turns /\ turns'[r] = turns[r])
      /\ Turns \subseteq Turns'
  BY <1>1, <1>2, NoTurnIsNoRow DEF Turns
<1>4. TurnTypeOK'
  BY <1>2, <1>3 DEF TurnTypeOK
<1>5. OneActiveTurn'
  <2>1. \A r \in Turn : Active(r) => turns[r].session # s
    BY DEF Insert, Busy, TurnsOf, Active, Turns
  <2>2. \A r \in Turn : Active(r)' => r = t \/ (Active(r) /\ turns'[r] = turns[r])
    BY <1>2 DEF Active
  <2> SUFFICES ASSUME NEW r \in Turn, NEW q \in Turn, Active(r)', Active(q)',
                      turns'[r].session = turns'[q].session
               PROVE r = q
    BY DEF OneActiveTurn
  <2>3. turns'[t].session = s
    BY <1>2
  <2> QED
    BY <2>1, <2>2, <2>3 DEF OneActiveTurn
<1>6. KeyAdmittedOnce'
  <2>1. \A r \in Turns : turns[r].session = s => turns[r].key # k
    BY DEF Insert, KeyKnown, TurnsOf
  <2> SUFFICES ASSUME NEW r \in Turns', NEW q \in Turns',
                      turns'[r].session = turns'[q].session, turns'[r].key = turns'[q].key
               PROVE r = q
    BY DEF KeyAdmittedOnce
  <2>2. r \in Turn /\ q \in Turn
    BY DEF Turns
  <2>3. turns'[t].session = s /\ turns'[t].key = k
    BY <1>2
  <2> QED
    BY <1>3, <2>1, <2>2, <2>3 DEF KeyAdmittedOnce
<1>7. CompletedHasIdle'
  <2> SUFFICES ASSUME NEW r \in Turns', turns'[r].status = "completed"
               PROVE Journaled(r, "session.idle")' \/ turns'[r].worker \in reborn'
    BY DEF CompletedHasIdle
  <2>1. r \in Turn /\ r # t
    BY <1>2 DEF Turns
  <2>2. r \in Turns /\ turns'[r] = turns[r]
    BY <1>3, <2>1
  <2> QED
    BY <2>2 DEF CompletedHasIdle, Journaled, Turns
<1>8. TurnUnderGrant'
  <2>1. epoch'[s] \in Nat /\ <<s, epoch'[s], w>> \in grants'
    BY LeaseAssumption DEF LeaseIInv, LeaseInv, LeaseTypeOK, OwnerHoldsEpoch
  <2> SUFFICES ASSUME NEW r \in Turns'
               PROVE /\ turns'[r].epoch <= epoch'[turns'[r].session]
                     /\ <<turns'[r].session, turns'[r].epoch, turns'[r].worker>> \in grants'
    BY DEF TurnUnderGrant
  <2>2. CASE r = t
    BY <1>2, <2>1, <2>2
  <2>3. CASE r # t
    <3>1. r \in Turns /\ turns'[r] = turns[r]
      BY <1>3, <2>3 DEF Turns
    <3>2. turns[r].session \in Session /\ turns[r].epoch \in Nat
      BY <3>1, RowType
    <3>3. /\ turns[r].epoch <= epoch[turns[r].session]
          /\ <<turns[r].session, turns[r].epoch, turns[r].worker>> \in grants
      BY <3>1 DEF TurnUnderGrant
    <3>4. epoch[turns[r].session] <= epoch'[turns[r].session] /\ grants \subseteq grants'
          /\ epoch[turns[r].session] \in Nat
      BY <3>2, MoveKeepsGrant
    <3>5. epoch'[turns[r].session] \in Nat
      BY <3>2 DEF LeaseIInv, LeaseInv, LeaseTypeOK
    <3> QED
      BY <3>1, <3>2, <3>3, <3>4, <3>5
  <2> QED
    BY <2>2, <2>3
<1> QED
  BY <1>4, <1>5, <1>6, <1>7, <1>8

\* The owner of a session after it was created or chosen for a prompt.
LEMMA ChosenWorker ==
  ASSUME LeaseIInv, NEW s \in Session, NEW w \in Worker,
         WorkerForPrompt(s, w) \/ \E u \in User : CreateSession(s, u, w)
  PROVE  owner'[s] = w
BY DEF WorkerForPrompt, CreateSession, LeaseIInv, LeaseInv, LeaseTypeOK

\* A step that leaves the table and the journal alone.
LEMMA TableAlone ==
  ASSUME TurnIInv, LeaseIInv', Move, UNCHANGED <<turns, sent, journal>>, calls' \subseteq Turn,
         reborn \subseteq reborn', reborn' \subseteq Worker
  PROVE  TurnIInv'
<1>1. TurnTypeOK'
  BY DEF TurnIInv, TurnTypeOK, Turns
<1>2. TableSettles
  BY DEF TurnIInv, TurnTypeOK, TableSettles, SettlesTo, Turns
<1>3. JournalGrows
  BY DEF JournalGrows, TurnIInv, TurnTypeOK
<1> QED
  BY <1>1, <1>2, <1>3, SettleStep

-----------------------------------------------------------------------------
(* The journal.                                                            *)

\* Appending writes at most one event, under the lease of the moment.
LEMMA AppendShape ==
  ASSUME TurnTypeOK, NEW t \in Turn, NEW kind \in Kind, LeaseCurrent(t), AppendEvent(t, kind)
  PROVE  /\ journal' \in [Session -> Seq(Event)]
         /\ JournalGrows
         /\ UNCHANGED journal
            \/ \E s \in Session, e \in Event :
                  /\ e.worker = owner[s] /\ e.epoch = epoch[s]
                  /\ journal' = [journal EXCEPT ![s] = Append(@, e)]
         /\ \/ turns[t].worker \in reborn
            \/ \E i \in 1 .. Len(journal'[turns[t].session]) :
                  /\ journal'[turns[t].session][i].turn = t
                  /\ journal'[turns[t].session][i].kind = kind
<1> DEFINE s == turns[t].session
           e == [turn |-> t, kind |-> kind, worker |-> turns[t].worker, epoch |-> turns[t].epoch]
<1>1. t \in Turns
  BY DEF LeaseCurrent, Turns
<1>2. s \in Session /\ turns[t].worker \in Worker /\ turns[t].epoch \in Nat
  BY <1>1, RowType
<1>3. e \in Event
  BY <1>2 DEF Event
<1>4. journal[s] \in Seq(Event)
  BY <1>2 DEF TurnTypeOK
<1>5. \A r \in Session : Len(journal[r]) \in Nat
  BY DEF TurnTypeOK
<1>6. CASE journal' = journal /\ (Journaled(t, kind) \/ IdTaken(t))
  <2>1. JournalGrows
    BY <1>5, <1>6 DEF JournalGrows
  <2> QED
    BY <1>6, <2>1 DEF Journaled, IdTaken, TurnTypeOK
<1>7. CASE journal' = [journal EXCEPT ![s] = Append(@, e)]
  <2>1. journal' = [journal EXCEPT ![s] = Append(@, e)]
    BY <1>7
  <2>2. /\ journal'[s] = Append(journal[s], e)
        /\ \A r \in Session : r # s => journal'[r] = journal[r]
    BY <1>2, <2>1 DEF TurnTypeOK
  <2>3. /\ journal'[s] \in Seq(Event)
        /\ Len(journal[s]) \in Nat
        /\ Len(journal'[s]) = Len(journal[s]) + 1
        /\ \A i \in 1 .. Len(journal[s]) : journal'[s][i] = journal[s][i]
        /\ journal'[s][Len(journal[s]) + 1] = e
    BY <1>3, <1>4, <2>2, AppendedJournal
  <2>4. journal' \in [Session -> Seq(Event)]
    BY <1>2, <2>1, <2>2, <2>3 DEF TurnTypeOK
  <2>5. JournalGrows
    <3> SUFFICES ASSUME NEW r \in Session
                 PROVE /\ Len(journal[r]) <= Len(journal'[r])
                       /\ \A i \in 1 .. Len(journal[r]) : journal'[r][i] = journal[r][i]
      BY DEF JournalGrows
    <3>1. CASE r = s
      BY <2>3, <3>1
    <3>2. CASE r # s
      BY <1>5, <2>2, <3>2
    <3> QED
      BY <3>1, <3>2
  <2>6. e.worker = owner[s] /\ e.epoch = epoch[s]
    BY DEF LeaseCurrent
  <2>7. Len(journal[s]) + 1 \in 1 .. Len(journal'[s])
    BY <2>3
  <2>8. e.turn = t /\ e.kind = kind
    OBVIOUS
  <2>9. \E i \in 1 .. Len(journal'[s]) : journal'[s][i].turn = t /\ journal'[s][i].kind = kind
    BY <2>3, <2>7, <2>8
  <2> QED
    BY <1>2, <1>3, <2>1, <2>4, <2>5, <2>6, <2>9
<1> QED
  BY <1>6, <1>7 DEF AppendEvent

LEMMA SettleForKeeps ==
  ASSUME TurnTypeOK, NEW t \in Turn, NEW kind \in Kind, turns' = SettleFor(t, kind)
  PROVE  /\ turns' \in [Turn -> TurnRow \cup {NoTurn}]
         /\ \A r \in Turn : r # t => turns'[r] = turns[r]
         /\ \E st \in {"completed", "failed"} : SettlesTo(t, st)
         /\ turns'[t] # turns[t] /\ turns'[t].status = "completed" => kind = "session.idle"
<1>1. CASE kind = "session.idle"
  <2>1. turns' = Settle(t, "completed")
    BY <1>1 DEF SettleFor
  <2> QED
    BY <1>1, <2>1, SettleKeeps
<1>2. CASE kind = "worker.execution.error"
  <2>1. turns' = Settle(t, "failed")
    BY <1>2 DEF SettleFor
  <2>2. SettlesTo(t, "failed")
    BY <2>1, SettleKeeps
  <2>3. turns'[t] # turns[t] => turns'[t].status # "completed"
    <3>1. CASE Active(t) /\ turns'[t] = [turns[t] EXCEPT !.status = "failed"]
      <4>1. turns[t] \in TurnRow
        BY <3>1, RowType DEF Active, Turns
      <4> QED
        BY <3>1, <4>1 DEF TurnRow
    <3> QED
      BY <2>2, <3>1 DEF SettlesTo
  <2> QED
    BY <2>1, <2>2, <2>3, SettleKeeps
<1>3. CASE kind \notin {"session.idle", "worker.execution.error"}
  BY <1>3 DEF SettleFor, SettlesTo, TurnTypeOK
<1> QED
  BY <1>1, <1>2, <1>3
-----------------------------------------------------------------------------
(* Every action preserves the invariant.                                   *)

LEMMA IngestKeeps ==
  ASSUME TurnIInv, LeaseIInv', Move, RestartsCounted,
         NEW t \in Turn, NEW kind \in Kind, Ingest(t, kind)
  PROVE  TurnIInv'
<1>1. t \in Turns /\ LeaseCurrent(t) /\ AppendEvent(t, kind) /\ turns' = SettleFor(t, kind)
  BY DEF Ingest, LeaseCurrent, Turns
<1>2. TurnTypeOK
  BY DEF TurnIInv
<1>3. /\ journal' \in [Session -> Seq(Event)]
      /\ JournalGrows
      /\ \/ turns[t].worker \in reborn
         \/ \E i \in 1 .. Len(journal'[turns[t].session]) :
               /\ journal'[turns[t].session][i].turn = t
               /\ journal'[turns[t].session][i].kind = kind
  BY <1>1, <1>2, AppendShape
<1>4. /\ turns' \in [Turn -> TurnRow \cup {NoTurn}]
      /\ \A r \in Turn : r # t => turns'[r] = turns[r]
      /\ \E st \in {"completed", "failed"} : SettlesTo(t, st)
      /\ turns'[t] # turns[t] /\ turns'[t].status = "completed" => kind = "session.idle"
  BY <1>1, <1>2, SettleForKeeps
<1>5. t \in Turns' /\ turns'[t].session = turns[t].session
  <2>1. turns[t] \in TurnRow
    BY <1>1, <1>2, RowType
  <2> QED
    BY <1>1, <1>4, <2>1, NoTurnIsNoRow DEF SettlesTo, Turns, TurnRow
<1>6. TableSettles
  <2>1. \A r \in Turn : \E st \in {"completed", "failed"} : SettlesTo(r, st)
    BY <1>4 DEF SettlesTo
  <2>2. ASSUME NEW r \in Turns, turns'[r] # turns[r], turns'[r].status = "completed"
        PROVE Journaled(r, "session.idle")' \/ turns[r].worker \in reborn
    <3>1. r = t /\ kind = "session.idle"
      BY <1>4, <2>2 DEF Turns
    <3> QED
      BY <1>3, <1>5, <3>1 DEF Journaled, Turns
  <2> QED
    BY <1>4, <2>1, <2>2 DEF TableSettles
<1>7. TurnTypeOK'
  <2>1. Turns \subseteq Turns'
    BY <1>4, <1>5 DEF Turns
  <2> QED
    BY <1>2, <1>3, <1>4, <2>1 DEF TurnTypeOK, Ingest, RestartsCounted
<1> QED
  BY <1>3, <1>6, <1>7, SettleStep DEF RestartsCounted

LEMMA CallFailsKeeps ==
  ASSUME TurnIInv, LeaseIInv', Move, RestartsCounted,
         NEW t \in Turn, CallFails(t)
  PROVE  TurnIInv'
<1>1. turns' = Settle(t, "failed") /\ TurnTypeOK /\ UNCHANGED <<journal, sent>>
  BY DEF CallFails, TurnIInv
<1>2. /\ turns' \in [Turn -> TurnRow \cup {NoTurn}]
      /\ \A r \in Turn : r # t => turns'[r] = turns[r]
      /\ SettlesTo(t, "failed")
  BY <1>1, SettleKeeps
<1>3. Active(t) => turns[t] \in TurnRow
  BY <1>1, RowType DEF Active, Turns
<1>4. TableSettles
  <2>1. \A r \in Turn : SettlesTo(r, "failed")
    BY <1>2 DEF SettlesTo
  <2>2. turns'[t] # turns[t] => turns'[t].status # "completed"
    BY <1>2, <1>3 DEF SettlesTo, TurnRow
  <2> QED
    BY <1>2, <2>1, <2>2 DEF TableSettles, Turns
<1>5. JournalGrows
  BY <1>1 DEF JournalGrows, TurnTypeOK
<1>6. Turns \subseteq Turns'
  BY <1>2, <1>3, NoTurnIsNoRow DEF SettlesTo, Turns, TurnRow
<1>7. TurnTypeOK'
  BY <1>1, <1>2, <1>6 DEF TurnTypeOK, CallFails, RestartsCounted
<1> QED
  BY <1>4, <1>5, <1>7, SettleStep DEF RestartsCounted

LEMMA IngestCutShortKeeps ==
  ASSUME TurnIInv, LeaseIInv', Move, RestartsCounted,
         NEW t \in Turn, NEW kind \in Kind, IngestCutShort(t, kind)
  PROVE  TurnIInv'
<1>1. LeaseCurrent(t) /\ AppendEvent(t, kind) /\ TurnTypeOK /\ UNCHANGED <<turns, sent>>
  BY DEF IngestCutShort, TurnIInv
<1>2. journal' \in [Session -> Seq(Event)] /\ JournalGrows
  BY <1>1, AppendShape
<1>3. TurnTypeOK'
  BY <1>1, <1>2 DEF TurnTypeOK, IngestCutShort, Turns, RestartsCounted
<1>4. TableSettles
  BY <1>1 DEF TurnTypeOK, TableSettles, SettlesTo, Turns
<1> QED
  BY <1>2, <1>3, <1>4, SettleStep DEF RestartsCounted

LEMMA ClientKeeps ==
  ASSUME TurnIInv, LeaseIInv', Move, RestartsCounted,
         ClientStep
  PROVE  TurnIInv'
<1>1. PICK s \in Session, k \in Key, w \in Worker :
        \/ \E t \in Turn : Prompt(s, k, t, w)
        \/ PromptWithoutTurn(s, k, w)
        \/ \E u \in User, t \in Turn : Trigger(s, u, k, t, w)
  BY DEF ClientStep
<1>2. LeaseIInv /\ TurnTypeOK
  BY DEF TurnIInv
<1>3. ASSUME NEW t \in Turn, Prompt(s, k, t, w) PROVE TurnIInv'
  <2>1. /\ WorkerForPrompt(s, w) /\ Insert(t, s, k, w, "leased") /\ UNCHANGED journal
        /\ calls' \subseteq Turn /\ sent' \subseteq sent \cup {t}
    BY <1>2, <1>3 DEF Prompt, Dispatch, TurnTypeOK
  <2>2. owner'[s] = w
    BY <1>2, <2>1, ChosenWorker
  <2> QED
    BY <2>1, <2>2, InsertStep DEF RestartsCounted
<1>4. ASSUME NEW u \in User, NEW t \in Turn, Trigger(s, u, k, t, w) PROVE TurnIInv'
  <2>1. /\ CreateSession(s, u, w) /\ Insert(t, s, k, w, "leased") /\ UNCHANGED journal
        /\ calls' \subseteq Turn /\ sent' \subseteq sent \cup {t}
    BY <1>2, <1>4 DEF Trigger, Dispatch, TurnTypeOK
  <2>2. owner'[s] = w
    BY <1>2, <2>1, ChosenWorker
  <2> QED
    BY <2>1, <2>2, InsertStep DEF RestartsCounted
<1>5. ASSUME PromptWithoutTurn(s, k, w) PROVE TurnIInv'
  BY <1>2, <1>5, TableAlone DEF PromptWithoutTurn, turnVars, TurnTypeOK, RestartsCounted
<1> QED
  BY <1>1, <1>3, <1>4, <1>5

LEMMA CrashKeeps ==
  ASSUME TurnIInv, LeaseIInv', Move, RestartsCounted,
         CrashStep
  PROVE  TurnIInv'
<1>1. ASSUME NEW s \in Session, NEW k \in Key, NEW w \in Worker, PromptCutShort(s, k, w)
      PROVE TurnIInv'
  <2>1. CASE UNCHANGED turns
    BY <1>1, <2>1, TableAlone DEF PromptCutShort, RestartsCounted
  <2>2. CASE \E t \in Turn : \E st \in {"pending", "leased"} : Insert(t, s, k, w, st)
    <3>1. PICK t \in Turn, st \in {"pending", "leased"} : Insert(t, s, k, w, st)
      BY <2>2
    <3>2. owner'[s] = w
      BY <1>1, ChosenWorker DEF PromptCutShort, TurnIInv
    <3> QED
      BY <1>1, <3>1, <3>2, InsertStep DEF PromptCutShort, RestartsCounted
  <2> QED
    BY <1>1, <2>1, <2>2 DEF PromptCutShort
<1>2. CASE \E t \in Turn, kind \in Kind : IngestCutShort(t, kind)
  BY <1>2, IngestCutShortKeeps
<1>3. CASE SweepDies
  BY <1>3, TableAlone DEF SweepDies, RestartsCounted
<1> QED
  BY <1>1, <1>2, <1>3 DEF CrashStep

LEMMA TurnNext ==
  ASSUME TurnIInv, [Next]_allVars
  PROVE  TurnIInv'
<1>1. LeaseIInv' /\ Move /\ TurnTypeOK /\ RestartsCounted
  BY DirectoryPart, RestartStep DEF TurnIInv
<1>2. CASE UNCHANGED turnVars
  BY <1>1, <1>2, TableAlone DEF turnVars, TurnTypeOK, RestartsCounted
<1>3. CASE RegistryStep \/ DirectoryStep
  BY <1>2, <1>3 DEF RegistryStep, DirectoryStep
<1>4. CASE ClientStep
  BY <1>1, <1>4, ClientKeeps
<1>5. CASE TurnStep
  <2>1. ASSUME NEW t \in Turn, CallReturns(t) PROVE TurnIInv'
    BY <1>1, <2>1, TableAlone DEF CallReturns, TurnTypeOK, RestartsCounted
  <2> QED
    BY <1>1, <1>5, <2>1, CallFailsKeeps, IngestKeeps DEF TurnStep
<1>6. CASE CrashStep
  BY <1>1, <1>6, CrashKeeps
<1>7. CASE UNCHANGED allVars
  BY <1>2, <1>7 DEF allVars
<1> QED
  BY <1>3, <1>4, <1>5, <1>6, <1>7 DEF Next

LEMMA TurnStart == Init => TurnIInv
<1> SUFFICES ASSUME Init PROVE TurnIInv
  OBVIOUS
<1>1. LeaseIInv
  BY LeaseStart DEF Init
<1>2. \A t \in Turn : turns[t] = NoTurn
  BY DEF Init, TurnInit
<1>3. Turns = {}
  BY <1>2 DEF Turns
<1>4. TurnTypeOK
  BY DEF Init, TurnInit, TurnTypeOK
<1> QED
  BY <1>1, <1>2, <1>3, <1>4 DEF TurnIInv, OneActiveTurn, KeyAdmittedOnce, CompletedHasIdle,
     TurnUnderGrant, Active
-----------------------------------------------------------------------------
(* The refinement: the log a journal stands for.                           *)

LEMMA LogOfAppend ==
  ASSUME NEW q \in Seq(Event), NEW e \in Event
  PROVE  LogOf(Append(q, e)) = Append(LogOf(q), [worker |-> e.worker, token |-> e.epoch])
<1> DEFINE x == [worker |-> e.worker, token |-> e.epoch]
           entry(v) == [worker |-> v.worker, token |-> v.epoch]
<1>1. /\ Len(q) \in Nat
      /\ Len(Append(q, e)) = Len(q) + 1
      /\ \A i \in 1 .. Len(q) : Append(q, e)[i] = q[i]
      /\ Append(q, e)[Len(q) + 1] = e
  BY AppendedJournal
<1>2. \A i \in 1 .. Len(q) : entry(q[i]) \in [worker : Worker, token : Nat]
  <2>1. ASSUME NEW i \in 1 .. Len(q) PROVE q[i] \in Event
    BY ElementOfJournal
  <2>2. \A v \in Event : entry(v) \in [worker : Worker, token : Nat]
    BY DEF Event
  <2> QED
    BY <2>1, <2>2
<1>3. LogOf(q) \in Seq([worker : Worker, token : Nat]) /\ Len(LogOf(q)) = Len(q)
  BY <1>1, <1>2 DEF LogOf
<1>4. x \in [worker : Worker, token : Nat]
  BY DEF Event
<1>5. /\ Append(LogOf(q), x) \in Seq([worker : Worker, token : Nat])
      /\ Len(Append(LogOf(q), x)) = Len(q) + 1
      /\ \A i \in 1 .. Len(q) : Append(LogOf(q), x)[i] = LogOf(q)[i]
      /\ Append(LogOf(q), x)[Len(q) + 1] = x
  BY <1>3, <1>4, AppendedJournal
<1>6. Append(LogOf(q), x) = [i \in 1 .. Len(q) + 1 |-> Append(LogOf(q), x)[i]]
  BY <1>5
<1>7. \A i \in 1 .. Len(q) + 1 : Append(LogOf(q), x)[i] = entry(Append(q, e)[i])
  <2> SUFFICES ASSUME NEW i \in 1 .. Len(q) + 1
               PROVE Append(LogOf(q), x)[i] = entry(Append(q, e)[i])
    OBVIOUS
  <2>1. CASE i \in 1 .. Len(q)
    BY <1>1, <1>5, <2>1 DEF LogOf
  <2>2. CASE i = Len(q) + 1
    BY <1>1, <1>5, <2>2
  <2>3. i \in 1 .. Len(q) \/ i = Len(q) + 1
    BY <1>1
  <2> QED
    BY <2>1, <2>2, <2>3
<1>8. LogOf(Append(q, e)) = [i \in 1 .. Len(q) + 1 |-> entry(Append(q, e)[i])]
  BY <1>1 DEF LogOf
<1> QED
  BY <1>6, <1>7, <1>8

\* The journal part of every step.
LEMMA JournalPart ==
  ASSUME TurnIInv, [Next]_allVars
  PROVE  \/ UNCHANGED journal
         \/ /\ UNCHANGED <<owner, epoch>>
            /\ \E s \in Session, e \in Event :
                  /\ e.worker = owner[s] /\ e.epoch = epoch[s]
                  /\ journal' = [journal EXCEPT ![s] = Append(@, e)]
<1> USE DEF TurnIInv
<1>1. CASE RegistryStep \/ DirectoryStep \/ UNCHANGED allVars
  BY <1>1 DEF RegistryStep, DirectoryStep, turnVars, allVars
<1>2. CASE ClientStep
  BY <1>2 DEF ClientStep, Prompt, PromptWithoutTurn, Trigger, Dispatch, turnVars
<1>3. CASE TurnStep
  <2>1. ASSUME NEW t \in Turn, CallFails(t) \/ CallReturns(t) PROVE UNCHANGED journal
    BY <2>1 DEF CallFails, CallReturns
  <2>2. ASSUME NEW t \in Turn, NEW kind \in Kind, Ingest(t, kind)
        PROVE /\ LeaseCurrent(t) /\ AppendEvent(t, kind) /\ UNCHANGED <<owner, epoch>>
    BY <2>2 DEF Ingest, leaseVars, sessionVars
  <2> QED
    BY <1>3, <2>1, <2>2, AppendShape DEF TurnStep
<1>4. CASE CrashStep
  <2>1. ASSUME NEW t \in Turn, NEW kind \in Kind, IngestCutShort(t, kind)
        PROVE /\ LeaseCurrent(t) /\ AppendEvent(t, kind) /\ UNCHANGED <<owner, epoch>>
    BY <2>1 DEF IngestCutShort, sessionVars
  <2> QED
    BY <1>4, <2>1, AppendShape DEF CrashStep, PromptCutShort, SweepDies
<1> QED
  BY <1>1, <1>2, <1>3, <1>4 DEF Next

LEMMA RefinementStep ==
  ASSUME TurnIInv, [Next]_allVars
  PROVE  [Abstract!Next]_(Abstract!vars)
<1> DEFINE log == [s \in Session |-> LogOf(journal[s])]
<1>1. LeaseIInv' /\ Move /\ TurnIInv'
  BY DirectoryPart, TurnNext DEF TurnIInv
<1>2. CASE UNCHANGED journal
  <2>1. owner' = [s \in Session |-> owner'[s]] /\ epoch' = [s \in Session |-> epoch'[s]]
    BY <1>1 DEF LeaseIInv, LeaseInv, LeaseTypeOK
  <2>2. \A s \in Session : Abstract!MayMove(s)
    BY <1>1 DEF Move, Keeps, Advances, Abstract!MayMove
  <2>3. log' = log
    BY <1>2
  <2> QED
    BY <2>1, <2>2, <2>3 DEF Abstract!Transfer, Abstract!Next
<1>3. ASSUME UNCHANGED <<owner, epoch>>, NEW r \in Session, NEW e \in Event,
             e.worker = owner[r], e.epoch = epoch[r],
             journal' = [journal EXCEPT ![r] = Append(@, e)]
      PROVE  Abstract!Write(r)
  <2>1. journal[r] \in Seq(Event) /\ journal \in [Session -> Seq(Event)]
    BY DEF TurnIInv, TurnTypeOK
  <2>2. log'[r] = Append(log[r], Abstract!Entry(r))
    BY <1>3, <2>1, LogOfAppend DEF Abstract!Entry
  <2>3. \A s \in Session : s # r => log'[s] = log[s]
    BY <1>3, <2>1
  <2>4. log' = [log EXCEPT ![r] = Append(@, Abstract!Entry(r))]
    BY <2>2, <2>3
  <2>5. owner[r] # NoWorker
    BY <1>3, LeaseAssumption DEF Event
  <2> QED
    BY <1>3, <2>4, <2>5 DEF Abstract!Write
<1> QED
  BY <1>2, <1>3, JournalPart DEF Abstract!Next

LEMMA RefinementStart == Init => Abstract!Init
BY DEF Init, LeaseInit, TurnInit, Abstract!Init, LogOf

-----------------------------------------------------------------------------
(* The promise of the fenced log, whatever the directory and the journal
   are: of them the proof uses only that they follow FencedLog.            *)

FencedInv == Abstract!TypeOK /\ Abstract!LogFenced /\ Abstract!LogBelowToken

(* The inductive step: a transfer touches no log, a write appends an entry
   with the token and the owner of that moment.                            *)
LEMMA FencedStep == FencedInv /\ [Abstract!Next]_(Abstract!vars) => FencedInv'
<1> SUFFICES ASSUME FencedInv, [Abstract!Next]_(Abstract!vars) PROVE FencedInv'
    OBVIOUS
<1> DEFINE log == [s \in Session |-> LogOf(journal[s])]
<1> USE DEF FencedInv
<1>0. ASSUME NEW s \in Session, NEW i \in 1 .. Len(log[s])
      PROVE  log[s][i].worker \in Worker /\ log[s][i].token \in Nat
  <2>1. log[s] \in Seq(Abstract!Entries)
    BY DEF Abstract!TypeOK
  <2>2. log[s][i] \in Abstract!Entries
    BY <2>1, ElementOfJournal
  <2> QED
    BY <2>2 DEF Abstract!Entries
<1>1. CASE Abstract!Transfer
  <2>1. Abstract!TypeOK'
    <3>1. \A s \in Session : owner'[s] \in Worker \cup {NoWorker} /\ epoch'[s] \in Nat
      BY <1>1 DEF Abstract!TypeOK, Abstract!Transfer, Abstract!MayMove
    <3>2. owner' \in [Session -> Worker \cup {NoWorker}]
      BY <1>1, <3>1, Zenon DEF Abstract!Transfer
    <3>3. epoch' \in [Session -> Nat]
      BY <1>1, <3>1, Zenon DEF Abstract!Transfer
    <3> QED
      BY <1>1, <3>2, <3>3 DEF Abstract!TypeOK, Abstract!Transfer
  <2>2. Abstract!LogFenced'
    BY <1>1 DEF Abstract!LogFenced, Abstract!Transfer
  <2>3. Abstract!LogBelowToken'
    <3> SUFFICES ASSUME NEW s \in Session, NEW i \in 1 .. Len(log[s])
                 PROVE /\ log[s][i].token <= epoch'[s]
                       /\ log[s][i].token = epoch'[s] =>
                            owner'[s] \in {log[s][i].worker, NoWorker}
      BY <1>1 DEF Abstract!LogBelowToken, Abstract!Transfer
    <3>1. log[s][i].token \in Nat /\ epoch[s] \in Nat
      BY <1>0 DEF Abstract!TypeOK
    <3>2. log[s][i].token <= epoch[s]
      BY DEF Abstract!LogBelowToken
    <3>3. Abstract!MayMove(s)
      BY <1>1 DEF Abstract!Transfer
    <3> QED
      BY <3>1, <3>2, <3>3 DEF Abstract!MayMove, Abstract!LogBelowToken
  <2> QED
    BY <2>1, <2>2, <2>3
<1>2. CASE \E s \in Session : Abstract!Write(s)
  <2>1. PICK r \in Session : Abstract!Write(r)
    BY <1>2
  <2>2. Abstract!Entry(r) \in Abstract!Entries
    BY <2>1 DEF Abstract!Write, Abstract!Entry, Abstract!Entries, Abstract!TypeOK
  <2>3. Abstract!TypeOK'
    <3>1. Append(log[r], Abstract!Entry(r)) \in Seq(Abstract!Entries)
      BY <2>2, AppendedJournal DEF Abstract!TypeOK
    <3> QED
      BY <2>1, <3>1 DEF Abstract!Write, Abstract!TypeOK
  <2>4. ASSUME NEW s \in Session, s # r
        PROVE log'[s] = log[s]
    BY <2>1, <2>4 DEF Abstract!Write, Abstract!TypeOK
  <2>5. /\ Len(log'[r]) = Len(log[r]) + 1
        /\ \A i \in 1 .. Len(log[r]) : log'[r][i] = log[r][i]
        /\ log'[r][Len(log[r]) + 1] = Abstract!Entry(r)
        /\ Len(log[r]) \in Nat
    <3>1. log[r] \in Seq(Abstract!Entries)
      BY DEF Abstract!TypeOK
    <3>2. log'[r] = Append(log[r], Abstract!Entry(r))
      BY <2>1 DEF Abstract!Write, Abstract!TypeOK
    <3> QED
      BY <2>2, <3>1, <3>2, AppendedJournal
  <2>6. \A i \in 1 .. Len(log'[r]) :
          i \in 1 .. Len(log[r]) \/ log'[r][i] = Abstract!Entry(r)
    BY <2>5
  <2>7. \A i \in 1 .. Len(log[r]) :
          /\ log[r][i].token <= epoch[r]
          /\ log[r][i].token = epoch[r] => log[r][i].worker = owner[r]
          /\ log[r][i].token \in Nat
    BY <2>1, <1>0 DEF Abstract!LogBelowToken, Abstract!Write
  <2>8. Abstract!LogFenced'
    <3> SUFFICES ASSUME NEW s \in Session, NEW i \in 1 .. Len(log'[s]),
                        NEW j \in 1 .. Len(log'[s])
                 PROVE /\ i < j => log'[s][i].token <= log'[s][j].token
                       /\ log'[s][i].token = log'[s][j].token =>
                            log'[s][i].worker = log'[s][j].worker
      BY DEF Abstract!LogFenced
    <3>1. CASE s # r
      BY <3>1, <2>4 DEF Abstract!LogFenced
    <3>2. CASE s = r
      <4>1. Abstract!Entry(r).token = epoch[r] /\ Abstract!Entry(r).worker = owner[r] /\ epoch[r] \in Nat
        BY DEF Abstract!Entry, Abstract!TypeOK
      <4>2. CASE i \in 1 .. Len(log[r]) /\ j \in 1 .. Len(log[r])
        BY <3>2, <4>2, <2>5 DEF Abstract!LogFenced
      <4>3. CASE i \in 1 .. Len(log[r]) /\ j \notin 1 .. Len(log[r])
        BY <3>2, <4>1, <4>3, <2>5, <2>6, <2>7
      <4>4. CASE i \notin 1 .. Len(log[r]) /\ j \in 1 .. Len(log[r])
        <5>1. i = Len(log[r]) + 1
          BY <3>2, <4>4, <2>5
        <5>2. ~(i < j)
          BY <4>4, <5>1, <2>5
        <5> QED
          BY <3>2, <4>1, <4>4, <5>1, <5>2, <2>5, <2>7
      <4>5. CASE i \notin 1 .. Len(log[r]) /\ j \notin 1 .. Len(log[r])
        BY <3>2, <4>1, <4>5, <2>5, <2>6
      <4> QED
        BY <4>2, <4>3, <4>4, <4>5
    <3> QED
      BY <3>1, <3>2
  <2>9. Abstract!LogBelowToken'
    <3> SUFFICES ASSUME NEW s \in Session, NEW i \in 1 .. Len(log'[s])
                 PROVE /\ log'[s][i].token <= epoch[s]
                       /\ log'[s][i].token = epoch[s] =>
                            owner[s] \in {log'[s][i].worker, NoWorker}
      BY <2>1 DEF Abstract!LogBelowToken, Abstract!Write
    <3>1. CASE s # r
      BY <3>1, <2>4 DEF Abstract!LogBelowToken
    <3>2. CASE s = r
      <4>1. epoch[r] \in Nat
        BY DEF Abstract!TypeOK
      <4>2. CASE i \in 1 .. Len(log[r])
        BY <3>2, <4>2, <2>5, <2>7
      <4>3. CASE log'[r][i] = Abstract!Entry(r)
        BY <3>2, <4>1, <4>3 DEF Abstract!Entry
      <4> QED
        BY <3>2, <4>2, <4>3, <2>6
    <3> QED
      BY <3>1, <3>2
  <2> QED
    BY <2>3, <2>8, <2>9
<1>3. CASE UNCHANGED Abstract!vars
  BY <1>3 DEF Abstract!vars, Abstract!TypeOK, Abstract!LogFenced, Abstract!LogBelowToken
<1> QED
  BY <1>1, <1>2, <1>3 DEF Abstract!Next

LEMMA FencedInit == Abstract!Init => FencedInv
<1> SUFFICES ASSUME Abstract!Init PROVE FencedInv
  OBVIOUS
<1> DEFINE log == [s \in Session |-> LogOf(journal[s])]
<1>1. \A s \in Session : log[s] = << >> /\ Len(log[s]) = 0
  <2>1. log = [s \in Session |-> << >>]
    BY DEF Abstract!Init
  <2> QED
    BY <2>1
<1>2. Abstract!TypeOK
  <2>0. << >> \in Seq(Abstract!Entries)
    OBVIOUS
  <2>1. \A s \in Session : log[s] \in Seq(Abstract!Entries)
    BY <1>1, <2>0, Zenon
  <2>2. log \in [Session -> Seq(Abstract!Entries)]
    BY <2>1
  <2> QED
    BY <2>2 DEF Abstract!Init, Abstract!TypeOK
<1>3. \A s \in Session : 1 .. Len(log[s]) = {}
  BY <1>1
<1> QED
  BY <1>2, <1>3 DEF FencedInv, Abstract!LogFenced, Abstract!LogBelowToken

(* A fenced log never mixes writers: its tokens only go up and each token
   has one author.  This is what README.md:42 asks of the master.          *)
THEOREM FencedLogSafe == Abstract!Spec => [](Abstract!TypeOK /\ Abstract!LogFenced)
<1>1. FencedInv => Abstract!TypeOK /\ Abstract!LogFenced
  BY DEF FencedInv
<1> QED
  BY FencedInit, FencedStep, <1>1, PTL DEF Abstract!Spec

-----------------------------------------------------------------------------
(* The invariants of the turns table hold for any sessions, workers, keys
   and turns and any number of failures and crashes
   (turn-service.ts:42-84, server.ts:177-196 and 282-293).                 *)
THEOREM TurnsSafe ==
  Spec => [](TurnTypeOK /\ OneActiveTurn /\ KeyAdmittedOnce /\ CompletedHasIdle /\ TurnUnderGrant)
<1>1. TurnIInv => TurnTypeOK /\ OneActiveTurn /\ KeyAdmittedOnce /\ CompletedHasIdle /\ TurnUnderGrant
  BY DEF TurnIInv
<1>2. TurnIInv /\ [Next]_allVars => TurnIInv'
  BY TurnNext
<1> QED
  BY TurnStart, <1>1, <1>2, PTL DEF Spec

(* Rows and events keep their shape.                                       *)
THEOREM TurnsTyped == Spec => []TurnTypeOK
<1>1. TurnTypeOK /\ OneActiveTurn /\ KeyAdmittedOnce /\ CompletedHasIdle /\ TurnUnderGrant => TurnTypeOK
  OBVIOUS
<1> QED
  BY TurnsSafe, <1>1, PTL

(* README.md:40: a repeated key never makes a second turn, whatever became
   of the first one (turn-service.ts:44-45).                               *)
THEOREM KeysAdmitOnce == Spec => []KeyAdmittedOnce
<1>1. TurnTypeOK /\ OneActiveTurn /\ KeyAdmittedOnce /\ CompletedHasIdle /\ TurnUnderGrant => KeyAdmittedOnce
  OBVIOUS
<1> QED
  BY TurnsSafe, <1>1, PTL

(* A turn is completed only when its idle is in the journal, also when the
   master died between the two writes (server.ts:289-290).                 *)
THEOREM CompletedIsJournaled == Spec => []CompletedHasIdle
<1>1. TurnTypeOK /\ OneActiveTurn /\ KeyAdmittedOnce /\ CompletedHasIdle /\ TurnUnderGrant => CompletedHasIdle
  OBVIOUS
<1> QED
  BY TurnsSafe, <1>1, PTL

(* A turn carries an epoch its worker was really given (server.ts:180-189). *)
THEOREM TurnsUnderGrants == Spec => []TurnUnderGrant
<1>1. TurnTypeOK /\ OneActiveTurn /\ KeyAdmittedOnce /\ CompletedHasIdle /\ TurnUnderGrant => TurnUnderGrant
  OBVIOUS
<1> QED
  BY TurnsSafe, <1>1, PTL

(* The directory and the journal implement the fenced log.                 *)
THEOREM TurnsImplementFencedLog == Spec => ImplementsFencedLog
<1>1. TurnIInv /\ [Next]_allVars => TurnIInv'
  BY TurnNext
<1>2. TurnIInv /\ [Next]_allVars => [Abstract!Next]_(Abstract!vars)
  BY RefinementStep
<1> QED
  BY TurnStart, RefinementStart, <1>1, <1>2, PTL DEF Spec, ImplementsFencedLog, Abstract!Spec

(* Hence the promise of the fenced log holds of the journal.               *)
THEOREM JournalIsFenced == Spec => []JournalFenced
<1>1. Abstract!TypeOK /\ Abstract!LogFenced => JournalFenced
  BY DEF JournalFenced
<1> QED
  BY TurnsImplementFencedLog, FencedLogSafe, <1>1, PTL DEF ImplementsFencedLog

(* A turn that was settled never changes again.                            *)
THEOREM SettledTurnsStay == Spec => SettledStays
<1> DEFINE Stay == \A t \in Turns : ~Active(t) => turns'[t] = turns[t]
<1>1. TurnIInv /\ [Next]_allVars => TurnIInv'
  BY TurnNext
<1>2. TurnIInv /\ [Next]_allVars => [Stay]_allVars
  <2> SUFFICES ASSUME TurnIInv, Next, NEW r \in Turns, ~Active(r)
               PROVE turns'[r] = turns[r]
    OBVIOUS
  <2>0. TurnTypeOK /\ r \in Turn /\ turns[r] # NoTurn
    BY DEF TurnIInv, Turns
  <2>1. ASSUME NEW t \in Turn, NEW s, NEW k, NEW w, NEW st, Insert(t, s, k, w, st)
        PROVE turns'[r] = turns[r]
    BY <2>0, <2>1 DEF Insert, TurnTypeOK
  <2>2. ASSUME NEW t \in Turn, NEW st, turns' = Settle(t, st)
        PROVE turns'[r] = turns[r]
    BY <2>0, <2>2 DEF Settle, TurnTypeOK
  <2>3. CASE RegistryStep \/ DirectoryStep
    BY <2>3 DEF RegistryStep, DirectoryStep, turnVars
  <2>4. CASE ClientStep
    BY <2>1, <2>4 DEF ClientStep, Prompt, PromptWithoutTurn, Trigger, turnVars
  <2>5. CASE TurnStep
    BY <2>2, <2>5 DEF TurnStep, CallFails, CallReturns, Ingest, SettleFor
  <2>6. CASE CrashStep
    BY <2>1, <2>6 DEF CrashStep, PromptCutShort, IngestCutShort, SweepDies
  <2> QED
    BY <2>3, <2>4, <2>5, <2>6 DEF Next
<1> QED
  BY TurnStart, <1>1, <1>2, PTL DEF Spec, SettledStays
=============================================================================
