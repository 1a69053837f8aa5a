-------------------------- MODULE KeepAliveProofs --------------------------
(***************************************************************************)
(* The sweep spares every worker that heartbeats, for any number of        *)
(* processes, any timeout and any number of faults, as long as a heartbeat *)
(* takes less than the timeout.                                            *)
(*                                                                         *)
(* While a worker with a valid token misses nothing, its last heartbeat    *)
(* is at most Delay + 1 ticks old: either a heartbeat of its is under way  *)
(* that started no more than one tick after the last one was written, or   *)
(* a handler has one in hand and time waits for it, or the next one is     *)
(* due.                                                                    *)
(***************************************************************************)
EXTENDS KeepAlive, TLAPS

\* Only a process that registered has a token, and then it has a row.
Token(p) == valid[p] => phase[p] \in {"serving", "dead"} /\ status[p] # "none"

Punctual(p) ==
    \/ age[p] = 0
    \/ reads[p] # {} /\ age[p] <= Delay + 1
    \/ \E b \in beats[p] : age[p] <= b + 1
    \/ due[p] = 0 /\ age[p] <= 1

Followed(p) == phase[p] = "serving" /\ valid[p] /\ missed[p] = 0 => Punctual(p)

Spared(p) == p \in stale /\ phase[p] = "serving" /\ valid[p] => missed[p] > 0 \/ age[p] = 0

KeepAliveInv ==
    /\ KeepAliveTypeOK
    /\ \A p \in Process : Token(p) /\ Followed(p) /\ Spared(p)

-----------------------------------------------------------------------------
LEMMA Counters ==
  /\ Timeout \in Nat /\ Delay \in Nat /\ Last \in Nat
  /\ \A n \in 0 .. Last : Bump(n) \in 1 .. Last /\ Bump(n) <= n + 1
  BY KeepAliveAssumption DEF Last, Bump

LEMMA KeepAliveInit == Init => KeepAliveInv
<1> SUFFICES ASSUME Init PROVE KeepAliveInv
  OBVIOUS
<1>1. KeepAliveTypeOK
  <2>1. 0 \in 0 .. 1 /\ 0 \in 0 .. Last
    BY Counters
  <2>2. age \in [Process -> 0 .. Last] /\ missed \in [Process -> 0 .. Last] /\ due \in [Process -> 0 .. 1]
    BY <2>1 DEF Init
  <2>3. beats \in [Process -> SUBSET (0 .. Delay)] /\ reads \in [Process -> SUBSET {"ok", "unhealthy"}]
    BY DEF Init
  <2> QED
    BY <2>2, <2>3 DEF Init, KeepAliveTypeOK
<1>2. \A p \in Process : Token(p) /\ Followed(p) /\ Spared(p)
  BY DEF Init, Token, Followed, Spared
<1> QED
  BY <1>1, <1>2 DEF KeepAliveInv

\* A worker that is followed has a heartbeat no older than Delay + 1.
LEMMA PunctualIsYoung ==
  ASSUME KeepAliveInv, NEW p \in Process, Punctual(p)
  PROVE  age[p] <= Delay + 1
  BY Counters DEF KeepAliveInv, KeepAliveTypeOK, Punctual

LEMMA LoginStep ==
  ASSUME KeepAliveInv, NEW p \in Process, Login(p)
  PROVE  KeepAliveInv'
<1>1. KeepAliveTypeOK'
  BY Counters DEF KeepAliveInv, KeepAliveTypeOK, Login, table
<1>2. ASSUME NEW q \in Process
      PROVE  Token(q)' /\ Followed(q)' /\ Spared(q)'
  BY Counters DEF KeepAliveInv, KeepAliveTypeOK, Login, table, Token, Followed, Punctual, Spared
<1> QED
  BY <1>1, <1>2 DEF KeepAliveInv

LEMMA RegisterStep ==
  ASSUME KeepAliveInv, NEW p \in Process, Register(p)
  PROVE  KeepAliveInv'
<1>1. KeepAliveTypeOK'
  BY Counters DEF KeepAliveInv, KeepAliveTypeOK, Register, Registered, table
<1>2. ASSUME NEW q \in Process
      PROVE  Token(q)' /\ Followed(q)' /\ Spared(q)'
  BY Counters DEF KeepAliveInv, KeepAliveTypeOK, Register, Registered, table, Token, Followed, Punctual, Spared
<1> QED
  BY <1>1, <1>2 DEF KeepAliveInv

\* A bootstrap that fails leaves a process without a token where it may be.
LEMMA FailsShape ==
  ASSUME KeepAliveTypeOK, NEW p \in Process, NEW refused \in BOOLEAN, Fails(p, refused),
         phase[p] \in {"login", "register", "bare"}, program' = program
  PROVE  /\ phase' \in [Process -> {"login", "register", "bare", "serving", "idle", "dead"}]
         /\ due' \in [Process -> 0 .. 1]
         /\ \A q \in Process : phase'[q] \in {"bare", "idle"} => program'[q] = "dev"
         /\ \A q \in Process : q # p => phase'[q] = phase[q] /\ due'[q] = due[q]
<1>1. program[p] \in {"worker", "script", "dev"}
  BY DEF KeepAliveTypeOK
<1>2. CASE program[p] = "script"
  BY <1>2 DEF KeepAliveTypeOK, Fails
<1>3. CASE program[p] = "worker"
  BY <1>3 DEF KeepAliveTypeOK, Fails
<1>4. CASE program[p] = "dev" /\ ~refused
  BY <1>4 DEF KeepAliveTypeOK, Fails
<1>5. CASE program[p] = "dev" /\ refused
  BY <1>5 DEF KeepAliveTypeOK, Fails
<1> QED
  BY <1>1, <1>2, <1>3, <1>4, <1>5

LEMMA LostStep ==
  ASSUME KeepAliveInv, NEW p \in Process, BootstrapLost(p)
  PROVE  KeepAliveInv'
<1>1. phase[p] \in {"login", "register", "bare"} /\ Fails(p, FALSE)
  BY DEF BootstrapLost
<1>2. KeepAliveTypeOK /\ ~valid[p] /\ program' = program /\ valid' = valid
  BY <1>1 DEF KeepAliveInv, Token, BootstrapLost
<1>3. /\ phase' \in [Process -> {"login", "register", "bare", "serving", "idle", "dead"}]
      /\ due' \in [Process -> 0 .. 1]
      /\ \A q \in Process : phase'[q] \in {"bare", "idle"} => program'[q] = "dev"
      /\ \A q \in Process : q # p => phase'[q] = phase[q] /\ due'[q] = due[q]
  BY <1>1, <1>2, FailsShape
<1>4. /\ status' \in [Process -> {"none", "ok", "unhealthy"}] /\ age' \in [Process -> 0 .. Last]
      /\ \A q \in Process : q # p => status'[q] = status[q] /\ age'[q] = age[q]
  <2>1. UNCHANGED table \/ Registered(p)
    BY DEF BootstrapLost
  <2>2. CASE UNCHANGED table
    BY <1>2, <2>2 DEF KeepAliveTypeOK, table
  <2>3. CASE Registered(p)
    BY <1>2, <2>3, Counters DEF KeepAliveTypeOK, Registered
  <2> QED
    BY <2>1, <2>2, <2>3
<1>5. beats' = beats /\ reads' = reads /\ stale' = stale /\ up' = up /\ missed' = missed
  BY DEF BootstrapLost
<1>6. KeepAliveTypeOK'
  BY <1>2, <1>3, <1>4, <1>5 DEF KeepAliveTypeOK
<1>7. Token(p)' /\ Followed(p)' /\ Spared(p)'
  BY <1>2 DEF Token, Followed, Spared
<1>8. ASSUME NEW q \in Process, q # p
      PROVE  Token(q)' /\ Followed(q)' /\ Spared(q)'
  BY <1>2, <1>3, <1>4, <1>5, <1>8 DEF KeepAliveInv, Token, Followed, Punctual, Spared
<1> QED
  BY <1>6, <1>7, <1>8 DEF KeepAliveInv

LEMMA RefusedStep ==
  ASSUME KeepAliveInv, NEW p \in Process, BootstrapRefused(p)
  PROVE  KeepAliveInv'
<1>1. phase[p] \in {"login", "register", "bare"} /\ Fails(p, TRUE)
  BY DEF BootstrapRefused
<1>2. KeepAliveTypeOK /\ ~valid[p] /\ program' = program /\ valid' = valid
  BY <1>1 DEF KeepAliveInv, Token, BootstrapRefused
<1>3. /\ phase' \in [Process -> {"login", "register", "bare", "serving", "idle", "dead"}]
      /\ due' \in [Process -> 0 .. 1]
      /\ \A q \in Process : phase'[q] \in {"bare", "idle"} => program'[q] = "dev"
      /\ \A q \in Process : q # p => phase'[q] = phase[q] /\ due'[q] = due[q]
  BY <1>1, <1>2, FailsShape
<1>4. /\ status' \in [Process -> {"none", "ok", "unhealthy"}] /\ age' \in [Process -> 0 .. Last]
      /\ \A q \in Process : q # p => status'[q] = status[q] /\ age'[q] = age[q]
  BY <1>2, Counters DEF KeepAliveTypeOK, BootstrapRefused, table
<1>5. beats' = beats /\ reads' = reads /\ stale' = stale /\ up' = up /\ missed' = missed
  BY DEF BootstrapRefused
<1>6. KeepAliveTypeOK'
  BY <1>2, <1>3, <1>4, <1>5 DEF KeepAliveTypeOK
<1>7. Token(p)' /\ Followed(p)' /\ Spared(p)'
  BY <1>2 DEF Token, Followed, Spared
<1>8. ASSUME NEW q \in Process, q # p
      PROVE  Token(q)' /\ Followed(q)' /\ Spared(q)'
  BY <1>2, <1>3, <1>4, <1>5, <1>8 DEF KeepAliveInv, Token, Followed, Punctual, Spared
<1> QED
  BY <1>6, <1>7, <1>8 DEF KeepAliveInv

LEMMA DiesStep ==
  ASSUME KeepAliveInv, NEW p \in Process, Dies(p)
  PROVE  KeepAliveInv'
<1>1. KeepAliveTypeOK'
  BY Counters DEF KeepAliveInv, KeepAliveTypeOK, Dies, table
<1>2. ASSUME NEW q \in Process
      PROVE  Token(q)' /\ Followed(q)' /\ Spared(q)'
  BY Counters DEF KeepAliveInv, KeepAliveTypeOK, Dies, table, Token, Followed, Punctual, Spared
<1> QED
  BY <1>1, <1>2 DEF KeepAliveInv

LEMMA StartsStep ==
  ASSUME KeepAliveInv, NEW p \in Process, Starts(p)
  PROVE  KeepAliveInv'
<1>1. KeepAliveTypeOK'
  BY Counters DEF KeepAliveInv, KeepAliveTypeOK, Starts, table
<1>2. ASSUME NEW q \in Process
      PROVE  Token(q)' /\ Followed(q)' /\ Spared(q)'
  BY Counters DEF KeepAliveInv, KeepAliveTypeOK, Starts, table, Token, Followed, Punctual, Spared
<1> QED
  BY <1>1, <1>2 DEF KeepAliveInv

LEMMA TimerStep ==
  ASSUME KeepAliveInv, NEW p \in Process, Timer(p)
  PROVE  KeepAliveInv'
<1>1. KeepAliveTypeOK'
  BY Counters DEF KeepAliveInv, KeepAliveTypeOK, Timer, table
<1>2. ASSUME NEW q \in Process
      PROVE  Token(q)' /\ Followed(q)' /\ Spared(q)'
  BY Counters DEF KeepAliveInv, KeepAliveTypeOK, Timer, table, Token, Followed, Punctual, Spared
<1> QED
  BY <1>1, <1>2 DEF KeepAliveInv

LEMMA ExpiresStep ==
  ASSUME KeepAliveInv, NEW p \in Process, Expires(p)
  PROVE  KeepAliveInv'
<1>1. KeepAliveTypeOK'
  BY Counters DEF KeepAliveInv, KeepAliveTypeOK, Expires, table
<1>2. ASSUME NEW q \in Process
      PROVE  Token(q)' /\ Followed(q)' /\ Spared(q)'
  BY Counters DEF KeepAliveInv, KeepAliveTypeOK, Expires, table, Token, Followed, Punctual, Spared
<1> QED
  BY <1>1, <1>2 DEF KeepAliveInv

LEMMA ArrivesStep ==
  ASSUME KeepAliveInv, NEW p \in Process, NEW b \in 0 .. Delay, Arrives(p, b)
  PROVE  KeepAliveInv'
<1>1. /\ b \in beats[p] /\ valid[p]
      /\ beats' = [beats EXCEPT ![p] = @ \ {b}]
      /\ reads' = [reads EXCEPT ![p] = @ \cup {status[p]}]
      /\ phase' = phase /\ valid' = valid /\ due' = due /\ program' = program
      /\ status' = status /\ age' = age /\ stale' = stale /\ up' = up /\ missed' = missed
  BY DEF Arrives, table
<1>2. status[p] \in {"ok", "unhealthy"}
  BY <1>1 DEF KeepAliveInv, KeepAliveTypeOK, Token
<1>3. KeepAliveTypeOK'
  BY <1>1, <1>2 DEF KeepAliveInv, KeepAliveTypeOK
<1>4. reads'[p] # {}
  BY <1>1 DEF KeepAliveInv, KeepAliveTypeOK
<1>5. Followed(p)'
  <2> SUFFICES ASSUME phase[p] = "serving", missed[p] = 0 PROVE Punctual(p)'
    BY <1>1 DEF Followed
  <2>1. Punctual(p)
    BY <1>1 DEF KeepAliveInv, Followed
  <2>2. age[p] <= Delay + 1
    BY <2>1, PunctualIsYoung
  <2> QED
    BY <1>1, <1>4, <2>2 DEF Punctual
<1>6. ASSUME NEW q \in Process
      PROVE  Token(q)' /\ Spared(q)'
  BY <1>1 DEF KeepAliveInv, Token, Spared
<1>7. ASSUME NEW q \in Process, q # p
      PROVE  Followed(q)'
  <2>1. beats'[q] = beats[q] /\ reads'[q] = reads[q]
    BY <1>1, <1>7 DEF KeepAliveInv, KeepAliveTypeOK
  <2> QED
    BY <1>1, <2>1 DEF KeepAliveInv, Followed, Punctual
<1> QED
  BY <1>3, <1>5, <1>6, <1>7 DEF KeepAliveInv

LEMMA BeatFailsStep ==
  ASSUME KeepAliveInv, NEW p \in Process, NEW b \in 0 .. Delay, BeatFails(p, b)
  PROVE  KeepAliveInv'
<1>1. KeepAliveTypeOK'
  BY Counters DEF KeepAliveInv, KeepAliveTypeOK, BeatFails, table
<1>2. ASSUME NEW q \in Process
      PROVE  Token(q)' /\ Followed(q)' /\ Spared(q)'
  BY Counters DEF KeepAliveInv, KeepAliveTypeOK, BeatFails, table, Token, Followed, Punctual, Spared
<1> QED
  BY <1>1, <1>2 DEF KeepAliveInv

LEMMA HeartbeatStep ==
  ASSUME KeepAliveInv, NEW p \in Process, NEW s \in {"ok", "unhealthy"}, Heartbeat(p, s)
  PROVE  KeepAliveInv'
<1>1. KeepAliveTypeOK'
  BY Counters DEF KeepAliveInv, KeepAliveTypeOK, Heartbeat, Healed
<1>2. ASSUME NEW q \in Process
      PROVE  Token(q)' /\ Followed(q)' /\ Spared(q)'
  BY Counters DEF KeepAliveInv, KeepAliveTypeOK, Heartbeat, Healed, Token, Followed, Punctual, Spared
<1> QED
  BY <1>1, <1>2 DEF KeepAliveInv

LEMMA SweepReadsStep ==
  ASSUME KeepAliveInv, SweepReads, Delay < Timeout
  PROVE  KeepAliveInv'
<1>1. /\ stale' = {q \in Process : status[q] = "ok" /\ age[q] > Timeout}
      /\ phase' = phase /\ valid' = valid /\ due' = due /\ program' = program /\ beats' = beats
      /\ status' = status /\ age' = age /\ reads' = reads /\ up' = up /\ missed' = missed
  BY DEF SweepReads, Stale, client, table
<1>2. KeepAliveTypeOK'
  BY <1>1 DEF KeepAliveInv, KeepAliveTypeOK
<1>3. ASSUME NEW q \in Process
      PROVE  Token(q)' /\ Followed(q)'
  BY <1>1 DEF KeepAliveInv, Token, Followed, Punctual
<1>4. ASSUME NEW q \in Process
      PROVE  Spared(q)'
  <2> SUFFICES ASSUME q \in stale', phase[q] = "serving", valid[q] PROVE missed[q] > 0
    BY <1>1 DEF Spared
  <2>1. age[q] \in Nat /\ age[q] > Timeout /\ missed[q] \in Nat
    BY <1>1 DEF KeepAliveInv, KeepAliveTypeOK
  <2>2. ~ (age[q] <= Delay + 1)
    BY <2>1, Counters
  <2>3. missed[q] # 0
    BY <2>2, PunctualIsYoung DEF KeepAliveInv, Followed
  <2> QED
    BY <2>1, <2>3
<1> QED
  BY <1>2, <1>3, <1>4 DEF KeepAliveInv

LEMMA SweepMarksStep ==
  ASSUME KeepAliveInv, NEW p \in Process, SweepMarks(p)
  PROVE  KeepAliveInv'
<1>1. KeepAliveTypeOK'
  BY Counters DEF KeepAliveInv, KeepAliveTypeOK, SweepMarks, client
<1>2. ASSUME NEW q \in Process
      PROVE  Token(q)' /\ Followed(q)' /\ Spared(q)'
  BY Counters DEF KeepAliveInv, KeepAliveTypeOK, SweepMarks, client, Token, Followed, Punctual, Spared
<1> QED
  BY <1>1, <1>2 DEF KeepAliveInv

LEMMA MasterDiesStep ==
  ASSUME KeepAliveInv, MasterDies
  PROVE  KeepAliveInv'
<1>1. /\ missed' = [q \in Process |-> IF reads[q] = {} THEN missed[q] ELSE Bump(missed[q])]
      /\ reads' = [q \in Process |-> {}] /\ stale' = {} /\ up' = FALSE
      /\ phase' = phase /\ valid' = valid /\ due' = due /\ program' = program /\ beats' = beats
      /\ status' = status /\ age' = age
  BY DEF MasterDies, table
<1>2. \A q \in Process :
         /\ missed'[q] \in 0 .. Last /\ reads'[q] = {}
         /\ reads[q] = {} => missed'[q] = missed[q]
         /\ reads[q] # {} => missed'[q] # 0
  BY <1>1, Counters DEF KeepAliveInv, KeepAliveTypeOK
<1>3. missed' \in [Process -> 0 .. Last] /\ reads' \in [Process -> SUBSET {"ok", "unhealthy"}]
  BY <1>1, <1>2
<1>4. KeepAliveTypeOK'
  BY <1>1, <1>3 DEF KeepAliveInv, KeepAliveTypeOK
<1>5. ASSUME NEW q \in Process
      PROVE  Token(q)' /\ Followed(q)' /\ Spared(q)'
  BY <1>1, <1>2 DEF KeepAliveInv, Token, Followed, Punctual, Spared
<1> QED
  BY <1>4, <1>5 DEF KeepAliveInv

LEMMA MasterStartsStep ==
  ASSUME KeepAliveInv, MasterStarts
  PROVE  KeepAliveInv'
<1>1. KeepAliveTypeOK'
  BY Counters DEF KeepAliveInv, KeepAliveTypeOK, MasterStarts, client, table
<1>2. ASSUME NEW q \in Process
      PROVE  Token(q)' /\ Followed(q)' /\ Spared(q)'
  BY Counters DEF KeepAliveInv, KeepAliveTypeOK, MasterStarts, client, table, Token, Followed, Punctual, Spared
<1> QED
  BY <1>1, <1>2 DEF KeepAliveInv

LEMMA AdvanceStep ==
  ASSUME KeepAliveInv, Advance
  PROVE  KeepAliveInv'
<1>1. /\ \A q \in Process : /\ phase[q] = "serving" => due[q] > 0
                           /\ Delay \notin beats[q] /\ reads[q] = {}
      /\ stale = {} /\ stale' = stale
      /\ age' = [q \in Process |-> Bump(age[q])]
      /\ due' = [q \in Process |-> IF due[q] > 0 THEN due[q] - 1 ELSE 0]
      /\ beats' = [q \in Process |-> {b + 1 : b \in beats[q]}]
      /\ phase' = phase /\ valid' = valid /\ program' = program
      /\ status' = status /\ reads' = reads /\ up' = up /\ missed' = missed
  BY DEF Advance
<1>2. ASSUME NEW q \in Process
      PROVE  /\ age'[q] \in 0 .. Last /\ age'[q] <= age[q] + 1 /\ age[q] \in Nat
             /\ due'[q] \in 0 .. 1 /\ due[q] \in 0 .. 1
             /\ beats'[q] \subseteq 0 .. Delay
             /\ \A b \in beats[q] : b \in Nat /\ b + 1 \in beats'[q]
  <2>1. age[q] \in 0 .. Last /\ due[q] \in 0 .. 1 /\ beats[q] \subseteq 0 .. Delay /\ Delay \notin beats[q]
    BY <1>1 DEF KeepAliveInv, KeepAliveTypeOK
  <2>2. age'[q] = Bump(age[q]) /\ beats'[q] = {b + 1 : b \in beats[q]}
        /\ due'[q] = IF due[q] > 0 THEN due[q] - 1 ELSE 0
    BY <1>1
  <2>3. \A b \in beats[q] : b \in Nat /\ b + 1 \in 0 .. Delay
    BY <2>1, Counters
  <2> QED
    BY <2>1, <2>2, <2>3, Counters
<1>3. /\ age' \in [Process -> 0 .. Last] /\ due' \in [Process -> 0 .. 1]
      /\ beats' \in [Process -> SUBSET (0 .. Delay)]
  BY <1>1, <1>2
<1>4. KeepAliveTypeOK'
  BY <1>1, <1>3 DEF KeepAliveInv, KeepAliveTypeOK
<1>5. ASSUME NEW q \in Process
      PROVE  Token(q)' /\ Spared(q)'
  BY <1>1 DEF KeepAliveInv, Token, Spared
<1>6. ASSUME NEW q \in Process, phase[q] = "serving", valid[q], missed[q] = 0
      PROVE  Punctual(q)'
  <2>1. Punctual(q) /\ due[q] > 0 /\ reads[q] = {}
    BY <1>1, <1>6 DEF KeepAliveInv, Followed
  <2>2. CASE age[q] = 0
    <3>1. due'[q] = 0 /\ age'[q] <= 1
      BY <1>1, <1>2, <2>1, <2>2
    <3> QED
      BY <3>1 DEF Punctual
  <2>3. ASSUME NEW b \in beats[q], age[q] <= b + 1
        PROVE  Punctual(q)'
    <3>1. b + 1 \in beats'[q] /\ age'[q] <= (b + 1) + 1
      BY <1>2, <2>3, Counters
    <3> QED
      BY <3>1 DEF Punctual
  <2> QED
    BY <2>1, <2>2, <2>3 DEF Punctual
<1>7. ASSUME NEW q \in Process
      PROVE  Followed(q)'
  BY <1>1, <1>6 DEF Followed
<1> QED
  BY <1>4, <1>5, <1>7 DEF KeepAliveInv

-----------------------------------------------------------------------------
(* The theorem.                                                            *)

\* worker-registry.ts:138: with heartbeats that take less than the timeout, the
\* sweep takes no row for stale whose worker serves with a valid token and has
\* missed nothing, unless it is heard of again before it is marked.
THEOREM PunctualAreSpared ==
  ASSUME Delay < Timeout
  PROVE  KeepAliveSpec => []SweepSparesPunctual
<1>1. Init => KeepAliveInv
  BY KeepAliveInit
<1>2. KeepAliveInv /\ [Next]_vars => KeepAliveInv'
  <2> SUFFICES ASSUME KeepAliveInv, [Next]_vars PROVE KeepAliveInv'
    OBVIOUS
  <2>1. ASSUME NEW p \in Process, Login(p) \/ Register(p) \/ BootstrapLost(p) \/ BootstrapRefused(p)
        PROVE  KeepAliveInv'
    BY <2>1, LoginStep, RegisterStep, LostStep, RefusedStep
  <2>2. ASSUME NEW p \in Process,
               Expires(p) \/ Dies(p) \/ Starts(p) \/ Timer(p) \/ SweepMarks(p)
        PROVE  KeepAliveInv'
    BY <2>2, ExpiresStep, DiesStep, StartsStep, TimerStep, SweepMarksStep
  <2>3. ASSUME NEW p \in Process, NEW b \in 0 .. Delay, Arrives(p, b) \/ BeatFails(p, b)
        PROVE  KeepAliveInv'
    BY <2>3, ArrivesStep, BeatFailsStep
  <2>4. ASSUME NEW p \in Process, NEW s \in {"ok", "unhealthy"}, Heartbeat(p, s)
        PROVE  KeepAliveInv'
    BY <2>4, HeartbeatStep
  <2>5. CASE SweepReads \/ MasterDies \/ MasterStarts \/ Advance
    BY <2>5, SweepReadsStep, MasterDiesStep, MasterStartsStep, AdvanceStep
  <2>6. CASE UNCHANGED vars
    BY <2>6 DEF vars, KeepAliveInv, KeepAliveTypeOK, Token, Followed, Punctual, Spared
  <2> QED
    BY <2>1, <2>2, <2>3, <2>4, <2>5, <2>6 DEF Next
<1>3. KeepAliveInv => SweepSparesPunctual
  BY DEF KeepAliveInv, KeepAliveTypeOK, Spared, SweepSparesPunctual
<1>4. Init /\ [][Next]_vars => []SweepSparesPunctual
  BY <1>1, <1>2, <1>3, PTL
<1> QED
  BY <1>4, PTL DEF KeepAliveSpec
=============================================================================
