--------------------------- MODULE ExecutorProofs ---------------------------
(***************************************************************************)
(* The turns of a session on workers with an OpenCode of their own: for    *)
(* any number of workers, turns, moves, exits and failures, a prompt       *)
(* carries what OpenCode does not know, a reply is stored for the turn it  *)
(* was written for, and a snapshot is taken at rest.                       *)
(*                                                                         *)
(* All three rest on one job: the active turn is the last one, at most one *)
(* worker has a job and it is that turn's, so OpenCode works either for a  *)
(* turn whose job still holds it or for one that was given up.  A context  *)
(* that is not empty began with a prompt that carried the past, and what   *)
(* was stored since, while its worker owned the session, is in it.         *)
(***************************************************************************)
EXTENDS Executor, SequenceTheorems, FiniteSetTheorems, TLAPS

Phase == {"none", "queued", "begun", "polling", "replied", "asked", "toEnd",
          "toWait", "thrown", "waiting"}

Row == [status : {"active", "completed", "failed"}, reply : Nat]

JobRecord ==
    [phase : Phase, kind : {"execute", "resume"}, turn : Nat, epoch : Nat, known : Nat,
     restore : BOOLEAN, failed : BOOLEAN, reply : Nat, history : SUBSET Nat]

Message == [role : {"user", "assistant"}, turn : Nat, stop : BOOLEAN, past : SUBSET Nat]

Typed ==
    /\ turns \in Seq(Row) /\ epoch \in Nat /\ returned \in BOOLEAN
    /\ owner \in been /\ been \subseteq Worker
    /\ job \in [Worker -> JobRecord]
    /\ hydrated \in [Worker -> BOOLEAN]
    /\ safePoint \in [Worker -> {None, "idle", "waiting_input"}]
    /\ up \in [Worker -> BOOLEAN] /\ asking \in [Worker -> BOOLEAN]
    /\ ctx \in [Worker -> Seq(Message)] /\ queue \in [Worker -> Seq(Nat)]
    /\ abandoned \subseteq Nat

-----------------------------------------------------------------------------
(* The invariant.                                                          *)

Busy(w) == job[w].phase # "none"

\* The prompt of the job has not been posted.
Unposted(w) == job[w].phase \in {"queued", "begun"} /\ job[w].kind = "execute"

\* The job still waits for what OpenCode makes of its prompt.
Holds(w) ==
    \/ job[w].phase \in {"polling", "asked", "toWait", "waiting"}
    \/ job[w].phase \in {"queued", "begun"} /\ job[w].kind = "resume"

Completes(m) == m.role = "assistant" /\ m.stop

Replies == {turns[t].reply : t \in Replied}

OneTurn ==
    \A t \in 1 .. Len(turns) :
        turns[t].status = "active" => t = Len(turns) /\ turns[t].reply = 0

OneJob == \A v, w \in Worker : Busy(v) /\ Busy(w) => v = w

\* A job is of the active turn; its epoch is the session's while its worker owns it.
JobFits(w) ==
    /\ ~Busy(w) => job[w] = NoJob
    /\ Busy(w) =>
         /\ Len(turns) > 0 /\ job[w].turn = Len(turns)
         /\ turns[Len(turns)].status = "active"
         /\ w \in been
         /\ job[w].epoch <= epoch
         /\ job[w].epoch = epoch => owner = w

ContextFits(w) ==
    /\ \A i \in 1 .. Len(ctx[w]) : ctx[w][i].turn \in 1 .. Len(turns)
    /\ \A i \in 1 .. Len(queue[w]) : queue[w][i] \in 1 .. Len(turns) /\ ctx[w] # << >>
    /\ ctx[w] # << >> => w \in been
    /\ hydrated[w] => ctx[w] # << >>

\* A prompt is queued once, and not after the message that completed its turn.
QueuedOnce(w) ==
    /\ \A i, j \in 1 .. Len(queue[w]) : queue[w][i] = queue[w][j] => i = j
    /\ \A i \in 1 .. Len(queue[w]), k \in 1 .. Len(ctx[w]) :
         Completes(ctx[w][k]) => ctx[w][k].turn # queue[w][i]
    /\ Unposted(w) =>
         /\ \A i \in 1 .. Len(queue[w]) : queue[w][i] # job[w].turn
         /\ \A k \in 1 .. Len(ctx[w]) : ctx[w][k].turn # job[w].turn

\* OpenCode works for the turn whose job waits for it, or for one given up.
QueueIsOwned(w) ==
    \A i \in 1 .. Len(queue[w]) :
        queue[w][i] \in abandoned \/ (Holds(w) /\ queue[w][i] = job[w].turn)

AtRest(w) ==
    /\ job[w].phase = "asked" => asking[w] \/ queue[w] = << >>
    /\ ~up[w] => queue[w] = << >> /\ ~asking[w]

\* What the polls of a job may take for its reply.
NewRepliesFit(w) ==
    job[w].phase \in {"begun", "polling"} =>
        /\ job[w].known <= Len(ctx[w])
        /\ \A i \in job[w].known + 1 .. Len(ctx[w]) :
             ctx[w][i].role = "assistant" => ctx[w][i].turn \in {job[w].turn} \cup abandoned

\* The reply a job has taken is its own and in the context of its worker.
TakenFits(w) ==
    job[w].reply # 0 =>
        /\ job[w].reply \in {job[w].turn} \cup abandoned
        /\ \E i \in 1 .. Len(ctx[w]) :
             Completes(ctx[w][i]) /\ ctx[w][i].turn = job[w].reply

\* A prompt that will be posted carries the past, unless there is none or the
\* context has begun.
CarriesPast(w) ==
    Unposted(w) =>
        /\ job[w].history = Replies
        /\ job[w].phase = "queued" /\ job[w].history # {} => job[w].known > 0
        /\ job[w].phase = "begun" => job[w].restore \/ job[w].history = {} \/ ctx[w] # << >>

\* The context of the owner, and of a worker with a job, has every reply stored.
HasPast(w) ==
    ~returned /\ (w = owner \/ Busy(w)) /\ ctx[w] # << >>
        => Replies \subseteq Told(w, Len(ctx[w]))

\* KnowsThePast on one worker.
PromptHasPast(w) ==
    ~returned => \A i \in 1 .. Len(ctx[w]) :
        ctx[w][i].role = "user" /\ turns[ctx[w][i].turn].status = "active"
            => {turns[t].reply : t \in {u \in Replied : u < ctx[w][i].turn}} \subseteq Told(w, i)

WorkerFits(w) ==
    /\ JobFits(w) /\ ContextFits(w)
    /\ QueuedOnce(w) /\ QueueIsOwned(w) /\ AtRest(w)
    /\ NewRepliesFit(w) /\ TakenFits(w)
    /\ CarriesPast(w) /\ HasPast(w) /\ PromptHasPast(w)

ExecutorInv ==
    /\ Typed /\ OneTurn /\ OneJob
    /\ \A w \in Worker : WorkerFits(w)
    /\ ReplyIsOfTurn /\ SnapshotAtRest

-----------------------------------------------------------------------------
(* Sequences and functions.                                                *)

LEMMA Appended ==
  ASSUME NEW S, NEW q \in Seq(S), NEW e \in S
  PROVE  /\ Append(q, e) \in Seq(S)
         /\ Len(q) \in Nat /\ Len(Append(q, e)) = Len(q) + 1
         /\ Append(q, e) # << >>
         /\ \A i \in 1 .. Len(q) : Append(q, e)[i] = q[i]
         /\ Append(q, e)[Len(q) + 1] = e
OBVIOUS

LEMMA Taken ==
  ASSUME NEW S, NEW q \in Seq(S), q # << >>
  PROVE  /\ Tail(q) \in Seq(S) /\ Head(q) = q[1] /\ Head(q) \in S
         /\ Len(q) \in Nat /\ Len(q) > 0 /\ Len(Tail(q)) = Len(q) - 1
         /\ \A i \in 1 .. Len(Tail(q)) : i + 1 \in 1 .. Len(q) /\ Tail(q)[i] = q[i + 1]
<1>1. /\ Head(q) \in S /\ Tail(q) \in Seq(S) /\ Len(Tail(q)) = Len(q) - 1
      /\ \A i \in 1 .. Len(Tail(q)) : Tail(q)[i] = q[i + 1]
  BY HeadTailProperties
<1>2. Len(q) \in Nat /\ Len(q) > 0 /\ Head(q) = q[1]
  OBVIOUS
<1> QED
  BY <1>1, <1>2

LEMMA ValueAt ==
  ASSUME NEW S, NEW T, NEW f \in [S -> T], NEW x \in S, NEW y \in T
  PROVE  /\ f[x] \in T
         /\ [f EXCEPT ![x] = y] \in [S -> T]
         /\ [f EXCEPT ![x] = y][x] = y
         /\ \A z \in S : z # x => [f EXCEPT ![x] = y][z] = f[z]
OBVIOUS

LEMMA TurnIDs ==
  ASSUME Typed
  PROVE  /\ DOMAIN turns = 1 .. Len(turns) /\ Len(turns) \in Nat
         /\ \A t \in 1 .. Len(turns) : turns[t] \in Row
         /\ Replied = {t \in 1 .. Len(turns) : turns[t].reply # 0}
         /\ Active = {t \in 1 .. Len(turns) : turns[t].status = "active"}
         /\ HistoryLength \in Nat
         /\ Replied # {} => HistoryLength > 0
         /\ Replies \subseteq Nat
<1>1. DOMAIN turns = 1 .. Len(turns) /\ Len(turns) \in Nat
  BY LenProperties DEF Typed
<1>2. \A t \in 1 .. Len(turns) : turns[t] \in Row
  BY ElementOfSeq DEF Typed
<1>3. /\ Replied = {t \in 1 .. Len(turns) : turns[t].reply # 0}
      /\ Active = {t \in 1 .. Len(turns) : turns[t].status = "active"}
  BY <1>1 DEF Replied, Active
<1>4. Cardinality(Replied) \in Nat
  <2>1. IsFiniteSet(1 .. Len(turns))
    BY <1>1, FS_Interval
  <2>2. IsFiniteSet(Replied)
    BY <2>1, <1>3, FS_Subset
  <2> QED
    BY <2>2, FS_CardinalityType
<1>5. HistoryLength \in Nat /\ (Replied # {} => HistoryLength > 0)
  BY <1>1, <1>3, <1>4 DEF HistoryLength
<1>6. Replies \subseteq Nat
  BY <1>2, <1>3 DEF Replies, Row
<1> QED
  BY <1>1, <1>2, <1>3, <1>5, <1>6

-----------------------------------------------------------------------------
(* Types.                                                                  *)

LEMMA NoJobTyped == NoJob \in JobRecord
BY DEF NoJob, JobRecord, Phase

\* The worker of a step, and what it may do to its variables.
LEMMA WorkerTyped ==
  ASSUME Typed, NEW w \in Worker
  PROVE  /\ job[w] \in JobRecord /\ ctx[w] \in Seq(Message) /\ queue[w] \in Seq(Nat)
         /\ hydrated[w] \in BOOLEAN /\ up[w] \in BOOLEAN /\ asking[w] \in BOOLEAN
         /\ safePoint[w] \in {None, "idle", "waiting_input"}
         /\ User(w) \in Message
         /\ job[w].turn \in Nat /\ GiveUp(w) \subseteq Nat
<1>1. /\ job[w] \in JobRecord /\ ctx[w] \in Seq(Message) /\ queue[w] \in Seq(Nat)
      /\ hydrated[w] \in BOOLEAN /\ up[w] \in BOOLEAN /\ asking[w] \in BOOLEAN
      /\ safePoint[w] \in {None, "idle", "waiting_input"}
  BY DEF Typed
<1>2. job[w].turn \in Nat /\ job[w].history \in SUBSET Nat
  BY <1>1 DEF JobRecord
<1>3. User(w) \in Message
  BY <1>2 DEF User, Message
<1> QED
  BY <1>1, <1>2, <1>3 DEF GiveUp

\* The changes that steps make to a job.
LEMMA JobChanges ==
  ASSUME NEW r \in JobRecord, NEW p \in Phase, NEW n \in Nat, NEW b \in BOOLEAN
  PROVE  /\ [r EXCEPT !.phase = p] \in JobRecord
         /\ [r EXCEPT !.phase = p, !.reply = n] \in JobRecord
         /\ [r EXCEPT !.phase = p, !.known = n, !.restore = b] \in JobRecord
         /\ [r EXCEPT !.phase = p, !.kind = "resume"] \in JobRecord
         /\ [r EXCEPT !.failed = TRUE] \in JobRecord
<1>1. [r EXCEPT !.phase = p] \in JobRecord
  BY DEF JobRecord
<1>2. [r EXCEPT !.phase = p, !.reply = n] \in JobRecord
  BY DEF JobRecord
<1>3. [r EXCEPT !.phase = p, !.known = n, !.restore = b] \in JobRecord
  BY DEF JobRecord
<1>4. [r EXCEPT !.phase = p, !.kind = "resume"] \in JobRecord
  BY DEF JobRecord
<1>5. [r EXCEPT !.failed = TRUE] \in JobRecord
  BY DEF JobRecord
<1> QED
  BY <1>1, <1>2, <1>3, <1>4, <1>5

LEMMA PhaseChange ==
  ASSUME Typed, NEW w \in Worker, NEW p \in Phase, job' = [job EXCEPT ![w].phase = p]
  PROVE  job' \in [Worker -> JobRecord]
<1>1. [job[w] EXCEPT !.phase = p] \in JobRecord
  BY JobChanges DEF Typed
<1>2. job' = [job EXCEPT ![w] = [job[w] EXCEPT !.phase = p]]
  OBVIOUS
<1> QED
  BY <1>1, <1>2 DEF Typed

LEMMA ReceivedTyped ==
  ASSUME Typed, NEW w \in Worker, Received(w)
  PROVE  /\ ctx' \in [Worker -> Seq(Message)] /\ queue' \in [Worker -> Seq(Nat)]
         /\ up' \in [Worker -> BOOLEAN] /\ asking' \in [Worker -> BOOLEAN]
<1>1. /\ Append(ctx[w], User(w)) \in Seq(Message)
      /\ Append(queue[w], job[w].turn) \in Seq(Nat)
  BY WorkerTyped, Appended
<1> QED
  BY <1>1 DEF Received, Typed

LEMMA MasterStepTyped ==
  ASSUME Typed, ExecutorAssumption, NEW w \in Worker, Prompt \/ Answer \/ Move(w)
  PROVE  Typed'
<1>1. CASE Prompt
  <2>1. turns' \in Seq(Row)
    <3>1. [status |-> "active", reply |-> 0] \in Row
      BY DEF Row
    <3> QED
      BY <1>1, <3>1, Appended DEF Typed, Prompt
  <2> DEFINE j == [NoJob EXCEPT !.phase = "queued", !.turn = Len(turns) + 1, !.epoch = epoch,
                        !.known = HistoryLength, !.history = {turns[t].reply : t \in Replied}]
  <2>2. j \in JobRecord
    <3>1. Replies \in SUBSET Nat /\ HistoryLength \in Nat /\ Len(turns) + 1 \in Nat /\ epoch \in Nat
      BY TurnIDs DEF Typed
    <3>2. ASSUME NEW h \in SUBSET Nat, NEW k \in Nat, NEW t \in Nat, NEW e \in Nat
          PROVE  [NoJob EXCEPT !.phase = "queued", !.turn = t, !.epoch = e,
                               !.known = k, !.history = h] \in JobRecord
      BY DEF NoJob, JobRecord, Phase
    <3> QED
      BY <3>1, <3>2 DEF Replies
  <2>3. job' = [job EXCEPT ![owner] = j]
    BY <1>1 DEF Prompt
  <2> HIDE DEF j
  <2>4. job' \in [Worker -> JobRecord]
    BY <2>2, <2>3 DEF Typed
  <2> QED
    BY <1>1, <2>1, <2>4 DEF Typed, Prompt, memory, openCode
<1>2. CASE Answer
  <2>1. job' = [job EXCEPT ![owner] = [job[owner] EXCEPT !.phase = "queued", !.kind = "resume"]]
    BY <1>2 DEF Answer, Typed
  <2>2. [job[owner] EXCEPT !.phase = "queued", !.kind = "resume"] \in JobRecord
    BY JobChanges DEF Typed, Phase
  <2> QED
    BY <1>2, <2>1, <2>2 DEF Typed, Answer, master, memory, openCode
<1>3. CASE Move(w)
  BY <1>3 DEF Typed, Move, memory, openCode
<1> QED
  BY <1>1, <1>2, <1>3

\* A step of a job leaves the turns alone until it ends.
LEMMA JobStepTyped ==
  ASSUME Typed, NEW w \in Worker, JobStep(w)
  PROVE  Typed'
<1> USE WorkerTyped
<1>1. CASE Begin(w)
  <2>1. Len(ctx[w]) \in Nat
    BY LenProperties
  <2>2. [job[w] EXCEPT !.phase = "begun", !.known = KnownMessages(w),
                       !.restore = (job[w].kind = "execute" /\ RestoreHistory(w))] \in JobRecord
    BY <2>1 DEF JobRecord, Phase, KnownMessages, RestoreHistory
  <2>3. job' = [job EXCEPT ![w] = [job[w] EXCEPT !.phase = "begun", !.known = KnownMessages(w),
                       !.restore = (job[w].kind = "execute" /\ RestoreHistory(w))]]
    BY <1>1 DEF Begin, Typed
  <2> QED
    BY <1>1, <2>2, <2>3 DEF Typed, Begin, master, memory, openCode
<1>2. ASSUME NEW p \in Phase, job' = [job EXCEPT ![w].phase = p] PROVE job' \in [Worker -> JobRecord]
  BY <1>2, PhaseChange
<1>3. CASE PostPrompt(w)
  BY <1>2, <1>3, ReceivedTyped DEF Typed, PostPrompt, master, Phase
<1>4. CASE PostReply(w)
  BY <1>2, <1>4 DEF Typed, PostReply, master, memory, Phase
<1>5. CASE TakeReply(w)
  <2>1. PICK i \in CompletedReplies(w) :
          /\ job' = [job EXCEPT ![w].phase = "replied", ![w].reply = ctx[w][i].turn]
          /\ abandoned' = abandoned \cup IF ctx[w][i].turn = job[w].turn THEN {} ELSE GiveUp(w)
    BY <1>5 DEF TakeReply
  <2>2. ctx[w][i] \in Message
    <3>1. i \in 1 .. Len(ctx[w])
      BY <2>1, LenProperties DEF CompletedReplies, JobRecord
    <3> QED
      BY <3>1, ElementOfSeq
  <2>3. [job[w] EXCEPT !.phase = "replied", !.reply = ctx[w][i].turn] \in JobRecord
    BY <2>2, JobChanges DEF Phase, Message
  <2>4. job' = [job EXCEPT ![w] = [job[w] EXCEPT !.phase = "replied", !.reply = ctx[w][i].turn]]
    BY <2>1
  <2>5. job' \in [Worker -> JobRecord]
    BY <2>3, <2>4 DEF Typed
  <2> QED
    BY <1>5, <2>1, <2>5 DEF Typed, TakeReply, master, openCode
<1>6. CASE SeeQuestion(w)
  BY <1>2, <1>6 DEF Typed, SeeQuestion, master, openCode, Phase
<1>7. CASE Suspend(w)
  BY <1>2, <1>7 DEF Typed, Suspend, master, openCode, Phase
<1>8. CASE TimeOut(w)
  BY <1>2, <1>8 DEF Typed, TimeOut, Throw, master, memory, openCode, Phase
<1>9. CASE RequestFails(w)
  <2>1. job' \in [Worker -> JobRecord] /\ UNCHANGED <<master, memory>>
    BY <1>2, <1>9 DEF RequestFails, Throw, Phase
  <2>2. CASE abandoned' = abandoned \cup GiveUp(w) /\ (UNCHANGED openCode \/ ReplyReceived(w))
    <3>1. UNCHANGED <<up, ctx, queue>> /\ asking' \in [Worker -> BOOLEAN]
      BY <2>2 DEF Typed, openCode, ReplyReceived
    <3> QED
      BY <2>1, <2>2, <3>1 DEF Typed, master, memory
  <2>3. CASE Received(w) /\ abandoned' = abandoned \cup {job[w].turn}
    BY <2>1, <2>3, ReceivedTyped DEF Typed, master, memory
  <2> QED
    BY <1>9, <2>2, <2>3 DEF RequestFails
<1>10. CASE PublishSnapshot(w)
  <2>1. PICK p \in {"toWait", "toEnd"} : job' = [job EXCEPT ![w].phase = p]
    BY <1>10 DEF PublishSnapshot
  <2>2. job' \in [Worker -> JobRecord]
    BY <2>1, PhaseChange DEF Phase
  <2> QED
    BY <1>10, <2>2 DEF Typed, PublishSnapshot, master, memory, openCode
<1>11. CASE EndJob(w)
  <2>1. job' \in [Worker -> JobRecord]
    <3>1. [NoJob EXCEPT !.phase = "waiting", !.turn = job[w].turn, !.epoch = job[w].epoch] \in JobRecord
      BY NoJobTyped DEF JobRecord, Phase
    <3> QED
      BY <1>11, <3>1, NoJobTyped DEF EndJob, Typed
  <2>2. ASSUME NEW st \in {"completed", "failed"}, Settle(w, st) PROVE turns' \in Seq(Row)
    <3>1. [status |-> st, reply |-> job[w].reply] \in Row
      BY DEF Row, JobRecord
    <3>2. [turns EXCEPT ![job[w].turn] = [status |-> st, reply |-> job[w].reply]] \in Seq(Row)
      <4>1. CASE job[w].turn \in 1 .. Len(turns)
        BY <3>1, <4>1, ExceptSeq DEF Typed
      <4>2. CASE job[w].turn \notin 1 .. Len(turns)
        <5>1. DOMAIN turns = 1 .. Len(turns) /\ turns = [t \in DOMAIN turns |-> turns[t]]
          BY LenProperties DEF Typed
        <5>2. [turns EXCEPT ![job[w].turn] = [status |-> st, reply |-> job[w].reply]] = turns
          BY <4>2, <5>1, Zenon
        <5> QED
          BY <5>2 DEF Typed
      <4> QED
        BY <4>1, <4>2
    <3> QED
      BY <2>2, <3>2 DEF Settle, Typed
  <2>3. turns' \in Seq(Row)
    BY <1>11, <2>2 DEF EndJob, Typed
  <2> QED
    BY <1>11, <2>1, <2>3 DEF Typed, EndJob, memory, openCode
<1> QED
  BY <1>1, <1>3, <1>4, <1>5, <1>6, <1>7, <1>8, <1>9, <1>10, <1>11 DEF JobStep, Poll

LEMMA OpenCodeTyped ==
  ASSUME Typed, NEW w \in Worker, OpenCodeStep(w) \/ Start(w)
  PROVE  Typed'
<1> USE WorkerTyped
<1>1. CASE Start(w)
  BY <1>1 DEF Start, Typed, master
<1>5. OpenCodeStep(w) => UNCHANGED <<turns, owner, epoch, been, returned, hydrated, safePoint, abandoned>>
  BY DEF OpenCodeStep, master, memory
<1>2. ASSUME OpenCodeStep(w), OcStep(w) \/ OcReply(w) PROVE Typed'
  <2>1. queue[w] # << >>
    BY <1>2 DEF OcStep, OcReply, Works
  <2>2. \A stop \in BOOLEAN : Assistant(w, stop) \in Message
    BY <2>1, Taken DEF Assistant, Message
  <2>3. \A stop \in BOOLEAN : Append(ctx[w], Assistant(w, stop)) \in Seq(Message)
    BY <2>2, Appended
  <2>4. Tail(queue[w]) \in Seq(Nat)
    BY <2>1, Taken
  <2>5. ctx' \in [Worker -> Seq(Message)] /\ queue' \in [Worker -> Seq(Nat)]
    BY <1>2, <2>3, <2>4 DEF OcStep, OcReply, Typed
  <2>6. UNCHANGED <<up, asking, job, abandoned>>
    BY <1>2, <1>5 DEF OcStep, OcReply
  <2> QED
    BY <1>2, <1>5, <2>5, <2>6 DEF Typed
<1>3. ASSUME OpenCodeStep(w), OcAsk(w) \/ OcExit(w) PROVE Typed'
  <2>1. /\ up' \in [Worker -> BOOLEAN] /\ asking' \in [Worker -> BOOLEAN]
        /\ UNCHANGED <<job, ctx, abandoned>>
    BY <1>3, <1>5 DEF OcAsk, OcExit, Typed
  <2>2. queue' \in [Worker -> Seq(Nat)]
    <3>1. << >> \in Seq(Nat)
      BY EmptySeq
    <3> QED
      BY <1>3, <3>1 DEF OcAsk, OcExit, Typed
  <2> QED
    BY <1>3, <1>5, <2>1, <2>2 DEF Typed
<1>4. ASSUME OpenCodeStep(w), OcFail(w) PROVE Typed'
  <2>1. queue' \in [Worker -> Seq(Nat)]
    BY <1>4, Taken DEF OcFail, Works, Typed
  <2>2. job' \in [Worker -> JobRecord]
    <3>1. [job[w] EXCEPT !.failed = TRUE] \in JobRecord
      BY DEF JobRecord
    <3>2. job' = job \/ job' = [job EXCEPT ![w] = [job[w] EXCEPT !.failed = TRUE]]
      BY <1>4 DEF OcFail, Heard
    <3> QED
      BY <3>1, <3>2 DEF Typed
  <2>3. UNCHANGED <<up, ctx, asking, abandoned>>
    BY <1>4, <1>5 DEF OcFail
  <2> QED
    BY <1>4, <1>5, <2>1, <2>2, <2>3 DEF Typed
<1> QED
  BY <1>1, <1>2, <1>3, <1>4 DEF OpenCodeStep

-----------------------------------------------------------------------------
(* What a context tells.                                                   *)

LEMMA ToldSame ==
  ASSUME NEW w \in Worker, ctx'[w] = ctx[w]
  PROVE  \A i \in Nat : Told(w, i)' = Told(w, i)
BY DEF Told

LEMMA ToldGrows ==
  ASSUME Typed, NEW w \in Worker, NEW m \in Message, ctx'[w] = Append(ctx[w], m)
  PROVE  /\ Len(ctx[w]) \in Nat /\ Len(ctx'[w]) = Len(ctx[w]) + 1
         /\ \A i \in 1 .. Len(ctx[w]) : ctx'[w][i] = ctx[w][i] /\ Told(w, i)' = Told(w, i)
         /\ ctx'[w][Len(ctx[w]) + 1] = m
         /\ Told(w, Len(ctx[w])) \subseteq Told(w, Len(ctx[w]))'
         /\ m.past \subseteq Told(w, Len(ctx[w]))'
<1>1. /\ Len(ctx[w]) \in Nat /\ Len(ctx'[w]) = Len(ctx[w]) + 1
      /\ \A i \in 1 .. Len(ctx[w]) : ctx'[w][i] = ctx[w][i]
      /\ ctx'[w][Len(ctx[w]) + 1] = m
  BY Appended, WorkerTyped
<1>2. \A i \in 1 .. Len(ctx[w]) : Told(w, i)' = Told(w, i)
  BY <1>1 DEF Told
<1>3. Told(w, Len(ctx[w])) \subseteq Told(w, Len(ctx[w]))'
  BY <1>1 DEF Told
<1>4. m.past \subseteq Told(w, Len(ctx[w]))'
  BY <1>1 DEF Told
<1> QED
  BY <1>1, <1>2, <1>3, <1>4

LEMMA ToldHas ==
  ASSUME Typed, NEW w \in Worker, NEW i \in 1 .. Len(ctx[w]), Completes(ctx[w][i])
  PROVE  ctx[w][i].turn \in Told(w, Len(ctx[w]))
<1>1. i \in {k \in 1 .. Len(ctx[w]) : ctx[w][k].role = "assistant" /\ ctx[w][k].stop}
  BY Zenon DEF Completes
<1> QED
  BY <1>1 DEF Told

-----------------------------------------------------------------------------
(* Steps of one worker.                                                    *)

Stays(v) ==
    /\ job'[v] = job[v] /\ ctx'[v] = ctx[v] /\ queue'[v] = queue[v]
    /\ hydrated'[v] = hydrated[v] /\ asking'[v] = asking[v] /\ up'[v] = up[v]

LocalStep(w) ==
    /\ UNCHANGED <<turns, owner, epoch, been, returned>>
    /\ abandoned \subseteq abandoned'
    /\ \A v \in Worker : v # w => Stays(v)

SameReplies == Replies' = Replies /\ Replied' = Replied

LEMMA RepliesStay ==
  ASSUME UNCHANGED turns
  PROVE  SameReplies
BY DEF SameReplies, Replies, Replied

LEMMA OtherFits ==
  ASSUME ExecutorInv, UNCHANGED <<turns, owner, epoch, been, returned>>,
         abandoned \subseteq abandoned', NEW v \in Worker, Stays(v)
  PROVE  WorkerFits(v)'
<1>1. WorkerFits(v) /\ SameReplies /\ Len(ctx[v]) \in Nat
  BY RepliesStay, WorkerTyped, LenProperties DEF ExecutorInv
<1>2. \A i \in Nat : Told(v, i)' = Told(v, i)
  BY ToldSame DEF Stays
<1>3. JobFits(v)' /\ ContextFits(v)'
  BY <1>1 DEF WorkerFits, JobFits, ContextFits, Busy, Stays
<1>4. QueuedOnce(v)' /\ QueueIsOwned(v)' /\ AtRest(v)'
  BY <1>1 DEF WorkerFits, QueuedOnce, QueueIsOwned, AtRest, Unposted, Holds, Completes, Stays
<1>5. NewRepliesFit(v)' /\ TakenFits(v)'
  BY <1>1 DEF WorkerFits, NewRepliesFit, TakenFits, Stays
<1>6. CarriesPast(v)' /\ HasPast(v)'
  BY <1>1, <1>2 DEF WorkerFits, CarriesPast, HasPast, Unposted, Busy, Stays, SameReplies
<1>7. PromptHasPast(v)'
  BY <1>1, <1>2 DEF WorkerFits, PromptHasPast, Stays, SameReplies
<1> QED
  BY <1>3, <1>4, <1>5, <1>6, <1>7 DEF WorkerFits

LEMMA LocalKeeps ==
  ASSUME ExecutorInv, Typed', NEW w \in Worker, LocalStep(w), Busy(w)' => Busy(w),
         WorkerFits(w)', SnapshotAtRest'
  PROVE  ExecutorInv'
<1>1. \A v \in Worker : WorkerFits(v)'
  BY OtherFits DEF LocalStep
<1>2. OneTurn' /\ ReplyIsOfTurn'
  BY DEF ExecutorInv, OneTurn, ReplyIsOfTurn, LocalStep, Replied
<1>3. OneJob'
  BY DEF ExecutorInv, OneJob, LocalStep, Stays, Busy
<1> QED
  BY <1>1, <1>2, <1>3 DEF ExecutorInv

\* The queue is what is left of it.
QueueShrinks(w) ==
    \E d \in Nat : \A i \in 1 .. Len(queue'[w]) :
        i + d \in 1 .. Len(queue[w]) /\ queue'[w][i] = queue[w][i + d]

LEMMA Shrinks ==
  ASSUME Typed, NEW w \in Worker,
         \/ queue'[w] = queue[w]
         \/ queue'[w] = << >>
         \/ queue[w] # << >> /\ queue'[w] = Tail(queue[w])
  PROVE  QueueShrinks(w)
<1>1. CASE queue'[w] = queue[w]
  <2>1. \A i \in 1 .. Len(queue[w]) : i + 0 = i
    BY LenProperties, WorkerTyped
  <2> QED
    BY <1>1, <2>1 DEF QueueShrinks
<1>2. CASE queue'[w] = << >>
  BY <1>2, EmptySeq DEF QueueShrinks
<1>3. CASE queue[w] # << >> /\ queue'[w] = Tail(queue[w])
  <2>1. \A i \in 1 .. Len(queue'[w]) : i + 1 \in 1 .. Len(queue[w]) /\ queue'[w][i] = queue[w][i + 1]
    BY <1>3, Taken, WorkerTyped
  <2> QED
    BY <2>1 DEF QueueShrinks
<1> QED
  BY <1>1, <1>2, <1>3

\* The job keeps its turn and posts no prompt.
SameTurn(w) ==
    /\ job'[w].turn = job[w].turn /\ job'[w].epoch = job[w].epoch
    /\ job'[w] = job[w] \/ (Busy(w) /\ Busy(w)')
    /\ Unposted(w)' => Unposted(w)

\* A step of w that adds nothing to its context and its queue.
QuietStep(w) ==
    /\ LocalStep(w) /\ SameTurn(w)
    /\ ctx'[w] = ctx[w] /\ QueueShrinks(w)
    /\ hydrated'[w] => hydrated[w]

LEMMA QuietFits ==
  ASSUME ExecutorInv, Typed', NEW w \in Worker, QuietStep(w)
  PROVE  /\ JobFits(w)' /\ ContextFits(w)' /\ QueuedOnce(w)'
         /\ HasPast(w)' /\ PromptHasPast(w)'
<1>1. WorkerFits(w) /\ SameReplies /\ Len(ctx[w]) \in Nat
  BY RepliesStay, WorkerTyped, LenProperties DEF ExecutorInv, QuietStep, LocalStep
<1>2. \A i \in Nat : Told(w, i)' = Told(w, i)
  BY ToldSame DEF QuietStep
<1>3. /\ UNCHANGED <<turns, owner, epoch, been, returned>> /\ ctx'[w] = ctx[w]
      /\ job'[w].turn = job[w].turn /\ job'[w].epoch = job[w].epoch
      /\ job'[w] = job[w] \/ (Busy(w) /\ Busy(w)')
      /\ Unposted(w)' => Unposted(w)
      /\ hydrated'[w] => hydrated[w]
  BY DEF QuietStep, LocalStep, SameTurn
<1>4. JobFits(w)'
  BY <1>1, <1>3 DEF WorkerFits, JobFits, Busy
<1>5. PICK d \in Nat : \A i \in 1 .. Len(queue'[w]) :
                          i + d \in 1 .. Len(queue[w]) /\ queue'[w][i] = queue[w][i + d]
  BY DEF QuietStep, QueueShrinks
<1>6. ContextFits(w)'
  BY <1>1, <1>3, <1>5 DEF WorkerFits, ContextFits
<1>7. QueuedOnce(w)'
  <2>1. \A i, j \in 1 .. Len(queue'[w]) : queue'[w][i] = queue'[w][j] => i = j
    <3> SUFFICES ASSUME NEW i \in 1 .. Len(queue'[w]), NEW j \in 1 .. Len(queue'[w]),
                        queue'[w][i] = queue'[w][j]
                 PROVE  i = j
      OBVIOUS
    <3>1. i + d = j + d
      BY <1>1, <1>5 DEF WorkerFits, QueuedOnce
    <3>2. i \in Nat /\ j \in Nat
      OBVIOUS
    <3> QED
      BY <3>1, <3>2
  <2>2. \A i \in 1 .. Len(queue'[w]), k \in 1 .. Len(ctx'[w]) :
          Completes(ctx'[w][k]) => ctx'[w][k].turn # queue'[w][i]
    <3> SUFFICES ASSUME NEW i \in 1 .. Len(queue'[w]), NEW k \in 1 .. Len(ctx[w]),
                        Completes(ctx[w][k])
                 PROVE  ctx[w][k].turn # queue'[w][i]
      BY <1>3
    <3>1. i + d \in 1 .. Len(queue[w]) /\ queue'[w][i] = queue[w][i + d]
      BY <1>5
    <3>2. \A j \in 1 .. Len(queue[w]) : ctx[w][k].turn # queue[w][j]
      BY <1>1, Zenon DEF WorkerFits, QueuedOnce
    <3> QED
      BY <3>1, <3>2
  <2>3. Unposted(w)' =>
          /\ \A i \in 1 .. Len(queue'[w]) : queue'[w][i] # job'[w].turn
          /\ \A k \in 1 .. Len(ctx'[w]) : ctx'[w][k].turn # job'[w].turn
    BY <1>1, <1>3, <1>5 DEF WorkerFits, QueuedOnce
  <2> QED
    BY <2>1, <2>2, <2>3 DEF QueuedOnce, Completes
<1>8. HasPast(w)'
  BY <1>1, <1>2, <1>3 DEF WorkerFits, HasPast, SameReplies, Busy
<1>9. PromptHasPast(w)'
  BY <1>1, <1>2, <1>3 DEF WorkerFits, PromptHasPast, SameReplies
<1> QED
  BY <1>4, <1>6, <1>7, <1>8, <1>9

LEMMA QuietKeeps ==
  ASSUME ExecutorInv, Typed', NEW w \in Worker, QuietStep(w),
         QueueIsOwned(w)', AtRest(w)', NewRepliesFit(w)', TakenFits(w)', CarriesPast(w)',
         SnapshotAtRest'
  PROVE  ExecutorInv'
<1>1. WorkerFits(w)'
  BY QuietFits DEF WorkerFits
<1>2. LocalStep(w) /\ (Busy(w)' => Busy(w))
  BY DEF QuietStep, SameTurn, Busy
<1> QED
  BY <1>1, <1>2, LocalKeeps

-----------------------------------------------------------------------------
(* The steps of a job.                                                     *)

\* A job's own step: OpenCode stays as it is.
JobMoves(w) ==
    /\ UNCHANGED <<turns, owner, epoch, been, returned>>
    /\ UNCHANGED <<ctx, queue, up, asking, hydrated>>
    /\ abandoned \subseteq abandoned'
    /\ \A v \in Worker : v # w => job'[v] = job[v]
    /\ Busy(w) /\ Busy(w)'
    /\ job'[w].turn = job[w].turn /\ job'[w].epoch = job[w].epoch
    /\ job'[w].kind = job[w].kind /\ job'[w].history = job[w].history
    /\ Unposted(w)' => Unposted(w)

LEMMA JobMovesQuietly ==
  ASSUME Typed, NEW w \in Worker, JobMoves(w)
  PROVE  QuietStep(w)
<1>1. QueueShrinks(w)
  BY Shrinks DEF JobMoves
<1> QED
  BY <1>1 DEF JobMoves, QuietStep, LocalStep, Stays, SameTurn

LEMMA BeginFits ==
  ASSUME ExecutorInv, Typed', NEW w \in Worker, Begin(w)
  PROVE  ExecutorInv'
<1>1. Typed /\ WorkerFits(w) /\ SnapshotAtRest /\ job[w] \in JobRecord /\ Len(ctx[w]) \in Nat
  BY WorkerTyped, LenProperties DEF ExecutorInv
<1>2. /\ job[w].phase = "queued" /\ job'[w].phase = "begun"
      /\ job'[w].known = Len(ctx[w]) /\ job'[w].reply = job[w].reply
      /\ job'[w].restore = (job[w].kind = "execute" /\ RestoreHistory(w))
      /\ job'[w].turn = job[w].turn /\ job'[w].epoch = job[w].epoch
      /\ job'[w].kind = job[w].kind /\ job'[w].history = job[w].history
      /\ \A v \in Worker : v # w => job'[v] = job[v]
  BY <1>1 DEF Begin, Typed, JobRecord, KnownMessages
<1>3. UNCHANGED <<turns, owner, epoch, been, returned, ctx, queue, up, asking, hydrated, abandoned, snapshot>>
  BY DEF Begin, master, memory, openCode
<1>4. JobMoves(w)
  BY <1>2, <1>3 DEF JobMoves, Busy, Unposted
<1>5. QueueIsOwned(w)' /\ AtRest(w)'
  BY <1>1, <1>2, <1>3 DEF WorkerFits, QueueIsOwned, AtRest, Holds
<1>6. NewRepliesFit(w)'
  BY <1>1, <1>2, <1>3 DEF NewRepliesFit
<1>7. TakenFits(w)'
  BY <1>1, <1>2, <1>3 DEF WorkerFits, TakenFits, Completes
<1>8. CarriesPast(w)'
  <2> SUFFICES ASSUME Unposted(w), job[w].history # {}, ~job'[w].restore PROVE ctx[w] # << >>
    BY <1>1, <1>2, <1>3, RepliesStay DEF WorkerFits, CarriesPast, Unposted, SameReplies
  <2>1. job[w].known > 0 /\ job[w].known \in Nat
    BY <1>1, <1>2 DEF WorkerFits, CarriesPast, JobRecord
  <2>2. hydrated[w] \/ ~(job[w].known > Len(ctx[w]))
    BY <1>2 DEF Unposted, RestoreHistory
  <2> QED
    BY <1>1, <2>1, <2>2 DEF WorkerFits, ContextFits
<1>9. SnapshotAtRest'
  BY <1>1, <1>3 DEF SnapshotAtRest
<1> QED
  BY <1>1, <1>4, <1>5, <1>6, <1>7, <1>8, <1>9, JobMovesQuietly, QuietKeeps

\* A job that ends, with or without a reply, gives up what OpenCode has of it.
LEMMA LeavingFits ==
  ASSUME ExecutorInv, Typed', NEW w \in Worker, JobMoves(w), UNCHANGED snapshot,
         job'[w].phase \in {"replied", "thrown"}, TakenFits(w)',
         job[w].turn \in ToSet(queue[w]) => job[w].turn \in abandoned'
  PROVE  ExecutorInv'
<1>1. Typed /\ WorkerFits(w) /\ SnapshotAtRest /\ queue[w] \in Seq(Nat)
  BY WorkerTyped DEF ExecutorInv
<1>2. \A i \in 1 .. Len(queue[w]) : queue[w][i] \in ToSet(queue[w])
  BY <1>1, LenProperties DEF ToSet
<1>3. QueueIsOwned(w)'
  BY <1>1, <1>2 DEF WorkerFits, QueueIsOwned, JobMoves
<1>4. AtRest(w)' /\ NewRepliesFit(w)' /\ CarriesPast(w)'
  BY <1>1 DEF WorkerFits, AtRest, NewRepliesFit, CarriesPast, Unposted, JobMoves
<1>5. SnapshotAtRest'
  BY <1>1 DEF SnapshotAtRest, JobMoves
<1> QED
  BY <1>1, <1>3, <1>4, <1>5, JobMovesQuietly, QuietKeeps

\* A phase is all that changes of the job.
LEMMA PhaseMoves ==
  ASSUME ExecutorInv, NEW w \in Worker, NEW p \in Phase \ {"none", "queued", "begun"},
         job' = [job EXCEPT ![w].phase = p], Busy(w),
         UNCHANGED <<turns, owner, epoch, been, returned, ctx, queue, up, asking, hydrated>>,
         abandoned \subseteq abandoned'
  PROVE  /\ JobMoves(w) /\ TakenFits(w)'
         /\ job'[w].phase = p /\ job'[w].known = job[w].known
<1>1. Typed /\ TakenFits(w) /\ job[w] \in JobRecord
  BY WorkerTyped DEF ExecutorInv, WorkerFits
<1>2. /\ job'[w] = [job[w] EXCEPT !.phase = p]
      /\ \A v \in Worker : v # w => job'[v] = job[v]
  BY <1>1 DEF Typed
<1>3. /\ job'[w].phase = p /\ job'[w].known = job[w].known
      /\ job'[w].turn = job[w].turn /\ job'[w].epoch = job[w].epoch
      /\ job'[w].kind = job[w].kind /\ job'[w].history = job[w].history
      /\ job'[w].reply = job[w].reply
  BY <1>1, <1>2 DEF JobRecord
<1>4. JobMoves(w)
  BY <1>2, <1>3 DEF JobMoves, Busy, Unposted
<1>5. TakenFits(w)'
  BY <1>1, <1>3 DEF TakenFits, Completes
<1> QED
  BY <1>3, <1>4, <1>5

LEMMA GivesUpTurn ==
  ASSUME NEW w \in Worker, GiveUp(w) \subseteq abandoned'
  PROVE  job[w].turn \in ToSet(queue[w]) => job[w].turn \in abandoned'
BY DEF GiveUp

LEMMA SuspendFits ==
  ASSUME ExecutorInv, Typed', NEW w \in Worker, Suspend(w) \/ TimeOut(w)
  PROVE  ExecutorInv'
<1>1. /\ Busy(w) /\ GiveUp(w) \subseteq abandoned' /\ abandoned \subseteq abandoned'
      /\ UNCHANGED <<turns, owner, epoch, been, returned, ctx, queue, up, asking, hydrated, snapshot>>
  BY DEF Suspend, TimeOut, Throw, Busy, master, memory, openCode
<1>2. PICK p \in {"replied", "thrown"} : job' = [job EXCEPT ![w].phase = p]
  BY DEF Suspend, TimeOut, Throw
<1>3. p \in Phase \ {"none", "queued", "begun"}
  BY DEF Phase
<1>4. JobMoves(w) /\ TakenFits(w)' /\ job'[w].phase = p
  BY <1>1, <1>2, <1>3, PhaseMoves
<1> QED
  BY <1>1, <1>4, GivesUpTurn, LeavingFits

LEMMA RequestFailsFits ==
  ASSUME ExecutorInv, Typed', NEW w \in Worker, RequestFails(w), UNCHANGED openCode,
         abandoned' = abandoned \cup GiveUp(w)
  PROVE  ExecutorInv'
<1>1. /\ Busy(w) /\ GiveUp(w) \subseteq abandoned' /\ abandoned \subseteq abandoned'
      /\ UNCHANGED <<turns, owner, epoch, been, returned, ctx, queue, up, asking, hydrated, snapshot>>
      /\ job' = [job EXCEPT ![w].phase = "thrown"]
  BY DEF RequestFails, Throw, Busy, master, memory, openCode
<1>2. "thrown" \in Phase \ {"none", "queued", "begun"}
  BY DEF Phase
<1>3. JobMoves(w) /\ TakenFits(w)' /\ job'[w].phase = "thrown"
  BY <1>1, <1>2, PhaseMoves
<1> QED
  BY <1>1, <1>3, GivesUpTurn, LeavingFits

\* The reply a poll takes is the job's, whose prompt is then out of the queue,
\* or that of a turn given up.
LEMMA TakeReplyFits ==
  ASSUME ExecutorInv, Typed', NEW w \in Worker, TakeReply(w)
  PROVE  ExecutorInv'
<1>1. /\ Typed /\ WorkerFits(w) /\ job[w] \in JobRecord
      /\ ctx[w] \in Seq(Message) /\ queue[w] \in Seq(Nat)
  BY WorkerTyped DEF ExecutorInv
<1>2. PICK i \in CompletedReplies(w) :
        /\ job' = [job EXCEPT ![w].phase = "replied", ![w].reply = ctx[w][i].turn]
        /\ abandoned' = abandoned \cup IF ctx[w][i].turn = job[w].turn THEN {} ELSE GiveUp(w)
  BY DEF TakeReply
<1>3. /\ job[w].phase = "polling"
      /\ UNCHANGED <<turns, owner, epoch, been, returned, ctx, queue, up, asking, hydrated, snapshot>>
  BY DEF TakeReply, master, openCode
<1>4. /\ job'[w] = [job[w] EXCEPT !.phase = "replied", !.reply = ctx[w][i].turn]
      /\ \A v \in Worker : v # w => job'[v] = job[v]
  BY <1>1, <1>2 DEF Typed
<1>5. /\ job'[w].phase = "replied" /\ job'[w].reply = ctx[w][i].turn
      /\ job'[w].turn = job[w].turn /\ job'[w].epoch = job[w].epoch
      /\ job'[w].kind = job[w].kind /\ job'[w].history = job[w].history
  BY <1>1, <1>4 DEF JobRecord
<1>6. JobMoves(w)
  BY <1>2, <1>3, <1>4, <1>5 DEF JobMoves, Busy, Unposted
<1>7. /\ i \in job[w].known + 1 .. Len(ctx[w]) /\ i \in 1 .. Len(ctx[w])
      /\ Completes(ctx[w][i]) /\ ctx[w][i].role = "assistant"
  <2>1. job[w].known \in Nat
    BY <1>1 DEF JobRecord
  <2> QED
    BY <2>1 DEF CompletedReplies, Completes
<1>8. ctx[w][i].turn \in {job[w].turn} \cup abandoned
  BY <1>1, <1>3, <1>7 DEF WorkerFits, NewRepliesFit
<1>9. TakenFits(w)'
  <2>1. ctx'[w][i].turn = job'[w].reply /\ Completes(ctx'[w][i]) /\ i \in 1 .. Len(ctx'[w])
    BY <1>3, <1>5, <1>7
  <2>2. \E k \in 1 .. Len(ctx'[w]) : Completes(ctx'[w][k]) /\ ctx'[w][k].turn = job'[w].reply
    BY <2>1
  <2>3. job'[w].reply \in {job'[w].turn} \cup abandoned'
    BY <1>2, <1>5, <1>8
  <2> QED
    BY <2>2, <2>3 DEF TakenFits, Completes
<1>10. ASSUME job[w].turn \in ToSet(queue[w]) PROVE job[w].turn \in abandoned'
  <2>1. PICK k \in 1 .. Len(queue[w]) : queue[w][k] = job[w].turn
    BY <1>1, <1>10, LenProperties DEF ToSet
  <2>2. ctx[w][i].turn # job[w].turn
    BY <1>1, <1>7, <2>1 DEF WorkerFits, QueuedOnce
  <2> QED
    BY <1>2, <1>10, <2>2 DEF GiveUp
<1> QED
  BY <1>3, <1>5, <1>6, <1>9, <1>10, LeavingFits

\* A job gives up, having answered the question.
LEMMA LostReplyFits ==
  ASSUME ExecutorInv, Typed', NEW w \in Worker, RequestFails(w), ReplyReceived(w),
         abandoned' = abandoned \cup GiveUp(w)
  PROVE  ExecutorInv'
<1>1. Typed /\ WorkerFits(w) /\ SnapshotAtRest /\ job[w] \in JobRecord /\ queue[w] \in Seq(Nat)
  BY WorkerTyped DEF ExecutorInv
<1>2. /\ job[w].phase = "begun" /\ job[w].kind = "resume"
      /\ job' = [job EXCEPT ![w].phase = "thrown"]
      /\ asking' = [asking EXCEPT ![w] = FALSE]
      /\ UNCHANGED <<turns, owner, epoch, been, returned, ctx, queue, up, hydrated, snapshot>>
      /\ abandoned \subseteq abandoned' /\ GiveUp(w) \subseteq abandoned'
  BY DEF RequestFails, ReplyReceived, Throw, master, memory
<1>3. /\ job'[w] = [job[w] EXCEPT !.phase = "thrown"]
      /\ \A v \in Worker : v # w => job'[v] = job[v] /\ asking'[v] = asking[v]
      /\ ~asking'[w]
  BY <1>1, <1>2 DEF Typed
<1>4. /\ job'[w].phase = "thrown"
      /\ job'[w].turn = job[w].turn /\ job'[w].epoch = job[w].epoch
      /\ job'[w].reply = job[w].reply
  BY <1>1, <1>3 DEF JobRecord
<1>5. QuietStep(w)
  BY <1>1, <1>2, <1>3, <1>4, Shrinks DEF QuietStep, LocalStep, Stays, SameTurn, Busy, Unposted
<1>6. QueueIsOwned(w)'
  <2>1. \A i \in 1 .. Len(queue[w]) : queue[w][i] \in ToSet(queue[w])
    BY <1>1, LenProperties DEF ToSet
  <2>2. job[w].turn \in ToSet(queue[w]) => job[w].turn \in abandoned'
    BY <1>2, GivesUpTurn
  <2> QED
    BY <1>1, <1>2, <2>1, <2>2 DEF WorkerFits, QueueIsOwned
<1>7. AtRest(w)' /\ NewRepliesFit(w)' /\ CarriesPast(w)'
  BY <1>1, <1>2, <1>3, <1>4 DEF WorkerFits, AtRest, NewRepliesFit, CarriesPast, Unposted
<1>8. TakenFits(w)' /\ SnapshotAtRest'
  BY <1>1, <1>2, <1>4 DEF WorkerFits, TakenFits, Completes, SnapshotAtRest
<1> QED
  BY <1>5, <1>6, <1>7, <1>8, QuietKeeps

LEMMA SeeQuestionFits ==
  ASSUME ExecutorInv, Typed', NEW w \in Worker, SeeQuestion(w)
  PROVE  ExecutorInv'
<1>1. Typed /\ WorkerFits(w) /\ SnapshotAtRest
  BY DEF ExecutorInv
<1>2. /\ job[w].phase = "polling" /\ asking[w] /\ up[w] /\ job' = [job EXCEPT ![w].phase = "asked"]
      /\ UNCHANGED <<turns, owner, epoch, been, returned, ctx, queue, up, asking, hydrated, snapshot, abandoned>>
  BY DEF SeeQuestion, Pending, master, openCode
<1>3. "asked" \in Phase \ {"none", "queued", "begun"}
  BY DEF Phase
<1>4. JobMoves(w) /\ TakenFits(w)' /\ job'[w].phase = "asked"
  BY <1>2, <1>3, PhaseMoves DEF Busy
<1>5. QueueIsOwned(w)' /\ AtRest(w)' /\ NewRepliesFit(w)' /\ CarriesPast(w)'
  BY <1>1, <1>2, <1>4 DEF WorkerFits, QueueIsOwned, AtRest, NewRepliesFit, CarriesPast,
                          Unposted, Holds, JobMoves
<1>6. SnapshotAtRest'
  BY <1>1, <1>2 DEF SnapshotAtRest
<1> QED
  BY <1>1, <1>4, <1>5, <1>6, JobMovesQuietly, QuietKeeps

\* What is exported is at rest: a job that has a reply has left nothing in the
\* queue but turns given up, and one that waits has its question asked.
LEMMA PublishFits ==
  ASSUME ExecutorInv, Typed', NEW w \in Worker, PublishSnapshot(w)
  PROVE  ExecutorInv'
<1>1. Typed /\ WorkerFits(w) /\ SnapshotAtRest /\ queue[w] \in Seq(Nat)
  BY WorkerTyped DEF ExecutorInv
<1>2. /\ job[w].phase \in {"replied", "asked"} /\ snapshot' = Snapshot(w)
      /\ UNCHANGED <<turns, owner, epoch, been, returned, ctx, queue, up, asking, hydrated, abandoned>>
  BY DEF PublishSnapshot, master, memory, openCode
<1>3. PICK p \in {"toWait", "toEnd"} :
        job' = [job EXCEPT ![w].phase = p] /\ (p = "toWait" <=> job[w].phase = "asked")
  BY DEF PublishSnapshot
<1>4. p \in Phase \ {"none", "queued", "begun"}
  BY DEF Phase
<1>5. JobMoves(w) /\ TakenFits(w)' /\ job'[w].phase = p
  BY <1>2, <1>3, <1>4, PhaseMoves DEF Busy
<1>6. QueueIsOwned(w)'
  BY <1>1, <1>2, <1>3, <1>5 DEF WorkerFits, QueueIsOwned, Holds, JobMoves
<1>7. AtRest(w)' /\ NewRepliesFit(w)' /\ CarriesPast(w)'
  BY <1>1, <1>5 DEF WorkerFits, AtRest, NewRepliesFit, CarriesPast, Unposted, JobMoves
<1>8. SnapshotAtRest'
  <2>1. CASE snapshot' = snapshot
    BY <1>1, <1>2, <2>1 DEF SnapshotAtRest
  <2>2. CASE snapshot' = Export(w)
    <3>1. snapshot'.works = (queue[w] # << >> /\ ~asking[w])
      BY <2>2, Zenon DEF Export
    <3>2. SUFFICES ASSUME queue[w] # << >>, ~asking[w] PROVE abandoned # {}
      BY <1>2, <3>1, Zenon DEF SnapshotAtRest
    <3>3. job[w].phase = "replied"
      BY <1>1, <1>2, <3>2 DEF WorkerFits, AtRest
    <3>4. 1 \in 1 .. Len(queue[w])
      BY <1>1, <3>2, EmptySeq
    <3> QED
      BY <1>1, <3>3, <3>4 DEF WorkerFits, QueueIsOwned, Holds
  <2> QED
    BY <1>2, <2>1, <2>2 DEF Snapshot
<1> QED
  BY <1>1, <1>5, <1>6, <1>7, <1>8, JobMovesQuietly, QuietKeeps

LEMMA PostReplyFits ==
  ASSUME ExecutorInv, Typed', NEW w \in Worker, PostReply(w)
  PROVE  ExecutorInv'
<1>1. Typed /\ WorkerFits(w) /\ SnapshotAtRest /\ job[w] \in JobRecord
  BY WorkerTyped DEF ExecutorInv
<1>2. /\ job[w].phase = "begun" /\ job[w].kind = "resume"
      /\ job' = [job EXCEPT ![w].phase = "polling"]
      /\ asking' = asking \/ asking' = [asking EXCEPT ![w] = FALSE]
      /\ UNCHANGED <<turns, owner, epoch, been, returned, ctx, queue, up, hydrated, snapshot, abandoned>>
  BY DEF PostReply, master, memory
<1>3. /\ job'[w] = [job[w] EXCEPT !.phase = "polling"]
      /\ \A v \in Worker : v # w => job'[v] = job[v] /\ asking'[v] = asking[v]
      /\ ~asking[w] => ~asking'[w]
  BY <1>1, <1>2 DEF Typed
<1>4. /\ job'[w].phase = "polling" /\ job'[w].known = job[w].known
      /\ job'[w].turn = job[w].turn /\ job'[w].epoch = job[w].epoch
      /\ job'[w].kind = job[w].kind /\ job'[w].history = job[w].history
      /\ job'[w].reply = job[w].reply
  BY <1>1, <1>3 DEF JobRecord
<1>5. QuietStep(w)
  BY <1>1, <1>2, <1>3, <1>4, Shrinks DEF QuietStep, LocalStep, Stays, SameTurn, Busy, Unposted
<1>6. QueueIsOwned(w)' /\ AtRest(w)' /\ NewRepliesFit(w)' /\ CarriesPast(w)'
  BY <1>1, <1>2, <1>3, <1>4 DEF WorkerFits, QueueIsOwned, AtRest, NewRepliesFit, CarriesPast, Unposted, Holds
<1>7. TakenFits(w)' /\ SnapshotAtRest'
  BY <1>1, <1>2, <1>4 DEF WorkerFits, TakenFits, Completes, SnapshotAtRest
<1> QED
  BY <1>5, <1>6, <1>7, QuietKeeps

-----------------------------------------------------------------------------
(* The steps of OpenCode that add nothing.                                 *)

LEMMA QuietOpenCode ==
  ASSUME ExecutorInv, Typed', NEW w \in Worker,
         OpenCodeStep(w), OcAsk(w) \/ OcFail(w) \/ OcExit(w)
  PROVE  ExecutorInv'
<1>1. /\ Typed /\ WorkerFits(w) /\ SnapshotAtRest
      /\ job[w] \in JobRecord /\ queue[w] \in Seq(Nat)
  BY WorkerTyped DEF ExecutorInv
<1>2. /\ UNCHANGED <<turns, owner, epoch, been, returned, ctx, hydrated, snapshot, abandoned>>
      /\ \A v \in Worker : v # w => Stays(v)
  BY <1>1 DEF OpenCodeStep, OcAsk, OcFail, OcExit, Heard, Stays, Typed, master, memory
<1>3. job'[w] = job[w] \/ (Subscribed(w) /\ job'[w] = [job[w] EXCEPT !.failed = TRUE])
  BY <1>1 DEF OcAsk, OcFail, OcExit, Heard, Typed
<1>4. /\ job'[w].phase = job[w].phase /\ job'[w].known = job[w].known
      /\ job'[w].turn = job[w].turn /\ job'[w].epoch = job[w].epoch
      /\ job'[w].kind = job[w].kind /\ job'[w].history = job[w].history
      /\ job'[w].reply = job[w].reply /\ job'[w].restore = job[w].restore
  BY <1>1, <1>3 DEF JobRecord
<1>5. QueueShrinks(w)
  BY <1>1, Shrinks DEF OcAsk, OcFail, OcExit, Works, Typed
<1>6. QuietStep(w)
  BY <1>2, <1>3, <1>4, <1>5 DEF QuietStep, LocalStep, SameTurn, Busy, Unposted, Subscribed
<1>7. QueueIsOwned(w)'
  BY <1>1, <1>2, <1>4, <1>5 DEF WorkerFits, QueueIsOwned, QueueShrinks, Holds
<1>8. AtRest(w)'
  <2>1. CASE OcAsk(w)
    BY <1>1, <1>4, <2>1 DEF WorkerFits, AtRest, OcAsk, Works, Typed
  <2>2. CASE OcFail(w)
    BY <1>1, <1>4, <2>2 DEF WorkerFits, AtRest, OcFail, Works, Typed
  <2>3. CASE OcExit(w)
    BY <1>1, <1>4, <2>3 DEF AtRest, OcExit, Typed
  <2> QED
    BY <2>1, <2>2, <2>3
<1>9. NewRepliesFit(w)' /\ CarriesPast(w)'
  BY <1>1, <1>2, <1>4, RepliesStay DEF WorkerFits, NewRepliesFit, CarriesPast, Unposted, SameReplies
<1>10. TakenFits(w)' /\ SnapshotAtRest'
  BY <1>1, <1>2, <1>4 DEF WorkerFits, TakenFits, Completes, SnapshotAtRest
<1> QED
  BY <1>6, <1>7, <1>8, <1>9, <1>10, QuietKeeps

LEMMA StartFits ==
  ASSUME ExecutorInv, Typed', NEW w \in Worker, Start(w)
  PROVE  ExecutorInv'
<1>1. Typed /\ WorkerFits(w) /\ SnapshotAtRest
  BY DEF ExecutorInv
<1>2. /\ UNCHANGED <<turns, owner, epoch, been, returned, job, ctx, queue, asking, snapshot, abandoned>>
      /\ ~hydrated'[w] /\ up'[w]
      /\ \A v \in Worker : v # w => Stays(v)
  BY <1>1 DEF Start, Stays, Typed, master
<1>3. QuietStep(w)
  BY <1>1, <1>2, Shrinks DEF QuietStep, LocalStep, SameTurn, Busy, Unposted
<1>4. QueueIsOwned(w)' /\ AtRest(w)' /\ NewRepliesFit(w)' /\ CarriesPast(w)'
  BY <1>1, <1>2, RepliesStay DEF WorkerFits, QueueIsOwned, AtRest, NewRepliesFit, CarriesPast,
                                 Unposted, Holds, SameReplies
<1>5. TakenFits(w)' /\ SnapshotAtRest'
  BY <1>1, <1>2 DEF WorkerFits, TakenFits, Completes, SnapshotAtRest
<1> QED
  BY <1>3, <1>4, <1>5, QuietKeeps

-----------------------------------------------------------------------------
(* Messages.                                                               *)

\* OpenCode adds a message of the turn it works on.
LEMMA AnswerFits ==
  ASSUME ExecutorInv, Typed', NEW w \in Worker, OpenCodeStep(w), OcStep(w) \/ OcReply(w)
  PROVE  ExecutorInv'
<1> DEFINE n == Len(ctx[w])
           u == queue[w][1]
<1>1. /\ Typed /\ WorkerFits(w) /\ SnapshotAtRest /\ SameReplies
      /\ queue[w] \in Seq(Nat) /\ queue[w] # << >> /\ ~asking[w] /\ up[w]
  BY WorkerTyped, RepliesStay DEF ExecutorInv, OpenCodeStep, OcStep, OcReply, Works, master
<1>2. PICK stop \in BOOLEAN :
        /\ ctx' = [ctx EXCEPT ![w] = Append(@, Assistant(w, stop))]
        /\ queue' = IF stop THEN [queue EXCEPT ![w] = Tail(@)] ELSE queue
  BY DEF OcStep, OcReply
<1>3. /\ UNCHANGED <<turns, owner, epoch, been, returned, job, up, asking, hydrated, snapshot, abandoned>>
      /\ LocalStep(w)
  BY <1>1, <1>2 DEF OpenCodeStep, OcStep, OcReply, LocalStep, Stays, Typed, master, memory
<1> DEFINE m == Assistant(w, stop)
<1>4. /\ 1 \in 1 .. Len(queue[w]) /\ u = Head(queue[w]) /\ Head(queue[w]) \in Nat
  BY <1>1, Taken
<1>5. m \in Message /\ m.turn = u /\ m.role = "assistant" /\ m.stop = stop
  BY <1>4 DEF Assistant, Message
<1>6. /\ ctx'[w] = Append(ctx[w], m)
      /\ queue'[w] = IF stop THEN Tail(queue[w]) ELSE queue[w]
  BY <1>1, <1>2 DEF Typed
<1> HIDE DEF m
<1>7. /\ n \in Nat /\ Len(ctx'[w]) = n + 1 /\ ctx'[w][n + 1] = m
      /\ \A i \in 1 .. n : ctx'[w][i] = ctx[w][i] /\ Told(w, i)' = Told(w, i)
      /\ Told(w, n) \subseteq Told(w, Len(ctx[w]))'
  BY <1>1, <1>5, <1>6, ToldGrows
<1>8. \A i \in 1 .. Len(ctx'[w]) : i \in 1 .. n \/ i = n + 1
  BY <1>7
<1>9. ctx[w] # << >> /\ ctx'[w] # << >>
  BY <1>1, <1>4, <1>5, <1>6, Appended, WorkerTyped DEF WorkerFits, ContextFits
<1>10. PICK d \in Nat : \A i \in 1 .. Len(queue'[w]) :
                          i + d \in 1 .. Len(queue[w]) /\ queue'[w][i] = queue[w][i + d]
  BY <1>1, <1>6, Shrinks DEF QueueShrinks
<1>11. \A i \in 1 .. Len(queue'[w]) : stop => queue'[w][i] # u
  <2> SUFFICES ASSUME stop, NEW i \in 1 .. Len(queue'[w]) PROVE queue'[w][i] # u
    OBVIOUS
  <2>1. i + 1 \in 1 .. Len(queue[w]) /\ queue'[w][i] = queue[w][i + 1] /\ i + 1 # 1
    BY <1>1, <1>6, Taken
  <2> QED
    BY <1>1, <1>4, <2>1 DEF WorkerFits, QueuedOnce
<1> HIDE DEF n, u
<1>12. JobFits(w)'
  BY <1>1, <1>3 DEF WorkerFits, JobFits, Busy
<1>13. ContextFits(w)'
  <2>1. u \in 1 .. Len(turns) /\ w \in been
    BY <1>1, <1>4, <1>9 DEF WorkerFits, ContextFits, u
  <2>2. \A i \in 1 .. Len(ctx'[w]) : ctx'[w][i].turn \in 1 .. Len(turns)
    BY <1>1, <1>5, <1>7, <1>8, <2>1 DEF WorkerFits, ContextFits, n
  <2>3. \A i \in 1 .. Len(queue'[w]) : queue'[w][i] \in 1 .. Len(turns)
    BY <1>1, <1>10 DEF WorkerFits, ContextFits
  <2> QED
    BY <1>3, <1>9, <2>1, <2>2, <2>3 DEF ContextFits
<1>14. QueuedOnce(w)'
  <2>1. \A i, j \in 1 .. Len(queue'[w]) : queue'[w][i] = queue'[w][j] => i = j
    <3> SUFFICES ASSUME NEW i \in 1 .. Len(queue'[w]), NEW j \in 1 .. Len(queue'[w]),
                        queue'[w][i] = queue'[w][j]
                 PROVE  i = j
      OBVIOUS
    <3>1. i + d \in 1 .. Len(queue[w]) /\ j + d \in 1 .. Len(queue[w]) /\ queue[w][i + d] = queue[w][j + d]
      BY <1>10
    <3>2. i + d = j + d
      BY <1>1, <3>1 DEF WorkerFits, QueuedOnce
    <3> QED
      BY <3>2
  <2>2. ASSUME NEW i \in 1 .. Len(queue'[w]), NEW k \in 1 .. Len(ctx'[w]), Completes(ctx'[w][k])
        PROVE  ctx'[w][k].turn # queue'[w][i]
    <3>1. CASE k \in 1 .. n
      <4>1. i + d \in 1 .. Len(queue[w]) /\ queue'[w][i] = queue[w][i + d] /\ ctx'[w][k] = ctx[w][k]
        BY <1>7, <1>10, <3>1
      <4>2. \A j \in 1 .. Len(queue[w]) : ctx[w][k].turn # queue[w][j]
        BY <1>1, <2>2, <3>1, <4>1, Zenon DEF WorkerFits, QueuedOnce, n
      <4> QED
        BY <4>1, <4>2
    <3>2. CASE k = n + 1
      <4>1. stop /\ ctx'[w][k].turn = u
        BY <1>5, <1>7, <2>2, <3>2 DEF Completes
      <4> QED
        BY <1>11, <4>1
    <3> QED
      BY <1>8, <3>1, <3>2
  <2>3. ASSUME Unposted(w)
        PROVE  /\ \A i \in 1 .. Len(queue'[w]) : queue'[w][i] # job[w].turn
               /\ \A k \in 1 .. Len(ctx'[w]) : ctx'[w][k].turn # job[w].turn
    <3>1. u # job[w].turn
      BY <1>1, <1>4, <2>3 DEF WorkerFits, QueuedOnce, u
    <3>2. /\ \A i \in 1 .. Len(queue[w]) : queue[w][i] # job[w].turn
          /\ \A k \in 1 .. n : ctx[w][k].turn # job[w].turn
      BY <1>1, <2>3 DEF WorkerFits, QueuedOnce, n
    <3>3. \A i \in 1 .. Len(queue'[w]) : queue'[w][i] # job[w].turn
      BY <1>10, <3>2
    <3>4. \A k \in 1 .. Len(ctx'[w]) : ctx'[w][k].turn # job[w].turn
      BY <1>5, <1>7, <1>8, <3>1, <3>2
    <3> QED
      BY <3>3, <3>4
  <2> QED
    BY <1>3, <2>1, <2>2, <2>3 DEF QueuedOnce, Completes, Unposted
<1>15. QueueIsOwned(w)' /\ AtRest(w)'
  BY <1>1, <1>3, <1>10 DEF WorkerFits, QueueIsOwned, AtRest, Holds
<1>16. NewRepliesFit(w)'
  <2> SUFFICES ASSUME job[w].phase \in {"begun", "polling"}
               PROVE  /\ job[w].known <= n + 1
                      /\ \A i \in job[w].known + 1 .. n + 1 :
                           ctx'[w][i].role = "assistant" => ctx'[w][i].turn \in {job[w].turn} \cup abandoned
    BY <1>3, <1>7 DEF NewRepliesFit
  <2>1. job[w].known \in Nat /\ job[w].known <= n
    BY <1>1, WorkerTyped DEF WorkerFits, NewRepliesFit, JobRecord, n
  <2>2. u \in {job[w].turn} \cup abandoned
    BY <1>1, <1>4 DEF WorkerFits, QueueIsOwned, u
  <2>3. ASSUME NEW i \in job[w].known + 1 .. n + 1, ctx'[w][i].role = "assistant"
        PROVE  ctx'[w][i].turn \in {job[w].turn} \cup abandoned
    <3>1. CASE i = n + 1
      BY <1>5, <1>7, <2>2, <3>1
    <3>2. CASE i \in job[w].known + 1 .. n
      <4>1. ctx'[w][i] = ctx[w][i]
        BY <1>7, <2>1, <3>2
      <4> QED
        BY <1>1, <2>3, <3>2, <4>1 DEF WorkerFits, NewRepliesFit, n
    <3> QED
      BY <1>7, <2>1, <3>1, <3>2
  <2> QED
    BY <1>7, <2>1, <2>3
<1>17. TakenFits(w)'
  <2> SUFFICES ASSUME job[w].reply # 0
               PROVE  /\ job[w].reply \in {job[w].turn} \cup abandoned
                      /\ \E i \in 1 .. Len(ctx'[w]) :
                           Completes(ctx'[w][i]) /\ ctx'[w][i].turn = job[w].reply
    BY <1>3 DEF TakenFits, Completes
  <2>1. PICK i \in 1 .. n : Completes(ctx[w][i]) /\ ctx[w][i].turn = job[w].reply
    BY <1>1 DEF WorkerFits, TakenFits, n
  <2>2. i \in 1 .. Len(ctx'[w]) /\ ctx'[w][i] = ctx[w][i]
    BY <1>7
  <2> QED
    BY <1>1, <2>1, <2>2 DEF WorkerFits, TakenFits
<1>18. CarriesPast(w)'
  BY <1>1, <1>3, <1>9 DEF WorkerFits, CarriesPast, Unposted, SameReplies
<1>19. HasPast(w)'
  <2> SUFFICES ASSUME ~returned, w = owner \/ Busy(w)
               PROVE  Replies \subseteq Told(w, Len(ctx[w]))'
    BY <1>1, <1>3 DEF HasPast, Busy, SameReplies
  <2>1. Replies \subseteq Told(w, n)
    BY <1>1, <1>9 DEF WorkerFits, HasPast, n
  <2> QED
    BY <1>7, <2>1
<1>20. PromptHasPast(w)'
  BY <1>1, <1>3, <1>5, <1>7, <1>8 DEF WorkerFits, PromptHasPast, SameReplies, n
<1>21. SnapshotAtRest'
  BY <1>1, <1>3 DEF SnapshotAtRest
<1> QED
  BY <1>3, <1>12, <1>13, <1>14, <1>15, <1>16, <1>17, <1>18, <1>19, <1>20, <1>21, LocalKeeps
     DEF WorkerFits, Busy

\* A prompt arrives, whether the job hears of it or not.
LEMMA ReceivedFits ==
  ASSUME ExecutorInv, Typed', NEW w \in Worker, Received(w), up[w],
         job[w].phase = "begun", job[w].kind = "execute",
         NEW p \in {"polling", "thrown"}, job' = [job EXCEPT ![w].phase = p],
         abandoned \subseteq abandoned', p = "thrown" => job[w].turn \in abandoned',
         UNCHANGED <<turns, owner, epoch, been, returned, snapshot>>,
         \A v \in Worker : v # w => hydrated'[v] = hydrated[v]
  PROVE  ExecutorInv'
<1> DEFINE n == Len(ctx[w])
           t == job[w].turn
<1>1. /\ Typed /\ WorkerFits(w) /\ SnapshotAtRest /\ SameReplies
      /\ job[w] \in JobRecord /\ Busy(w) /\ Unposted(w) /\ ~Holds(w)
      /\ User(w) \in Message
  BY WorkerTyped, RepliesStay DEF ExecutorInv, Busy, Unposted, Holds
<1>2. /\ User(w).turn = t /\ User(w).role = "user"
      /\ job[w].restore => User(w).past = job[w].history
  BY DEF User
<1>3. /\ ctx'[w] = Append(ctx[w], User(w)) /\ queue'[w] = Append(queue[w], t)
      /\ UNCHANGED <<up, asking>>
  BY <1>1 DEF Received, Typed
<1>4. /\ job'[w].phase = p /\ job'[w].known = job[w].known
      /\ job'[w].turn = t /\ job'[w].epoch = job[w].epoch
      /\ job'[w].reply = job[w].reply /\ Busy(w)' /\ ~Unposted(w)'
  BY <1>1 DEF Typed, JobRecord, Busy, Unposted
<1>5. LocalStep(w)
  BY <1>1 DEF LocalStep, Stays, Received, Typed
<1>6. /\ n \in Nat /\ Len(ctx'[w]) = n + 1 /\ ctx'[w][n + 1] = User(w)
      /\ \A i \in 1 .. n : ctx'[w][i] = ctx[w][i] /\ Told(w, i)' = Told(w, i)
      /\ Told(w, n) \subseteq Told(w, Len(ctx[w]))'
      /\ User(w).past \subseteq Told(w, Len(ctx[w]))'
  BY <1>1, <1>3, ToldGrows
<1>7. \A i \in 1 .. Len(ctx'[w]) : i \in 1 .. n \/ i = n + 1
  BY <1>6
<1>8. ctx'[w] # << >>
  BY <1>1, <1>3, Appended, WorkerTyped
<1>9. /\ \A i \in 1 .. Len(queue[w]) : queue'[w][i] = queue[w][i]
      /\ \A i \in 1 .. Len(queue'[w]) :
           i \in 1 .. Len(queue[w]) \/ (i = Len(queue[w]) + 1 /\ queue'[w][i] = t)
  BY <1>1, <1>3, Appended, WorkerTyped
<1>10. t = Len(turns) /\ t \in 1 .. Len(turns) /\ w \in been
  BY <1>1, TurnIDs DEF WorkerFits, JobFits
<1>11. /\ \A i \in 1 .. Len(queue[w]) : queue[w][i] # t
       /\ \A k \in 1 .. n : ctx[w][k].turn # t
  BY <1>1 DEF WorkerFits, QueuedOnce
<1> HIDE DEF n, t
<1>12. JobFits(w)'
  BY <1>1, <1>4 DEF WorkerFits, JobFits, t
<1>13. ContextFits(w)'
  <2>1. \A i \in 1 .. Len(ctx'[w]) : ctx'[w][i].turn \in 1 .. Len(turns)
    BY <1>1, <1>2, <1>6, <1>7, <1>10 DEF WorkerFits, ContextFits, n
  <2>2. \A i \in 1 .. Len(queue'[w]) : queue'[w][i] \in 1 .. Len(turns)
    BY <1>1, <1>9, <1>10 DEF WorkerFits, ContextFits
  <2> QED
    BY <1>8, <1>10, <2>1, <2>2 DEF ContextFits
<1>14. QueuedOnce(w)'
  <2>1. \A i, j \in 1 .. Len(queue'[w]) : queue'[w][i] = queue'[w][j] => i = j
    <3>1. \A i, j \in 1 .. Len(queue[w]) : queue[w][i] = queue[w][j] => i = j
      BY <1>1 DEF WorkerFits, QueuedOnce
    <3> QED
      BY <1>9, <1>11, <3>1
  <2>2. ASSUME NEW i \in 1 .. Len(queue'[w]), NEW k \in 1 .. Len(ctx'[w]), Completes(ctx'[w][k])
        PROVE  ctx'[w][k].turn # queue'[w][i]
    <3>1. k \in 1 .. n /\ ctx'[w][k] = ctx[w][k]
      BY <1>2, <1>6, <1>7, <2>2 DEF Completes
    <3>2. \A j \in 1 .. Len(queue[w]) : ctx[w][k].turn # queue[w][j]
      BY <1>1, <2>2, <3>1, Zenon DEF WorkerFits, QueuedOnce, n
    <3> QED
      BY <1>9, <1>11, <3>1, <3>2
  <2> QED
    BY <1>4, <2>1, <2>2 DEF QueuedOnce, Completes
<1>15. QueueIsOwned(w)'
  <2> SUFFICES ASSUME NEW i \in 1 .. Len(queue'[w])
               PROVE  queue'[w][i] \in abandoned' \/ (Holds(w)' /\ queue'[w][i] = t)
    BY <1>4 DEF QueueIsOwned
  <2>1. CASE i \in 1 .. Len(queue[w])
    BY <1>1, <1>9, <2>1 DEF WorkerFits, QueueIsOwned
  <2>2. CASE queue'[w][i] = t
    BY <1>4, <2>2 DEF Holds, t
  <2> QED
    BY <1>9, <2>1, <2>2
<1>16. AtRest(w)'
  BY <1>3, <1>4 DEF AtRest
<1>17. NewRepliesFit(w)'
  <2>1. job[w].known \in Nat /\ job[w].known <= n
    BY <1>1 DEF WorkerFits, NewRepliesFit, JobRecord, n
  <2>2. ASSUME NEW i \in job[w].known + 1 .. n + 1, ctx'[w][i].role = "assistant"
        PROVE  ctx'[w][i].turn \in {t} \cup abandoned'
    <3>1. i \in job[w].known + 1 .. n /\ ctx'[w][i] = ctx[w][i]
      BY <1>2, <1>6, <1>7, <2>1, <2>2
    <3> QED
      BY <1>1, <2>2, <3>1 DEF WorkerFits, NewRepliesFit, n, t
  <2> QED
    BY <1>4, <1>6, <1>7, <2>1, <2>2 DEF NewRepliesFit
<1>18. TakenFits(w)'
  <2> SUFFICES ASSUME job[w].reply # 0
               PROVE  /\ job[w].reply \in {t} \cup abandoned'
                      /\ \E i \in 1 .. Len(ctx'[w]) :
                           Completes(ctx'[w][i]) /\ ctx'[w][i].turn = job[w].reply
    BY <1>4 DEF TakenFits, Completes
  <2>1. PICK i \in 1 .. n : Completes(ctx[w][i]) /\ ctx[w][i].turn = job[w].reply
    BY <1>1 DEF WorkerFits, TakenFits, n
  <2>2. i \in 1 .. Len(ctx'[w]) /\ ctx'[w][i] = ctx[w][i]
    BY <1>6, <1>7
  <2> QED
    BY <1>1, <2>1, <2>2 DEF WorkerFits, TakenFits, t
<1>19. CarriesPast(w)'
  BY <1>4 DEF CarriesPast
<1>20. ~returned => Replies \subseteq Told(w, Len(ctx[w]))'
  <2>1. CASE ctx[w] # << >>
    BY <1>1, <1>6, <1>7, <2>1 DEF WorkerFits, HasPast, n
  <2>2. CASE ctx[w] = << >>
    <3>1. job[w].history = Replies /\ (job[w].restore \/ job[w].history = {})
      BY <1>1, <2>2 DEF WorkerFits, CarriesPast
    <3> QED
      BY <1>2, <1>6, <1>7, <3>1
  <2> QED
    BY <2>1, <2>2
<1>21. HasPast(w)'
  BY <1>1, <1>20 DEF HasPast, SameReplies
<1>22. PromptHasPast(w)'
  <2> SUFFICES ASSUME ~returned, NEW i \in 1 .. Len(ctx'[w]),
                      ctx'[w][i].role = "user", turns[ctx'[w][i].turn].status = "active"
               PROVE  {turns[r].reply : r \in {u \in Replied : u < ctx'[w][i].turn}} \subseteq Told(w, i)'
    BY <1>1 DEF PromptHasPast, SameReplies
  <2>1. CASE i \in 1 .. n
    BY <1>1, <1>6, <1>7, <2>1 DEF WorkerFits, PromptHasPast, n
  <2>2. CASE i = n + 1
    <3>1. {turns[r].reply : r \in {u \in Replied : u < ctx'[w][i].turn}} \subseteq Replies
      BY DEF Replies
    <3>2. Told(w, i)' = Told(w, Len(ctx[w]))'
      BY <1>6, <1>7, <2>2
    <3> QED
      BY <1>20, <3>1, <3>2
  <2> QED
    BY <1>6, <1>7, <2>1, <2>2
<1>23. SnapshotAtRest'
  BY <1>1 DEF SnapshotAtRest
<1> QED
  BY <1>1, <1>5, <1>12, <1>13, <1>14, <1>15, <1>16, <1>17, <1>18, <1>19, <1>21, <1>22, <1>23,
     LocalKeeps DEF WorkerFits

LEMMA PostPromptFits ==
  ASSUME ExecutorInv, Typed', NEW w \in Worker, PostPrompt(w)
  PROVE  ExecutorInv'
<1>1. Typed
  BY DEF ExecutorInv
<1>2. /\ Received(w) /\ up[w] /\ job[w].phase = "begun" /\ job[w].kind = "execute"
      /\ job' = [job EXCEPT ![w].phase = "polling"] /\ abandoned' = abandoned
      /\ UNCHANGED <<turns, owner, epoch, been, returned, snapshot>>
      /\ \A v \in Worker : v # w => hydrated'[v] = hydrated[v]
  BY <1>1 DEF PostPrompt, Typed, master
<1> QED
  BY <1>2, ReceivedFits

LEMMA LostAnswerFits ==
  ASSUME ExecutorInv, Typed', NEW w \in Worker, RequestFails(w),
         job[w].phase = "begun", job[w].kind = "execute", up[w],
         Received(w), abandoned' = abandoned \cup {job[w].turn}
  PROVE  ExecutorInv'
<1>1. /\ job' = [job EXCEPT ![w].phase = "thrown"]
      /\ UNCHANGED <<turns, owner, epoch, been, returned, snapshot, hydrated>>
  BY DEF RequestFails, Throw, master, memory
<1> QED
  BY <1>1, ReceivedFits

-----------------------------------------------------------------------------
(* The ends of jobs.                                                       *)

LEMMA WaitFits ==
  ASSUME ExecutorInv, Typed', NEW w \in Worker, EndJob(w), job[w].phase = "toWait"
  PROVE  ExecutorInv'
<1>1. Typed /\ WorkerFits(w) /\ SnapshotAtRest /\ job[w] \in JobRecord
  BY WorkerTyped DEF ExecutorInv
<1>2. /\ job' = [job EXCEPT ![w] = [NoJob EXCEPT !.phase = "waiting", !.turn = job[w].turn,
                                                 !.epoch = job[w].epoch]]
      /\ UNCHANGED <<turns, owner, epoch, been, returned, ctx, queue, up, asking, hydrated, snapshot, abandoned>>
  BY DEF EndJob, memory, openCode
<1>3. /\ job'[w] = [NoJob EXCEPT !.phase = "waiting", !.turn = job[w].turn, !.epoch = job[w].epoch]
      /\ \A v \in Worker : v # w => job'[v] = job[v]
  BY <1>1, <1>2 DEF Typed
<1>4. /\ job'[w].phase = "waiting" /\ job'[w].reply = 0
      /\ job'[w].turn = job[w].turn /\ job'[w].epoch = job[w].epoch
  BY <1>3 DEF NoJob
<1>5. QuietStep(w)
  BY <1>1, <1>2, <1>3, <1>4, Shrinks DEF QuietStep, LocalStep, Stays, SameTurn, Busy, Unposted
<1>6. /\ QueueIsOwned(w)' /\ AtRest(w)' /\ NewRepliesFit(w)' /\ CarriesPast(w)'
      /\ TakenFits(w)' /\ SnapshotAtRest'
  BY <1>1, <1>2, <1>4 DEF WorkerFits, QueueIsOwned, AtRest, NewRepliesFit, CarriesPast, Unposted,
                          Holds, TakenFits, SnapshotAtRest
<1> QED
  BY <1>1, <1>5, <1>6, QuietKeeps

LEMMA IdleWorker ==
  ASSUME NEW w \in Worker, job[w] = NoJob
  PROVE  ~Busy(w) /\ ~Unposted(w) /\ ~Holds(w) /\ job[w].reply = 0 /\ job[w].phase = "none"
BY DEF NoJob, Busy, Unposted, Holds

\* Parts that say nothing of a worker without a job.
LEMMA IdleFits ==
  ASSUME NEW w \in Worker, job[w] = NoJob
  PROVE  JobFits(w) /\ NewRepliesFit(w) /\ TakenFits(w) /\ CarriesPast(w)
BY IdleWorker DEF JobFits, NewRepliesFit, TakenFits, CarriesPast

\* The turn of a job is settled with its reply, which the context of its worker
\* has; or its lease is gone, and no turn changes any more.
LEMMA EndFits ==
  ASSUME ExecutorInv, Typed', NEW w \in Worker, EndJob(w), job[w].phase \in {"toEnd", "thrown"}
  PROVE  ExecutorInv'
<1> DEFINE t == Len(turns)
<1>1. /\ Typed /\ OneTurn /\ OneJob /\ ReplyIsOfTurn /\ SnapshotAtRest
      /\ \A v \in Worker : WorkerFits(v)
      /\ job[w] \in JobRecord /\ Busy(w) /\ ~Holds(w)
  BY WorkerTyped DEF ExecutorInv, Busy, Holds
<1>2. /\ job' = [job EXCEPT ![w] = NoJob]
      /\ \E status \in {"completed", "failed"} : Settle(w, status)
      /\ UNCHANGED <<owner, epoch, been, returned, ctx, queue, up, asking, hydrated, snapshot, abandoned>>
  BY DEF EndJob, memory, openCode
<1>3. job'[w] = NoJob /\ \A v \in Worker : v # w => job'[v] = job[v]
  BY <1>1, <1>2 DEF Typed
<1>4. \A v \in Worker : job'[v] = NoJob
  BY <1>1, <1>3 DEF OneJob, WorkerFits, JobFits
<1>5. t \in 1 .. Len(turns) /\ job[w].turn = t
  BY <1>1, TurnIDs DEF WorkerFits, JobFits
<1>6. \/ turns' = turns
      \/ /\ owner = w
         /\ \E status \in {"completed", "failed"} :
              turns' = [turns EXCEPT ![t] = [status |-> status, reply |-> job[w].reply]]
  BY <1>1, <1>2, <1>5 DEF Settle, WorkerFits, JobFits
<1>7. /\ Len(turns') = Len(turns)
      /\ \A r \in 1 .. Len(turns) :
           \/ turns'[r] = turns[r]
           \/ turns'[r].status # "active" /\ turns'[r].reply = job[w].reply /\ r = t
      /\ turns' = turns \/ turns'[t].status # "active"
  <2>1. CASE turns' = turns
    BY <2>1
  <2>2. ASSUME NEW status \in {"completed", "failed"},
               turns' = [turns EXCEPT ![t] = [status |-> status, reply |-> job[w].reply]]
        PROVE  <1>7!1 /\ <1>7!2 /\ <1>7!3
    <3>1. [status |-> status, reply |-> job[w].reply] \in Row
      BY <1>1 DEF Row, JobRecord
    <3>2. /\ Len(turns') = Len(turns)
          /\ \A r \in 1 .. Len(turns) :
               turns'[r] = IF r = t THEN [status |-> status, reply |-> job[w].reply] ELSE turns[r]
      BY <1>1, <1>5, <2>2, <3>1, ExceptSeq DEF Typed
    <3> QED
      BY <1>5, <3>2
  <2> QED
    BY <1>6, <2>1, <2>2
<1>9. OneTurn'
  BY <1>1, <1>7 DEF OneTurn
<1>10. OneJob'
  BY <1>4, IdleWorker DEF OneJob, Busy, NoJob
<1>11. /\ Replied = {r \in 1 .. Len(turns) : turns[r].reply # 0}
       /\ Replied' = {r \in 1 .. Len(turns) : turns'[r].reply # 0}
  <2>1. DOMAIN turns = 1 .. Len(turns) /\ DOMAIN turns' = 1 .. Len(turns')
    BY <1>1, LenProperties DEF Typed
  <2> QED
    BY <1>7, <2>1 DEF Replied
<1>12. job[w].reply # 0 => /\ job[w].reply \in {t} \cup abandoned
                           /\ job[w].reply \in Told(w, Len(ctx[w]))
  BY <1>1, <1>5, ToldHas DEF WorkerFits, TakenFits
<1>13. ReplyIsOfTurn'
  BY <1>1, <1>2, <1>7, <1>11, <1>12 DEF ReplyIsOfTurn
<1>14. ASSUME NEW v \in Worker PROVE WorkerFits(v)'
  <2>1. WorkerFits(v) /\ Len(ctx[v]) \in Nat
    BY <1>1, WorkerTyped, LenProperties
  <2>2. \A i \in Nat : Told(v, i)' = Told(v, i)
    BY <1>2, ToldSame
  <2>3. ~Unposted(v)' /\ ~Busy(v)' /\ job'[v].phase = "none" /\ job'[v].reply = 0
    BY <1>4 DEF Unposted, Busy, NoJob
  <2>4. JobFits(v)' /\ NewRepliesFit(v)' /\ TakenFits(v)' /\ CarriesPast(v)'
    BY <1>4, <2>3 DEF JobFits, NewRepliesFit, TakenFits, CarriesPast
  <2>5. ContextFits(v)'
    BY <1>2, <1>7, <2>1 DEF WorkerFits, ContextFits
  <2>6. QueuedOnce(v)' /\ AtRest(v)'
    BY <1>2, <2>1, <2>3 DEF WorkerFits, QueuedOnce, AtRest, Completes
  <2>7. QueueIsOwned(v)'
    <3>1. ~Holds(v)
      BY <1>1 DEF OneJob, Busy, Holds
    <3> QED
      BY <1>2, <2>1, <3>1 DEF WorkerFits, QueueIsOwned
  <2>8. HasPast(v)'
    <3> SUFFICES ASSUME ~returned, v = owner, ctx[v] # << >>, NEW r \in Replied'
                 PROVE  turns'[r].reply \in Told(v, Len(ctx[v]))
      BY <1>2, <2>1, <2>2, <2>3 DEF HasPast, Replies
    <3>1. Replies \subseteq Told(v, Len(ctx[v]))
      BY <2>1 DEF WorkerFits, HasPast
    <3>2. CASE turns'[r] = turns[r]
      BY <1>11, <3>1, <3>2 DEF Replies
    <3>3. CASE turns'[r] # turns[r]
      <4>1. v = w /\ turns'[r].reply = job[w].reply
        BY <1>6, <1>7, <1>11, <3>3
      <4> QED
        BY <1>11, <1>12, <4>1
    <3> QED
      BY <3>2, <3>3
  <2>9. PromptHasPast(v)'
    <3>1. CASE turns' = turns
      BY <1>2, <2>1, <2>2, <3>1, RepliesStay DEF WorkerFits, PromptHasPast, SameReplies
    <3>2. CASE turns' # turns
      <4>1. \A r \in 1 .. Len(turns) : turns'[r].status # "active"
        BY <1>1, <1>7, <3>2 DEF OneTurn
      <4> QED
        BY <1>2, <2>1, <4>1 DEF WorkerFits, ContextFits, PromptHasPast
    <3> QED
      BY <3>1, <3>2
  <2> QED
    BY <2>4, <2>5, <2>6, <2>7, <2>8, <2>9 DEF WorkerFits
<1>15. SnapshotAtRest'
  BY <1>1, <1>2 DEF SnapshotAtRest
<1> QED
  BY <1>9, <1>10, <1>13, <1>14, <1>15 DEF ExecutorInv

-----------------------------------------------------------------------------
(* The steps of the master.                                                *)

LEMMA PromptFits ==
  ASSUME ExecutorInv, Typed', Prompt
  PROVE  ExecutorInv'
<1> DEFINE t == Len(turns) + 1
<1>1. /\ Typed /\ OneTurn /\ ReplyIsOfTurn /\ SnapshotAtRest
      /\ \A v \in Worker : WorkerFits(v)
      /\ owner \in Worker /\ owner \in been /\ epoch \in Nat
  BY DEF ExecutorInv, Typed
<1>2. /\ Active = {}
      /\ turns' = Append(turns, [status |-> "active", reply |-> 0])
      /\ job' = [job EXCEPT ![owner] =
                   [NoJob EXCEPT !.phase = "queued", !.turn = Len(turns) + 1, !.epoch = epoch,
                                 !.known = HistoryLength, !.history = {turns[r].reply : r \in Replied}]]
      /\ UNCHANGED <<owner, epoch, been, returned, ctx, queue, up, asking, hydrated, snapshot, abandoned>>
  BY DEF Prompt, MayPrompt, memory, openCode
<1>3. /\ Len(turns) \in Nat /\ Len(turns') = t
      /\ \A r \in 1 .. Len(turns) : turns'[r] = turns[r] /\ turns[r].status # "active"
      /\ turns'[t].status = "active" /\ turns'[t].reply = 0
      /\ \A r \in 1 .. Len(turns') : r \in 1 .. Len(turns) \/ r = t
  <2>1. [status |-> "active", reply |-> 0] \in Row
    BY DEF Row
  <2>2. /\ Len(turns) \in Nat /\ Len(turns') = t /\ turns'[t] = [status |-> "active", reply |-> 0]
        /\ \A r \in 1 .. Len(turns) : turns'[r] = turns[r]
    BY <1>1, <1>2, <2>1, Appended DEF Typed
  <2>3. \A r \in 1 .. Len(turns) : turns[r].status # "active"
    BY <1>1, <1>2, TurnIDs
  <2> QED
    BY <2>2, <2>3
<1>4. Replied' = Replied /\ Replied \subseteq 1 .. Len(turns)
  <2>1. DOMAIN turns = 1 .. Len(turns) /\ DOMAIN turns' = 1 .. Len(turns')
    BY <1>1, LenProperties DEF Typed
  <2> QED
    BY <1>3, <2>1 DEF Replied
<1>5. Replies' = Replies
  BY <1>3, <1>4 DEF Replies
<1>6. \A v \in Worker : job[v] = NoJob
  BY <1>1, <1>3 DEF WorkerFits, JobFits
<1>7. /\ job'[owner].phase = "queued" /\ job'[owner].kind = "execute"
      /\ job'[owner].turn = t /\ job'[owner].epoch = epoch /\ job'[owner].reply = 0
      /\ job'[owner].known = HistoryLength /\ job'[owner].history = Replies
      /\ \A v \in Worker : v # owner => job'[v] = NoJob
  BY <1>1, <1>2, <1>6 DEF Typed, NoJob, Replies
<1> HIDE DEF t
<1>8. OneTurn'
  BY <1>3 DEF OneTurn
<1>9. OneJob'
  BY <1>7 DEF OneJob, Busy, NoJob
<1>10. ReplyIsOfTurn' /\ SnapshotAtRest'
  BY <1>1, <1>2, <1>3, <1>4 DEF ReplyIsOfTurn, SnapshotAtRest
<1>11. ASSUME NEW v \in Worker PROVE WorkerFits(v)'
  <2>1. WorkerFits(v) /\ Len(ctx[v]) \in Nat /\ ~Holds(v) /\ ~Busy(v)
    BY <1>1, <1>6, WorkerTyped, LenProperties, IdleWorker
  <2>2. \A i \in Nat : Told(v, i)' = Told(v, i)
    BY <1>2, ToldSame
  <2>3. /\ job'[v].reply = 0 /\ job'[v].phase \in {"none", "queued"}
        /\ v = owner \/ (job'[v] = NoJob /\ job'[v].phase = "none")
    BY <1>7 DEF NoJob
  <2>4. JobFits(v)'
    BY <1>1, <1>2, <1>3, <1>7, <2>3 DEF JobFits, Busy, t
  <2>5. ContextFits(v)'
    BY <1>2, <1>3, <2>1 DEF WorkerFits, ContextFits, t
  <2>6. QueuedOnce(v)'
    <3>1. Unposted(v)' => v = owner /\ job'[v].turn = t
      BY <1>7, <2>3 DEF Unposted
    <3>2. /\ \A i \in 1 .. Len(queue[v]) : queue[v][i] # t
          /\ \A k \in 1 .. Len(ctx[v]) : ctx[v][k].turn # t
      BY <1>3, <2>1 DEF WorkerFits, ContextFits, t
    <3> QED
      BY <1>2, <2>1, <3>1, <3>2 DEF WorkerFits, QueuedOnce, Completes
  <2>7. QueueIsOwned(v)' /\ AtRest(v)' /\ NewRepliesFit(v)' /\ TakenFits(v)'
    BY <1>2, <2>1, <2>3 DEF WorkerFits, QueueIsOwned, AtRest, NewRepliesFit, TakenFits
  <2>8. CarriesPast(v)'
    <3>1. Replies # {} => HistoryLength > 0
      BY <1>1, TurnIDs DEF Replies
    <3> QED
      BY <1>5, <1>7, <2>3, <3>1 DEF CarriesPast, Unposted
  <2>9. HasPast(v)'
    BY <1>2, <1>5, <1>7, <2>1, <2>2, <2>3 DEF WorkerFits, HasPast, Busy
  <2>10. PromptHasPast(v)'
    BY <1>2, <1>3, <2>1 DEF WorkerFits, ContextFits, PromptHasPast
  <2> QED
    BY <2>4, <2>5, <2>6, <2>7, <2>8, <2>9, <2>10 DEF WorkerFits
<1> QED
  BY <1>8, <1>9, <1>10, <1>11 DEF ExecutorInv

LEMMA AnswerQuestionFits ==
  ASSUME ExecutorInv, Typed', Answer
  PROVE  ExecutorInv'
<1>1. Typed /\ WorkerFits(owner) /\ SnapshotAtRest /\ owner \in Worker
  BY DEF ExecutorInv, Typed
<1>2. PICK t \in Active :
        /\ job[owner] = [NoJob EXCEPT !.phase = "waiting", !.turn = t, !.epoch = epoch]
        /\ job' = [job EXCEPT ![owner].phase = "queued", ![owner].kind = "resume"]
  BY DEF Answer
<1>3. UNCHANGED <<turns, owner, epoch, been, returned, ctx, queue, up, asking, hydrated, snapshot, abandoned>>
  BY DEF Answer, master, memory, openCode
<1>4. /\ job'[owner] = [job[owner] EXCEPT !.phase = "queued", !.kind = "resume"]
      /\ \A v \in Worker : v # owner => job'[v] = job[v]
  BY <1>1, <1>2 DEF Typed
<1>5. /\ job[owner].phase = "waiting" /\ job'[owner].phase = "queued" /\ job'[owner].kind = "resume"
      /\ job'[owner].turn = job[owner].turn /\ job'[owner].epoch = job[owner].epoch
      /\ job'[owner].reply = 0
  <2>1. job[owner].phase = "waiting" /\ job[owner].reply = 0
    BY <1>2 DEF NoJob
  <2> QED
    BY <1>1, <1>4, <2>1, WorkerTyped DEF JobRecord
<1>6. QuietStep(owner)
  BY <1>1, <1>3, <1>4, <1>5, Shrinks DEF QuietStep, LocalStep, Stays, SameTurn, Busy, Unposted
<1>7. ASSUME NEW w \in Worker, w = owner
      PROVE  /\ QueueIsOwned(w)' /\ AtRest(w)' /\ NewRepliesFit(w)' /\ CarriesPast(w)'
             /\ TakenFits(w)' /\ SnapshotAtRest'
  BY <1>1, <1>3, <1>5, <1>7 DEF WorkerFits, QueueIsOwned, AtRest, NewRepliesFit, CarriesPast,
                                Unposted, Holds, TakenFits, SnapshotAtRest
<1>8. PICK w \in Worker : w = owner
  BY <1>1
<1> QED
  BY <1>6, <1>7, <1>8, QuietKeeps

LEMMA MoveFits ==
  ASSUME ExecutorInv, Typed', NEW w \in Worker, Move(w)
  PROVE  ExecutorInv'
<1>1. /\ Typed /\ OneTurn /\ OneJob /\ ReplyIsOfTurn /\ SnapshotAtRest /\ epoch \in Nat
      /\ \A v \in Worker : WorkerFits(v)
  BY DEF ExecutorInv, Typed
<1>2. /\ owner' = w /\ epoch' = epoch + 1 /\ been' = been \cup {w}
      /\ returned' = (returned \/ w \in been)
      /\ UNCHANGED <<turns, job, ctx, queue, up, asking, hydrated, snapshot, abandoned>>
  BY DEF Move, memory, openCode
<1>3. ~returned' => ~returned /\ w \notin been
  BY <1>2
<1>4. SameReplies
  BY <1>2, RepliesStay
<1>5. ASSUME NEW v \in Worker PROVE WorkerFits(v)'
  <2>1. WorkerFits(v) /\ Len(ctx[v]) \in Nat /\ job[v].epoch \in Nat
    BY <1>1, WorkerTyped, LenProperties DEF JobRecord
  <2>2. \A i \in Nat : Told(v, i)' = Told(v, i)
    BY <1>2, ToldSame
  <2>3. JobFits(v)'
    BY <1>1, <1>2, <2>1 DEF WorkerFits, JobFits, Busy
  <2>4. ContextFits(v)'
    BY <1>2, <2>1 DEF WorkerFits, ContextFits
  <2>5. QueuedOnce(v)' /\ QueueIsOwned(v)' /\ AtRest(v)'
    BY <1>2, <2>1 DEF WorkerFits, QueuedOnce, QueueIsOwned, AtRest, Unposted, Holds, Completes
  <2>6. NewRepliesFit(v)' /\ TakenFits(v)'
    BY <1>2, <2>1 DEF WorkerFits, NewRepliesFit, TakenFits, Completes
  <2>7. CarriesPast(v)'
    BY <1>2, <1>4, <2>1 DEF WorkerFits, CarriesPast, Unposted, SameReplies
  <2>8. HasPast(v)'
    <3> SUFFICES ASSUME ~returned', v = w \/ Busy(v), ctx[v] # << >>
                 PROVE  Replies \subseteq Told(v, Len(ctx[v]))
      BY <1>2, <1>4, <2>1, <2>2 DEF HasPast, Busy, SameReplies
    <3>1. ~returned /\ Busy(v)
      BY <1>3, <2>1 DEF WorkerFits, ContextFits
    <3> QED
      BY <2>1, <3>1 DEF WorkerFits, HasPast
  <2>9. PromptHasPast(v)'
    BY <1>2, <1>3, <1>4, <2>1, <2>2 DEF WorkerFits, PromptHasPast, SameReplies
  <2> QED
    BY <2>3, <2>4, <2>5, <2>6, <2>7, <2>8, <2>9 DEF WorkerFits
<1>6. OneTurn' /\ OneJob' /\ ReplyIsOfTurn' /\ SnapshotAtRest'
  BY <1>1, <1>2, <1>4 DEF OneTurn, OneJob, Busy, ReplyIsOfTurn, SnapshotAtRest, SameReplies
<1> QED
  BY <1>5, <1>6 DEF ExecutorInv

-----------------------------------------------------------------------------
LEMMA ExecutorStart ==
  ASSUME ExecutorAssumption, Init
  PROVE  ExecutorInv
<1>1. /\ turns = << >> /\ abandoned = {} /\ ~snapshot.works /\ First \in Worker
      /\ owner = First /\ epoch = 1 /\ been = {owner}
      /\ \A w \in Worker : /\ job[w] = NoJob /\ ctx[w] = << >> /\ queue[w] = << >>
                           /\ up[w] /\ ~hydrated[w]
  BY DEF Init, ExecutorAssumption
<1>2. Typed
  <2>1. /\ << >> \in Seq(Row) /\ << >> \in Seq(Message) /\ << >> \in Seq(Nat)
    BY EmptySeq
  <2>2. job \in [Worker -> JobRecord]
    BY NoJobTyped DEF Init
  <2>3. /\ hydrated \in [Worker -> BOOLEAN] /\ up \in [Worker -> BOOLEAN]
        /\ asking \in [Worker -> BOOLEAN]
        /\ safePoint \in [Worker -> {None, "idle", "waiting_input"}]
    BY DEF Init
  <2>4. ctx \in [Worker -> Seq(Message)] /\ queue \in [Worker -> Seq(Nat)]
    BY <2>1 DEF Init
  <2>5. returned \in BOOLEAN /\ been \subseteq Worker /\ owner \in been
    BY <1>1 DEF Init
  <2> QED
    BY <1>1, <2>1, <2>2, <2>3, <2>4, <2>5 DEF Typed
<1>3. Len(turns) = 0 /\ Replied = {} /\ Replies = {}
  BY <1>1, <1>2, TurnIDs DEF Replies
<1>4. ASSUME NEW w \in Worker PROVE WorkerFits(w)
  <2>1. /\ job[w] = NoJob /\ ctx[w] = << >> /\ queue[w] = << >> /\ up[w] /\ ~hydrated[w]
        /\ Len(ctx[w]) = 0 /\ Len(queue[w]) = 0
    BY <1>1
  <2>2. ~Busy(w) /\ ~Unposted(w) /\ job[w].reply = 0 /\ job[w].phase = "none"
    BY <2>1, IdleWorker
  <2>3. JobFits(w) /\ NewRepliesFit(w) /\ TakenFits(w) /\ CarriesPast(w)
    BY <2>1, IdleFits
  <2>4. ContextFits(w) /\ QueuedOnce(w) /\ QueueIsOwned(w) /\ AtRest(w)
    BY <2>1, <2>2 DEF ContextFits, QueuedOnce, QueueIsOwned, AtRest
  <2>5. HasPast(w) /\ PromptHasPast(w)
    BY <2>1 DEF HasPast, PromptHasPast
  <2> QED
    BY <2>3, <2>4, <2>5 DEF WorkerFits
<1>5. OneTurn /\ OneJob /\ ReplyIsOfTurn /\ SnapshotAtRest
  BY <1>1, <1>3, IdleWorker DEF OneTurn, OneJob, ReplyIsOfTurn, SnapshotAtRest
<1> QED
  BY <1>2, <1>4, <1>5 DEF ExecutorInv

LEMMA ExecutorStep ==
  ASSUME ExecutorAssumption, ExecutorInv, [Next]_vars
  PROVE  ExecutorInv'
<1>1. Typed
  BY DEF ExecutorInv
<1>2. CASE Prompt
  <2>1. Typed'
    BY <1>1, <1>2, MasterStepTyped DEF Typed
  <2> QED
    BY <1>2, <2>1, PromptFits
<1>3. CASE Answer
  <2>1. Typed'
    BY <1>1, <1>3, MasterStepTyped DEF Typed
  <2> QED
    BY <1>3, <2>1, AnswerQuestionFits
<1>4. ASSUME NEW w \in Worker, Move(w) PROVE ExecutorInv'
  BY <1>1, <1>4, MasterStepTyped, MoveFits
<1>5. ASSUME NEW w \in Worker, JobStep(w) PROVE ExecutorInv'
  <2>1. Typed'
    BY <1>1, <1>5, JobStepTyped
  <2>2. CASE Begin(w) \/ PostPrompt(w) \/ PostReply(w) \/ PublishSnapshot(w)
    BY <2>1, <2>2, BeginFits, PostPromptFits, PostReplyFits, PublishFits
  <2>3. CASE Poll(w)
    BY <2>1, <2>3, TakeReplyFits, SeeQuestionFits, SuspendFits DEF Poll
  <2>4. CASE RequestFails(w)
    <3>1. CASE abandoned' = abandoned \cup GiveUp(w) /\ (UNCHANGED openCode \/ ReplyReceived(w))
      BY <2>1, <2>4, <3>1, RequestFailsFits, LostReplyFits
    <3>2. CASE /\ job[w].phase = "begun" /\ job[w].kind = "execute" /\ up[w]
               /\ Received(w)
               /\ abandoned' = abandoned \cup {job[w].turn}
      BY <2>1, <2>4, <3>2, LostAnswerFits
    <3> QED
      BY <2>4, <3>1, <3>2 DEF RequestFails
  <2>5. CASE EndJob(w)
    <3>1. job[w].phase \in {"toWait", "toEnd", "thrown"}
      BY <2>5 DEF EndJob
    <3> QED
      BY <2>1, <2>5, <3>1, WaitFits, EndFits
  <2> QED
    BY <1>5, <2>2, <2>3, <2>4, <2>5 DEF JobStep
<1>6. ASSUME NEW w \in Worker, OpenCodeStep(w) PROVE ExecutorInv'
  <2>1. Typed'
    BY <1>1, <1>6, OpenCodeTyped
  <2>2. OcStep(w) \/ OcReply(w) \/ OcAsk(w) \/ OcFail(w) \/ OcExit(w)
    BY <1>6 DEF OpenCodeStep
  <2> QED
    BY <1>6, <2>1, <2>2, AnswerFits, QuietOpenCode
<1>7. ASSUME NEW w \in Worker, Start(w) PROVE ExecutorInv'
  BY <1>1, <1>7, OpenCodeTyped, StartFits
<1>8. CASE UNCHANGED vars
  <2>1. Typed' /\ OneTurn' /\ OneJob' /\ ReplyIsOfTurn' /\ SnapshotAtRest'
    BY <1>8 DEF ExecutorInv, vars, Typed, OneTurn, OneJob, Busy, ReplyIsOfTurn, Replied, SnapshotAtRest
  <2>2. \A v \in Worker : WorkerFits(v)'
    BY <1>8, OtherFits DEF vars, Stays
  <2> QED
    BY <2>1, <2>2 DEF ExecutorInv
<1> QED
  BY <1>2, <1>3, <1>4, <1>5, <1>6, <1>7, <1>8 DEF Next

\* The invariant holds in every state, for any number of workers, turns, moves,
\* exits and failures.
LEMMA ExecutorSafe == ExecutorSpec => []ExecutorInv
  BY ExecutorAssumption, ExecutorStart, ExecutorStep, PTL DEF ExecutorSpec

\* At most one turn is active, and jobs, contexts and queues have their types.
THEOREM ExecutorTyped == ExecutorSpec => []ExecutorTypeOK
<1>1. ExecutorInv => ExecutorTypeOK
  <2> SUFFICES ASSUME ExecutorInv PROVE ExecutorTypeOK
    OBVIOUS
  <2>1. Typed
    BY DEF ExecutorInv
  <2>2. Cardinality(Active) <= 1
    <3>1. Active \subseteq {Len(turns)}
      BY <2>1, TurnIDs DEF ExecutorInv, OneTurn
    <3>2. Active = {} \/ Active = {Len(turns)}
      BY <3>1
    <3>3. Cardinality({}) = 0 /\ Cardinality({Len(turns)}) = 1
      BY FS_EmptySet, FS_Singleton
    <3>4. Cardinality(Active) = 0 \/ Cardinality(Active) = 1
      BY <3>2, <3>3, Zenon
    <3> QED
      BY <3>4
  <2>3. ASSUME NEW w \in Worker
        PROVE  /\ job[w].turn \in 0 .. Len(turns)
               /\ job[w].phase \in Phase
               /\ safePoint[w] \in {None, "idle", "waiting_input"}
               /\ ~up[w] => queue[w] = << >> /\ ~asking[w]
               /\ job[w].phase = "polling" => job[w].known <= Len(ctx[w])
    <3>1. WorkerFits(w) /\ job[w] \in JobRecord /\ safePoint[w] \in {None, "idle", "waiting_input"}
      BY <2>1, WorkerTyped DEF ExecutorInv
    <3>2. job[w].turn \in 0 .. Len(turns)
      BY <2>1, <3>1, TurnIDs DEF WorkerFits, JobFits, NoJob
    <3> QED
      BY <3>1, <3>2 DEF WorkerFits, AtRest, NewRepliesFit, JobRecord
  <2> QED
    BY <2>1, <2>2, <2>3 DEF ExecutorTypeOK, Typed, Phase
<1> QED
  BY <1>1, ExecutorSafe, PTL

\* opencode-executor.ts:310, README.md:46: wherever a session that never came
\* back to a worker runs, OpenCode has the replies of all earlier turns when it
\* gets a prompt.
THEOREM PastIsKnown == ExecutorSpec => []KnowsThePast
<1>1. ExecutorInv => KnowsThePast
  <2> SUFFICES ASSUME ExecutorInv, ~returned, NEW w \in Worker PROVE
        \A i \in DOMAIN ctx[w] :
          ctx[w][i].role = "user" /\ turns[ctx[w][i].turn].status = "active"
            => {turns[t].reply : t \in {u \in Replied : u < ctx[w][i].turn}} \subseteq Told(w, i)
    BY Zenon DEF KnowsThePast
  <2>1. DOMAIN ctx[w] = 1 .. Len(ctx[w])
    BY WorkerTyped, LenProperties DEF ExecutorInv
  <2>2. PromptHasPast(w)
    BY DEF ExecutorInv, WorkerFits
  <2> QED
    BY <2>1, <2>2, Zenon DEF PromptHasPast
<1> QED
  BY <1>1, ExecutorSafe, PTL

\* opencode-executor.ts:308: a reply is stored for the turn it was written for, or
\* was written for a turn that a job gave up while OpenCode worked on it.
THEOREM RepliesFitTurns == ExecutorSpec => []ReplyIsOfTurn
<1>1. ExecutorInv => ReplyIsOfTurn
  BY DEF ExecutorInv
<1> QED
  BY <1>1, ExecutorSafe, PTL

\* session-snapshot.ts:75: an export meets OpenCode at rest, unless a job gave
\* up before OpenCode did.
THEOREM SnapshotsAtRest == ExecutorSpec => []SnapshotAtRest
<1>1. ExecutorInv => SnapshotAtRest
  BY DEF ExecutorInv
<1> QED
  BY <1>1, ExecutorSafe, PTL
=============================================================================
