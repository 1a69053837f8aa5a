------------------------- MODULE EventReportsProofs -------------------------
(***************************************************************************)
(* The jobs of a session run one at a time; what was answered is in the    *)
(* journal; and a job's own events are there in their order: for any       *)
(* number of turns, jobs, attempts, lost reports and restarts.             *)
(*                                                                         *)
(* The order rests on two facts.  A job publishes an event only when the   *)
(* one before it was answered, since a report that was given up ended the  *)
(* job, unless it was a snapshot's or was never sent, the worker not being *)
(* registered; and an event that was answered is in the journal, unless a  *)
(* row of an earlier life has its source id.                               *)
(***************************************************************************)
EXTENDS EventReports, SequenceTheorems, TLAPS

Kind == {"message", "session.idle", "question", "waiting", "resolved", "delta", "error",
         "snapshot", "snapshot.error"}

Job == [turn : Turn, prev : Nat, at : JobStep, next : Seq(Kind),
        reader : {"idle", "busy", "stopped"}]

EventRow == [life : Nat, src : Nat, turn : Turn, kind : Kind, by : Publisher, job : Nat,
             sent : BOOLEAN]

ActorOK ==
    /\ jobs \in Seq(Job) /\ tail = Len(jobs)
    /\ \A j \in 1 .. Len(jobs) :
         /\ jobs[j].prev = j - 1
         /\ jobs[j].at = "queued" => jobs[j].reader = "idle"
    /\ OneJobAtATime

Started(j) == j \in 1 .. Len(jobs) /\ jobs[j].at # "queued"
IsOver(j) == Started(j) /\ jobs[j].at = "done"

\* The events of this life are numbered below nextID, by jobs that began.
HubOK ==
    /\ nextID \in Nat /\ restarts \in Nat /\ registered \in BOOLEAN
    /\ \A e \in published :
         /\ e \in EventRow /\ e.life <= restarts
         /\ e.life = restarts => e.src < nextID /\ Started(e.job)
    /\ \A e, f \in published : e.life = f.life /\ e.src = f.src => e = f

ReportsOK ==
    /\ \A r \in open : r.event \in published /\ r.event.life = restarts
    /\ late \subseteq published /\ answered \subseteq published

JournalOK == journal \in Seq(published) /\ AnsweredIsJournaled

\* An event of a job's own is answered, on its way, the job's last, or one
\* that may be missing.
OwnOK ==
    /\ \A e \in published : e.by = "job" /\ e.life = restarts =>
         \/ e \in answered
         \/ \E r \in open : r.event = e
         \/ IsOver(e.job)
         \/ MayBeMissing(e)
    /\ \A e, f \in published :
         e.by = "job" /\ f.by = "job" /\ Before(e, f) => e \in answered \/ MayBeMissing(e)

ReportInv == ActorOK /\ HubOK /\ ReportsOK /\ JournalOK /\ OwnOK /\ JobEventsInOrder

-----------------------------------------------------------------------------
(* The actor.                                                              *)

\* A job that began has every earlier one behind it.
LEMMA EarlierOver ==
  ASSUME ActorOK, NEW j \in 1 .. Len(jobs), jobs[j].at # "queued"
  PROVE  \A i \in 1 .. Len(jobs) : i < j => jobs[i].at = "done"
  BY DEF ActorOK, OneJobAtATime

\* So has one whose turn it is.
LEMMA TurnedOver ==
  ASSUME ActorOK, NEW j \in 1 .. Len(jobs), Turned(j)
  PROVE  \A i \in 1 .. Len(jobs) : i < j => jobs[i].at = "done"
<1>1. Len(jobs) \in Nat /\ jobs[j].prev = j - 1
  BY LenProperties DEF ActorOK
<1>2. CASE j = 1
  BY <1>1, <1>2
<1>3. CASE j # 1
  <2>1. j - 1 \in 1 .. Len(jobs) /\ jobs[j - 1].at = "done"
    BY <1>1, <1>3 DEF Turned
  <2>2. \A i \in 1 .. Len(jobs) : i < j - 1 => jobs[i].at = "done"
    BY <2>1, EarlierOver
  <2>3. \A i \in 1 .. Len(jobs) : i < j => i < j - 1 \/ i = j - 1
    BY <1>1
  <2> QED
    BY <2>1, <2>2, <2>3
<1> QED
  BY <1>2, <1>3

\* What a step of the actor does to jobs that began.
Kept ==
    /\ \A k \in 1 .. Len(jobs) : k \in 1 .. Len(jobs')
    /\ \A k \in 1 .. Len(jobs) :
         /\ jobs[k].at # "queued" => jobs'[k].at # "queued"
         /\ jobs[k].at = "done" => jobs'[k].at = "done"

\* One job goes on, all earlier ones being over.
LEMMA JobGoesOn ==
  ASSUME ActorOK, NEW j \in 1 .. Len(jobs), NEW job \in Job,
         \A i \in 1 .. Len(jobs) : i < j => jobs[i].at = "done",
         job.prev = jobs[j].prev, job.at # "queued",
         jobs[j].at = "done" => job.at = "done",
         jobs' = [jobs EXCEPT ![j] = job], tail' = tail
  PROVE  ActorOK' /\ Kept /\ Len(jobs') = Len(jobs) /\ jobs'[j] = job
<1>1. jobs \in Seq(Job) /\ Len(jobs) \in Nat
  BY LenProperties DEF ActorOK
<1>2. /\ jobs' \in Seq(Job) /\ Len(jobs') = Len(jobs)
      /\ \A k \in 1 .. Len(jobs) : jobs'[k] = IF k = j THEN job ELSE jobs[k]
  BY <1>1, ExceptSeq
<1>3. \A k \in 1 .. Len(jobs') :
         jobs'[k].prev = k - 1 /\ (jobs'[k].at = "queued" => jobs'[k].reader = "idle")
  BY <1>2 DEF ActorOK
<1>4. OneJobAtATime'
  <2> SUFFICES ASSUME NEW i \in 1 .. Len(jobs), NEW k \in 1 .. Len(jobs), i < k, jobs'[i].at # "done"
               PROVE  jobs'[k].at = "queued"
    BY <1>2 DEF OneJobAtATime
  <2>1. k # j
    BY <1>2
  <2>2. CASE i # j
    BY <1>2, <2>1, <2>2 DEF ActorOK, OneJobAtATime
  <2>3. CASE i = j
    <3>1. jobs[j].at # "done"
      BY <1>2, <2>3
    <3> QED
      BY <1>2, <2>1, <2>3, <3>1 DEF ActorOK, OneJobAtATime
  <2> QED
    BY <2>2, <2>3
<1>5. Kept
  BY <1>2 DEF Kept
<1> QED
  BY <1>2, <1>3, <1>4, <1>5 DEF ActorOK

\* A new job waits for the one before it.
LEMMA JobQueued ==
  ASSUME ActorOK, NEW t \in Turn, NEW todo \in Seq(Kind), Enqueue(t, "queued", todo)
  PROVE  ActorOK' /\ Kept
<1> DEFINE job == [turn |-> t, prev |-> tail, at |-> "queued", next |-> todo, reader |-> "idle"]
<1>1. jobs \in Seq(Job) /\ Len(jobs) \in Nat /\ tail = Len(jobs)
  BY LenProperties DEF ActorOK
<1>2. job \in Job
  BY <1>1 DEF Job, JobStep
<1>3. jobs' = Append(jobs, job) /\ tail' = Len(jobs) + 1
  BY DEF Enqueue, NewTail
<1>4. job.at = "queued" /\ job.prev = Len(jobs) /\ job.reader = "idle"
  BY <1>1
<1> HIDE DEF job
<1>5. /\ jobs' \in Seq(Job) /\ Len(jobs') = Len(jobs) + 1
      /\ \A k \in 1 .. Len(jobs) : jobs'[k] = jobs[k]
      /\ jobs'[Len(jobs) + 1] = job
  BY <1>1, <1>2, <1>3, AppendProperties
<1>6. \A k \in 1 .. Len(jobs') : k \in 1 .. Len(jobs) \/ k = Len(jobs) + 1
  BY <1>1, <1>5
<1>7. \A k \in 1 .. Len(jobs') :
         jobs'[k].prev = k - 1 /\ (jobs'[k].at = "queued" => jobs'[k].reader = "idle")
  BY <1>1, <1>4, <1>5, <1>6 DEF ActorOK
<1>8. OneJobAtATime'
  <2> SUFFICES ASSUME NEW i \in 1 .. Len(jobs'), NEW k \in 1 .. Len(jobs'), i < k, jobs'[i].at # "done"
               PROVE  jobs'[k].at = "queued"
    BY DEF OneJobAtATime
  <2>1. CASE k = Len(jobs) + 1
    BY <1>4, <1>5, <2>1
  <2>2. CASE k \in 1 .. Len(jobs)
    <3>1. i \in 1 .. Len(jobs)
      BY <1>1, <2>2
    <3> QED
      BY <1>5, <2>2, <3>1 DEF ActorOK, OneJobAtATime
  <2> QED
    BY <1>6, <2>1, <2>2
<1>9. Kept
  BY <1>1, <1>5 DEF Kept
<1> QED
  BY <1>3, <1>5, <1>7, <1>8, <1>9 DEF ActorOK

-----------------------------------------------------------------------------
(* The journal.                                                            *)

\* The journal as it is, or with an event of the hub ingested.
Recorded == journal' = journal \/ \E e \in published : AppendRow(e)

InJournal(e) == e \in Rows \/ \E r \in Rows : r.src = e.src /\ r.life < e.life

\* The own events that come before row i.
OrderedAt(i, e) ==
    journal[i].by = "job" /\ e.by = "job" /\ Before(e, journal[i]) /\ ~MayBeMissing(e) =>
        \/ \E k \in 1 .. i - 1 : journal[k] = e
        \/ \E r \in Rows : r.src = e.src /\ r.life < e.life

LEMMA RecordedShape ==
  ASSUME ReportInv, Recorded
  PROVE  /\ journal' \in Seq(published)
         /\ Rows \subseteq Rows'
         /\ \A i \in 1 .. Len(journal') : \A e \in published : OrderedAt(i, e)'
<1>1. journal \in Seq(published) /\ Len(journal) \in Nat
  BY LenProperties DEF ReportInv, JournalOK
<1>2. \A i \in 1 .. Len(journal) : \A e \in published : OrderedAt(i, e)
  BY DEF ReportInv, JobEventsInOrder, OrderedAt
<1>3. CASE journal' = journal
  BY <1>1, <1>2, <1>3 DEF Rows, OrderedAt
<1>4. ASSUME NEW new \in published, journal' = Append(journal, new)
      PROVE  /\ journal' \in Seq(published)
             /\ Rows \subseteq Rows'
             /\ \A i \in 1 .. Len(journal') : \A e \in published : OrderedAt(i, e)'
  <2>1. /\ journal' \in Seq(published) /\ Len(journal') = Len(journal) + 1
        /\ \A i \in 1 .. Len(journal) : journal'[i] = journal[i]
        /\ journal'[Len(journal) + 1] = new
    BY <1>1, <1>4, AppendProperties
  <2>2. \A i \in 1 .. Len(journal) : i \in 1 .. Len(journal')
    BY <1>1, <2>1
  <2>3. Rows \subseteq Rows'
    BY <2>1, <2>2 DEF Rows
  <2>4. ASSUME NEW i \in 1 .. Len(journal), NEW e \in published
        PROVE  OrderedAt(i, e)'
    <3>1. OrderedAt(i, e) /\ journal'[i] = journal[i]
      BY <1>2, <2>1
    <3>2. \A k \in 1 .. i - 1 : journal'[k] = journal[k]
      BY <1>1, <2>1
    <3> QED
      BY <2>3, <3>1, <3>2 DEF OrderedAt
  <2>5. ASSUME NEW i, i = Len(journal) + 1, NEW e \in published
        PROVE  OrderedAt(i, e)'
    <3> SUFFICES ASSUME new.by = "job", e.by = "job", Before(e, new), ~MayBeMissing(e)
                 PROVE  \/ \E k \in 1 .. Len(journal) : journal'[k] = e
                        \/ \E r \in Rows : r.src = e.src /\ r.life < e.life
      BY <1>1, <2>1, <2>3, <2>5 DEF OrderedAt
    <3>1. e \in answered
      BY DEF ReportInv, OwnOK
    <3>2. InJournal(e)
      BY <3>1 DEF ReportInv, JournalOK, AnsweredIsJournaled, InJournal
    <3> QED
      BY <2>1, <3>2 DEF InJournal, Rows
  <2>6. \A i \in 1 .. Len(journal') : i \in 1 .. Len(journal) \/ i = Len(journal) + 1
    BY <1>1, <2>1
  <2> QED
    BY <2>1, <2>3, <2>4, <2>5, <2>6
<1>5. journal' = journal \/ \E e \in published : journal' = Append(journal, e)
  BY DEF Recorded, AppendRow
<1> QED
  BY <1>3, <1>4, <1>5

\* An event of this life that was ingested is in the journal.
LEMMA IngestedIsThere ==
  ASSUME ReportInv, NEW e \in published, e.life = restarts, AppendRow(e)
  PROVE  InJournal(e)'
<1>1. journal \in Seq(published) /\ Len(journal) \in Nat
  BY LenProperties DEF ReportInv, JournalOK
<1>2. CASE \E r \in Rows : r.src = e.src
  <2>1. PICK r \in Rows : r.src = e.src
    BY <1>2
  <2>2. journal' = journal
    BY <1>2 DEF AppendRow
  <2>3. r \in published
    BY <1>1, ElementOfSeq DEF Rows
  <2>4. r.life \in Nat /\ restarts \in Nat /\ r.life <= restarts
    BY <2>3 DEF ReportInv, HubOK, EventRow
  <2>5. r.life < e.life \/ r = e
    BY <2>1, <2>3, <2>4 DEF ReportInv, HubOK
  <2> QED
    BY <2>1, <2>2, <2>5 DEF InJournal, Rows
<1>3. CASE ~ \E r \in Rows : r.src = e.src
  <2>1. journal' = Append(journal, e)
    BY <1>3 DEF AppendRow
  <2>2. Len(journal') = Len(journal) + 1 /\ journal'[Len(journal) + 1] = e
    BY <1>1, <2>1, AppendProperties
  <2>3. Len(journal) + 1 \in 1 .. Len(journal')
    BY <1>1, <2>2
  <2> QED
    BY <2>2, <2>3 DEF InJournal, Rows
<1> QED
  BY <1>2, <1>3

-----------------------------------------------------------------------------
(* A step of one life, without and with a new event.                       *)

\* The reports that are no longer open are answered, of the reader or of the
\* handler of errors, or of a job that is over.
Dealt ==
    \A x \in open :
        \/ \E y \in open' : y.event = x.event
        \/ x.event \in answered'
        \/ x.event.by # "job"
        \/ IsOver(x.event.job)'
        \/ MayBeMissing(x.event)

\* What is newly answered is in the journal.
AnswersHold ==
    /\ answered \subseteq answered' /\ answered' \subseteq published
    /\ \A e \in answered' : e \in answered \/ InJournal(e)'

LEMMA NoNewEvent ==
  ASSUME ReportInv, ActorOK', Kept, Recorded, Dealt, AnswersHold,
         restarts' = restarts, published' = published, nextID' = nextID,
         registered' \in {registered, TRUE},
         late' \subseteq published,
         \A x \in open' : x.event \in published /\ x.event.life = restarts
  PROVE  ReportInv'
<1>1. /\ journal' \in Seq(published) /\ Rows \subseteq Rows'
      /\ \A i \in 1 .. Len(journal') : \A e \in published : OrderedAt(i, e)'
  BY RecordedShape
<1>2. HubOK'
  BY DEF ReportInv, HubOK, Started, Kept
<1>3. ReportsOK'
  BY DEF ReportInv, ReportsOK, AnswersHold
<1>4. JournalOK'
  BY <1>1 DEF ReportInv, JournalOK, AnsweredIsJournaled, AnswersHold, InJournal
<1>5. OwnOK'
  <2>1. ASSUME NEW e \in published, e.by = "job", e.life = restarts
        PROVE  e \in answered' \/ (\E r \in open' : r.event = e) \/ IsOver(e.job)' \/ MayBeMissing(e)
    <3>1. e \in answered \/ (\E r \in open : r.event = e) \/ IsOver(e.job) \/ MayBeMissing(e)
      BY <2>1 DEF ReportInv, OwnOK
    <3>2. IsOver(e.job) => IsOver(e.job)'
      BY DEF IsOver, Started, Kept
    <3> QED
      BY <2>1, <3>1, <3>2 DEF Dealt, AnswersHold
  <2>2. \A e, f \in published :
            e.by = "job" /\ f.by = "job" /\ Before(e, f) => e \in answered' \/ MayBeMissing(e)
    BY DEF ReportInv, OwnOK, AnswersHold
  <2> QED
    BY <2>1, <2>2 DEF OwnOK, Before
<1>6. JobEventsInOrder'
  BY <1>1 DEF JobEventsInOrder, OrderedAt
<1> QED
  BY <1>2, <1>3, <1>4, <1>5, <1>6 DEF ReportInv

LEMMA NewEvent ==
  ASSUME ReportInv, ActorOK', Kept, Recorded, Dealt,
         NEW new \in EventRow, new.life = restarts, new.src = nextID, Started(new.job)',
         \A e \in published : new.by = "job" /\ e.by = "job" /\ e.life = restarts /\ e.job = new.job
                                => e \in answered \/ MayBeMissing(e),
         restarts' = restarts, published' = published \cup {new}, nextID' = nextID + 1,
         registered' = registered,
         answered' = answered, late' \subseteq published,
         ~new.sent \/ \E x \in open' : x.event = new,
         \A x \in open' : x.event = new \/ (x.event \in published /\ x.event.life = restarts)
  PROVE  ReportInv'
<1>1. /\ journal' \in Seq(published) /\ Rows \subseteq Rows'
      /\ \A i \in 1 .. Len(journal') : \A e \in published : OrderedAt(i, e)'
  BY RecordedShape
<1>2. nextID \in Nat /\ restarts \in Nat
  BY DEF ReportInv, HubOK
<1>3. \A e \in published : /\ e \in EventRow /\ e.life <= restarts /\ e.src \in Nat
                           /\ e.life = restarts => e.src < nextID /\ Started(e.job)
  BY DEF ReportInv, HubOK, EventRow
<1>4. HubOK'
  <2>1. \A e \in published : e.life = restarts => e.src < nextID' /\ e.src # new.src /\ Started(e.job)'
    BY <1>2, <1>3 DEF Started, Kept
  <2>2. ASSUME NEW e \in published', NEW f \in published', e.life = f.life, e.src = f.src
        PROVE  e = f
    BY <2>1, <2>2 DEF ReportInv, HubOK
  <2> QED
    BY <1>2, <1>3, <2>1, <2>2 DEF ReportInv, HubOK
<1>5. ReportsOK'
  BY DEF ReportInv, ReportsOK
<1>6. JournalOK'
  <2>1. journal' \in Seq(published')
    BY <1>1, SeqMonotonic
  <2> QED
    BY <1>1, <2>1 DEF ReportInv, JournalOK, AnsweredIsJournaled
<1>7. OwnOK'
  <2>1. ASSUME NEW e \in published', e.by = "job", e.life = restarts
        PROVE  e \in answered' \/ (\E r \in open' : r.event = e) \/ IsOver(e.job)' \/ MayBeMissing(e)
    <3>1. CASE e \in published
      <4>1. e \in answered \/ (\E r \in open : r.event = e) \/ IsOver(e.job) \/ MayBeMissing(e)
        BY <2>1, <3>1 DEF ReportInv, OwnOK
      <4>2. IsOver(e.job) => IsOver(e.job)'
        BY DEF IsOver, Started, Kept
      <4> QED
        BY <2>1, <4>1, <4>2 DEF Dealt
    <3> QED
      BY <3>1 DEF MayBeMissing
  <2>2. ASSUME NEW e \in published', NEW f \in published', e.by = "job", f.by = "job", Before(e, f)
        PROVE  e \in answered' \/ MayBeMissing(e)
    <3>1. e \in published
      <4> SUFFICES ASSUME e = new PROVE FALSE
        OBVIOUS
      <4>1. f.life = restarts /\ nextID < f.src
        BY <2>2 DEF Before
      <4>2. f \in published => f.src < nextID /\ f.src \in Nat
        BY <1>3, <4>1
      <4> QED
        BY <1>2, <4>1, <4>2
    <3>2. CASE f \in published
      BY <2>2, <3>1, <3>2 DEF ReportInv, OwnOK
    <3>3. CASE f = new
      BY <2>2, <3>1, <3>3 DEF Before
    <3> QED
      BY <3>2, <3>3
  <2> QED
    BY <2>1, <2>2 DEF OwnOK
<1>8. JobEventsInOrder'
  <2>1. ASSUME NEW i \in 1 .. Len(journal'), Before(new, journal'[i])
        PROVE  FALSE
    <3>1. journal'[i] \in published
      BY <1>1, <2>1, ElementOfSeq
    <3>2. journal'[i].life = restarts /\ nextID < journal'[i].src
      BY <2>1 DEF Before
    <3>3. journal'[i].src < nextID /\ journal'[i].src \in Nat
      BY <1>3, <3>1, <3>2
    <3> QED
      BY <1>2, <3>2, <3>3
  <2> QED
    BY <1>1, <2>1 DEF JobEventsInOrder, OrderedAt
<1> QED
  BY <1>4, <1>5, <1>6, <1>7, <1>8 DEF ReportInv

-----------------------------------------------------------------------------
(* The steps.                                                              *)

LEMMA JobShape ==
  ASSUME ActorOK, NEW j \in 1 .. Len(jobs)
  PROVE  jobs[j] \in Job
  BY ElementOfSeq DEF ActorOK

\* Nothing is reported.
LEMMA Quiet ==
  ASSUME ReportInv, open' = open, answered' = answered
  PROVE  /\ Dealt /\ AnswersHold
         /\ \A x \in open' : x.event \in published /\ x.event.life = restarts
  BY DEF ReportInv, ReportsOK, Dealt, AnswersHold

LEMMA AdmitStep ==
  ASSUME ReportInv, NEW t \in Turn, Prompt(t) \/ Reply(t)
  PROVE  ReportInv'
<1>1. /\ journal' = journal /\ open' = open /\ answered' = answered /\ restarts' = restarts
      /\ published' = published /\ nextID' = nextID /\ late' = late /\ registered' = registered
      /\ Enqueue(t, "queued", << >>) \/ Enqueue(t, "queued", <<"resolved">>)
  BY DEF Prompt, Reply, masterVars, countVars
<1>2. << >> \in Seq(Kind) /\ <<"resolved">> \in Seq(Kind)
  BY DEF Kind
<1>3. ActorOK' /\ Kept
  BY <1>1, <1>2, JobQueued DEF ReportInv
<1>4. late' \subseteq published
  BY <1>1 DEF ReportInv, ReportsOK
<1> QED
  BY <1>1, <1>3, <1>4, Quiet, NoNewEvent DEF Recorded

LEMMA ScriptShape == Script \subseteq Seq(Kind)
<1>1. /\ << >> \in Seq(Kind) /\ <<"message">> \in Seq(Kind) /\ <<"question">> \in Seq(Kind)
      /\ <<"session.idle">> \in Seq(Kind) /\ <<"waiting">> \in Seq(Kind)
      /\ <<"snapshot">> \in Seq(Kind) /\ <<"snapshot.error">> \in Seq(Kind)
  BY DEF Kind
<1>2. Snapshot \subseteq Seq(Kind)
  BY <1>1 DEF Snapshot
<1>3. ASSUME NEW result \in Seq(Kind), NEW snapshot \in Seq(Kind), NEW end \in Seq(Kind)
      PROVE  result \o snapshot \o end \in Seq(Kind)
  BY ConcatProperties
<1>4. \A snapshot \in Snapshot :
        /\ <<"message">> \o snapshot \o <<"session.idle">> \in Seq(Kind)
        /\ snapshot \o <<"session.idle">> \in Seq(Kind)
        /\ <<"question">> \o snapshot \o <<"waiting">> \in Seq(Kind)
  <2> SUFFICES ASSUME NEW snapshot \in Snapshot
               PROVE  /\ <<"message">> \o snapshot \o <<"session.idle">> \in Seq(Kind)
                      /\ snapshot \o <<"session.idle">> \in Seq(Kind)
                      /\ <<"question">> \o snapshot \o <<"waiting">> \in Seq(Kind)
    OBVIOUS
  <2>1. snapshot \o <<"session.idle">> \in Seq(Kind)
    BY <1>1, <1>2, ConcatProperties
  <2> QED
    BY <1>1, <1>2, <1>3, <2>1
<1> QED
  BY <1>4, Zenon DEF Script

\* A job goes on and reports nothing.
LEMMA WorkStep ==
  ASSUME ReportInv, NEW j \in 1 .. Len(jobs), Begin(j) \/ Continue(j) \/ Executed(j)
  PROVE  ReportInv'
<1>1. /\ journal' = journal /\ open' = open /\ answered' = answered /\ restarts' = restarts
      /\ published' = published /\ nextID' = nextID /\ late' = late /\ tail' = tail
      /\ registered' = registered
  BY DEF Begin, Continue, Executed, masterVars, countVars
<1>2. ActorOK /\ jobs[j] \in Job /\ jobs[j].at # "done"
  BY JobShape DEF ReportInv, Begin, Continue, Executed
<1>3. \A i \in 1 .. Len(jobs) : i < j => jobs[i].at = "done"
  BY <1>2, EarlierOver, TurnedOver DEF Begin, Continue, Executed
<1>4. \E job \in Job : /\ job.prev = jobs[j].prev /\ job.at # "queued"
                       /\ jobs' = [jobs EXCEPT ![j] = job]
  <2>1. CASE Begin(j)
    <3> DEFINE at == IF jobs[j].next = << >> THEN "executing" ELSE "opening"
    <3>1. jobs' = [jobs EXCEPT ![j] = [jobs[j] EXCEPT !.at = at]]
      BY <2>1 DEF Begin
    <3>2. [jobs[j] EXCEPT !.at = at] \in Job /\ at # "queued"
      BY <1>2 DEF Job, JobStep
    <3> QED
      BY <1>2, <3>1, <3>2 DEF Job
  <2>2. CASE Continue(j)
    <3> DEFINE at == IF jobs[j].at = "opening" THEN "executing" ELSE "done"
    <3>1. jobs' = [jobs EXCEPT ![j] = [jobs[j] EXCEPT !.at = at]]
      BY <2>2 DEF Continue
    <3>2. [jobs[j] EXCEPT !.at = at] \in Job /\ at # "queued"
      BY <1>2 DEF Job, JobStep
    <3> QED
      BY <1>2, <3>1, <3>2 DEF Job
  <2>3. CASE Executed(j)
    <3>1. PICK script \in Script :
            jobs' = [jobs EXCEPT ![j] = [jobs[j] EXCEPT !.at = "closing", !.next = script]]
      BY <2>3 DEF Executed
    <3>2. script \in Seq(Kind)
      BY ScriptShape
    <3>3. [jobs[j] EXCEPT !.at = "closing", !.next = script] \in Job
      BY <1>2, <3>2 DEF Job, JobStep
    <3> QED
      BY <1>2, <3>1, <3>3 DEF Job
  <2> QED
    BY <2>1, <2>2, <2>3
<1>5. ActorOK' /\ Kept
  BY <1>1, <1>2, <1>3, <1>4, JobGoesOn
<1>6. late' \subseteq published
  BY <1>1 DEF ReportInv, ReportsOK
<1> QED
  BY <1>1, <1>5, <1>6, Quiet, NoNewEvent DEF Recorded

LEMMA NumberedShape ==
  ASSUME ReportInv, NEW j \in 1 .. Len(jobs), NEW by \in Publisher, NEW kind \in Kind
  PROVE  /\ Numbered(by, j, kind) \in EventRow
         /\ Numbered(by, j, kind).life = restarts /\ Numbered(by, j, kind).src = nextID
         /\ Numbered(by, j, kind).by = by /\ Numbered(by, j, kind).job = j
         /\ Numbered(by, j, kind).sent = registered
<1>1. jobs[j].turn \in Turn /\ restarts \in Nat /\ nextID \in Nat /\ j \in Nat /\ registered \in BOOLEAN
  BY JobShape, LenProperties DEF ReportInv, HubOK, Job, ActorOK
<1> QED
  BY <1>1 DEF Numbered, EventRow

\* A job goes on and reports an event; what was open stays open.
LEMMA ReportStep ==
  ASSUME ReportInv, NEW j \in 1 .. Len(jobs), NEW by \in Publisher, NEW kind \in Kind,
         by = "job" => ~Awaits(j, "job") /\ jobs[j].at # "done",
         NEW job \in Job, job.prev = jobs[j].prev, job.at # "queued",
         jobs[j].at # "queued", jobs[j].at = "done" => job.at = "done",
         jobs' = [jobs EXCEPT ![j] = job], StartReport(Numbered(by, j, kind)),
         tail' = tail, late' = late, answered' = answered, journal' = journal, restarts' = restarts
  PROVE  ReportInv'
<1> DEFINE new == Numbered(by, j, kind)
<1>1. /\ new \in EventRow /\ new.life = restarts /\ new.src = nextID
      /\ new.by = by /\ new.job = j /\ new.sent = registered
  BY NumberedShape
<1>2. ActorOK' /\ Kept /\ Len(jobs') = Len(jobs) /\ jobs'[j] = job
  BY EarlierOver, JobGoesOn DEF ReportInv
<1>3. Started(j)'
  BY <1>2 DEF Started
<1>4. /\ nextID' = nextID + 1 /\ published' = published \cup {new} /\ registered' = registered
      /\ open' = IF registered THEN open \cup {Report(new)} ELSE open
      /\ Report(new).event = new
  BY DEF StartReport, Report
<1> HIDE DEF new
<1>5. \A e \in published : new.by = "job" /\ e.by = "job" /\ e.life = restarts /\ e.job = new.job
                             => e \in answered \/ MayBeMissing(e)
  BY <1>1 DEF ReportInv, OwnOK, Awaits, IsOver
<1>6. Dealt
  BY <1>4 DEF Dealt
<1>7. ~new.sent \/ \E x \in open' : x.event = new
  BY <1>1, <1>4
<1>8. \A x \in open' : x.event = new \/ (x.event \in published /\ x.event.life = restarts)
  BY <1>4 DEF ReportInv, ReportsOK
<1>9. late' \subseteq published
  BY DEF ReportInv, ReportsOK
<1> QED
  BY <1>1, <1>2, <1>3, <1>4, <1>5, <1>6, <1>7, <1>8, <1>9, NewEvent DEF Recorded

LEMMA PublishStep ==
  ASSUME ReportInv, NEW j \in 1 .. Len(jobs), Publish(j)
  PROVE  ReportInv'
<1> DEFINE job == [jobs[j] EXCEPT !.next = Tail(jobs[j].next)]
           kind == Head(jobs[j].next)
<1>1. /\ jobs[j].at \in {"opening", "closing"} /\ jobs[j].next # << >> /\ ~Awaits(j, "job")
      /\ StartReport(Numbered("job", j, kind))
      /\ jobs' = [jobs EXCEPT ![j] = job]
      /\ tail' = tail /\ late' = late /\ answered' = answered /\ journal' = journal
      /\ restarts' = restarts
  BY DEF Publish, masterVars, countVars
<1>2. jobs[j] \in Job /\ jobs[j].next \in Seq(Kind)
  BY JobShape DEF ReportInv, Job
<1>3. kind \in Kind /\ Tail(jobs[j].next) \in Seq(Kind)
  BY <1>1, <1>2, HeadTailProperties
<1>4. job \in Job /\ job.prev = jobs[j].prev /\ job.at = jobs[j].at
  BY <1>2, <1>3 DEF Job
<1> HIDE DEF job, kind
<1>5. "job" \in Publisher
  BY DEF Publisher
<1> QED
  BY <1>1, <1>3, <1>4, <1>5, ReportStep

LEMMA DeltaStep ==
  ASSUME ReportInv, NEW j \in 1 .. Len(jobs), Delta(j)
  PROVE  ReportInv'
<1> DEFINE job == [jobs[j] EXCEPT !.reader = "busy"]
<1>1. /\ jobs[j].at = "executing" \/ jobs[j].reader = "busy"
      /\ StartReport(Numbered("reader", j, "delta"))
      /\ jobs' = [jobs EXCEPT ![j] = job]
      /\ tail' = tail /\ late' = late /\ answered' = answered /\ journal' = journal
      /\ restarts' = restarts
  BY DEF Delta, masterVars, countVars
<1>2. jobs[j] \in Job /\ jobs[j].at # "queued"
  BY <1>1, JobShape DEF ReportInv, ActorOK
<1>3. job \in Job /\ job.prev = jobs[j].prev /\ job.at = jobs[j].at
  BY <1>2 DEF Job
<1> HIDE DEF job
<1>4. "reader" \in Publisher /\ "delta" \in Kind
  BY DEF Publisher, Kind
<1> QED
  BY <1>1, <1>2, <1>3, <1>4, ReportStep

\* A job that is ended stays a job.
LEMMA EndedShape ==
  ASSUME ActorOK, NEW j \in 1 .. Len(jobs)
  PROVE  LET job == [jobs[j] EXCEPT !.at = "done", !.next = << >>]
         IN  /\ job \in Job /\ job.prev = jobs[j].prev /\ job.at = "done"
             /\ EndJob(j) <=> jobs' = [jobs EXCEPT ![j] = job]
<1>1. jobs[j] \in Job /\ << >> \in Seq(Kind)
  BY JobShape
<1> QED
  BY <1>1 DEF Job, JobStep, EndJob

LEMMA ThrowsStep ==
  ASSUME ReportInv, NEW j \in 1 .. Len(jobs), Throws(j)
  PROVE  ReportInv'
<1> DEFINE job == [jobs[j] EXCEPT !.at = "done", !.next = << >>]
<1>1. /\ jobs[j].at = "executing" /\ EndJob(j)
      /\ StartReport(Numbered("catch", j, "error"))
      /\ tail' = tail /\ late' = late /\ answered' = answered /\ journal' = journal
      /\ restarts' = restarts
  BY DEF Throws, masterVars, countVars
<1>2. job \in Job /\ job.prev = jobs[j].prev /\ job.at = "done" /\ jobs' = [jobs EXCEPT ![j] = job]
  BY <1>1, EndedShape DEF ReportInv
<1> HIDE DEF job
<1>3. "catch" \in Publisher /\ "error" \in Kind
  BY DEF Publisher, Kind
<1> QED
  BY <1>1, <1>2, <1>3, ReportStep

\* What Unanswered does: the master ingests the event, or it may come late.
LEMMA UnansweredShape ==
  ASSUME ReportInv, NEW r \in open, Unanswered(r)
  PROVE  Recorded /\ late' \subseteq published /\ r.event \in published /\ r.event.life = restarts
<1>1. late \subseteq published /\ r.event \in published /\ r.event.life = restarts
  BY DEF ReportInv, ReportsOK
<1>2. (AppendRow(r.event) /\ late' = late) \/ (late' = late \cup {r.event} /\ journal' = journal)
  BY DEF Unanswered, Ingest, HalfIngested, masterVars
<1> QED
  BY <1>1, <1>2 DEF Recorded

LEMMA SameJobs ==
  ASSUME ActorOK, jobs' = jobs, tail' = tail
  PROVE  ActorOK' /\ Kept
  BY DEF ActorOK, OneJobAtATime, Kept

LEMMA AnsweredStep ==
  ASSUME ReportInv, NEW r \in open, Answered(r)
  PROVE  ReportInv'
<1>1. /\ AppendRow(r.event) /\ open' = open \ {r} /\ answered' = answered \cup {r.event}
      /\ jobs' = jobs /\ tail' = tail /\ nextID' = nextID /\ late' = late
      /\ published' = published /\ restarts' = restarts /\ registered' = registered
  BY DEF Answered, Ingest, countVars
<1>2. r.event \in published /\ r.event.life = restarts /\ late \subseteq published
  BY DEF ReportInv, ReportsOK
<1>3. InJournal(r.event)'
  BY <1>1, <1>2, IngestedIsThere
<1>4. AnswersHold
  BY <1>1, <1>2, <1>3 DEF AnswersHold, ReportInv, ReportsOK
<1>5. Dealt
  BY <1>1 DEF Dealt
<1>6. \A x \in open' : x.event \in published /\ x.event.life = restarts
  BY <1>1 DEF ReportInv, ReportsOK
<1>7. ActorOK' /\ Kept /\ Recorded
  BY <1>1, <1>2, SameJobs DEF ReportInv, Recorded
<1> QED
  BY <1>1, <1>2, <1>4, <1>5, <1>6, <1>7, NoNewEvent

LEMMA RetryStep ==
  ASSUME ReportInv, NEW r \in open, Retry(r)
  PROVE  ReportInv'
<1> DEFINE again == [r EXCEPT !.attempt = @ + 1]
<1>1. /\ Unanswered(r) /\ open' = (open \ {r}) \cup {again}
      /\ jobs' = jobs /\ tail' = tail /\ nextID' = nextID /\ answered' = answered
      /\ published' = published /\ restarts' = restarts /\ registered' = registered
  BY DEF Retry
<1>2. Recorded /\ late' \subseteq published /\ r.event \in published /\ r.event.life = restarts
  BY <1>1, UnansweredShape
<1>3. again.event = r.event
  OBVIOUS
<1> HIDE DEF again
<1>4. Dealt /\ AnswersHold
  BY <1>1, <1>3 DEF Dealt, AnswersHold, ReportInv, ReportsOK
<1>5. \A x \in open' : x.event \in published /\ x.event.life = restarts
  BY <1>1, <1>2, <1>3 DEF ReportInv, ReportsOK
<1>6. ActorOK' /\ Kept
  BY <1>1, SameJobs DEF ReportInv
<1> QED
  BY <1>1, <1>2, <1>4, <1>5, <1>6, NoNewEvent

\* The last attempt failed: a job's report ends it with an error event, the
\* reader's stops the reader, and the error's own is let go.
LEMMA GiveUpStep ==
  ASSUME ReportInv, NEW r \in open, GiveUp(r)
  PROVE  ReportInv'
<1> DEFINE j == r.event.job
           new == Numbered("catch", j, "error")
<1>1. /\ Unanswered(r) /\ tail' = tail /\ answered' = answered /\ restarts' = restarts
      /\ registered' = registered
  BY DEF GiveUp
<1>2. Recorded /\ late' \subseteq published /\ r.event \in published /\ r.event.life = restarts
  BY <1>1, UnansweredShape
<1>3. /\ j \in 1 .. Len(jobs) /\ jobs[j].at # "queued" /\ r.event.by \in Publisher
      /\ ActorOK /\ jobs[j] \in Job /\ registered \in BOOLEAN
  BY <1>2, JobShape DEF ReportInv, HubOK, Started, EventRow
<1>4. \A i \in 1 .. Len(jobs) : i < j => jobs[i].at = "done"
  BY <1>3, EarlierOver
<1>5. AnswersHold
  BY <1>1 DEF AnswersHold, ReportInv, ReportsOK
<1>6. \A x \in open : x.event \in published /\ x.event.life = restarts
  BY DEF ReportInv, ReportsOK
<1>7. CASE r.event.by = "job" /\ r.event.kind # "snapshot"
  <2> DEFINE job == [jobs[j] EXCEPT !.at = "done", !.next = << >>]
             n == Report(new)
  <2>1. /\ EndJob(j) /\ nextID' = nextID + 1 /\ published' = published \cup {new}
        /\ open' = (open \ {r}) \cup {n}
    BY <1>7 DEF GiveUp
  <2>2. job \in Job /\ job.prev = jobs[j].prev /\ job.at = "done" /\ jobs' = [jobs EXCEPT ![j] = job]
    BY <1>3, <2>1, EndedShape
  <2>3. n.event = new
    BY DEF Report
  <2>4. /\ new \in EventRow /\ new.life = restarts /\ new.src = nextID
        /\ new.by = "catch" /\ new.job = j
    BY <1>3, NumberedShape DEF Publisher, Kind
  <2> HIDE DEF job, new, n
  <2>5. ActorOK' /\ Kept /\ Len(jobs') = Len(jobs) /\ jobs'[j] = job
    BY <1>1, <1>3, <1>4, <2>2, JobGoesOn
  <2>6. IsOver(j)' /\ Started(j)'
    BY <1>3, <2>2, <2>5 DEF IsOver, Started
  <2>7. Dealt
    <3> SUFFICES ASSUME NEW x \in open
                 PROVE  (\E y \in open' : y.event = x.event) \/ IsOver(x.event.job)'
      BY DEF Dealt
    <3>1. CASE x = r
      BY <2>6, <3>1
    <3>2. CASE x # r
      BY <2>1, <3>2
    <3> QED
      BY <3>1, <3>2
  <2>8. \E x \in open' : x.event = new
    BY <2>1, <2>3
  <2>9. \A x \in open' : x.event = new \/ (x.event \in published /\ x.event.life = restarts)
    BY <1>6, <2>1, <2>3
  <2> QED
    BY <1>1, <1>2, <2>1, <2>4, <2>5, <2>6, <2>7, <2>8, <2>9, NewEvent
<1>8. CASE ~(r.event.by = "job" /\ r.event.kind # "snapshot")
  <2> DEFINE stopped == [jobs[j] EXCEPT !.reader = "stopped"]
             goesOn == [jobs[j] EXCEPT !.next = <<"snapshot.error">> \o jobs[j].next]
  <2>1. /\ open' = open \ {r} /\ nextID' = nextID /\ published' = published
        /\ jobs' = jobs \/ jobs' = [jobs EXCEPT ![j] = stopped] \/ jobs' = [jobs EXCEPT ![j] = goesOn]
    BY <1>3, <1>8 DEF GiveUp, Publisher
  <2>2. ActorOK' /\ Kept
    <3>1. CASE jobs' = jobs
      BY <1>1, <1>3, <3>1, SameJobs
    <3>2. stopped \in Job /\ stopped.prev = jobs[j].prev /\ stopped.at = jobs[j].at
      BY <1>3 DEF Job
    <3>3. goesOn \in Job /\ goesOn.prev = jobs[j].prev /\ goesOn.at = jobs[j].at
      <4>1. <<"snapshot.error">> \in Seq(Kind) /\ jobs[j].next \in Seq(Kind)
        BY <1>3 DEF Job, Kind
      <4>2. <<"snapshot.error">> \o jobs[j].next \in Seq(Kind)
        BY <4>1, ConcatProperties
      <4> QED
        BY <1>3, <4>2 DEF Job
    <3> HIDE DEF stopped, goesOn
    <3>4. CASE jobs' = [jobs EXCEPT ![j] = stopped]
      BY <1>1, <1>3, <1>4, <3>2, <3>4, JobGoesOn
    <3>5. CASE jobs' = [jobs EXCEPT ![j] = goesOn]
      BY <1>1, <1>3, <1>4, <3>3, <3>5, JobGoesOn
    <3> QED
      BY <2>1, <3>1, <3>4, <3>5
  <2>3. Dealt
    BY <1>8, <2>1 DEF Dealt, MayBeMissing
  <2>4. \A x \in open' : x.event \in published /\ x.event.life = restarts
    BY <1>6, <2>1
  <2> QED
    BY <1>1, <1>2, <1>5, <2>1, <2>2, <2>3, <2>4, NoNewEvent
<1> QED
  BY <1>7, <1>8

\* The worker reads the answer of its registration.
LEMMA RegisterStep ==
  ASSUME ReportInv, Register
  PROVE  ReportInv'
<1>1. /\ journal' = journal /\ open' = open /\ answered' = answered /\ restarts' = restarts
      /\ published' = published /\ nextID' = nextID /\ late' = late /\ registered' = TRUE
      /\ jobs' = jobs /\ tail' = tail
  BY DEF Register, masterVars, countVars
<1>2. ActorOK' /\ Kept
  BY <1>1, SameJobs DEF ReportInv
<1>3. late' \subseteq published
  BY <1>1 DEF ReportInv, ReportsOK
<1> QED
  BY <1>1, <1>2, <1>3, Quiet, NoNewEvent DEF Recorded

LEMMA LateStep ==
  ASSUME ReportInv, NEW e \in late, ArrivesLate(e)
  PROVE  ReportInv'
<1>1. /\ AppendRow(e) /\ late' = late \ {e} /\ open' = open /\ answered' = answered
      /\ jobs' = jobs /\ tail' = tail /\ nextID' = nextID
      /\ published' = published /\ restarts' = restarts /\ registered' = registered
  BY DEF ArrivesLate, Ingest, HalfIngested, procVars, countVars
<1>2. late \subseteq published
  BY DEF ReportInv, ReportsOK
<1>3. Recorded /\ late' \subseteq published
  BY <1>1, <1>2 DEF Recorded
<1>4. ActorOK' /\ Kept
  BY <1>1, SameJobs DEF ReportInv
<1> QED
  BY <1>1, <1>3, <1>4, Quiet, NoNewEvent

\* A new life: nothing is open, and no event of it is published yet.
LEMMA RestartStep ==
  ASSUME ReportInv, Restart
  PROVE  ReportInv'
<1>1. /\ restarts' = restarts + 1 /\ jobs' = << >> /\ tail' = 0 /\ nextID' = 1 /\ open' = {}
      /\ registered' = FALSE
      /\ late' = late \cup {x.event : x \in open}
      /\ journal' = journal /\ published' = published /\ answered' = answered
  BY DEF Restart, masterVars
<1>2. restarts \in Nat /\ \A e \in published : e \in EventRow /\ e.life <= restarts /\ e.life \in Nat
  BY DEF ReportInv, HubOK, EventRow
<1>3. restarts' \in Nat /\ \A e \in published : e.life <= restarts' /\ e.life # restarts'
  BY <1>1, <1>2
<1>4. ActorOK'
  BY <1>1 DEF ActorOK, OneJobAtATime
<1>5. HubOK'
  BY <1>1, <1>2, <1>3 DEF ReportInv, HubOK
<1>6. ReportsOK'
  BY <1>1 DEF ReportInv, ReportsOK
<1>7. JournalOK' /\ JobEventsInOrder'
  BY <1>1 DEF ReportInv, JournalOK, AnsweredIsJournaled, JobEventsInOrder, Rows, Before
<1>8. OwnOK'
  BY <1>1, <1>3 DEF ReportInv, OwnOK, Before
<1> QED
  BY <1>4, <1>5, <1>6, <1>7, <1>8 DEF ReportInv

-----------------------------------------------------------------------------
(* The theorems.                                                           *)

LEMMA ReportInit == Init => ReportInv
<1> SUFFICES ASSUME Init PROVE ReportInv
  OBVIOUS
<1>1. ActorOK
  BY DEF Init, ActorOK, OneJobAtATime
<1>2. HubOK
  <2>1. registered \in BOOLEAN
    BY DEF Init
  <2> QED
    BY <2>1 DEF Init, HubOK
<1>3. ReportsOK /\ JournalOK /\ OwnOK /\ JobEventsInOrder
  BY DEF Init, ReportsOK, JournalOK, AnsweredIsJournaled, OwnOK, JobEventsInOrder
<1> QED
  BY <1>1, <1>2, <1>3 DEF ReportInv

LEMMA ReportNext ==
  ASSUME ReportInv, [Next]_vars
  PROVE  ReportInv'
<1>1. ASSUME NEW t \in Turn, Prompt(t) \/ Reply(t) PROVE ReportInv'
  BY <1>1, AdmitStep
<1>2. ASSUME NEW j \in 1 .. Len(jobs), JobProgress(j) \/ Delta(j) PROVE ReportInv'
  BY <1>2, WorkStep, PublishStep, ThrowsStep, DeltaStep DEF JobProgress
<1>3. ASSUME NEW r \in open, Answered(r) \/ Retry(r) \/ GiveUp(r) PROVE ReportInv'
  BY <1>3, AnsweredStep, RetryStep, GiveUpStep
<1>4. ASSUME NEW e \in late, ArrivesLate(e) PROVE ReportInv'
  BY <1>4, LateStep
<1>5. CASE Restart
  BY <1>5, RestartStep
<1>6. CASE Register
  BY <1>6, RegisterStep
<1>7. CASE UNCHANGED vars
  BY <1>7 DEF vars, procVars, masterVars, countVars, ReportInv, ActorOK, OneJobAtATime, HubOK,
              ReportsOK, JournalOK, AnsweredIsJournaled, OwnOK, JobEventsInOrder, Rows, Before,
              Started, IsOver
<1> QED
  BY <1>1, <1>2, <1>3, <1>4, <1>5, <1>6, <1>7 DEF Next

LEMMA ReportsSafe == Spec => []ReportInv
  BY ReportInit, ReportNext, PTL DEF Spec

\* session-actor.ts: the work of a session is serialized in the order it was
\* queued, whatever its jobs end with.
THEOREM JobsAreSerial == Spec => []OneJobAtATime
<1>1. ReportInv => OneJobAtATime
  BY DEF ReportInv, ActorOK
<1> QED
  BY <1>1, ReportsSafe, PTL

\* event-reporter.ts, event-journal.ts: what was answered 202 is in the journal,
\* unless a row of an earlier life of the worker has its source id.
THEOREM AnsweredAreJournaled == Spec => []AnsweredIsJournaled
<1>1. ReportInv => AnsweredIsJournaled
  BY DEF ReportInv, JournalOK
<1> QED
  BY <1>1, ReportsSafe, PTL

\* index.ts: the journal has a job's own events in their order and without a
\* gap before any of them, over lost, late and repeated reports and reports
\* given up, but for the announcement of a snapshot, which a job survives, and
\* what was published before the worker was registered.
THEOREM JobEventsAreInOrder == Spec => []JobEventsInOrder
<1>1. ReportInv => JobEventsInOrder
  BY DEF ReportInv
<1> QED
  BY <1>1, ReportsSafe, PTL
=============================================================================
