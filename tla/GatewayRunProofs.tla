-------------------------- MODULE GatewayRunProofs --------------------------
(***************************************************************************)
(* A turn whose end is journaled is settled, for any number of turns, runs *)
(* of a turn, restarts, failed requests and calls of the end route.        *)
(*                                                                         *)
(* The events of the journal and the runs are sequences over the sets of   *)
(* good ones, relative to the status of the turns and the number of        *)
(* replies.  As a turn's status only moves on and replies are only added,  *)
(* what is good stays good, and a step has to be looked at for what it     *)
(* adds only.                                                              *)
(*                                                                         *)
(* A reply is journaled under the turn it was written for: the run that    *)
(* takes it is the only one of the active turn, and OpenCode works for     *)
(* that turn or for one it was left with.                                  *)
(***************************************************************************)
EXTENDS GatewayRun, SequenceTheorems, TLAPS

Kind == {"resolved", "question", "waiting", "message", "session.idle", "error"}
Status == {"none", "active", "completed", "failed"}

\* Events of turns that exist, and of settled ones if they announce an end.
GoodEvent(status, n) ==
    {e \in [turn : Turn, kind : Kind, ref : Nat] :
        /\ status[e.turn] # "none"
        /\ e.kind = "message" => e.ref \in 1 .. n
        /\ e.kind \in {"session.idle", "error"} => status[e.turn] # "active"}

GoodRun(status, n) ==
    {r \in [turn : Turn, how : {"prompt", "resume"}, answers : Nat, at : RunStep,
            known : 0 .. n, saw : BOOLEAN, failed : BOOLEAN] :
        status[r.turn] # "none"}

MasterOK ==
    /\ tstatus \in [Turn -> Status]
    /\ epoch \in Nat /\ tepoch \in [Turn -> 0 .. epoch]

EventsOK == journal \in Seq(GoodEvent(tstatus, Len(replies)))
RunsOK == runs \in Seq(GoodRun(tstatus, Len(replies)))

OpenCodeOK ==
    /\ replies \in Seq(Turn) /\ queue \in Seq(Turn)
    /\ busy \in {"idle", "starting", "working", "asking"} /\ busyFor \in Turn /\ asked \in Nat

HistoryOK == left \in SUBSET Turn /\ twice \in SUBSET Turn

GatewayInv == MasterOK /\ EventsOK /\ RunsOK /\ OpenCodeOK /\ HistoryOK

\* A step from status and n to later and m keeps what is good.
Onward(status, n, later, m) ==
    /\ n \in Nat /\ m \in Nat /\ n <= m
    /\ \A t \in Turn : status[t] # "none" =>
         later[t] # "none" /\ (status[t] # "active" => later[t] # "active")

Settles == Onward(tstatus, Len(replies), tstatus', Len(replies'))

-----------------------------------------------------------------------------
LEMMA Turns == 1 \in Turn
  BY GatewayAssumption DEF Turn

LEMMA GoodStaysGood ==
  ASSUME NEW status, NEW n, NEW later, NEW m, Onward(status, n, later, m)
  PROVE  /\ GoodEvent(status, n) \subseteq GoodEvent(later, m)
         /\ GoodRun(status, n) \subseteq GoodRun(later, m)
<1>1. 0 .. n \subseteq 0 .. m
  BY DEF Onward
<1> QED
  BY <1>1 DEF Onward, GoodEvent, GoodRun

LEMMA OldEvents ==
  ASSUME EventsOK, RunsOK, Settles
  PROVE  /\ journal \in Seq(GoodEvent(tstatus', Len(replies')))
         /\ runs \in Seq(GoodRun(tstatus', Len(replies')))
<1>1. /\ GoodEvent(tstatus, Len(replies)) \subseteq GoodEvent(tstatus', Len(replies'))
      /\ GoodRun(tstatus, Len(replies)) \subseteq GoodRun(tstatus', Len(replies'))
  BY GoodStaysGood DEF Settles
<1> QED
  BY <1>1, SeqMonotonic DEF EventsOK, RunsOK

LEMMA NothingSettles ==
  ASSUME GatewayInv, tstatus' = tstatus, replies' = replies
  PROVE  Settles
  BY LenProperties DEF GatewayInv, OpenCodeOK, Settles, Onward

LEMMA RunShape ==
  ASSUME RunsOK, NEW i \in RunIDs
  PROVE  /\ runs[i] \in GoodRun(tstatus, Len(replies))
         /\ runs[i].turn \in Turn /\ tstatus[runs[i].turn] # "none"
         /\ runs[i].at \in RunStep /\ i \in 1 .. Len(runs)
<1>1. i \in 1 .. Len(runs)
  BY DEF RunIDs
<1>2. runs[i] \in GoodRun(tstatus, Len(replies))
  BY <1>1, ElementOfSeq DEF RunsOK
<1> QED
  BY <1>1, <1>2 DEF GoodRun

\* A run that goes to another step.
LEMMA RunMoves ==
  ASSUME RunsOK, EventsOK, Settles, NEW i \in RunIDs, NEW at \in RunStep, Goto(i, at)
  PROVE  RunsOK'
<1> DEFINE G == GoodRun(tstatus', Len(replies'))
           r == [runs[i] EXCEPT !.at = at]
<1>1. runs \in Seq(G)
  BY OldEvents
<1>2. i \in 1 .. Len(runs)
  BY DEF RunIDs
<1>3. runs[i] \in G
  BY <1>1, <1>2, ElementOfSeq
<1>4. r \in G
  BY <1>3 DEF GoodRun
<1>5. runs' = [runs EXCEPT ![i] = r]
  BY DEF Goto
<1> HIDE DEF G, r
<1>6. runs' \in Seq(G)
  BY <1>1, <1>2, <1>4, <1>5, ExceptSeq
<1> QED
  BY <1>6 DEF G, RunsOK

\* A run that is over.
LEMMA RunReturns ==
  ASSUME RunsOK, EventsOK, Settles, NEW i \in RunIDs, Return(i)
  PROVE  RunsOK'
<1> DEFINE G == GoodRun(tstatus', Len(replies'))
           r == [runs[i] EXCEPT !.at = "done", !.answers = 0, !.known = 0, !.saw = FALSE, !.failed = FALSE]
<1>1. runs \in Seq(G)
  BY OldEvents
<1>2. i \in 1 .. Len(runs) /\ 0 \in 0 .. Len(replies')
  BY DEF RunIDs, Settles, Onward
<1>3. runs[i] \in G
  BY <1>1, <1>2, ElementOfSeq
<1>4. r \in G
  BY <1>2, <1>3 DEF GoodRun, RunStep
<1>5. runs' = [runs EXCEPT ![i] = r]
  BY DEF Return
<1> HIDE DEF G, r
<1>6. runs' \in Seq(G)
  BY <1>1, <1>2, <1>4, <1>5, ExceptSeq
<1> QED
  BY <1>6 DEF G, RunsOK

\* Events that are added at the end.
LEMMA EventsAdded ==
  ASSUME RunsOK, EventsOK, Settles,
         NEW more \in Seq(GoodEvent(tstatus', Len(replies'))), journal' = journal \o more
  PROVE  EventsOK'
<1> DEFINE G == GoodEvent(tstatus', Len(replies'))
<1>1. journal \in Seq(G) /\ more \in Seq(G)
  BY OldEvents
<1> HIDE DEF G
<1>2. journal \o more \in Seq(G)
  BY <1>1, ConcatProperties
<1> QED
  BY <1>2 DEF G, EventsOK

LEMMA EventAdded ==
  ASSUME RunsOK, EventsOK, Settles,
         NEW e \in GoodEvent(tstatus', Len(replies')), journal' = Append(journal, e)
  PROVE  EventsOK'
<1> DEFINE G == GoodEvent(tstatus', Len(replies'))
<1>1. journal \in Seq(G) /\ e \in G
  BY OldEvents
<1> HIDE DEF G
<1>2. Append(journal, e) \in Seq(G)
  BY <1>1, AppendProperties
<1> QED
  BY <1>2 DEF G, EventsOK

\* Nothing about the turns changes.
LEMMA SameEvents ==
  ASSUME GatewayInv, tstatus' = tstatus, replies' = replies
  PROVE  /\ journal' = journal => EventsOK'
         /\ runs' = runs => RunsOK'
  BY DEF GatewayInv, EventsOK, RunsOK

\* complete() and fail(): the turn of a run is settled, whatever it was.
LEMMA SettleShape ==
  ASSUME GatewayInv, NEW t \in Turn, tstatus[t] # "none", NEW s \in {"completed", "failed"},
         tstatus' = IF Active(t) THEN [tstatus EXCEPT ![t] = s] ELSE tstatus, replies' = replies
  PROVE  /\ tstatus' \in [Turn -> Status]
         /\ Settles
         /\ tstatus'[t] \notin {"none", "active"}
<1>1. Len(replies) \in Nat
  BY LenProperties DEF GatewayInv, OpenCodeOK
<1> QED
  BY <1>1 DEF GatewayInv, MasterOK, Active, Status, Settles, Onward

-----------------------------------------------------------------------------
(* The routes.                                                             *)

LEMMA StartShape ==
  ASSUME RunsOK, EventsOK, Settles, NEW t \in Turn, NEW how \in {"prompt", "resume"},
         NEW q \in Nat, tstatus'[t] # "none", StartRun(t, how, q)
  PROVE  RunsOK'
<1> DEFINE G == GoodRun(tstatus', Len(replies'))
           r == [turn |-> t, how |-> how, answers |-> q, at |-> "start",
                 known |-> 0, saw |-> FALSE, failed |-> FALSE]
<1>1. runs \in Seq(G)
  BY OldEvents
<1>2. 0 \in 0 .. Len(replies')
  BY DEF Settles, Onward
<1>3. r \in G
  BY <1>2 DEF GoodRun, RunStep
<1>4. runs' = Append(runs, r)
  BY DEF StartRun
<1> HIDE DEF G, r
<1>5. runs' \in Seq(G)
  BY <1>1, <1>3, <1>4, AppendProperties
<1> QED
  BY <1>5 DEF G, RunsOK

LEMMA PromptStep ==
  ASSUME GatewayInv, NEW t \in Turn, Prompt(t)
  PROVE  GatewayInv'
<1>1. /\ tstatus[t] = "none" /\ journal' = journal /\ aborted' = aborted
      /\ replies' = replies /\ queue' = queue /\ busy' = busy /\ busyFor' = busyFor /\ asked' = asked
      /\ left' = left /\ twice' = twice
      /\ epoch' = IF ended THEN epoch + 1 ELSE epoch
  BY DEF Prompt, openCodeVars, historyVars
<1>2. OpenCodeOK' /\ HistoryOK'
  BY <1>1 DEF GatewayInv, OpenCodeOK, HistoryOK
<1>3. epoch' \in Nat /\ epoch <= epoch' /\ epoch \in Nat
  BY <1>1 DEF GatewayInv, MasterOK
<1>4. 0 .. epoch \subseteq 0 .. epoch'
  BY <1>3
<1>5. CASE \E r \in Turn : Active(r)
  <2>1. tstatus' = tstatus /\ tepoch' = tepoch /\ runs' = runs
    BY <1>5 DEF Prompt
  <2> QED
    BY <1>1, <1>2, <1>3, <1>4, <2>1, SameEvents DEF GatewayInv, MasterOK
<1>6. CASE ~ \E r \in Turn : Active(r)
  <2>1. /\ tstatus' = [tstatus EXCEPT ![t] = "active"]
        /\ tepoch' = [tepoch EXCEPT ![t] = epoch']
        /\ StartRun(t, "prompt", 0)
    BY <1>6 DEF Prompt
  <2>2. MasterOK'
    <3>1. epoch' \in 0 .. epoch'
      BY <1>3
    <3> QED
      BY <1>3, <1>4, <2>1, <3>1 DEF GatewayInv, MasterOK, Status
  <2>3. Settles
    <3>1. Len(replies) \in Nat
      BY LenProperties DEF GatewayInv, OpenCodeOK
    <3> QED
      BY <1>1, <2>1, <3>1 DEF GatewayInv, MasterOK, Settles, Onward
  <2>4. tstatus'[t] # "none"
    BY <2>1 DEF GatewayInv, MasterOK
  <2>5. EventsOK'
    BY <1>1, <2>3, OldEvents DEF GatewayInv, EventsOK
  <2>6. RunsOK'
    BY <2>1, <2>3, <2>4, StartShape DEF GatewayInv
  <2> QED
    BY <1>2, <2>2, <2>5, <2>6 DEF GatewayInv
<1> QED
  BY <1>5, <1>6

LEMMA ShownIsNumber == ASSUME GatewayInv, NEW q \in QuestionsShown PROVE q \in Nat
<1>1. PICK k \in 1 .. Len(journal) : q = journal[k].ref
  BY DEF QuestionsShown
<1>2. journal[k] \in GoodEvent(tstatus, Len(replies))
  BY ElementOfSeq DEF GatewayInv, EventsOK
<1> QED
  BY <1>1, <1>2 DEF GoodEvent

LEMMA ReplyStep ==
  ASSUME GatewayInv, NEW t \in Turn, Reply(t)
  PROVE  GatewayInv'
<1>1. PICK q \in QuestionsShown : Resume(t, q)
  BY DEF Reply
<1>2. /\ tstatus[t] = "active"
      /\ twice' = IF UnderWay(t) THEN twice \cup {t} ELSE twice
      /\ tstatus' = tstatus /\ tepoch' = tepoch /\ epoch' = epoch /\ left' = left
      /\ replies' = replies /\ queue' = queue /\ busy' = busy /\ busyFor' = busyFor /\ asked' = asked
  BY DEF Reply, Active, openCodeVars
<1>3. Settles /\ q \in Nat
  BY <1>2, NothingSettles, ShownIsNumber
<1>4. Event(t, "resolved", q) \in GoodEvent(tstatus', Len(replies'))
  BY <1>2, <1>3 DEF Event, GoodEvent, Kind, Settles, Onward
<1>5. EventsOK'
  BY <1>1, <1>3, <1>4, EventAdded DEF Resume, GatewayInv
<1>6. RunsOK'
  BY <1>1, <1>2, <1>3, StartShape DEF Resume, GatewayInv
<1> QED
  BY <1>2, <1>5, <1>6 DEF GatewayInv, MasterOK, OpenCodeOK, HistoryOK

LEMMA EndStep ==
  ASSUME GatewayInv, End
  PROVE  GatewayInv'
<1>1. /\ tstatus' = tstatus /\ tepoch' = tepoch /\ epoch' = epoch /\ journal' = journal /\ runs' = runs
      /\ replies' = replies /\ queue' = queue /\ busy' = busy /\ busyFor' = busyFor /\ asked' = asked
      /\ left' = left /\ twice' = twice
  BY DEF End, openCodeVars, historyVars
<1> QED
  BY <1>1, SameEvents DEF GatewayInv, MasterOK, OpenCodeOK, HistoryOK

\* Every subscriber is told of a failed step.
LEMMA HeardShape ==
  ASSUME GatewayInv, tstatus' = tstatus, replies' = replies, Heard
  PROVE  RunsOK'
<1> DEFINE G == GoodRun(tstatus, Len(replies))
           R(i) == [runs[i] EXCEPT !.failed = @ \/ (Subscribed(i) /\ ~runs[i].saw /\ busy # "starting"),
                                   !.saw = FALSE]
<1>1. runs \in Seq(G) /\ Len(runs) \in Nat
  BY LenProperties DEF GatewayInv, RunsOK
<1>2. \A i \in 1 .. Len(runs) : runs[i] \in G
  BY <1>1, ElementOfSeq
<1>3. \A i \in 1 .. Len(runs) : R(i) \in G
  BY <1>2 DEF GoodRun, Subscribed
<1>4. runs' = [i \in 1 .. Len(runs) |-> R(i)]
  BY DEF Heard, RunIDs
<1> HIDE DEF G, R
<1>5. runs' \in Seq(G)
  BY <1>1, <1>3, <1>4
<1> QED
  BY <1>5 DEF G, RunsOK

\* The message that runs knew is over.
MessageOver == runs' = [i \in RunIDs |-> [runs[i] EXCEPT !.saw = FALSE]]

LEMMA UnseenShape ==
  ASSUME GatewayInv, tstatus' = tstatus, replies' = replies, MessageOver
  PROVE  RunsOK'
<1> DEFINE G == GoodRun(tstatus, Len(replies))
           R(i) == [runs[i] EXCEPT !.saw = FALSE]
<1>1. runs \in Seq(G) /\ Len(runs) \in Nat
  BY LenProperties DEF GatewayInv, RunsOK
<1>2. \A i \in 1 .. Len(runs) : runs[i] \in G
  BY <1>1, ElementOfSeq
<1>3. \A i \in 1 .. Len(runs) : R(i) \in G
  BY <1>2 DEF GoodRun
<1>4. runs' = [i \in 1 .. Len(runs) |-> R(i)]
  BY DEF MessageOver, RunIDs
<1> HIDE DEF G, R
<1>5. runs' \in Seq(G)
  BY <1>1, <1>3, <1>4
<1> QED
  BY <1>5 DEF G, RunsOK

LEMMA NativeAbortStep ==
  ASSUME GatewayInv, NativeAbort \/ StepFailed
  PROVE  GatewayInv'
<1>1. /\ tstatus' = tstatus /\ tepoch' = tepoch /\ epoch' = epoch /\ journal' = journal
      /\ replies' = replies /\ queue' = queue /\ busy' = "idle" /\ busyFor' = busyFor /\ asked' = asked
      /\ left' = left /\ twice' = twice /\ Heard
  BY DEF NativeAbort, StepFailed, StepFails, masterVars, historyVars
<1>2. RunsOK'
  BY <1>1, HeardShape
<1> QED
  BY <1>1, <1>2, SameEvents DEF GatewayInv, MasterOK, OpenCodeOK, HistoryOK

-----------------------------------------------------------------------------
(* The steps of a run that settle nothing.                                 *)

LEMMA BeginStep ==
  ASSUME GatewayInv, NEW i \in RunIDs, Begin(i)
  PROVE  GatewayInv'
<1>1. /\ tstatus' = tstatus /\ tepoch' = tepoch /\ epoch' = epoch /\ journal' = journal
      /\ replies' = replies /\ queue' = queue /\ busy' = busy /\ busyFor' = busyFor /\ asked' = asked
      /\ left' = left /\ twice' = twice
  BY DEF Begin, masterVars, openCodeVars, historyVars
<1> DEFINE G == GoodRun(tstatus, Len(replies))
           r == [runs[i] EXCEPT !.known = Len(replies), !.saw = busy \in {"working", "asking"}, !.at = "send"]
<1>2. runs \in Seq(G) /\ i \in 1 .. Len(runs) /\ runs[i] \in G
  BY RunShape DEF GatewayInv, RunsOK
<1>3. Len(replies) \in 0 .. Len(replies)
  BY LenProperties DEF GatewayInv, OpenCodeOK
<1>8. (busy \in {"working", "asking"}) \in BOOLEAN
  OBVIOUS
<1>4. r \in G
  BY <1>2, <1>3, <1>8, Zenon DEF GoodRun, RunStep
<1>5. runs' = [runs EXCEPT ![i] = r]
  BY DEF Begin, Known
<1> HIDE DEF G, r
<1>6. runs' \in Seq(G)
  BY <1>2, <1>4, <1>5, ExceptSeq
<1>7. RunsOK'
  BY <1>1, <1>6 DEF G, RunsOK
<1> QED
  BY <1>1, <1>7, SameEvents DEF GatewayInv, MasterOK, OpenCodeOK, HistoryOK

LEMMA SendStep ==
  ASSUME GatewayInv, NEW i \in RunIDs, Send(i)
  PROVE  GatewayInv'
<1>1. /\ tstatus' = tstatus /\ tepoch' = tepoch /\ epoch' = epoch /\ journal' = journal
      /\ replies' = replies /\ busyFor' = busyFor /\ asked' = asked /\ left' = left /\ twice' = twice
      /\ Goto(i, "abort?")
  BY DEF Send, masterVars, historyVars
<1>2. runs[i].turn \in Turn
  BY RunShape DEF GatewayInv
<1>3. queue' \in Seq(Turn) /\ busy' \in {"idle", "starting", "working", "asking"}
  BY <1>2, AppendProperties DEF Send, PostAnswer, GatewayInv, OpenCodeOK
<1>4. RunsOK'
  BY <1>1, NothingSettles, RunMoves DEF GatewayInv, RunStep
<1> QED
  BY <1>1, <1>3, <1>4, SameEvents DEF GatewayInv, MasterOK, OpenCodeOK, HistoryOK

LEMMA PollsOnStep ==
  ASSUME GatewayInv, NEW i \in RunIDs, NoAbort(i) \/ PollAgain(i) \/ AnswerRefused(i)
  PROVE  GatewayInv'
<1>1. /\ tstatus' = tstatus /\ tepoch' = tepoch /\ epoch' = epoch /\ journal' = journal
      /\ replies' = replies /\ queue' = queue /\ busy' = busy /\ busyFor' = busyFor /\ asked' = asked
      /\ left' = left /\ twice' = twice
      /\ Goto(i, "question?") \/ Goto(i, "abort?")
  BY DEF NoAbort, PollAgain, AnswerRefused, masterVars, openCodeVars, historyVars
<1>2. RunsOK'
  BY <1>1, NothingSettles, RunMoves DEF GatewayInv, RunStep
<1> QED
  BY <1>1, <1>2, SameEvents DEF GatewayInv, MasterOK, OpenCodeOK, HistoryOK

LEMMA AskStep ==
  ASSUME GatewayInv, NEW i \in RunIDs, Ask(i)
  PROVE  GatewayInv'
<1> DEFINE t == runs[i].turn
           more == <<Event(t, "question", asked), Event(t, "waiting", 0)>>
<1>1. /\ tstatus' = tstatus /\ tepoch' = tepoch /\ epoch' = epoch
      /\ replies' = replies /\ queue' = queue /\ busy' = busy /\ busyFor' = busyFor /\ asked' = asked
      /\ left' = left /\ twice' = twice
      /\ \/ Return(i) /\ journal' = journal \o more
         \/ Goto(i, "reply?") /\ journal' = journal
  BY DEF Ask, openCodeVars, historyVars
<1>2. Settles
  BY <1>1, NothingSettles
<1>3. RunsOK'
  BY <1>1, <1>2, RunMoves, RunReturns DEF GatewayInv, RunStep
<1>4. t \in Turn /\ tstatus'[t] # "none" /\ asked \in Nat
  BY <1>1, <1>2, RunShape DEF GatewayInv, Settles, Onward, OpenCodeOK
<1>5. /\ Event(t, "question", asked) \in GoodEvent(tstatus', Len(replies'))
      /\ Event(t, "waiting", 0) \in GoodEvent(tstatus', Len(replies'))
  <2> HIDE DEF t
  <2> QED
    BY <1>4 DEF Event, GoodEvent, Kind
<1>6. more \in Seq(GoodEvent(tstatus', Len(replies')))
  BY <1>5
<1>7. EventsOK'
  <2>1. CASE journal' = journal \o more
    BY <1>2, <1>6, <2>1, EventsAdded DEF GatewayInv
  <2>2. CASE journal' = journal
    BY <1>1, <2>2, SameEvents
  <2> QED
    BY <1>1, <2>1, <2>2
<1> QED
  BY <1>1, <1>3, <1>7 DEF GatewayInv, MasterOK, OpenCodeOK, HistoryOK

-----------------------------------------------------------------------------
(* The steps that end a run.                                               *)

\* A run that leaves adds at most its turn to the history.
LEMMA LeaveShape ==
  ASSUME HistoryOK, NEW t \in Turn, twice' = twice,
         left' = left \/ left' = left \cup {t}
  PROVE  HistoryOK'
  BY DEF HistoryOK

LEMMA FinishShape ==
  ASSUME GatewayInv, NEW i \in RunIDs, replies' = replies, twice' = twice,
         NEW messages \in Seq(GoodEvent(tstatus, Len(replies))), Finish(i, messages)
  PROVE  tstatus' \in [Turn -> Status] /\ EventsOK' /\ RunsOK' /\ HistoryOK'
<1> DEFINE t == runs[i].turn
           e == Event(t, "session.idle", 0)
           G == GoodEvent(tstatus', Len(replies'))
<1>1. /\ Return(i) /\ Complete(t)
      /\ left' = left \/ left' = left \cup {t}
      /\ journal' = journal \o messages \o <<e>>
  BY DEF Finish, Leave
<1>2. t \in Turn /\ tstatus[t] # "none"
  BY RunShape DEF GatewayInv
<1>3. tstatus' \in [Turn -> Status] /\ Settles /\ tstatus'[t] \notin {"none", "active"}
  <2> HIDE DEF t
  <2> QED
    BY <1>1, <1>2, SettleShape DEF Complete
<1>4. RunsOK'
  BY <1>1, <1>3, RunReturns DEF GatewayInv
<1>5. HistoryOK'
  <2> HIDE DEF t
  <2> QED
    BY <1>1, <1>2, LeaveShape DEF GatewayInv
<1>6. e \in G
  <2> HIDE DEF t
  <2> QED
    BY <1>2, <1>3 DEF Event, GoodEvent, Kind, Settles, Onward
<1>7. journal \in Seq(G)
  BY <1>3, OldEvents DEF GatewayInv
<1>8. messages \in Seq(G)
  <2>1. GoodEvent(tstatus, Len(replies)) \subseteq G
    BY <1>3, GoodStaysGood DEF Settles
  <2> HIDE DEF G
  <2> QED
    BY <2>1, SeqMonotonic
<1> HIDE DEF e, G
<1>9. <<e>> \in Seq(G)
  BY <1>6
<1>10. journal \o messages \in Seq(G)
  BY <1>7, <1>8, ConcatProperties
<1>11. journal' \in Seq(G)
  BY <1>1, <1>9, <1>10, ConcatProperties
<1>12. EventsOK'
  BY <1>11 DEF G, EventsOK
<1> QED
  BY <1>3, <1>4, <1>5, <1>12

\* What a reply is announced with.
LEMMA MessageShape ==
  ASSUME GatewayInv, NEW i \in RunIDs, HasReply(i)
  PROVE  Event(runs[i].turn, "message", Len(replies)) \in GoodEvent(tstatus, Len(replies))
<1> DEFINE t == runs[i].turn
<1>1. t \in Turn /\ tstatus[t] # "none"
  BY RunShape DEF GatewayInv
<1>2. Len(replies) \in 1 .. Len(replies)
  <2>1. Len(replies) \in Nat /\ runs[i].known \in Nat
    <3>1. runs[i] \in GoodRun(tstatus, Len(replies))
      BY RunShape DEF GatewayInv
    <3> QED
      BY <3>1, LenProperties DEF GoodRun, GatewayInv, OpenCodeOK
  <2> QED
    BY <2>1 DEF HasReply
<1> HIDE DEF t
<1>3. Event(t, "message", Len(replies)) \in GoodEvent(tstatus, Len(replies))
  BY <1>1, <1>2 DEF Event, GoodEvent, Kind
<1> QED
  BY <1>3 DEF t

LEMMA FinishStep ==
  ASSUME GatewayInv, NEW i \in RunIDs, YieldToAbort(i) \/ TakeReply(i) \/ Suspend(i)
  PROVE  GatewayInv'
<1> DEFINE m == Event(runs[i].turn, "message", Len(replies))
<1>1. /\ tepoch' = tepoch /\ epoch' = epoch /\ twice' = twice
      /\ replies' = replies /\ queue' = queue /\ busy' = busy /\ busyFor' = busyFor /\ asked' = asked
      /\ Finish(i, << >>) \/ (Finish(i, <<m>>) /\ HasReply(i))
  BY DEF YieldToAbort, TakeReply, Suspend, openCodeVars
<1>2. << >> \in Seq(GoodEvent(tstatus, Len(replies)))
  OBVIOUS
<1>3. HasReply(i) => <<m>> \in Seq(GoodEvent(tstatus, Len(replies)))
  BY MessageShape
<1> HIDE DEF m
<1>4. tstatus' \in [Turn -> Status] /\ EventsOK' /\ RunsOK' /\ HistoryOK'
  <2>1. CASE Finish(i, << >>)
    BY <1>1, <1>2, <2>1, FinishShape
  <2>2. CASE Finish(i, <<m>>) /\ HasReply(i)
    BY <1>1, <1>3, <2>2, FinishShape
  <2> QED
    BY <1>1, <2>1, <2>2
<1> QED
  BY <1>1, <1>4 DEF GatewayInv, MasterOK, OpenCodeOK

LEMMA ThrowStep ==
  ASSUME GatewayInv, NEW i \in RunIDs, RequestFails(i) \/ AnswerLost(i) \/ TimeOut(i)
  PROVE  GatewayInv'
<1> DEFINE t == runs[i].turn
           e == Event(t, "error", 0)
<1>1. t \in Turn /\ tstatus[t] # "none"
  BY RunShape DEF GatewayInv
<1>2. /\ Throw(i) /\ replies' = replies /\ busy' \in {busy, "working"} /\ busyFor' = busyFor /\ asked' = asked
      /\ queue' = queue \/ queue' = Append(queue, t)
  BY DEF RequestFails, AnswerLost, TimeOut, PostAnswer, openCodeVars
<1>3. /\ Return(i) /\ twice' = twice /\ tepoch' = tepoch /\ epoch' = epoch
      /\ left' = left \/ left' = left \cup {t}
      /\ tstatus' = IF Active(t) THEN [tstatus EXCEPT ![t] = "failed"] ELSE tstatus
      /\ journal' = Append(journal, e)
  BY <1>2 DEF Throw
<1>4. tstatus' \in [Turn -> Status] /\ Settles /\ tstatus'[t] \notin {"none", "active"}
  <2> HIDE DEF t
  <2> QED
    BY <1>1, <1>2, <1>3, SettleShape
<1>5. RunsOK'
  BY <1>3, <1>4, RunReturns DEF GatewayInv
<1>6. HistoryOK' /\ queue' \in Seq(Turn)
  <2> HIDE DEF t
  <2>1. HistoryOK'
    BY <1>1, <1>3, LeaveShape DEF GatewayInv
  <2>2. queue \in Seq(Turn)
    BY DEF GatewayInv, OpenCodeOK
  <2>3. Append(queue, t) \in Seq(Turn)
    BY <1>1, <2>2, AppendProperties
  <2> QED
    BY <1>2, <2>1, <2>2, <2>3
<1>7. e \in GoodEvent(tstatus', Len(replies'))
  <2> HIDE DEF t
  <2> QED
    BY <1>1, <1>4 DEF Event, GoodEvent, Kind, Settles, Onward
<1>8. EventsOK'
  <2> HIDE DEF e
  <2> QED
    BY <1>3, <1>4, <1>7, EventAdded DEF GatewayInv
<1> QED
  BY <1>2, <1>3, <1>4, <1>5, <1>6, <1>8 DEF GatewayInv, MasterOK, OpenCodeOK

-----------------------------------------------------------------------------
(* Restarts, and OpenCode.                                                 *)

LEMMA RestartStep ==
  ASSUME GatewayInv, Restart
  PROVE  GatewayInv'
<1>1. /\ tstatus' = tstatus /\ tepoch' = tepoch /\ epoch' = epoch /\ journal' = journal /\ runs' = << >>
      /\ replies' = replies /\ queue' = queue /\ busy' = busy /\ busyFor' = busyFor /\ asked' = asked /\ twice' = twice
      /\ left' = left \cup {t \in Turn : AtWorkFor(t)}
  BY DEF Restart, NewProcess, masterVars, openCodeVars
<1>2. RunsOK' /\ HistoryOK'
  BY <1>1 DEF RunsOK, GatewayInv, HistoryOK
<1> QED
  BY <1>1, <1>2, SameEvents DEF GatewayInv, MasterOK, OpenCodeOK

LEMMA CutShortStep ==
  ASSUME GatewayInv, NEW i \in RunIDs, FinishCutShort(i)
  PROVE  GatewayInv'
<1> DEFINE t == runs[i].turn
           m == Event(t, "message", Len(replies))
<1>1. /\ tepoch' = tepoch /\ epoch' = epoch /\ twice' = twice /\ runs' = << >>
      /\ left' = left \cup {u \in Turn : AtWorkFor(u)}
      /\ replies' = replies /\ queue' = queue /\ busy' = busy /\ busyFor' = busyFor /\ asked' = asked
      /\ journal' = Append(journal, m) /\ HasReply(i)
      /\ tstatus' = tstatus \/ Complete(t)
  BY DEF FinishCutShort, NewProcess, openCodeVars
<1>2. t \in Turn /\ tstatus[t] # "none"
  BY RunShape DEF GatewayInv
<1>3. tstatus' \in [Turn -> Status] /\ Settles
  <2>1. CASE tstatus' = tstatus
    BY <1>1, <2>1, NothingSettles DEF GatewayInv, MasterOK
  <2>2. CASE Complete(t)
    <3> HIDE DEF t
    <3> QED
      BY <1>1, <1>2, <2>2, SettleShape DEF Complete
  <2> QED
    BY <1>1, <2>1, <2>2
<1>4. m \in GoodEvent(tstatus', Len(replies'))
  BY <1>1, <1>3, MessageShape, GoodStaysGood DEF Settles
<1>5. EventsOK'
  <2> HIDE DEF m
  <2> QED
    BY <1>1, <1>3, <1>4, EventAdded DEF GatewayInv
<1>6. RunsOK' /\ HistoryOK'
  BY <1>1 DEF RunsOK, GatewayInv, HistoryOK
<1> QED
  BY <1>1, <1>3, <1>5, <1>6 DEF GatewayInv, MasterOK, OpenCodeOK

LEMMA OpenCodeStep ==
  ASSUME GatewayInv, Take \/ Write \/ NextMessage \/ Question
  PROVE  GatewayInv'
<1>1. /\ tstatus' = tstatus /\ tepoch' = tepoch /\ epoch' = epoch /\ journal' = journal
      /\ replies' = replies /\ left' = left /\ twice' = twice
      /\ runs' = runs \/ MessageOver
  BY DEF MessageOver, Take, Write, NextMessage, Question, masterVars, processVars, historyVars
<1>2. OpenCodeOK'
  BY HeadTailProperties DEF Take, Write, NextMessage, Question, GatewayInv, OpenCodeOK
<1>3. EventsOK' /\ RunsOK'
  BY <1>1, SameEvents, UnseenShape
<1> QED
  BY <1>1, <1>2, <1>3 DEF GatewayInv, MasterOK, HistoryOK

LEMMA AnswerStep ==
  ASSUME GatewayInv, Answer
  PROVE  GatewayInv'
<1> DEFINE n == Len(replies)
           R(i) == [runs[i] EXCEPT !.known = IF runs[i].saw THEN n + 1 ELSE @, !.saw = FALSE]
           G == GoodRun(tstatus', Len(replies'))
<1>1. /\ tstatus' = tstatus /\ tepoch' = tepoch /\ epoch' = epoch /\ journal' = journal
      /\ left' = left /\ twice' = twice /\ queue' = queue /\ busyFor' = busyFor /\ asked' = asked
      /\ busy' = "idle" /\ replies' = Append(replies, busyFor)
      /\ runs' = [i \in RunIDs |-> R(i)]
  BY DEF Answer, masterVars, historyVars
<1>2. n \in Nat /\ Len(replies') = n + 1 /\ OpenCodeOK'
  BY <1>1, AppendProperties, LenProperties DEF GatewayInv, OpenCodeOK
<1>3. Settles
  <2>1. tstatus' = tstatus
    BY <1>1
  <2>2. n <= n + 1
    BY <1>2
  <2> QED
    BY <1>2, <2>1, <2>2 DEF Settles, Onward
<1>4. EventsOK' /\ runs \in Seq(G)
  BY <1>1, <1>3, OldEvents DEF GatewayInv, EventsOK
<1>5. \A i \in 1 .. Len(runs) : R(i) \in G
  <2> SUFFICES ASSUME NEW i \in 1 .. Len(runs) PROVE R(i) \in G
    OBVIOUS
  <2>1. runs[i] \in G
    BY <1>4, ElementOfSeq
  <2>2. n + 1 \in 0 .. Len(replies')
    BY <1>2
  <2> QED
    BY <2>1, <2>2 DEF GoodRun
<1>6. RunsOK'
  <2>1. Len(runs) \in Nat
    BY <1>4, LenProperties
  <2>2. runs' = [i \in 1 .. Len(runs) |-> R(i)]
    BY <1>1 DEF RunIDs
  <2> HIDE DEF G, R
  <2>3. runs' \in Seq(G)
    BY <1>5, <2>1, <2>2
  <2> QED
    BY <2>3 DEF G, RunsOK
<1> QED
  BY <1>1, <1>2, <1>4, <1>6 DEF GatewayInv, MasterOK, HistoryOK

-----------------------------------------------------------------------------
(* The theorems.                                                           *)

LEMMA GatewayInit == Init => GatewayInv
  BY Turns DEF Init, GatewayInv, MasterOK, EventsOK, RunsOK, OpenCodeOK, HistoryOK, Status

LEMMA GatewayStep ==
  ASSUME GatewayInv, [Next]_gatewayVars
  PROVE  GatewayInv'
<1>1. ASSUME NEW t \in Turn, Prompt(t) \/ Reply(t) PROVE GatewayInv'
  BY <1>1, PromptStep, ReplyStep
<1>2. ASSUME NEW i \in RunIDs, RunStepOf(i) PROVE GatewayInv'
  BY <1>2, BeginStep, SendStep, PollsOnStep, AskStep, FinishStep DEF RunStepOf, Poll
<1>3. ASSUME NEW i \in RunIDs,
             RequestFails(i) \/ AnswerRefused(i) \/ AnswerLost(i) \/ TimeOut(i) \/ FinishCutShort(i)
      PROVE  GatewayInv'
  BY <1>3, PollsOnStep, ThrowStep, CutShortStep
<1>4. CASE End \/ NativeAbort \/ StepFailed \/ Restart
  BY <1>4, EndStep, NativeAbortStep, RestartStep
<1>5. CASE Take \/ Write \/ NextMessage \/ Answer \/ Question
  BY <1>5, OpenCodeStep, AnswerStep
<1>6. CASE UNCHANGED gatewayVars
  BY <1>6, SameEvents DEF gatewayVars, masterVars, processVars, openCodeVars, historyVars,
                          GatewayInv, MasterOK, OpenCodeOK, HistoryOK
<1> QED
  BY <1>1, <1>2, <1>3, <1>4, <1>5, <1>6 DEF Next

LEMMA GatewaySafe == Spec => []GatewayInv
  BY GatewayInit, GatewayStep, PTL DEF Spec

\* server.ts, runGatewayPrompt and runGatewayResume: the rows of the gateway
\* have their types, and every event and every run is of a turn that exists.
THEOREM GatewayTyped == Spec => []GatewayTypeOK
<1>1. GatewayInv => GatewayTypeOK
  <2> SUFFICES ASSUME GatewayInv PROVE GatewayTypeOK
    OBVIOUS
  <2>1. \A k \in 1 .. Len(journal) : journal[k] \in GoodEvent(tstatus, Len(replies))
    BY ElementOfSeq DEF GatewayInv, EventsOK
  <2>2. \A k \in RunIDs : runs[k] \in GoodRun(tstatus, Len(replies))
    BY RunShape DEF GatewayInv
  <2>3. \A k \in 1 .. Len(replies) : replies[k] \in Turn
    BY ElementOfSeq DEF GatewayInv, OpenCodeOK
  <2> QED
    BY <2>1, <2>2, <2>3 DEF GatewayTypeOK, GatewayInv, MasterOK, OpenCodeOK, HistoryOK,
                            GoodEvent, GoodRun, Status
<1> QED
  BY <1>1, GatewaySafe, PTL

\* server.ts, runGatewayPrompt and runGatewayResume: whoever reads the end of a turn can prompt again, whatever
\* run, failure or restart journaled it.
THEOREM EndIsSettled == Spec => []EndMeansSettled
<1>1. GatewayInv => EndMeansSettled
  <2> SUFFICES ASSUME GatewayInv, NEW t \in Turn, NEW k \in 1 .. Len(journal),
                      journal[k].turn = t, journal[k].kind \in {"session.idle", "error"}
               PROVE  ~Active(t)
    BY DEF EndMeansSettled, Emitted
  <2>1. journal[k] \in GoodEvent(tstatus, Len(replies))
    BY ElementOfSeq DEF GatewayInv, EventsOK
  <2> QED
    BY <2>1 DEF GoodEvent, Active
<1> QED
  BY <1>1, GatewaySafe, PTL
-----------------------------------------------------------------------------
(* A reply goes to its turn.  The run that takes a reply is the only one   *)
(* of its turn, and its turn is the active one, unless two runs of it were *)
(* under way at once.  OpenCode works for the active turn, for one that a  *)
(* run left or for one that had two runs.  So a reply that appears during  *)
(* a run is its turn's or was written for a turn of these.                 *)

Going(i) == runs[i].at # "done"
Polling(i) == runs[i].at \notin {"start", "done"}

\* A reply k that turn t may take.
Fits(k, t) ==
    /\ k \in 1 .. Len(replies)
    /\ replies[k] = t \/ replies[k] \in left \cup twice \/ t \in twice

OneActive == \A r, t \in Turn : Active(r) /\ Active(t) => r = t

GoingIsActive == \A i \in RunIDs : Going(i) => Active(runs[i].turn) \/ runs[i].turn \in twice

RunsApart ==
    \A i, j \in RunIDs :
        i # j /\ runs[i].turn = runs[j].turn /\ Going(i) /\ Going(j) => runs[i].turn \in twice

WorkIsOwned == \A t \in Turn : AtWorkFor(t) => Active(t) \/ t \in left \cup twice

NewRepliesFit ==
    \A i \in RunIDs : Polling(i) =>
        \A k \in runs[i].known + 1 .. Len(replies) : Fits(k, runs[i].turn)

JournalFits ==
    \A k \in 1 .. Len(journal) :
        journal[k].kind = "message" => Fits(journal[k].ref, journal[k].turn)

RunsFit == OneActive /\ GoingIsActive /\ RunsApart /\ NewRepliesFit

ReplyInv == GatewayInv /\ RunsFit /\ WorkIsOwned /\ JournalFits

-----------------------------------------------------------------------------
(* Shapes of steps.                                                        *)

\* The journal grows by events of S.
Added(S) ==
    \A k \in 1 .. Len(journal') :
        journal'[k] \in S \/ (k \in 1 .. Len(journal) /\ journal'[k] = journal[k])

\* Every run stays where it is or goes on.
MovesOn(i) ==
    /\ runs'[i].turn = runs[i].turn
    /\ Going(i)' => Going(i)
    /\ Polling(i)' => \/ Polling(i) /\ runs'[i].known = runs[i].known
                      \/ runs'[i].known = Len(replies)

RunsMoveOn == RunIDs' = RunIDs /\ \A i \in RunIDs : MovesOn(i)

\* What is forgotten is nothing.
Remembers == left \subseteq left' /\ twice \subseteq twice'

LEMMA NoneAdded == ASSUME GatewayInv, journal' = journal PROVE Added({})
  BY DEF Added

LEMMA OneAdded == ASSUME GatewayInv, NEW e, journal' = Append(journal, e) PROVE Added({e})
<1>1. PICK S : journal \in Seq(S)
  BY DEF GatewayInv, EventsOK
<1> QED
  BY <1>1 DEF Added

LEMMA TwoAdded ==
  ASSUME GatewayInv, NEW a, NEW b, journal' = journal \o <<a, b>>
  PROVE  Added({a, b})
<1>1. PICK S : journal \in Seq(S)
  BY DEF GatewayInv, EventsOK
<1> QED
  BY <1>1 DEF Added

LEMMA LastAdded ==
  ASSUME GatewayInv, NEW e, journal' = journal \o << >> \o <<e>>
  PROVE  Added({e})
<1>1. PICK S : journal \in Seq(S)
  BY DEF GatewayInv, EventsOK
<1> QED
  BY <1>1 DEF Added

LEMMA BothAdded ==
  ASSUME GatewayInv, NEW a, NEW b, journal' = journal \o <<a>> \o <<b>>
  PROVE  Added({a, b})
<1>1. PICK S : journal \in Seq(S)
  BY DEF GatewayInv, EventsOK
<1> QED
  BY <1>1 DEF Added

LEMMA GotoShape ==
  ASSUME GatewayInv, NEW i \in RunIDs, NEW at \in RunStep, Goto(i, at)
  PROVE  /\ RunIDs' = RunIDs
         /\ \A j \in RunIDs : /\ runs'[j].turn = runs[j].turn /\ runs'[j].how = runs[j].how
                              /\ runs'[j].known = runs[j].known
                              /\ runs'[j].at = IF j = i THEN at ELSE runs[j].at
<1> DEFINE r == [runs[i] EXCEPT !.at = at]
<1>1. PICK S : runs \in Seq(S)
  BY DEF GatewayInv, RunsOK
<1>2. Len(runs) \in Nat /\ DOMAIN runs = 1 .. Len(runs) /\ i \in 1 .. Len(runs)
  BY <1>1 DEF RunIDs
<1>3. runs[i] \in GoodRun(tstatus, Len(replies))
  BY RunShape DEF GatewayInv
<1>4. r.turn = runs[i].turn /\ r.how = runs[i].how /\ r.known = runs[i].known /\ r.at = at
  BY <1>3 DEF GoodRun
<1>5. runs' = [runs EXCEPT ![i] = r]
  BY DEF Goto
<1> HIDE DEF r
<1>6. runs' = [j \in 1 .. Len(runs) |-> IF j = i THEN r ELSE runs[j]]
  BY <1>2, <1>5
<1>7. Len(runs') = Len(runs) /\ \A j \in 1 .. Len(runs) : runs'[j] = IF j = i THEN r ELSE runs[j]
  BY <1>1, <1>2, <1>5, <1>6
<1> QED
  BY <1>4, <1>7 DEF RunIDs

LEMMA ReturnShape ==
  ASSUME GatewayInv, NEW i \in RunIDs, Return(i)
  PROVE  /\ RunIDs' = RunIDs
         /\ \A j \in RunIDs : /\ runs'[j].turn = runs[j].turn
                              /\ j # i => runs'[j] = runs[j]
                              /\ j = i => runs'[j].at = "done"
<1> DEFINE r == [runs[i] EXCEPT !.at = "done", !.answers = 0, !.known = 0, !.saw = FALSE, !.failed = FALSE]
<1>1. PICK S : runs \in Seq(S)
  BY DEF GatewayInv, RunsOK
<1>2. Len(runs) \in Nat /\ DOMAIN runs = 1 .. Len(runs) /\ i \in 1 .. Len(runs)
  BY <1>1 DEF RunIDs
<1>3. runs[i] \in GoodRun(tstatus, Len(replies))
  BY RunShape DEF GatewayInv
<1>4. r.turn = runs[i].turn /\ r.at = "done"
  BY <1>3 DEF GoodRun
<1>5. runs' = [runs EXCEPT ![i] = r]
  BY DEF Return
<1> HIDE DEF r
<1>6. runs' = [j \in 1 .. Len(runs) |-> IF j = i THEN r ELSE runs[j]]
  BY <1>2, <1>5
<1>7. Len(runs') = Len(runs) /\ \A j \in 1 .. Len(runs) : runs'[j] = IF j = i THEN r ELSE runs[j]
  BY <1>1, <1>2, <1>5, <1>6
<1> QED
  BY <1>4, <1>7 DEF RunIDs

LEMMA GotoMovesOn ==
  ASSUME GatewayInv, NEW i \in RunIDs, NEW at \in RunStep \ {"start", "send"},
         Goto(i, at), Polling(i)
  PROVE  RunsMoveOn
<1>1. /\ RunIDs' = RunIDs
      /\ \A j \in RunIDs : /\ runs'[j].turn = runs[j].turn /\ runs'[j].how = runs[j].how
                           /\ runs'[j].known = runs[j].known
                           /\ runs'[j].at = IF j = i THEN at ELSE runs[j].at
  BY GotoShape
<1>2. ASSUME NEW j \in RunIDs PROVE MovesOn(j)
  BY <1>1 DEF MovesOn, Going, Polling
<1> QED
  BY <1>1, <1>2 DEF RunsMoveOn

\* A step in which the runs move on, nothing is forgotten and nothing comes
\* from OpenCode keeps RunsFit, if it leaves a run its turn.
LEMMA GoOn ==
  ASSUME ReplyInv, RunsMoveOn, Remembers, replies' = replies,
         \A t \in Turn : Active(t)' => Active(t),
         \A i \in RunIDs : Going(i)' /\ Active(runs[i].turn)
             => Active(runs[i].turn)' \/ runs[i].turn \in twice'
  PROVE  RunsFit'
<1>1. RunIDs' = RunIDs /\ \A i \in RunIDs : MovesOn(i)
  BY DEF RunsMoveOn
<1>2. OneActive'
  BY DEF ReplyInv, RunsFit, OneActive
<1>3. GoingIsActive'
  BY <1>1 DEF ReplyInv, RunsFit, GoingIsActive, MovesOn, Remembers
<1>4. RunsApart'
  BY <1>1 DEF ReplyInv, RunsFit, RunsApart, MovesOn, Remembers
<1>6. NewRepliesFit'
  <2> SUFFICES ASSUME NEW i \in RunIDs, Polling(i)', NEW k \in runs'[i].known + 1 .. Len(replies)
               PROVE  Fits(k, runs[i].turn)'
    BY <1>1 DEF NewRepliesFit
  <2>1. runs'[i].turn = runs[i].turn
    BY <1>1 DEF MovesOn
  <2>2. Len(replies) \in Nat
    BY LenProperties DEF ReplyInv, GatewayInv, OpenCodeOK
  <2>3. Polling(i) /\ runs'[i].known = runs[i].known
    BY <1>1, <2>2 DEF MovesOn
  <2>4. Fits(k, runs[i].turn)
    BY <2>3 DEF ReplyInv, RunsFit, NewRepliesFit
  <2> QED
    BY <2>1, <2>4 DEF Fits, Remembers
<1> QED
  BY <1>2, <1>3, <1>4, <1>6 DEF RunsFit

LEMMA WorkStaysOwned ==
  ASSUME ReplyInv, Remembers,
         \A t \in Turn : AtWorkFor(t)' => AtWorkFor(t) \/ Active(t)' \/ t \in left' \cup twice',
         \A t \in Turn : AtWorkFor(t)' /\ Active(t) => Active(t)' \/ t \in left' \cup twice'
  PROVE  WorkIsOwned'
  BY DEF ReplyInv, WorkIsOwned, Remembers

\* Messages of the journal keep their replies, new ones have one that fits.
LEMMA JournalGrows ==
  ASSUME ReplyInv, Remembers, replies' = replies, NEW S, Added(S),
         \A e \in S : e.kind = "message" => Fits(e.ref, e.turn)
  PROVE  JournalFits'
<1> SUFFICES ASSUME NEW k \in 1 .. Len(journal'), journal'[k].kind = "message"
             PROVE  Fits(journal[k].ref, journal[k].turn)'
  BY DEF JournalFits
<1>1. CASE journal'[k] \in S
  BY <1>1 DEF Fits, Remembers
<1>2. CASE k \in 1 .. Len(journal) /\ journal'[k] = journal[k]
  BY <1>2 DEF ReplyInv, JournalFits, Remembers, Fits
<1> QED
  BY <1>1, <1>2 DEF Added

-----------------------------------------------------------------------------
(* The steps that neither settle a turn nor write to the journal.          *)

LEMMA QuietStep ==
  ASSUME ReplyInv, GatewayInv', RunsMoveOn, UNCHANGED <<tstatus, journal, replies, left, twice>>,
         \A t \in Turn : AtWorkFor(t)' => AtWorkFor(t) \/ Active(t) \/ t \in twice
  PROVE  ReplyInv'
<1>1. Remembers /\ \A t : Active(t)' = Active(t)
  BY DEF Remembers, Active
<1>3. \A i \in RunIDs : Active(runs[i].turn)' = Active(runs[i].turn)
  BY DEF RunsMoveOn, MovesOn, Active
<1>4. RunsFit'
  BY <1>1, <1>3, GoOn
<1>5. WorkIsOwned'
  BY <1>1, WorkStaysOwned
<1>6. JournalFits'
  BY <1>1, NoneAdded, JournalGrows DEF ReplyInv
<1> QED
  BY <1>4, <1>5, <1>6 DEF ReplyInv

LEMMA RunsStay == ASSUME runs' = runs PROVE RunsMoveOn
  BY DEF RunsMoveOn, RunIDs, MovesOn, Going, Polling

LEMMA HeardMovesOn == ASSUME GatewayInv, Heard PROVE RunsMoveOn
<1> DEFINE R(i) == [runs[i] EXCEPT !.failed = @ \/ (Subscribed(i) /\ ~runs[i].saw /\ busy # "starting"),
                                   !.saw = FALSE]
<1>1. \A i \in RunIDs : runs[i] \in GoodRun(tstatus, Len(replies))
  BY RunShape DEF GatewayInv
<1>2. \A i \in RunIDs : /\ R(i).turn = runs[i].turn /\ R(i).how = runs[i].how
                        /\ R(i).known = runs[i].known /\ R(i).at = runs[i].at
  BY <1>1 DEF GoodRun
<1>3. Len(runs) \in Nat /\ runs' = [i \in 1 .. Len(runs) |-> R(i)]
  BY LenProperties DEF Heard, RunIDs, GatewayInv, RunsOK
<1> HIDE DEF R
<1>4. RunIDs' = RunIDs /\ \A i \in RunIDs : runs'[i] = R(i)
  BY <1>3 DEF RunIDs
<1> QED
  BY <1>2, <1>4 DEF RunsMoveOn, MovesOn, Going, Polling

LEMMA UnseenMovesOn ==
  ASSUME GatewayInv, MessageOver
  PROVE  RunsMoveOn
<1> DEFINE R(i) == [runs[i] EXCEPT !.saw = FALSE]
<1>1. \A i \in RunIDs : runs[i] \in GoodRun(tstatus, Len(replies))
  BY RunShape DEF GatewayInv
<1>2. \A i \in RunIDs : R(i).turn = runs[i].turn /\ R(i).known = runs[i].known /\ R(i).at = runs[i].at
  BY <1>1 DEF GoodRun
<1>3. Len(runs) \in Nat /\ runs' = [i \in 1 .. Len(runs) |-> R(i)]
  BY LenProperties DEF MessageOver, RunIDs, GatewayInv, RunsOK
<1> HIDE DEF R
<1>4. RunIDs' = RunIDs /\ \A i \in RunIDs : runs'[i] = R(i)
  BY <1>3 DEF RunIDs
<1> QED
  BY <1>2, <1>4 DEF RunsMoveOn, MovesOn, Going, Polling

LEMMA QuietOpenCode ==
  ASSUME ReplyInv, GatewayInv',
         End \/ NativeAbort \/ StepFailed \/ Take \/ Write \/ NextMessage \/ Question
  PROVE  ReplyInv'
<1>1. UNCHANGED <<tstatus, journal, replies, left, twice>>
  BY DEF End, NativeAbort, StepFailed, Take, Write, NextMessage, Question,
         masterVars, openCodeVars, historyVars
<1>2. RunsMoveOn
  BY RunsStay, HeardMovesOn, UnseenMovesOn
     DEF End, NativeAbort, StepFailed, StepFails, Take, Write, NextMessage, MessageOver, Question,
         processVars, ReplyInv
<1>3. \A t \in Turn : AtWorkFor(t)' => AtWorkFor(t)
  <2>1. CASE End
    BY <2>1 DEF End, openCodeVars, AtWorkFor
  <2>2. CASE NativeAbort \/ StepFailed \/ Write \/ NextMessage \/ Question
    BY <2>2 DEF NativeAbort, StepFailed, StepFails, Write, NextMessage, Question, AtWorkFor
  <2>3. CASE Take
    <3>1. queue \in Seq(Turn) /\ queue # << >> /\ queue' = Tail(queue) /\ busyFor' = Head(queue)
      BY <2>3 DEF Take, ReplyInv, GatewayInv, OpenCodeOK
    <3>2. /\ Len(queue) \in Nat \ {0} /\ busyFor' = queue[1] /\ Len(queue') = Len(queue) - 1
          /\ \A i \in 1 .. Len(queue) - 1 : queue'[i] = queue[i + 1]
      BY <3>1
    <3> QED
      BY <3>2 DEF AtWorkFor
  <2> QED
    BY <2>1, <2>2, <2>3
<1> QED
  BY <1>1, <1>2, <1>3, QuietStep

LEMMA QuietBegin ==
  ASSUME ReplyInv, GatewayInv', NEW i \in RunIDs, Begin(i)
  PROVE  ReplyInv'
<1>1. UNCHANGED <<tstatus, journal, replies, left, twice>>
  BY DEF Begin, masterVars, openCodeVars, historyVars
<1>2. RunsMoveOn
  <2> DEFINE r == [runs[i] EXCEPT !.known = Len(replies), !.saw = busy \in {"working", "asking"}, !.at = "send"]
  <2>1. PICK S : runs \in Seq(S)
    BY DEF ReplyInv, GatewayInv, RunsOK
  <2>2. Len(runs) \in Nat /\ DOMAIN runs = 1 .. Len(runs) /\ i \in 1 .. Len(runs)
    BY <2>1 DEF RunIDs
  <2>3. runs[i] \in GoodRun(tstatus, Len(replies))
    BY RunShape DEF ReplyInv, GatewayInv
  <2>4. r.turn = runs[i].turn /\ r.how = runs[i].how /\ r.known = Len(replies) /\ r.at = "send"
    BY <2>3 DEF GoodRun
  <2>5. runs' = [runs EXCEPT ![i] = r] /\ runs[i].at = "start"
    BY DEF Begin, Known
  <2> HIDE DEF r
  <2>6. Len(runs') = Len(runs) /\ \A j \in 1 .. Len(runs) : runs'[j] = IF j = i THEN r ELSE runs[j]
    BY <2>1, <2>2, <2>5
  <2>7. ASSUME NEW j \in RunIDs PROVE MovesOn(j)
    BY <2>4, <2>5, <2>6 DEF MovesOn, Going, Polling, RunIDs
  <2> QED
    BY <2>6, <2>7 DEF RunsMoveOn, RunIDs
<1>3. \A t \in Turn : AtWorkFor(t)' => AtWorkFor(t)
  BY DEF Begin, openCodeVars, AtWorkFor
<1> QED
  BY <1>1, <1>2, <1>3, QuietStep

LEMMA QuietSend ==
  ASSUME ReplyInv, GatewayInv', NEW i \in RunIDs, Send(i)
  PROVE  ReplyInv'
<1>1. UNCHANGED <<tstatus, journal, replies, left, twice>> /\ Goto(i, "abort?") /\ runs[i].at = "send"
  BY DEF Send, masterVars, historyVars
<1>2. RunsMoveOn
  BY <1>1, GotoMovesOn DEF Polling, RunStep, ReplyInv
<1>3. \A t \in Turn : AtWorkFor(t)' => AtWorkFor(t) \/ Active(t) \/ t \in twice
  <2>1. CASE runs[i].how = "prompt"
    <3>1. Active(runs[i].turn) \/ runs[i].turn \in twice
      BY <1>1 DEF Going, ReplyInv, RunsFit, GoingIsActive
    <3>2. queue \in Seq(Turn) /\ queue' = Append(queue, runs[i].turn) /\ busy' = busy /\ busyFor' = busyFor
      BY <2>1 DEF Send, ReplyInv, GatewayInv, OpenCodeOK
    <3>3. \A k \in 1 .. Len(queue') : queue'[k] = runs[i].turn \/ (k \in 1 .. Len(queue) /\ queue'[k] = queue[k])
      BY <3>2
    <3> QED
      BY <3>1, <3>2, <3>3 DEF AtWorkFor
  <2>2. CASE runs[i].how # "prompt"
    BY <2>2 DEF Send, PostAnswer, Pending, AtWorkFor
  <2> QED
    BY <2>1, <2>2
<1> QED
  BY <1>1, <1>2, <1>3, QuietStep

LEMMA QuietPoll ==
  ASSUME ReplyInv, GatewayInv', NEW i \in RunIDs, NoAbort(i) \/ PollAgain(i) \/ AnswerRefused(i)
  PROVE  ReplyInv'
<1>1. /\ UNCHANGED <<tstatus, journal, replies, left, twice>> /\ UNCHANGED openCodeVars
      /\ runs[i].at \in {"abort?", "reply?", "send"}
      /\ Goto(i, "question?") \/ Goto(i, "abort?")
  BY DEF NoAbort, PollAgain, AnswerRefused, masterVars, historyVars, openCodeVars
<1>2. RunsMoveOn
  BY <1>1, GotoMovesOn DEF Polling, RunStep, ReplyInv
<1>3. \A t \in Turn : AtWorkFor(t)' => AtWorkFor(t)
  BY <1>1 DEF openCodeVars, AtWorkFor
<1> QED
  BY <1>1, <1>2, <1>3, QuietStep

-----------------------------------------------------------------------------
(* The steps that end a run.                                               *)

\* The last run of a turn, or one of a turn that was answered twice.
LEMMA RunLeaves ==
  ASSUME ReplyInv, GatewayInv', NEW i \in RunIDs, Going(i), Return(i),
         Remembers, replies' = replies,
         \A t \in Turn : Active(t)' => Active(t),
         \A t \in Turn : t # runs[i].turn => Active(t)' = Active(t)
  PROVE  RunsFit'
<1> DEFINE t == runs[i].turn
<1>1. /\ RunIDs' = RunIDs
      /\ \A j \in RunIDs : /\ runs'[j].turn = runs[j].turn
                           /\ j # i => runs'[j] = runs[j]
                           /\ j = i => runs'[j].at = "done"
  BY ReturnShape DEF ReplyInv
<1>2. ASSUME NEW j \in RunIDs PROVE MovesOn(j)
  BY <1>1 DEF MovesOn, Going, Polling
<1>3. RunsMoveOn
  BY <1>1, <1>2 DEF RunsMoveOn
<1>4. ASSUME NEW j \in RunIDs PROVE runs[j].turn \in Turn
  BY RunShape DEF ReplyInv, GatewayInv
<1>5. ASSUME NEW j \in RunIDs, Going(j)', Active(runs[j].turn)
      PROVE  Active(runs[j].turn)' \/ runs[j].turn \in twice'
  <2>1. j # i /\ Going(j)
    BY <1>1, <1>5 DEF Going
  <2>2. runs[j].turn = t => t \in twice
    BY <2>1 DEF ReplyInv, RunsFit, RunsApart
  <2>3. Active(runs[j].turn)' = (tstatus'[runs[j].turn] = "active")
    BY <1>1 DEF Active
  <2> QED
    BY <1>1, <1>4, <1>5, <2>2, <2>3 DEF Remembers, Active
<1> QED
  BY <1>3, <1>5, GoOn

\* A run that is polling has the newest reply for its turn, if it has one.
LEMMA NewestFits ==
  ASSUME ReplyInv, NEW i \in RunIDs, runs[i].at = "reply?", HasReply(i)
  PROVE  Fits(Len(replies), runs[i].turn)
<1>1. Len(replies) \in Nat /\ runs[i].known \in Nat
  <2>1. runs[i] \in GoodRun(tstatus, Len(replies))
    BY RunShape DEF ReplyInv, GatewayInv
  <2> QED
    BY <2>1, LenProperties DEF GoodRun, ReplyInv, GatewayInv, OpenCodeOK
<1>2. Len(replies) \in runs[i].known + 1 .. Len(replies)
  BY <1>1 DEF HasReply
<1> QED
  BY <1>2 DEF Polling, ReplyInv, RunsFit, NewRepliesFit

LEMMA FinishFits ==
  ASSUME ReplyInv, GatewayInv', NEW i \in RunIDs, YieldToAbort(i) \/ TakeReply(i) \/ Suspend(i)
  PROVE  ReplyInv'
<1> DEFINE t == runs[i].turn
           m == Event(t, "message", Len(replies))
           e == Event(t, "session.idle", 0)
<1>1. /\ UNCHANGED <<twice, replies, busy, busyFor, queue>> /\ Polling(i)
      /\ Leave(i) /\ Complete(t)
      /\ \/ journal' = journal \o << >> \o <<e>>
         \/ journal' = journal \o <<m>> \o <<e>> /\ runs[i].at = "reply?" /\ HasReply(i)
  BY DEF YieldToAbort, TakeReply, Suspend, Finish, openCodeVars, Polling
<1>2. /\ Return(i) /\ left' = IF AtWorkFor(t) THEN left \cup {t} ELSE left
      /\ tstatus' = IF Active(t) THEN [tstatus EXCEPT ![t] = "completed"] ELSE tstatus
  BY <1>1 DEF Leave, Complete
<1>3. t \in Turn
  BY RunShape DEF ReplyInv, GatewayInv
<1>4. e.turn = t /\ m.turn = t /\ e.kind = "session.idle" /\ m.kind = "message" /\ m.ref = Len(replies)
  BY DEF Event
<1> DEFINE Fit(x) == x.turn = t /\ (x.kind = "message" => Fits(x.ref, x.turn))
<1>5. PICK S : Added(S) /\ \A x \in S : Fit(x)
  <2>1. Fit(e)
    BY <1>4
  <2>2. CASE journal' = journal \o << >> \o <<e>>
    <3> HIDE DEF e, Fit
    <3>1. Added({e}) /\ \A x \in {e} : Fit(x)
      BY <2>1, <2>2, LastAdded DEF ReplyInv
    <3> QED
      BY <3>1
  <2>3. CASE journal' = journal \o <<m>> \o <<e>> /\ runs[i].at = "reply?" /\ HasReply(i)
    <3>1. Fit(m)
      BY <1>4, <2>3, NewestFits
    <3> HIDE DEF e, m, Fit
    <3>2. Added({m, e}) /\ \A x \in {m, e} : Fit(x)
      BY <2>1, <2>3, <3>1, BothAdded DEF ReplyInv
    <3> QED
      BY <3>2
  <2> QED
    BY <1>1, <2>2, <2>3
<1>6. Remembers
  BY <1>1, <1>2 DEF Remembers
<1>7. \A u \in Turn : Active(u)' => Active(u) /\ (u # t => Active(u)' = Active(u))
  <2> HIDE DEF t
  <2> QED
    BY <1>2 DEF Active, ReplyInv, GatewayInv, MasterOK
<1>8. \A u \in Turn : u # t => Active(u)' = Active(u)
  <2> HIDE DEF t
  <2> QED
    BY <1>2 DEF Active, ReplyInv, GatewayInv, MasterOK
<1>9. RunsFit'
  BY <1>1, <1>2, <1>6, <1>7, <1>8, RunLeaves DEF Polling, Going
<1>10. WorkIsOwned'
  <2> HIDE DEF t
  <2>1. \A u \in Turn : AtWorkFor(u)' => AtWorkFor(u)
    BY <1>1 DEF AtWorkFor
  <2> QED
    BY <1>2, <1>6, <1>8, <2>1, WorkStaysOwned
<1>11. JournalFits'
  BY <1>1, <1>5, <1>6, JournalGrows
<1> QED
  BY <1>9, <1>10, <1>11 DEF ReplyInv

LEMMA ThrowFits ==
  ASSUME ReplyInv, GatewayInv', NEW i \in RunIDs, RequestFails(i) \/ AnswerLost(i) \/ TimeOut(i)
  PROVE  ReplyInv'
<1> DEFINE t == runs[i].turn
           e == Event(t, "error", 0)
<1>1. /\ UNCHANGED <<twice, replies, busyFor>> /\ Going(i) /\ Throw(i)
      /\ busy' # "idle" => busy # "idle"
      /\ queue' = queue \/ queue' = Append(queue, t)
  BY DEF RequestFails, AnswerLost, PostAnswer, Pending, TimeOut, Throw, openCodeVars, Going
<1>2. /\ Return(i) /\ left' = IF AtWorkFor(t)' THEN left \cup {t} ELSE left
      /\ tstatus' = IF Active(t) THEN [tstatus EXCEPT ![t] = "failed"] ELSE tstatus
      /\ journal' = Append(journal, e)
  BY <1>1 DEF Throw
<1>3. t \in Turn
  BY RunShape DEF ReplyInv, GatewayInv
<1>4. e.turn = t /\ e.kind = "error"
  BY DEF Event
<1>5. Added({e})
  <2> HIDE DEF e
  <2> QED
    BY <1>2, OneAdded DEF ReplyInv
<1>6. Remembers
  BY <1>1, <1>2 DEF Remembers
<1>7. \A u \in Turn : (Active(u)' => Active(u)) /\ (u # t => Active(u)' = Active(u))
  <2> HIDE DEF t
  <2> QED
    BY <1>2 DEF Active, ReplyInv, GatewayInv, MasterOK
<1>8. RunsFit'
  BY <1>1, <1>2, <1>6, <1>7, RunLeaves
<1>9. WorkIsOwned'
  <2>1. runs'[i].turn = runs[i].turn
    BY <1>2, ReturnShape DEF ReplyInv
  <2>2. t \in left' \/ ~ \E k \in 1 .. Len(queue') : queue'[k] = t
    BY <1>2, <2>1 DEF AtWorkFor
  <2>3. busy' # "idle" /\ busyFor' = t => t \in left'
    BY <1>2, <2>1 DEF AtWorkFor
  <2>4. \A k \in 1 .. Len(queue') : queue'[k] = t \/ (k \in 1 .. Len(queue) /\ queue'[k] = queue[k])
    <3> HIDE DEF t
    <3>1. queue \in Seq(Turn)
      BY DEF ReplyInv, GatewayInv, OpenCodeOK
    <3> QED
      BY <1>1, <3>1
  <2> HIDE DEF t
  <2>5. \A u \in Turn : AtWorkFor(u)' => u \in left' \/ (u # t /\ AtWorkFor(u))
    BY <1>1, <2>2, <2>3, <2>4 DEF AtWorkFor
  <2> QED
    BY <1>6, <1>7, <2>5, WorkStaysOwned
<1>10. JournalFits'
  BY <1>1, <1>4, <1>5, <1>6, JournalGrows
<1> QED
  BY <1>8, <1>9, <1>10 DEF ReplyInv

LEMMA AskFits ==
  ASSUME ReplyInv, GatewayInv', NEW i \in RunIDs, Ask(i)
  PROVE  ReplyInv'
<1> DEFINE t == runs[i].turn
           a == Event(t, "question", asked)
           b == Event(t, "waiting", 0)
<1>1. /\ UNCHANGED <<tstatus, replies, left, twice, busy, busyFor, queue>> /\ runs[i].at = "question?"
      /\ \/ Return(i) /\ journal' = journal \o <<a, b>>
         \/ Goto(i, "reply?") /\ journal' = journal
  BY DEF Ask, openCodeVars, historyVars
<1>2. CASE Goto(i, "reply?") /\ journal' = journal
  <2>1. RunsMoveOn
    BY <1>1, <1>2, GotoMovesOn DEF Polling, RunStep, ReplyInv
  <2>2. \A u \in Turn : AtWorkFor(u)' => AtWorkFor(u)
    BY <1>1 DEF AtWorkFor
  <2> QED
    BY <1>1, <1>2, <2>1, <2>2, QuietStep
<1>3. CASE Return(i) /\ journal' = journal \o <<a, b>>
  <2>1. a.turn = t /\ b.turn = t /\ a.kind = "question" /\ b.kind = "waiting"
    BY DEF Event
  <2>2. Added({a, b})
    <3> HIDE DEF a, b
    <3> QED
      BY <1>3, TwoAdded DEF ReplyInv
  <2>3. Remembers /\ \A u : Active(u)' = Active(u) /\ AtWorkFor(u)' = AtWorkFor(u)
    BY <1>1 DEF Remembers, Active, AtWorkFor
  <2>4. RunsFit'
    BY <1>1, <1>3, <2>3, RunLeaves DEF Going
  <2>5. WorkIsOwned'
    BY <2>3, WorkStaysOwned
  <2>6. JournalFits'
    BY <1>1, <2>1, <2>2, <2>3, JournalGrows
  <2> QED
    BY <2>4, <2>5, <2>6 DEF ReplyInv
<1> QED
  BY <1>1, <1>2, <1>3

-----------------------------------------------------------------------------
(* The steps that start a run or end the process, and OpenCode's answers.  *)

LEMMA NoRunsFit == ASSUME runs' = << >>, OneActive' PROVE RunsFit'
  BY DEF RunsFit, RunIDs, GoingIsActive, RunsApart, NewRepliesFit

LEMMA NewProcessFits ==
  ASSUME ReplyInv, GatewayInv', Restart \/ \E i \in RunIDs : FinishCutShort(i)
  PROVE  ReplyInv'
<1>1. /\ UNCHANGED <<twice, replies, busy, busyFor, queue>> /\ runs' = << >>
      /\ left' = left \cup {u \in Turn : AtWorkFor(u)}
  BY DEF Restart, FinishCutShort, NewProcess, openCodeVars
<1>2. Remembers
  BY <1>1 DEF Remembers
<1>3. WorkIsOwned'
  BY <1>1 DEF WorkIsOwned, AtWorkFor
<1>4. OneActive' /\ JournalFits'
  <2>1. CASE Restart
    <3>1. UNCHANGED <<tstatus, journal>>
      BY <2>1 DEF Restart, masterVars
    <3>2. Added({})
      BY <3>1, NoneAdded DEF ReplyInv
    <3>3. JournalFits'
      BY <1>1, <1>2, <3>2, JournalGrows
    <3> QED
      BY <3>1, <3>3 DEF ReplyInv, RunsFit, OneActive, Active
  <2>2. ASSUME NEW i \in RunIDs, FinishCutShort(i)
        PROVE  OneActive' /\ JournalFits'
    <3> DEFINE t == runs[i].turn
               m == Event(t, "message", Len(replies))
    <3>1. /\ journal' = Append(journal, m) /\ runs[i].at = "reply?" /\ HasReply(i)
          /\ tstatus' = tstatus \/ tstatus' = [tstatus EXCEPT ![t] = "completed"]
      BY <2>2 DEF FinishCutShort, Complete
    <3>2. m.turn = t /\ m.ref = Len(replies) /\ Fits(Len(replies), t)
      BY <3>1, NewestFits DEF Event
    <3>3. Added({m})
      <4> HIDE DEF m
      <4> QED
        BY <3>1, OneAdded DEF ReplyInv
    <3>4. JournalFits'
      BY <1>1, <1>2, <3>2, <3>3, JournalGrows
    <3> HIDE DEF t
    <3>5. \A u \in Turn : Active(u)' => Active(u)
      BY <3>1 DEF Active, ReplyInv, GatewayInv, MasterOK
    <3> QED
      BY <3>4, <3>5 DEF ReplyInv, RunsFit, OneActive
  <2> QED
    BY <2>1, <2>2
<1> QED
  BY <1>1, <1>3, <1>4, NoRunsFit DEF ReplyInv

\* A run that is appended to the others.
LEMMA StartRunShape ==
  ASSUME GatewayInv, NEW t \in Turn, NEW how \in {"prompt", "resume"}, NEW q, StartRun(t, how, q)
  PROVE  LET n == Len(runs) + 1 IN
         /\ RunIDs' = RunIDs \cup {n} /\ n \notin RunIDs /\ n \in Nat
         /\ \A j \in RunIDs : runs'[j] = runs[j]
         /\ runs'[n].turn = t /\ runs'[n].how = how /\ runs'[n].at = "start"
<1> DEFINE r == [turn |-> t, how |-> how, answers |-> q, at |-> "start",
                 known |-> 0, saw |-> FALSE, failed |-> FALSE]
<1>1. PICK S : runs \in Seq(S)
  BY DEF GatewayInv, RunsOK
<1>2. runs' = Append(runs, r)
  BY DEF StartRun
<1>3. r.turn = t /\ r.how = how /\ r.at = "start"
  OBVIOUS
<1> HIDE DEF r
<1>4. /\ Len(runs) \in Nat /\ Len(runs') = Len(runs) + 1 /\ runs'[Len(runs) + 1] = r
      /\ \A j \in 1 .. Len(runs) : runs'[j] = runs[j]
  BY <1>1, <1>2
<1> QED
  BY <1>3, <1>4 DEF RunIDs

LEMMA PromptFits ==
  ASSUME ReplyInv, GatewayInv', NEW t \in Turn, Prompt(t)
  PROVE  ReplyInv'
<1>1. /\ tstatus[t] = "none"
      /\ UNCHANGED <<journal, replies, queue, busy, busyFor, left, twice>>
  BY DEF Prompt, openCodeVars, historyVars
<1>2. CASE \E r \in Turn : Active(r)
  <2>1. tstatus' = tstatus /\ runs' = runs
    BY <1>2 DEF Prompt
  <2> QED
    BY <1>1, <2>1, RunsStay, QuietStep DEF AtWorkFor
<1>3. CASE ~ \E r \in Turn : Active(r)
  <2> DEFINE n == Len(runs) + 1
  <2>1. tstatus' = [tstatus EXCEPT ![t] = "active"] /\ StartRun(t, "prompt", 0)
    BY <1>3 DEF Prompt
  <2>2. /\ RunIDs' = RunIDs \cup {n} /\ n \notin RunIDs
        /\ \A j \in RunIDs : runs'[j] = runs[j]
        /\ runs'[n].turn = t /\ runs'[n].at = "start"
    BY <2>1, StartRunShape DEF ReplyInv
  <2> HIDE DEF n
  <2>3. \A u \in Turn : Active(u)' <=> u = t
    BY <1>3, <2>1 DEF Active, ReplyInv, GatewayInv, MasterOK
  <2>4. \A j \in RunIDs : runs[j].turn \in Turn /\ runs[j].turn # t
    BY <1>1, RunShape DEF ReplyInv, GatewayInv
  <2>6. \A j \in RunIDs : Going(j) => runs[j].turn \in twice
    BY <1>3, <2>4 DEF ReplyInv, RunsFit, GoingIsActive
  <2>7. OneActive'
    BY <2>3 DEF OneActive
  <2>8. GoingIsActive'
    BY <1>1, <2>2, <2>3, <2>6 DEF GoingIsActive, Going, Active
  <2>9. RunsApart'
    BY <1>1, <2>2, <2>4 DEF RunsApart, Going, ReplyInv, RunsFit
  <2>11. NewRepliesFit'
    BY <1>1, <2>2 DEF NewRepliesFit, Polling, Fits, ReplyInv, RunsFit
  <2>12. WorkIsOwned'
    BY <1>1, <1>3, <2>3 DEF ReplyInv, WorkIsOwned, AtWorkFor
  <2>13. JournalFits'
    BY <1>1 DEF ReplyInv, JournalFits, Fits
  <2> QED
    BY <2>7, <2>8, <2>9, <2>11, <2>12, <2>13 DEF ReplyInv, RunsFit
<1> QED
  BY <1>2, <1>3

LEMMA ReplyFits ==
  ASSUME ReplyInv, GatewayInv', NEW t \in Turn, Reply(t)
  PROVE  ReplyInv'
<1>0. PICK q \in QuestionsShown : Resume(t, q)
  BY DEF Reply
<1> DEFINE n == Len(runs) + 1
           e == Event(t, "resolved", q)
<1>1. /\ Active(t) /\ StartRun(t, "resume", q) /\ journal' = Append(journal, e)
      /\ twice' = IF UnderWay(t) THEN twice \cup {t} ELSE twice
      /\ UNCHANGED <<tstatus, replies, queue, busy, busyFor, left>>
  BY <1>0 DEF Reply, Resume, openCodeVars
<1>2. /\ RunIDs' = RunIDs \cup {n} /\ n \notin RunIDs
      /\ \A j \in RunIDs : runs'[j] = runs[j]
      /\ runs'[n].turn = t /\ runs'[n].how = "resume" /\ runs'[n].at = "start"
  BY <1>1, StartRunShape DEF ReplyInv
<1> HIDE DEF n
<1>3. Remembers /\ \A u : AtWorkFor(u)' = AtWorkFor(u) /\ Active(u)' = Active(u)
  BY <1>1 DEF Remembers, AtWorkFor, Active
<1>4. e.kind = "resolved"
  BY DEF Event
<1>5. Added({e})
  <2> HIDE DEF e
  <2> QED
    BY <1>1, OneAdded DEF ReplyInv
<1>7. OneActive'
  BY <1>1 DEF OneActive, Active, ReplyInv, RunsFit
<1>8. GoingIsActive'
  BY <1>1, <1>2, <1>3 DEF GoingIsActive, Going, Active, ReplyInv, RunsFit, Remembers
<1>9. RunsApart'
  <2> SUFFICES ASSUME NEW i \in RunIDs', NEW j \in RunIDs', i # j, runs'[i].turn = runs'[j].turn,
                      Going(i)', Going(j)'
               PROVE  runs'[i].turn \in twice'
    BY DEF RunsApart
  <2>1. CASE i \in RunIDs /\ j \in RunIDs
    BY <1>2, <1>3, <2>1 DEF RunsApart, Going, ReplyInv, RunsFit, Remembers
  <2>2. CASE i = n \/ j = n
    <3>1. PICK k \in RunIDs : runs[k].turn = t /\ Going(k)
      BY <1>2, <2>2 DEF Going
    <3>2. t \in twice'
      BY <1>1, <3>1 DEF UnderWay, Going
    <3> QED
      BY <1>2, <2>2, <3>2
  <2> QED
    BY <1>2, <2>1, <2>2
<1>11. NewRepliesFit'
  BY <1>1, <1>2, <1>3 DEF NewRepliesFit, Polling, Fits, ReplyInv, RunsFit, Remembers
<1>12. WorkIsOwned'
  BY <1>3, WorkStaysOwned
<1>13. JournalFits'
  BY <1>1, <1>3, <1>4, <1>5, JournalGrows
<1> QED
  BY <1>7, <1>8, <1>9, <1>11, <1>12, <1>13 DEF ReplyInv, RunsFit

LEMMA AnswerFits ==
  ASSUME ReplyInv, GatewayInv', Answer
  PROVE  ReplyInv'
<1> DEFINE n == Len(replies)
           R(i) == [runs[i] EXCEPT !.known = IF runs[i].saw THEN n + 1 ELSE @, !.saw = FALSE]
<1>1. /\ UNCHANGED <<tstatus, journal, left, twice, queue, busyFor>>
      /\ busy = "working" /\ busy' = "idle" /\ replies' = Append(replies, busyFor)
      /\ runs' = [i \in RunIDs |-> R(i)]
  BY DEF Answer, masterVars, historyVars
<1>2. /\ n \in Nat /\ Len(replies') = n + 1 /\ replies'[n + 1] = busyFor
      /\ \A k \in 1 .. n : replies'[k] = replies[k]
  <2>1. replies' = Append(replies, busyFor)
    BY <1>1
  <2>2. replies \in Seq(Turn) /\ busyFor \in Turn
    BY DEF ReplyInv, GatewayInv, OpenCodeOK
  <2> QED
    BY <2>1, <2>2
<1>3. busyFor \in Turn /\ (Active(busyFor) \/ busyFor \in left \cup twice)
  BY <1>1 DEF ReplyInv, GatewayInv, OpenCodeOK, WorkIsOwned, AtWorkFor
<1>8. /\ RunIDs' = RunIDs
      /\ \A i \in RunIDs : /\ runs'[i].turn = runs[i].turn /\ runs'[i].at = runs[i].at
                           /\ runs'[i].known = runs[i].known \/ runs'[i].known = n + 1
  <2>1. \A i \in RunIDs : runs[i] \in GoodRun(tstatus, Len(replies))
    BY RunShape DEF ReplyInv, GatewayInv
  <2>2. \A i \in RunIDs : /\ R(i).turn = runs[i].turn /\ R(i).at = runs[i].at
                          /\ R(i).known = runs[i].known \/ R(i).known = n + 1
    BY <2>1 DEF GoodRun
  <2>3. Len(runs) \in Nat /\ runs' = [i \in 1 .. Len(runs) |-> R(i)]
    BY <1>1, LenProperties DEF RunIDs, ReplyInv, GatewayInv, RunsOK
  <2> HIDE DEF R
  <2>4. RunIDs' = RunIDs /\ \A i \in RunIDs : runs'[i] = R(i)
    BY <2>3 DEF RunIDs
  <2> QED
    BY <2>2, <2>4
<1> HIDE DEF R
<1>4. OneActive' /\ GoingIsActive' /\ RunsApart'
  BY <1>1, <1>8 DEF ReplyInv, RunsFit, OneActive, GoingIsActive, RunsApart, Active, Going
<1>5. NewRepliesFit'
  <2> SUFFICES ASSUME NEW i \in RunIDs, Polling(i), NEW k \in runs'[i].known + 1 .. n + 1
               PROVE  /\ k \in 1 .. n + 1
                      /\ \/ replies'[k] = runs[i].turn \/ replies'[k] \in left \cup twice
                         \/ runs[i].turn \in twice
    BY <1>1, <1>2, <1>8 DEF NewRepliesFit, Fits, Polling
  <2>1. runs[i] \in GoodRun(tstatus, Len(replies))
    BY RunShape DEF ReplyInv, GatewayInv
  <2>2. runs[i].known \in Nat /\ runs[i].turn \in Turn
    BY <2>1, <1>2 DEF GoodRun
  <2>5. runs'[i].known = runs[i].known
    BY <1>2, <1>8
  <2>3. CASE k \in 1 .. n
    <3>1. Fits(k, runs[i].turn)
      BY <2>2, <2>3, <2>5, <1>2 DEF ReplyInv, RunsFit, NewRepliesFit
    <3> QED
      BY <1>2, <2>3, <3>1 DEF Fits
  <2>4. CASE k = n + 1
    <3>1. Active(runs[i].turn) \/ runs[i].turn \in twice
      BY DEF Polling, Going, ReplyInv, RunsFit, GoingIsActive
    <3>2. Active(busyFor) /\ Active(runs[i].turn) => busyFor = runs[i].turn
      BY <1>3, <2>2 DEF ReplyInv, RunsFit, OneActive
    <3> QED
      BY <1>2, <1>3, <2>4, <3>1, <3>2
  <2> QED
    BY <1>2, <2>2, <2>3, <2>4, <2>5
<1>6. WorkIsOwned'
  BY <1>1 DEF ReplyInv, WorkIsOwned, AtWorkFor, Active
<1>7. JournalFits'
  <2> SUFFICES ASSUME NEW k \in 1 .. Len(journal), journal[k].kind = "message"
               PROVE  Fits(journal[k].ref, journal[k].turn)'
    BY <1>1 DEF JournalFits
  <2>1. Fits(journal[k].ref, journal[k].turn)
    BY DEF ReplyInv, JournalFits
  <2> QED
    BY <1>1, <1>2, <2>1 DEF Fits
<1> QED
  BY <1>4, <1>5, <1>6, <1>7 DEF ReplyInv, RunsFit

-----------------------------------------------------------------------------
LEMMA ReplyStart == Init => ReplyInv
<1> SUFFICES ASSUME Init PROVE ReplyInv
  OBVIOUS
<1>1. runs = << >> /\ journal = << >> /\ queue = << >> /\ busy = "idle" /\ \A t \in Turn : ~Active(t)
  BY DEF Init, Active
<1> QED
  BY <1>1, GatewayInit DEF ReplyInv, RunsFit, WorkIsOwned, JournalFits, OneActive, GoingIsActive,
                           RunsApart, NewRepliesFit, RunIDs, AtWorkFor

LEMMA ReplyNext ==
  ASSUME ReplyInv, [Next]_gatewayVars
  PROVE  ReplyInv'
<1>1. GatewayInv'
  BY GatewayStep DEF ReplyInv
<1>2. ASSUME NEW t \in Turn, Prompt(t) \/ Reply(t) PROVE ReplyInv'
  BY <1>1, <1>2, PromptFits, ReplyFits
<1>3. ASSUME NEW i \in RunIDs, RunStepOf(i) PROVE ReplyInv'
  BY <1>1, <1>3, QuietBegin, QuietSend, QuietPoll, AskFits, FinishFits DEF RunStepOf, Poll
<1>4. ASSUME NEW i \in RunIDs,
             RequestFails(i) \/ AnswerRefused(i) \/ AnswerLost(i) \/ TimeOut(i) \/ FinishCutShort(i)
      PROVE  ReplyInv'
  BY <1>1, <1>4, QuietPoll, ThrowFits, NewProcessFits
<1>5. CASE End \/ NativeAbort \/ StepFailed \/ Take \/ Write \/ NextMessage \/ Question
  BY <1>1, <1>5, QuietOpenCode
<1>6. CASE Restart \/ Answer
  BY <1>1, <1>6, NewProcessFits, AnswerFits
<1>7. CASE UNCHANGED gatewayVars
  <2>1. UNCHANGED <<tstatus, journal, runs, replies, left, twice, busy, busyFor, queue>>
    BY <1>7 DEF gatewayVars, masterVars, processVars, openCodeVars, historyVars
  <2> QED
    BY <1>1, <2>1, RunsStay, QuietStep DEF AtWorkFor
<1> QED
  BY <1>2, <1>3, <1>4, <1>5, <1>6, <1>7 DEF Next

\* opencode-gateway.ts:404-421: a reply that is journaled for a turn was written
\* for it, or for one that a run left while OpenCode was at it, or one of the two
\* turns had two runs at once, because its question was answered twice or an old
\* one was answered while its prompt ran (server.ts:294-307); for any number of
\* turns, runs, answers, lost requests, failed steps and restarts.
THEOREM RepliesGoToTheirTurns == Spec => []ReplyOfItsTurn
<1>1. ReplyInv => ReplyOfItsTurn
  BY DEF ReplyInv, JournalFits, Fits, ReplyOfItsTurn
<1> QED
  BY <1>1, ReplyStart, ReplyNext, PTL DEF Spec
=============================================================================
