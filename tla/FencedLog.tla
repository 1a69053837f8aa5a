------------------------------ MODULE FencedLog ------------------------------
(***************************************************************************)
(* What the master promises about a session, whatever its workers, its     *)
(* scheduler and its clients do (README.md:42 and :45): at any moment at   *)
(* most one worker holds the session, every new holder gets a new token,   *)
(* and the durable log takes entries from the current holder only.         *)
(***************************************************************************)
EXTENDS Integers, Sequences

CONSTANTS Session, Worker, NoWorker

VARIABLES
    holder,   \* who may write, NoWorker for nobody
    token,    \* the fencing token of the current hold
    log       \* the durable log of each session

vars == <<holder, token, log>>

Entries  == [worker : Worker, token : Nat]
Entry(s) == [worker |-> holder[s], token |-> token[s]]

Init ==
    /\ holder = [s \in Session |-> NoWorker]
    /\ token = [s \in Session |-> 0]
    /\ log = [s \in Session |-> << >>]

\* The session keeps its holder or loses it, or moves on to a new token.
MayMove(s) ==
    \/ token'[s] = token[s] /\ holder'[s] \in {holder[s], NoWorker}
    \/ token'[s] = token[s] + 1 /\ holder'[s] \in Worker \cup {NoWorker}

\* One failure detection may move many sessions at once.
Transfer ==
    /\ holder' = [s \in Session |-> holder'[s]]
    /\ token' = [s \in Session |-> token'[s]]
    /\ \A s \in Session : MayMove(s)
    /\ UNCHANGED log

Write(s) ==
    /\ holder[s] # NoWorker
    /\ log' = [log EXCEPT ![s] = Append(@, Entry(s))]
    /\ UNCHANGED <<holder, token>>

Next == Transfer \/ \E s \in Session : Write(s)

Spec == Init /\ [][Next]_vars

-----------------------------------------------------------------------------
TypeOK ==
    /\ holder \in [Session -> Worker \cup {NoWorker}]
    /\ token \in [Session -> Nat]
    /\ log \in [Session -> Seq(Entries)]

\* The tokens in a log never go back, so nothing of an earlier holder
\* follows an entry of a later one, and entries with one token have one author.
LogFenced ==
    \A s \in Session : \A i, j \in 1 .. Len(log[s]) :
        /\ i < j => log[s][i].token <= log[s][j].token
        /\ log[s][i].token = log[s][j].token => log[s][i].worker = log[s][j].worker

\* What makes LogFenced inductive: the log never runs ahead of the token, and
\* the author of an entry under the current token is the holder or nobody is.
LogBelowToken ==
    \A s \in Session : \A i \in 1 .. Len(log[s]) :
        /\ log[s][i].token <= token[s]
        /\ log[s][i].token = token[s] => holder[s] \in {log[s][i].worker, NoWorker}
=============================================================================
