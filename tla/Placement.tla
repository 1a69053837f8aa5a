------------------------------ MODULE Placement ------------------------------
(***************************************************************************)
(* How place() finds a worker for a user: a hash ring of the healthy       *)
(* workers (placement/consistent-hash.ts), a walk over it that collects    *)
(* the nearest ones, and the least loaded of these (placement/load.ts).    *)
(*                                                                         *)
(* The loops are steps, so that their invariants can be stated and proved. *)
(* hashString is any function: a ring is any sequence of nodes that is     *)
(* sorted by point and has each worker's nodes, a user hashes anywhere.    *)
(***************************************************************************)
EXTENDS PlacementRule, Integers, Sequences, FiniteSets

CONSTANTS
    VNodes,         \* nodes of a worker on the ring, 96 in the code
    MaxPoint,       \* largest hash, 2^32 - 1 in the code
    MaxLimit,       \* bound of placementCandidates, which may be any number
    MaxScore        \* bound of the load scores

ASSUME PlacementAssumption ==
    /\ NoWorker \notin Worker
    /\ IsFiniteSet(Worker)
    /\ VNodes \in Nat \ {0}
    /\ {MaxPoint, MaxLimit, MaxScore} \subseteq Nat

VARIABLES
    at,         \* where the computation is
    rows,       \* workers.status when place() reads the registry
    excluded,   \* the worker the session must leave
    limit,      \* cfg.placementCandidates
    ring,       \* the nodes, sorted by point; node i of the code is ring[i + 1]
    target,     \* hash of the user
    lo, hi,     \* what the binary search has left
    idx,        \* the node the walk starts at
    step,       \* nodes walked
    out,        \* candidates found, nearest first
    items,      \* the workers to pick from, those from best on are not compared yet
    score,      \* scoreLoad of each healthy worker
    best, next, \* the least loaded so far, and the item to look at
    chosen

searchVars == <<lo, hi, idx>>
walkVars   == <<step, out>>
pickVars   == <<items, score, best, next>>
givenVars  == <<rows, excluded, limit>>
vars == <<at, givenVars, ring, target, searchVars, walkVars, pickVars, chosen>>

KeepsExcluded == {w \in Worker : rows[w] = "ok"}    \* mutant: nobody is excluded
Healthy == {w \in Worker : rows[w] = "ok"} \ {excluded}

Point == 0 .. MaxPoint
Size(S) == VNodes * Cardinality(S)

Sorted(r) == \A i, j \in DOMAIN r : i < j => r[i].point <= r[j].point

Node(S) == [point : Point, worker : S]

\* The rings of a set of workers under any hash; equal points in any order.
Rings(S) ==
    {r \in [1 .. Size(S) -> Node(S)] :
        /\ Sorted(r)
        /\ \A w \in S : Cardinality({i \in DOMAIN r : r[i].worker = w}) = VNodes}

Init ==
    /\ at = "begin"
    /\ rows \in [Worker -> {"ok", "unhealthy"}]
    /\ excluded \in Worker \cup {NoWorker}
    /\ limit \in 0 .. MaxLimit
    /\ ring = << >> /\ target = 0
    /\ lo = 0 /\ hi = 0 /\ idx = 0
    /\ step = 0 /\ out = << >>
    /\ items = << >> /\ score = [w \in Worker |-> 0] /\ best = NoWorker /\ next = 0
    /\ chosen = NoWorker

NoneHealthy ==
    /\ at = "begin"
    /\ Healthy = {}
    /\ at' = "done"
    /\ UNCHANGED <<givenVars, ring, target, searchVars, walkVars, pickVars, chosen>>

\* buildRing and the hash of the user.
BuildRing ==
    /\ at = "begin"
    /\ Healthy # {}
    /\ ring' \in Rings(Healthy)
    /\ target' \in Point
    /\ lo' = 0 /\ hi' = Size(Healthy) - 1 /\ idx' = 0
    /\ at' = "search"
    /\ UNCHANGED <<givenVars, walkVars, pickVars, chosen>>

-----------------------------------------------------------------------------
(* candidates: the binary search for the first node at or after the hash.  *)

Mid == (lo + hi) \div 2

ProbeForEver ==                 \* mutant: the upper end stays at the probe
    /\ at = "search" /\ lo <= hi
    /\ IF ring[Mid + 1].point >= target
       THEN idx' = Mid /\ hi' = Mid /\ UNCHANGED lo
       ELSE lo' = Mid + 1 /\ UNCHANGED <<hi, idx>>
    /\ UNCHANGED <<at, givenVars, ring, target, walkVars, pickVars, chosen>>

Probe ==
    /\ at = "search"
    /\ lo <= hi
    /\ IF ring[Mid + 1].point >= target
       THEN idx' = Mid /\ hi' = Mid - 1 /\ UNCHANGED lo
       ELSE lo' = Mid + 1 /\ UNCHANGED <<hi, idx>>
    /\ UNCHANGED <<at, givenVars, ring, target, walkVars, pickVars, chosen>>

ByModulo ==                     \* mutant: the user's hash modulo the ring
    /\ at = "search" /\ lo > hi
    /\ at' = "walk"
    /\ idx' = target % Len(ring)
    /\ UNCHANGED <<givenVars, ring, target, lo, hi, walkVars, pickVars, chosen>>

SearchEnds ==
    /\ at = "search"
    /\ lo > hi
    /\ at' = "walk"
    /\ UNCHANGED <<givenVars, ring, target, searchVars, walkVars, pickVars, chosen>>

-----------------------------------------------------------------------------
(* candidates: the walk.  Every worker of the ring is healthy, so the      *)
(* filter alive, which place() passes, never drops one.                    *)

NoWrap == ring[IF idx + step < Len(ring) THEN idx + step + 1 ELSE Len(ring)].worker   \* mutant
Here == ring[((idx + step) % Len(ring)) + 1].worker

Seen == {out[k] : k \in 1 .. Len(out)}

OneTooMany == step <= Len(ring)  \* mutant: one node is looked at twice
NodesLeft == step < Len(ring)

Walk ==
    /\ at = "walk"
    /\ NodesLeft /\ Len(out) < limit
    /\ step' = step + 1
    /\ out' = IF Here \in Seen THEN out ELSE Append(out, Here)
    /\ UNCHANGED <<at, givenVars, ring, target, searchVars, pickVars, chosen>>

\* The orders in which the registry may return its rows.
Orders(S) ==
    {s \in [1 .. Cardinality(S) -> S] : \A i, j \in DOMAIN s : i # j => s[i] # s[j]}

ToPickFrom == IF out = << >> THEN Orders(Healthy) ELSE {out}

\* The scores were read with the rows; they matter from here on.
WalkEnds ==
    /\ at = "walk"
    /\ ~NodesLeft \/ Len(out) >= limit
    /\ items' \in ToPickFrom
    /\ score' \in [Worker -> 0 .. MaxScore]
    /\ best' = items'[1] /\ next' = 2
    /\ at' = "pick"
    /\ UNCHANGED <<givenVars, ring, target, searchVars, walkVars, chosen>>

-----------------------------------------------------------------------------
(* pickLeastLoaded.                                                        *)

NotHeavier(w) == score[w] <= score[best]     \* mutant: the last of equals wins
Lighter(w) == score[w] < score[best]

Compare ==
    /\ at = "pick"
    /\ next <= Len(items)
    /\ best' = IF Lighter(items[next]) THEN items[next] ELSE best
    /\ next' = next + 1
    /\ UNCHANGED <<at, givenVars, ring, target, searchVars, walkVars, items, score, chosen>>

PickEnds ==
    /\ at = "pick"
    /\ next > Len(items)
    /\ chosen' = best
    /\ at' = "done"
    /\ UNCHANGED <<givenVars, ring, target, searchVars, walkVars, pickVars>>

-----------------------------------------------------------------------------
Next ==
    \/ NoneHealthy \/ BuildRing
    \/ Probe \/ SearchEnds
    \/ Walk \/ WalkEnds
    \/ Compare \/ PickEnds

Spec == Init /\ [][Next]_vars

\* place() runs without waiting for anything.
FairSpec == Spec /\ WF_vars(Next)

-----------------------------------------------------------------------------
(* What the walk should find.                                              *)

\* The first node at or after the hash, or the first node of all.
Successor(r) ==
    LET after == {i \in DOMAIN r : r[i].point >= target}
    IN  IF after = {} THEN 1 ELSE CHOOSE i \in after : \A j \in after : i <= j

\* How far the nearest node of each worker is, clockwise from the hash.
Distances(r) ==
    LET start == Successor(r)
        steps(w) == {(i - start) % Len(r) : i \in {k \in DOMAIN r : r[k].worker = w}}
    IN  [w \in {r[i].worker : i \in DOMAIN r} |->
            CHOOSE d \in steps(w) : \A e \in steps(w) : d <= e]

\* The limit nearest workers of a ring, nearest first.
Nearest(r) ==
    LET far   == Distances(r)
        count == Cardinality(DOMAIN far)
    IN  [k \in 1 .. (IF limit < count THEN limit ELSE count) |->
            CHOOSE w \in DOMAIN far :
                Cardinality({v \in DOMAIN far : far[v] < far[w]}) = k - 1]

\* The ring r without the nodes of w, the others in their order.
Without(r, w) ==
    LET kept   == {i \in DOMAIN r : r[i].worker # w}
        nth(k) == CHOOSE i \in kept : Cardinality({j \in kept : j < i}) = k - 1
    IN  [k \in 1 .. Cardinality(kept) |-> r[nth(k)]]

-----------------------------------------------------------------------------
(* Properties.                                                             *)

PlacementTypeOK ==
    /\ at \in {"begin", "search", "walk", "pick", "done"}
    /\ rows \in [Worker -> {"ok", "unhealthy"}]
    /\ excluded \in Worker \cup {NoWorker}
    /\ limit \in Nat /\ target \in Point
    /\ ring \in Seq(Node(Healthy))
    /\ lo \in 0 .. Len(ring) /\ hi \in -1 .. Len(ring) /\ idx \in 0 .. Len(ring)
    /\ step \in 0 .. Len(ring)
    /\ out \in Seq(Healthy) /\ items \in Seq(Healthy)
    /\ score \in [Worker -> Nat]
    /\ best \in Healthy \cup {NoWorker}
    /\ next \in Nat
    /\ chosen \in Healthy \cup {NoWorker}

\* The search of candidates() stops at the first node at or after the hash
\* and wraps to the first node when there is none.
SearchFinds == at \in {"walk", "pick"} => idx + 1 = Successor(ring)

\* test/consistent-hash.test.ts:17: the candidates are the distinct workers
\* nearest to the user's hash, over the end of the ring if need be.
CandidatesAreNearest ==
    at = "done" /\ Healthy # {} => out = Nearest(ring)

\* test/consistent-hash.test.ts:27: a worker that leaves disturbs only the
\* users it was a candidate of.
AffinityKept ==
    at = "done" =>
        \A w \in Healthy \ Seen :
            Healthy # {w} => out = Nearest(Without(ring, w))

\* test/load.test.ts: the least loaded of the candidates is picked, the nearest
\* of equals.
ChosenIsLightest ==
    at = "done" /\ chosen # NoWorker =>
        \E k \in 1 .. Len(items) :
            /\ items[k] = chosen
            /\ \A j \in 1 .. Len(items) :
                 /\ score[chosen] <= score[items[j]]
                 /\ j < k => score[chosen] < score[items[j]]

\* What the session directory relies on: place() returns a healthy worker
\* other than the excluded one, and nothing only if there is none.
PlacesAsRelied == at = "done" => chosen \in Place(rows, excluded)

\* Every loop of place() ends.
PlacementEnds == <>(at = "done")
=============================================================================
