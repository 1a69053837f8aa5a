--------------------------- MODULE PlacementProofs ---------------------------
(***************************************************************************)
(* place() is right for any number of workers and nodes and for any hash:  *)
(* the binary search finds the successor of the user's hash, the walk      *)
(* collects the nearest workers, the pick returns the lightest item, and the *)
(* result is what the session directory relies on.  Each loop has its      *)
(* invariant; a step outside the loop leaves it alone.  The last part leaves *)
(* a worker out of the ring and shows that the others keep their order.    *)
(***************************************************************************)
EXTENDS Placement, TLAPS, FiniteSetTheorems

\* Nothing is computed before the ring is built.
Untouched ==
    /\ ring = << >> /\ lo = 0 /\ hi = 0 /\ idx = 0
    /\ step = 0 /\ out = << >> /\ items = << >> /\ best = NoWorker /\ chosen = NoWorker

RingOK == Healthy # {} /\ Len(ring) > 0 /\ Sorted(ring)

\* The loop invariant of the search: below lo no node reaches the hash,
\* above hi every node does, and idx is the lowest of these, if any.
SearchInv ==
    /\ lo \in 0 .. Len(ring) /\ hi \in -1 .. Len(ring) - 1 /\ lo <= hi + 1
    /\ \A i \in 1 .. lo : ring[i].point < target
    /\ \A i \in hi + 2 .. Len(ring) : ring[i].point >= target
    /\ idx = IF hi = Len(ring) - 1 THEN 0 ELSE hi + 1

\* What the search establishes.
StartsAtSuccessor ==
    \/ /\ idx = 0
       /\ \A i \in 1 .. Len(ring) : ring[i].point < target
    \/ /\ idx \in 0 .. Len(ring) - 1
       /\ ring[idx + 1].point >= target
       /\ \A i \in 1 .. idx : ring[i].point < target

\* Item k is the lightest of the first n, and lighter than those before it.
LightestOf(w, n) ==
    \E k \in 1 .. n :
        /\ items[k] = w
        /\ \A j \in 1 .. n :
             /\ score[w] <= score[items[j]]
             /\ j < k => score[w] < score[items[j]]

\* The loop invariant of the pick.
PickInv ==
    /\ next \in 2 .. Len(items) + 1
    /\ LightestOf(best, next - 1)

Chosen ==
    \/ chosen = NoWorker /\ Healthy = {}
    \/ chosen \in Healthy /\ LightestOf(chosen, Len(items))

PlacementInv ==
    /\ PlacementTypeOK
    /\ at = "begin" => Untouched
    /\ at \in {"search", "walk", "pick"} => RingOK
    /\ at = "search" => SearchInv
    /\ at \in {"walk", "pick"} => StartsAtSuccessor
    /\ at = "pick" => PickInv
    /\ at = "done" => Chosen

-----------------------------------------------------------------------------
LEMMA HealthyFinite ==
  /\ IsFiniteSet(Healthy)
  /\ Cardinality(Healthy) \in Nat
  /\ Healthy # {} => Cardinality(Healthy) > 0
<1>1. IsFiniteSet(Healthy)
  BY PlacementAssumption, FS_Subset DEF Healthy
<1> QED
  BY <1>1, FS_CardinalityType, FS_EmptySet

LEMMA RingShape ==
  ASSUME Healthy # {}, NEW r \in Rings(Healthy)
  PROVE  r \in Seq(Node(Healthy)) /\ Len(r) = Size(Healthy) /\ Len(r) > 0 /\ Sorted(r)
<1>1. Size(Healthy) \in Nat \ {0}
  <2>1. Cardinality(Healthy) \in Nat \ {0} /\ VNodes \in Nat \ {0}
    BY HealthyFinite, PlacementAssumption
  <2>2. \A a, b \in Nat \ {0} : a * b \in Nat \ {0}
    OBVIOUS
  <2> QED
    BY <2>1, <2>2 DEF Size
<1>2. r \in [1 .. Size(Healthy) -> Node(Healthy)] /\ Sorted(r)
  BY DEF Rings
<1>3. \A S, n : n \in Nat /\ r \in [1 .. n -> S] => r \in Seq(S) /\ Len(r) = n
  OBVIOUS
<1> QED
  BY <1>1, <1>2, <1>3

\* Any order of the registry's rows is a sequence of healthy workers.
LEMMA OrderShape ==
  ASSUME Healthy # {}, NEW s \in Orders(Healthy)
  PROVE  s \in Seq(Healthy) /\ Len(s) > 0
BY HealthyFinite DEF Orders

LEMMA NodeFields ==
  ASSUME NEW n \in Node(Healthy)
  PROVE  n.point \in Nat /\ n.worker \in Healthy
<1>1. Point \subseteq Nat
  BY PlacementAssumption DEF Point
<1> QED
  BY <1>1 DEF Node

LEMMA RingNumbers ==
  ASSUME PlacementTypeOK
  PROVE  /\ Len(ring) \in Nat /\ target \in Nat /\ DOMAIN ring = 1 .. Len(ring)
         /\ \A i \in 1 .. Len(ring) : ring[i].point \in Nat /\ ring[i].worker \in Healthy
<1>1. ring \in Seq(Node(Healthy)) /\ target \in Point
  BY DEF PlacementTypeOK
<1>2. Len(ring) \in Nat /\ DOMAIN ring = 1 .. Len(ring)
      /\ \A i \in 1 .. Len(ring) : ring[i] \in Node(Healthy)
  BY <1>1
<1>3. target \in Nat
  BY <1>1, PlacementAssumption DEF Point
<1> QED
  BY <1>2, <1>3, NodeFields

LEMMA PlacementStart == Init => PlacementInv
<1> SUFFICES ASSUME Init PROVE PlacementInv
  OBVIOUS
<1>1. PlacementTypeOK
  BY PlacementAssumption DEF Init, PlacementTypeOK, Point
<1> QED
  BY <1>1 DEF Init, PlacementInv, Untouched

-----------------------------------------------------------------------------
(* The search.                                                             *)

LEMMA ProbeKeeps ==
  ASSUME PlacementInv, Probe
  PROVE  PlacementInv'
<1>1. at = "search" /\ at' = "search" /\ RingOK /\ SearchInv /\ PlacementTypeOK
  BY DEF PlacementInv, Probe
<1>2. /\ Len(ring) \in Nat /\ target \in Nat
      /\ \A i \in 1 .. Len(ring) : ring[i].point \in Nat
  BY <1>1, RingNumbers
<1>3. lo \in Nat /\ hi \in Nat /\ Mid \in lo .. hi /\ Mid \in 0 .. Len(ring) - 1
  BY <1>1 DEF SearchInv, Mid, Probe
<1>4. UNCHANGED <<rows, excluded, limit, ring, target, walkVars, pickVars, chosen>> /\ Healthy' = Healthy
  BY DEF Probe, givenVars, Healthy
<1>5. SearchInv'
  <2>1. CASE ring[Mid + 1].point >= target
    <3>1. \A i \in Mid + 1 .. Len(ring) : ring[i].point >= ring[Mid + 1].point
      BY <1>1, <1>2, <1>3 DEF RingOK, Sorted
    <3>2. \A i \in Mid + 1 .. Len(ring) : ring[i].point >= target
      BY <1>2, <1>3, <2>1, <3>1
    <3>3. lo' = lo /\ hi' = Mid - 1 /\ idx' = Mid
      BY <2>1 DEF Probe
    <3> QED
      BY <1>1, <1>2, <1>3, <1>4, <3>2, <3>3 DEF SearchInv
  <2>2. CASE ~(ring[Mid + 1].point >= target)
    <3>1. \A i \in 1 .. Mid + 1 : ring[i].point <= ring[Mid + 1].point
      BY <1>1, <1>2, <1>3 DEF RingOK, Sorted
    <3>2. \A i \in 1 .. Mid + 1 : ring[i].point < target
      BY <1>2, <1>3, <2>2, <3>1
    <3>3. lo' = Mid + 1 /\ hi' = hi /\ idx' = idx
      BY <2>2 DEF Probe
    <3> QED
      BY <1>1, <1>2, <1>3, <1>4, <3>2, <3>3 DEF SearchInv
  <2> QED
    BY <2>1, <2>2
<1>6. PlacementTypeOK'
  <2>1. lo' \in 0 .. Len(ring) /\ hi' \in -1 .. Len(ring) /\ idx' \in 0 .. Len(ring)
    <3>1. /\ lo' \in 0 .. Len(ring') /\ hi' \in -1 .. Len(ring') - 1
          /\ idx' = IF hi' = Len(ring') - 1 THEN 0 ELSE hi' + 1
      BY <1>5 DEF SearchInv
    <3>2. Len(ring') = Len(ring) /\ Len(ring) \in Nat
      BY <1>2, <1>4
    <3>3. \A n \in Nat : \A h \in -1 .. n - 1 :
            h \in -1 .. n /\ (IF h = n - 1 THEN 0 ELSE h + 1) \in 0 .. n
      OBVIOUS
    <3> QED
      BY <3>1, <3>2, <3>3
  <2> QED
    BY <1>1, <1>4, <2>1 DEF PlacementTypeOK, walkVars, pickVars
<1>7. RingOK'
  BY <1>1, <1>4 DEF RingOK, Sorted
<1> QED
  BY <1>1, <1>5, <1>6, <1>7 DEF PlacementInv

LEMMA SearchEndsKeeps ==
  ASSUME PlacementInv, SearchEnds
  PROVE  PlacementInv'
<1>1. at = "search" /\ at' = "walk" /\ RingOK /\ SearchInv /\ PlacementTypeOK
  BY DEF PlacementInv, SearchEnds
<1>2. UNCHANGED <<rows, excluded, limit, ring, target, lo, hi, idx, walkVars, pickVars, chosen>>
      /\ Healthy' = Healthy
  BY DEF SearchEnds, givenVars, searchVars, Healthy
<1>3. StartsAtSuccessor
  <2>1. lo = hi + 1
    BY <1>1 DEF SearchInv, SearchEnds, PlacementTypeOK
  <2>2. CASE hi = Len(ring) - 1
    BY <1>1, <2>1, <2>2 DEF SearchInv, StartsAtSuccessor
  <2>3. CASE hi # Len(ring) - 1
    BY <1>1, <2>1, <2>3 DEF SearchInv, StartsAtSuccessor, PlacementTypeOK
  <2> QED
    BY <2>2, <2>3
<1>4. StartsAtSuccessor' /\ RingOK' /\ PlacementTypeOK'
  BY <1>1, <1>2, <1>3 DEF StartsAtSuccessor, RingOK, Sorted, PlacementTypeOK, walkVars, pickVars
<1> QED
  BY <1>1, <1>4 DEF PlacementInv

-----------------------------------------------------------------------------
(* The ring, the walk and the pick.                                        *)

LEMMA BuildRingKeeps ==
  ASSUME PlacementInv, BuildRing
  PROVE  PlacementInv'
<1>1. at = "begin" /\ at' = "search" /\ Untouched /\ PlacementTypeOK /\ Healthy # {}
  BY DEF PlacementInv, BuildRing
<1>2. UNCHANGED <<rows, excluded, limit, walkVars, pickVars, chosen>> /\ Healthy' = Healthy
  BY DEF BuildRing, givenVars, Healthy
<1>3. /\ ring' \in Seq(Node(Healthy))
      /\ Len(ring') = Size(Healthy) /\ Len(ring') > 0 /\ Sorted(ring')
  BY <1>1, RingShape DEF BuildRing
<1>4. RingOK'
  BY <1>1, <1>2, <1>3 DEF RingOK
<1>5. lo' = 0 /\ hi' = Len(ring') - 1 /\ idx' = 0 /\ target' \in Point /\ Len(ring') \in Nat
  BY <1>3 DEF BuildRing
<1>6. SearchInv'
  BY <1>3, <1>5 DEF SearchInv
<1>7. PlacementTypeOK'
  <2>1. step' \in 0 .. Len(ring')
    BY <1>1, <1>2, <1>5 DEF Untouched, walkVars
  <2> QED
    BY <1>1, <1>2, <1>3, <1>5, <2>1 DEF PlacementTypeOK, walkVars, pickVars
<1> QED
  BY <1>1, <1>4, <1>6, <1>7 DEF PlacementInv

LEMMA WalkKeeps ==
  ASSUME PlacementInv, Walk
  PROVE  PlacementInv'
<1>1. at = "walk" /\ at' = "walk" /\ StartsAtSuccessor /\ RingOK /\ PlacementTypeOK
  BY DEF PlacementInv, Walk
<1>2. UNCHANGED <<rows, excluded, limit, ring, target, lo, hi, idx, pickVars, chosen>> /\ Healthy' = Healthy
  BY DEF Walk, givenVars, searchVars, Healthy
<1>3. Here \in Healthy
  <2>1. ((idx + step) % Len(ring)) + 1 \in 1 .. Len(ring)
    <3>1. \A a \in Nat, b \in Nat \ {0} : (a % b) + 1 \in 1 .. b
      OBVIOUS
    <3>2. idx + step \in Nat /\ Len(ring) \in Nat \ {0}
      BY <1>1 DEF PlacementTypeOK, RingOK
    <3> QED
      BY <3>1, <3>2
  <2> QED
    BY <1>1, <2>1, RingNumbers DEF Here
<1>4. out' \in Seq(Healthy) /\ step' \in 0 .. Len(ring)
  BY <1>1, <1>3 DEF Walk, NodesLeft, PlacementTypeOK
<1>5. PlacementTypeOK'
  BY <1>1, <1>2, <1>4 DEF PlacementTypeOK, pickVars
<1> QED
  BY <1>1, <1>2, <1>5 DEF PlacementInv, StartsAtSuccessor, RingOK, Sorted

LEMMA WalkEndsKeeps ==
  ASSUME PlacementInv, WalkEnds
  PROVE  PlacementInv'
<1>1. at = "walk" /\ at' = "pick" /\ StartsAtSuccessor /\ RingOK /\ PlacementTypeOK
  BY DEF PlacementInv, WalkEnds
<1>2. UNCHANGED <<rows, excluded, limit, ring, target, lo, hi, idx, walkVars, chosen>> /\ Healthy' = Healthy
  BY DEF WalkEnds, givenVars, searchVars, Healthy
<1>3. items' \in Seq(Healthy) /\ Len(items') > 0 /\ Len(items') \in Nat
  <2>1. CASE out = << >>
    BY <1>1, <2>1, OrderShape DEF WalkEnds, ToPickFrom, RingOK
  <2>2. CASE out # << >>
    BY <1>1, <2>2 DEF WalkEnds, ToPickFrom, PlacementTypeOK
  <2> QED
    BY <2>1, <2>2
<1>4. score' \in [Worker -> Nat] /\ best' = items'[1] /\ next' = 2
  BY PlacementAssumption DEF WalkEnds
<1>5. best' \in Healthy /\ Healthy \subseteq Worker
  BY <1>3, <1>4 DEF Healthy
<1>6. PickInv'
  <2>1. score'[best'] \in Nat
    BY <1>4, <1>5
  <2>2. LightestOf(best, 1)'
    BY <1>4, <2>1 DEF LightestOf
  <2> QED
    BY <1>3, <1>4, <2>2 DEF PickInv, LightestOf
<1>7. PlacementTypeOK'
  BY <1>1, <1>2, <1>3, <1>4, <1>5 DEF PlacementTypeOK, walkVars
<1> QED
  BY <1>1, <1>2, <1>6, <1>7 DEF PlacementInv, StartsAtSuccessor, RingOK, Sorted

LEMMA CompareKeeps ==
  ASSUME PlacementInv, Compare
  PROVE  PlacementInv'
<1>1. at = "pick" /\ at' = "pick" /\ StartsAtSuccessor /\ RingOK /\ PlacementTypeOK /\ PickInv
  BY DEF PlacementInv, Compare
<1>2. UNCHANGED <<rows, excluded, limit, ring, target, lo, hi, idx, walkVars, items, score, chosen>>
      /\ Healthy' = Healthy
  BY DEF Compare, givenVars, searchVars, Healthy
<1>3. /\ next \in 2 .. Len(items) /\ next' = next + 1 /\ Len(items) \in Nat
      /\ \A j \in 1 .. Len(items) : items[j] \in Healthy /\ score[items[j]] \in Nat
  BY <1>1 DEF Compare, PickInv, PlacementTypeOK, Healthy
<1>4. PICK k \in 1 .. next - 1 :
        /\ items[k] = best
        /\ \A j \in 1 .. next - 1 :
             /\ score[best] <= score[items[j]]
             /\ j < k => score[best] < score[items[j]]
  BY <1>1 DEF PickInv, LightestOf
<1>5. LightestOf(best', next)
  <2>1. CASE Lighter(items[next])
    <3>1. best' = items[next] /\ score[items[next]] < score[best]
      BY <2>1 DEF Compare, Lighter
    <3>2. \A j \in 1 .. next :
             /\ score[items[next]] <= score[items[j]]
             /\ j < next => score[items[next]] < score[items[j]]
      BY <1>3, <1>4, <3>1
    <3> QED
      BY <1>3, <3>1, <3>2 DEF LightestOf
  <2>2. CASE ~Lighter(items[next])
    <3>1. best' = best /\ ~(score[items[next]] < score[best])
      BY <2>2 DEF Compare, Lighter
    <3>2. \A j \in 1 .. next :
             /\ score[best] <= score[items[j]]
             /\ j < k => score[best] < score[items[j]]
      BY <1>3, <1>4, <3>1
    <3> QED
      BY <1>3, <1>4, <3>1, <3>2 DEF LightestOf
  <2> QED
    BY <2>1, <2>2
<1>6. PickInv'
  BY <1>2, <1>3, <1>5 DEF PickInv, LightestOf
<1>7. best' \in Healthy
  BY <1>3, <1>4 DEF Compare
<1>8. PlacementTypeOK'
  BY <1>1, <1>2, <1>3, <1>7 DEF PlacementTypeOK, walkVars
<1> QED
  BY <1>1, <1>2, <1>6, <1>8 DEF PlacementInv, StartsAtSuccessor, RingOK, Sorted

LEMMA PickEndsKeeps ==
  ASSUME PlacementInv, PickEnds
  PROVE  PlacementInv'
<1>1. at = "pick" /\ at' = "done" /\ PlacementTypeOK /\ PickInv
  BY DEF PlacementInv, PickEnds
<1>2. UNCHANGED <<rows, excluded, limit, ring, target, lo, hi, idx, walkVars, pickVars>> /\ Healthy' = Healthy
  BY DEF PickEnds, givenVars, searchVars, Healthy
<1>3. next = Len(items) + 1 /\ chosen' = best /\ Len(items) \in Nat
  BY <1>1 DEF PickEnds, PickInv, PlacementTypeOK
<1>4. LightestOf(best, Len(items)) /\ best \in Healthy
  BY <1>1, <1>3 DEF PickInv, LightestOf, PlacementTypeOK
<1>5. Chosen'
  BY <1>2, <1>3, <1>4 DEF Chosen, LightestOf, pickVars
<1>6. PlacementTypeOK'
  BY <1>1, <1>2, <1>3, <1>4 DEF PlacementTypeOK, walkVars, pickVars
<1> QED
  BY <1>1, <1>5, <1>6 DEF PlacementInv

LEMMA NoneHealthyKeeps ==
  ASSUME PlacementInv, NoneHealthy
  PROVE  PlacementInv'
<1>1. at' = "done" /\ PlacementTypeOK /\ Healthy = {} /\ chosen = NoWorker
  BY DEF PlacementInv, NoneHealthy, Untouched
<1>2. UNCHANGED <<rows, excluded, limit, ring, target, searchVars, walkVars, pickVars, chosen>>
      /\ Healthy' = Healthy
  BY DEF NoneHealthy, givenVars, Healthy
<1> QED
  BY <1>1, <1>2 DEF PlacementInv, Chosen, PlacementTypeOK, searchVars, walkVars, pickVars

LEMMA PlacementStep == PlacementInv /\ [Next]_vars => PlacementInv'
<1> SUFFICES ASSUME PlacementInv, [Next]_vars PROVE PlacementInv'
  OBVIOUS
<1>1. CASE Next
  BY <1>1, NoneHealthyKeeps, BuildRingKeeps, ProbeKeeps, SearchEndsKeeps, WalkKeeps, WalkEndsKeeps,
     CompareKeeps, PickEndsKeeps DEF Next
<1>2. CASE UNCHANGED vars
  BY <1>2 DEF vars, givenVars, searchVars, walkVars, pickVars, PlacementInv, PlacementTypeOK, Untouched,
     RingOK, Sorted, SearchInv, StartsAtSuccessor, PickInv, LightestOf, Chosen, Healthy
<1> QED
  BY <1>1, <1>2

-----------------------------------------------------------------------------
(* What the loops establish.                                               *)

LEMMA FindsSuccessor ==
  ASSUME PlacementInv, at \in {"walk", "pick"}
  PROVE  idx + 1 = Successor(ring)
<1>1. StartsAtSuccessor /\ PlacementTypeOK /\ RingOK
  BY DEF PlacementInv
<1>2. /\ Len(ring) \in Nat /\ target \in Nat /\ DOMAIN ring = 1 .. Len(ring)
      /\ \A i \in 1 .. Len(ring) : ring[i].point \in Nat
  BY <1>1, RingNumbers
<1> DEFINE after == {i \in DOMAIN ring : ring[i].point >= target}
<1>3. CASE \A i \in 1 .. Len(ring) : ring[i].point < target
  <2>1. after = {}
    BY <1>2, <1>3
  <2>2. idx = 0
    BY <1>1, <1>2, <1>3 DEF StartsAtSuccessor
  <2> QED
    BY <2>1, <2>2 DEF Successor
<1>4. CASE ~ \A i \in 1 .. Len(ring) : ring[i].point < target
  <2>1. /\ idx \in 0 .. Len(ring) - 1 /\ ring[idx + 1].point >= target
        /\ \A i \in 1 .. idx : ring[i].point < target
    BY <1>1, <1>4 DEF StartsAtSuccessor
  <2>2. idx + 1 \in after
    BY <1>2, <2>1
  <2>3. \A j \in after : idx + 1 <= j
    BY <1>2, <2>1
  <2>4. \A i \in after : (\A j \in after : i <= j) => i = idx + 1
    BY <1>2, <2>1, <2>2, <2>3
  <2>5. idx + 1 = CHOOSE i \in after : \A j \in after : i <= j
    BY <2>2, <2>3, <2>4
  <2> QED
    BY <2>2, <2>5 DEF Successor
<1> QED
  BY <1>3, <1>4

(* For every number of workers and nodes, every hash and every setting, the
   search of candidates() (consistent-hash.ts:46-57) ends at the first node
   clockwise from the user's hash.                                         *)
THEOREM SearchIsRight == Spec => []SearchFinds
<1>1. PlacementInv => SearchFinds
  BY FindsSuccessor DEF SearchFinds
<1> QED
  BY <1>1, PlacementStart, PlacementStep, PTL DEF Spec

(* Types, and the worker placed is the lightest of the items, the nearest
   of equals (load.ts:20-31).                                              *)
THEOREM PicksLightest == Spec => [](PlacementTypeOK /\ ChosenIsLightest)
<1>1. PlacementInv => PlacementTypeOK /\ ChosenIsLightest
  <2> SUFFICES ASSUME PlacementInv, at = "done", chosen # NoWorker
               PROVE  LightestOf(chosen, Len(items))
    BY DEF PlacementInv, ChosenIsLightest, LightestOf
  <2> QED
    BY DEF PlacementInv, Chosen
<1> QED
  BY <1>1, PlacementStart, PlacementStep, PTL DEF Spec

(* The loops of the search and the walk stay within the ring
   (consistent-hash.ts:46-75).                                             *)
THEOREM PlacementTyped == Spec => []PlacementTypeOK
<1>1. PlacementTypeOK /\ ChosenIsLightest => PlacementTypeOK
  OBVIOUS
<1> QED
  BY PicksLightest, <1>1, PTL

(* What SessionLease takes for granted: place() (session-service.ts:47-54)
   returns a healthy worker other than the excluded one, if there is one.  *)
THEOREM PlacementKeepsRule == Spec => []PlacesAsRelied
<1>1. PlacementInv => PlacesAsRelied
  BY PlacementAssumption DEF PlacementInv, PlacesAsRelied, Chosen, Place, Healthy
<1> QED
  BY <1>1, PlacementStart, PlacementStep, PTL DEF Spec

-----------------------------------------------------------------------------
(* Ranks: what the k-th of a finite set is, by a number each element has.   *)

Rank(S, f, w) == Cardinality({v \in S : f[v] < f[w]})

LEMMA RankIsBelow ==
  ASSUME NEW S, IsFiniteSet(S), NEW f \in [S -> Int], NEW w \in S
  PROVE  Rank(S, f, w) \in Nat /\ Rank(S, f, w) < Cardinality(S)
<1>1. {v \in S : f[v] < f[w]} \subseteq S \ {w}
  OBVIOUS
<1>2. IsFiniteSet(S \ {w}) /\ Cardinality(S \ {w}) = Cardinality(S) - 1
  BY FS_RemoveElement
<1>3. /\ IsFiniteSet({v \in S : f[v] < f[w]})
      /\ Cardinality({v \in S : f[v] < f[w]}) <= Cardinality(S \ {w})
  BY <1>1, <1>2, FS_Subset
<1> QED
  BY <1>2, <1>3, FS_CardinalityType DEF Rank

LEMMA RankGrows ==
  ASSUME NEW S, IsFiniteSet(S), NEW f \in [S -> Int], NEW v \in S, NEW w \in S, f[v] < f[w]
  PROVE  Rank(S, f, v) < Rank(S, f, w)
<1> DEFINE below == {x \in S : f[x] < f[w]}
<1>1. {x \in S : f[x] < f[v]} \subseteq below \ {v}
  OBVIOUS
<1>2. IsFiniteSet(below) /\ Cardinality(below) \in Nat
  BY FS_Subset, FS_CardinalityType
<1>3. v \in below
  OBVIOUS
<1>4. IsFiniteSet(below \ {v}) /\ Cardinality(below \ {v}) = Cardinality(below) - 1
  BY <1>2, <1>3, FS_RemoveElement
<1>5. /\ IsFiniteSet({x \in S : f[x] < f[v]})
      /\ Cardinality({x \in S : f[x] < f[v]}) <= Cardinality(below \ {v})
  BY <1>1, <1>4, FS_Subset
<1> QED
  BY <1>2, <1>4, <1>5, FS_CardinalityType DEF Rank

LEMMA RankIsTaken ==
  ASSUME NEW S, IsFiniteSet(S), NEW f \in [S -> Int],
         \A v, w \in S : v # w => f[v] # f[w],
         NEW k \in Nat, k < Cardinality(S)
  PROVE  \E w \in S : Rank(S, f, w) = k
<1> DEFINE n == Cardinality(S)
           T == 0 .. n - 1
           g == [w \in S |-> Rank(S, f, w)]
<1>1. n \in Nat
  BY FS_CardinalityType
<1>2. IsFiniteSet(T) /\ Cardinality(T) = n
  <2>1. n - 1 \in Int /\ 0 \in Int
    BY <1>1
  <2>2. IsFiniteSet(T) /\ Cardinality(T) = IF 0 > n - 1 THEN 0 ELSE n - 1 - 0 + 1
    BY <2>1, FS_Interval
  <2> QED
    BY <1>1, <2>2
<1>3. \A w \in S : Rank(S, f, w) \in T
  BY <1>1, RankIsBelow
<1>4. g \in [S -> T]
  BY <1>3
<1>5. ASSUME NEW v \in S, NEW w \in S, v # w PROVE g[v] # g[w]
  <2>1. f[v] < f[w] \/ f[w] < f[v]
    BY <1>5
  <2>2. Rank(S, f, v) \in Nat /\ Rank(S, f, w) \in Nat
    BY RankIsBelow
  <2>3. Rank(S, f, v) # Rank(S, f, w)
    BY <2>1, <2>2, RankGrows
  <2> QED
    BY <2>3
<1>6. g \in Injection(S, T)
  BY <1>4, <1>5, Zenon DEF Injection, IsInjective
<1> HIDE DEF g
<1>7. g \in Surjection(S, T)
  BY <1>2, <1>6, FS_Injection
<1>8. PICK w \in S : g[w] = k
  BY <1>1, <1>7 DEF Surjection
<1> QED
  BY <1>8 DEF g

\* A finite set of numbers has a least one.
LEMMA LeastOf ==
  ASSUME NEW S \in SUBSET Int, IsFiniteSet(S), S # {}
  PROVE  \E m \in S : \A e \in S : m <= e
<1> DEFINE f == [x \in S |-> x]
<1>1. f \in [S -> Int] /\ \A v, w \in S : v # w => f[v] # f[w]
  OBVIOUS
<1>2. Cardinality(S) \in Nat /\ Cardinality(S) # 0
  BY FS_CardinalityType, FS_EmptySet
<1>3. PICK m \in S : Rank(S, f, m) = 0
  <2>1. 0 \in Nat /\ 0 < Cardinality(S)
    BY <1>2
  <2> HIDE DEF f
  <2> QED
    BY <1>1, <2>1, RankIsTaken
<1>4. {v \in S : f[v] < f[m]} = {}
  <2>1. IsFiniteSet({v \in S : f[v] < f[m]})
    BY FS_Subset
  <2> QED
    BY <2>1, <1>3, FS_EmptySet DEF Rank
<1>5. \A e \in S : ~(e < m)
  <2>1. \A e \in S : ~(f[e] < f[m])
    BY <1>4
  <2> QED
    BY <2>1
<1> QED
  BY <1>5

\* The first values of a sequence without repetition are as many as they are.
Firsts(q, n) == {q[j] : j \in 1 .. n}

LEMMA AsManyAsLong ==
  ASSUME NEW S, NEW q \in Seq(S), NEW n \in Nat, n <= Len(q),
         \A j, k \in 1 .. Len(q) : j # k => q[j] # q[k]
  PROVE  IsFiniteSet(Firsts(q, n)) /\ Cardinality(Firsts(q, n)) = n
<1> DEFINE T == Firsts(q, n)
           g == [j \in 1 .. n |-> q[j]]
<1>1. IsFiniteSet(1 .. n) /\ Cardinality(1 .. n) = n
  BY FS_Interval
<1>2. \A j \in 1 .. n : j \in 1 .. Len(q)
  OBVIOUS
<1>3. g \in Injection(1 .. n, T)
  <2>1. g \in [1 .. n -> T]
    BY DEF Firsts
  <2>2. \A j, k \in 1 .. n : g[j] = g[k] => j = k
    BY <1>2
  <2> QED
    BY <2>1, <2>2, Zenon DEF Injection, IsInjective
<1>4. g \in Surjection(1 .. n, T)
  BY DEF Surjection, Firsts
<1>5. g \in Bijection(1 .. n, T)
  BY <1>3, <1>4 DEF Bijection
<1> QED
  BY <1>1, <1>5, FS_Bijection DEF ExistsBijection

-----------------------------------------------------------------------------
(* Distances on a ring.                                                    *)

ARing(r) == r \in Seq(Node(Healthy)) /\ r # << >> /\ Sorted(r) /\ target \in Point

\* How far node i of r is from the hash, clockwise.
Far(r, i) == (i - Successor(r)) % Len(r)

NodesOf(r, w) == {i \in DOMAIN r : r[i].worker = w}
WorkersOf(r) == {r[i].worker : i \in DOMAIN r}

\* Whether the node i is at or after the hash.
After(r, i) == r[i].point >= target

LEMMA RingFacts ==
  ASSUME NEW r, ARing(r)
  PROVE  /\ Len(r) \in Nat \ {0} /\ DOMAIN r = 1 .. Len(r) /\ target \in Nat
         /\ \A i \in 1 .. Len(r) : r[i].point \in Nat /\ r[i].worker \in Healthy
<1>1. Len(r) \in Nat \ {0} /\ DOMAIN r = 1 .. Len(r) /\ \A i \in 1 .. Len(r) : r[i] \in Node(Healthy)
  BY DEF ARing
<1>2. target \in Nat
  BY PlacementAssumption DEF ARing, Point
<1> QED
  BY <1>1, <1>2, NodeFields

\* A subset of the nodes of a ring has a first one.
LEMMA FirstOf ==
  ASSUME NEW n \in Nat, NEW S \in SUBSET (1 .. n), S # {}
  PROVE  \E m \in S : \A e \in S : m <= e
<1>1. IsFiniteSet(1 .. n)
  BY FS_Interval
<1>2. IsFiniteSet(S)
  BY <1>1, FS_Subset
<1>3. S \in SUBSET Int
  OBVIOUS
<1> QED
  BY <1>2, <1>3, LeastOf

LEMMA SuccessorIs ==
  ASSUME NEW r, ARing(r)
  PROVE  /\ Successor(r) \in 1 .. Len(r)
         /\ \A i \in 1 .. Len(r) : i < Successor(r) => ~After(r, i)
         /\ \/ \A i \in 1 .. Len(r) : i >= Successor(r) <=> After(r, i)
            \/ Successor(r) = 1 /\ \A i \in 1 .. Len(r) : ~After(r, i)
<1> DEFINE after == {i \in DOMAIN r : r[i].point >= target}
<1>1. /\ Len(r) \in Nat \ {0} /\ DOMAIN r = 1 .. Len(r) /\ target \in Nat
      /\ \A i \in 1 .. Len(r) : r[i].point \in Nat
  BY RingFacts
<1>2. CASE after = {}
  <2>1. Successor(r) = 1
    BY <1>2 DEF Successor
  <2> QED
    BY <1>1, <1>2, <2>1 DEF After
<1>3. CASE after # {}
  <2>1. \E m \in after : \A e \in after : m <= e
    BY <1>1, <1>3, FirstOf
  <2>2. Successor(r) = CHOOSE i \in after : \A j \in after : i <= j
    BY <1>3 DEF Successor
  <2>3. Successor(r) \in after /\ \A j \in after : Successor(r) <= j
    BY <2>1, <2>2
  <2>4. \A i \in 1 .. Len(r) : i >= Successor(r) => r[i].point >= r[Successor(r)].point
    BY <1>1, <2>3 DEF ARing, Sorted
  <2>5. ASSUME NEW i \in 1 .. Len(r) PROVE i >= Successor(r) <=> After(r, i)
    <3>1. CASE i >= Successor(r)
      BY <1>1, <2>3, <2>4, <3>1 DEF After
    <3>2. CASE ~(i >= Successor(r))
      BY <1>1, <2>3, <3>2 DEF After
    <3> QED
      BY <3>1, <3>2
  <2> QED
    BY <1>1, <2>3, <2>5
<1> QED
  BY <1>2, <1>3

LEMMA AroundTheRing ==
  ASSUME NEW n \in Nat \ {0}, NEW i \in 1 .. n, NEW s \in 1 .. n
  PROVE  (i - s) % n = IF i >= s THEN i - s ELSE i - s + n
<1>1. CASE i >= s
  BY <1>1
<1>2. CASE i < s
  BY <1>2
<1> QED
  BY <1>1, <1>2

LEMMA PastTheEnd ==
  ASSUME NEW n \in Nat \ {0}, NEW a \in 0 .. n - 1, NEW b \in 0 .. n - 1
  PROVE  (a + b) % n = IF a + b < n THEN a + b ELSE a + b - n
OBVIOUS

LEMMA FarIs ==
  ASSUME NEW r, ARing(r), NEW i \in 1 .. Len(r)
  PROVE  /\ Far(r, i) = IF i >= Successor(r) THEN i - Successor(r) ELSE i - Successor(r) + Len(r)
         /\ Far(r, i) \in 0 .. Len(r) - 1
<1>1. Len(r) \in Nat \ {0} /\ Successor(r) \in 1 .. Len(r)
  BY RingFacts, SuccessorIs
<1>2. Far(r, i) = IF i >= Successor(r) THEN i - Successor(r) ELSE i - Successor(r) + Len(r)
  BY <1>1, AroundTheRing DEF Far
<1> QED
  BY <1>1, <1>2

LEMMA FarIsOne ==
  ASSUME NEW r, ARing(r), NEW i \in 1 .. Len(r), NEW j \in 1 .. Len(r), Far(r, i) = Far(r, j)
  PROVE  i = j
<1>1. Len(r) \in Nat \ {0} /\ Successor(r) \in 1 .. Len(r)
  BY RingFacts, SuccessorIs
<1> QED
  BY <1>1, FarIs

\* Nodes at or after the successor come first, each part in its order.
LEMMA FarOrder ==
  ASSUME NEW r, ARing(r), NEW i \in 1 .. Len(r), NEW j \in 1 .. Len(r)
  PROVE  Far(r, i) < Far(r, j) <=>
           \/ i >= Successor(r) /\ j < Successor(r)
           \/ (i >= Successor(r) <=> j >= Successor(r)) /\ i < j
<1>1. Len(r) \in Nat \ {0} /\ Successor(r) \in 1 .. Len(r)
  BY RingFacts, SuccessorIs
<1> QED
  BY <1>1, FarIs

\* The distance of a worker is that of its nearest node, and is nobody else's.
LEMMA DistancesAre ==
  ASSUME NEW r, ARing(r)
  PROVE  /\ DOMAIN Distances(r) = WorkersOf(r)
         /\ \A w \in WorkersOf(r) :
              /\ Distances(r)[w] \in 0 .. Len(r) - 1
              /\ \E i \in NodesOf(r, w) : Distances(r)[w] = Far(r, i)
              /\ \A i \in NodesOf(r, w) : Distances(r)[w] <= Far(r, i)
<1> DEFINE steps(w) == {(i - Successor(r)) % Len(r) : i \in {k \in DOMAIN r : r[k].worker = w}}
<1>1. Distances(r) =
        [w \in WorkersOf(r) |-> CHOOSE d \in steps(w) : \A e \in steps(w) : d <= e]
  BY DEF Distances, WorkersOf
<1>2. DOMAIN r = 1 .. Len(r) /\ Len(r) \in Nat \ {0}
  BY RingFacts
<1>3. ASSUME NEW w \in WorkersOf(r)
      PROVE  \E d \in steps(w) : \A e \in steps(w) : d <= e
  <2>1. steps(w) = {Far(r, i) : i \in NodesOf(r, w)}
    BY DEF Far, NodesOf
  <2>2. steps(w) \subseteq 0 .. Len(r) - 1
    BY <1>2, <2>1, FarIs DEF NodesOf
  <2>3. steps(w) # {}
    BY <2>1 DEF WorkersOf, NodesOf
  <2>4. IsFiniteSet(0 .. Len(r) - 1)
    BY <1>2, FS_Interval
  <2> HIDE DEF steps
  <2>5. IsFiniteSet(steps(w)) /\ steps(w) \subseteq Int
    BY <2>2, <2>4, FS_Subset
  <2> QED
    BY <2>3, <2>5, LeastOf
<1>4. ASSUME NEW w \in WorkersOf(r)
      PROVE  Distances(r)[w] \in steps(w) /\ \A e \in steps(w) : Distances(r)[w] <= e
  <2> HIDE DEF steps
  <2>1. Distances(r)[w] = CHOOSE d \in steps(w) : \A e \in steps(w) : d <= e
    BY <1>1
  <2> QED
    BY <1>3, <2>1
<1>5. ASSUME NEW w \in WorkersOf(r)
      PROVE  /\ Distances(r)[w] \in 0 .. Len(r) - 1
             /\ \E i \in NodesOf(r, w) : Distances(r)[w] = Far(r, i)
             /\ \A i \in NodesOf(r, w) : Distances(r)[w] <= Far(r, i)
  <2>1. steps(w) = {Far(r, i) : i \in NodesOf(r, w)}
    BY DEF Far, NodesOf
  <2>2. /\ \E i \in NodesOf(r, w) : Distances(r)[w] = Far(r, i)
        /\ \A i \in NodesOf(r, w) : Distances(r)[w] <= Far(r, i)
    BY <1>4, <2>1
  <2> QED
    BY <1>2, <2>2, FarIs DEF NodesOf
<1>6. DOMAIN Distances(r) = WorkersOf(r)
  BY <1>1
<1> QED
  BY <1>5, <1>6

LEMMA DistanceIsOne ==
  ASSUME NEW r, ARing(r), NEW v \in WorkersOf(r), NEW w \in WorkersOf(r),
         Distances(r)[v] = Distances(r)[w]
  PROVE  v = w
<1>1. PICK i \in NodesOf(r, v) : Distances(r)[v] = Far(r, i)
  BY DistancesAre
<1>2. PICK j \in NodesOf(r, w) : Distances(r)[w] = Far(r, j)
  BY DistancesAre
<1>3. i \in 1 .. Len(r) /\ j \in 1 .. Len(r)
  BY RingFacts DEF NodesOf
<1>4. i = j
  BY <1>1, <1>2, <1>3, FarIsOne
<1> QED
  BY <1>4 DEF NodesOf

(* What the nearest workers are: any order that agrees with the distances  *)
(* tells a sequence that grows in it, leaves out only what is further, and *)
(* has the right length.                                                   *)
LEMMA NearestIs ==
  ASSUME NEW r, ARing(r), NEW f \in [WorkersOf(r) -> Int], NEW q \in Seq(WorkersOf(r)),
         IsFiniteSet(WorkersOf(r)),
         \A v, w \in WorkersOf(r) : f[v] < f[w] <=> Distances(r)[v] < Distances(r)[w],
         \A j, k \in 1 .. Len(q) : j < k => f[q[j]] < f[q[k]],
         \A w \in WorkersOf(r) : \A k \in 1 .. Len(q) :
            w \in Firsts(q, Len(q)) \/ f[q[k]] < f[w],
         Len(q) = IF limit < Cardinality(WorkersOf(r)) THEN limit ELSE Cardinality(WorkersOf(r))
  PROVE  q = Nearest(r)
<1> DEFINE far == Distances(r)
           W == WorkersOf(r)
           n == IF limit < Cardinality(W) THEN limit ELSE Cardinality(W)
           nth(k) == CHOOSE w \in DOMAIN far : Cardinality({v \in DOMAIN far : far[v] < far[w]}) = k - 1
<1>1. DOMAIN far = W /\ \A w \in W : far[w] \in Int
  BY DistancesAre
<1>2. Nearest(r) = [k \in 1 .. n |-> nth(k)]
  BY <1>1 DEF Nearest
<1>3. far \in [W -> Int]
  BY <1>1 DEF Distances, WorkersOf
<1> HIDE DEF far
<1>4. \A j, k \in 1 .. Len(q) : j # k => q[j] # q[k]
  BY DEF W
<1>5. Len(q) \in Nat /\ \A k \in 1 .. Len(q) : q[k] \in W
  OBVIOUS
<1>6. ASSUME NEW k \in 1 .. Len(q) PROVE Rank(W, far, q[k]) = k - 1
  <2>1. ASSUME NEW v \in W, far[v] < far[q[k]] PROVE v \in Firsts(q, k - 1)
    <3>1. f[v] < f[q[k]] /\ f[v] \in Int /\ f[q[k]] \in Int
      BY <1>5, <2>1 DEF far
    <3>2. PICK j \in 1 .. Len(q) : v = q[j]
      BY <3>1 DEF Firsts
    <3>3. ~(k < j) /\ j # k
      BY <3>1, <3>2, <1>5
    <3> QED
      BY <3>2, <3>3, <1>5 DEF Firsts
  <2>2. ASSUME NEW j \in 1 .. k - 1 PROVE q[j] \in W /\ far[q[j]] < far[q[k]]
    <3>1. j \in 1 .. Len(q) /\ j < k
      BY <1>5
    <3>2. f[q[j]] < f[q[k]] /\ q[j] \in W /\ q[k] \in W
      BY <1>5, <3>1
    <3> QED
      BY <3>2 DEF far
  <2>3. {v \in W : far[v] < far[q[k]]} = Firsts(q, k - 1)
    BY <2>1, <2>2 DEF Firsts
  <2>4. Cardinality(Firsts(q, k - 1)) = k - 1
    <3>1. k - 1 \in Nat /\ k - 1 <= Len(q)
      BY <1>5
    <3> QED
      BY <1>4, <3>1, AsManyAsLong
  <2> QED
    BY <2>3, <2>4 DEF Rank
<1>7. ASSUME NEW k \in 1 .. Len(q) PROVE nth(k) = q[k]
  <2>1. \A w \in W : Rank(W, far, w) = k - 1 => w = q[k]
    <3> SUFFICES ASSUME NEW w \in W, Rank(W, far, w) = k - 1, w # q[k] PROVE FALSE
      OBVIOUS
    <3>1. far[w] # far[q[k]]
      BY <1>5, DistanceIsOne DEF far
    <3>2. far[w] < far[q[k]] \/ far[q[k]] < far[w]
      BY <1>3, <1>5, <3>1
    <3>3. Rank(W, far, w) < Rank(W, far, q[k]) \/ Rank(W, far, q[k]) < Rank(W, far, w)
      BY <1>3, <1>5, <3>2, RankGrows
    <3> QED
      BY <1>6, <3>3
  <2>2. \A w \in W : Rank(W, far, w) = k - 1 <=> Cardinality({v \in DOMAIN far : far[v] < far[w]}) = k - 1
    BY <1>1 DEF Rank
  <2>3. q[k] \in DOMAIN far /\ Cardinality({v \in DOMAIN far : far[v] < far[q[k]]}) = k - 1
    BY <1>1, <1>5, <1>6, <2>2
  <2>4. \A w \in DOMAIN far : Cardinality({v \in DOMAIN far : far[v] < far[w]}) = k - 1 => w = q[k]
    BY <1>1, <2>1, <2>2
  <2> QED
    BY <2>3, <2>4
<1>8. Len(q) = n
  OBVIOUS
<1>9. q = [k \in 1 .. Len(q) |-> q[k]]
  OBVIOUS
<1> HIDE DEF nth
<1> QED
  BY <1>2, <1>7, <1>8, <1>9

-----------------------------------------------------------------------------
(* The walk.                                                               *)

RingFull == ARing(ring) /\ WorkersOf(ring) = Healthy

\* The loop invariant: the workers seen are those nearer than the walk is
\* long, nearest first.
WalkInv ==
    /\ Len(out) <= limit
    /\ \A w \in Healthy : w \in Seen <=> Distances(ring)[w] < step
    /\ \A j, k \in 1 .. Len(out) : j < k => Distances(ring)[out[j]] < Distances(ring)[out[k]]

\* What the walk establishes.
Collected == WalkInv /\ (step = Len(ring) \/ Len(out) = limit)

NearInv ==
    /\ PlacementInv
    /\ at # "begin" /\ Healthy # {} => RingFull
    /\ at = "search" => out = << >> /\ step = 0
    /\ at = "walk" => WalkInv
    /\ at \in {"pick", "done"} /\ Healthy # {} => Collected

LEMMA NearRest ==
  ASSUME UNCHANGED <<rows, excluded, limit, ring, target, step, out>>
  PROVE  /\ Healthy' = Healthy
         /\ RingFull => RingFull'
         /\ WalkInv => WalkInv'
         /\ Collected => Collected'
<1>1. Healthy' = Healthy /\ Seen' = Seen
  BY DEF Healthy, Seen
<1>2. Distances(ring)' = Distances(ring)
  BY DEF Distances, Successor
<1>3. RingFull => RingFull'
  BY <1>1 DEF RingFull, ARing, WorkersOf, Sorted
<1>4. WalkInv => WalkInv'
  BY <1>1, <1>2 DEF WalkInv
<1> QED
  BY <1>1, <1>3, <1>4 DEF Collected

LEMMA BuildRingNear ==
  ASSUME NearInv, BuildRing
  PROVE  NearInv'
<1>1. PlacementInv' /\ at' = "search" /\ Healthy # {} /\ Healthy' = Healthy
  BY BuildRingKeeps DEF NearInv, BuildRing, givenVars, Healthy
<1>2. ring' \in Rings(Healthy)
  BY DEF BuildRing
<1>3. ring' \in Seq(Node(Healthy)) /\ Len(ring') > 0 /\ Sorted(ring')
  BY <1>1, <1>2, RingShape
<1>4. ARing(ring)'
  BY <1>1, <1>3 DEF ARing, BuildRing, Sorted
<1>5. ASSUME NEW w \in Healthy PROVE \E i \in DOMAIN ring' : ring'[i].worker = w
  <2>1. Cardinality({i \in DOMAIN ring' : ring'[i].worker = w}) = VNodes
    BY <1>2 DEF Rings
  <2>2. {i \in DOMAIN ring' : ring'[i].worker = w} # {}
    BY <2>1, FS_EmptySet, PlacementAssumption
  <2> QED
    BY <2>2
<1>6. \A i \in DOMAIN ring' : ring'[i].worker \in Healthy
  BY <1>3, NodeFields
<1>7. WorkersOf(ring)' = Healthy
  BY <1>5, <1>6 DEF WorkersOf
<1>8. out' = << >> /\ step' = 0
  BY DEF NearInv, PlacementInv, BuildRing, Untouched, walkVars
<1> QED
  BY <1>1, <1>4, <1>7, <1>8 DEF NearInv, RingFull

LEMMA WalkNear ==
  ASSUME NearInv, Walk
  PROVE  NearInv'
<1>1. at = "walk" /\ at' = "walk" /\ PlacementTypeOK /\ RingOK /\ RingFull /\ WalkInv
  BY DEF NearInv, PlacementInv, Walk, RingOK
<1>2. PlacementInv'
  BY WalkKeeps DEF NearInv
<1>3. UNCHANGED <<rows, excluded, limit, ring, target>> /\ Healthy' = Healthy
  BY DEF Walk, givenVars, Healthy
<1>4. /\ RingFull' /\ Distances(ring)' = Distances(ring)
  BY <1>1, <1>3 DEF RingFull, ARing, WorkersOf, Sorted, Distances, Successor
<1> DEFINE D == Distances(ring)
           i == ((idx + step) % Len(ring)) + 1
<1>5. idx + 1 = Successor(ring)
  BY <1>1, FindsSuccessor DEF NearInv
<1>6. Len(ring) \in Nat \ {0} /\ step \in Nat /\ step < Len(ring) /\ Len(out) < limit
      /\ idx \in 0 .. Len(ring) - 1 /\ limit \in Nat /\ out \in Seq(Healthy) /\ Len(out) \in Nat
  <2>1. Successor(ring) \in 1 .. Len(ring) /\ Len(ring) \in Nat \ {0}
    BY <1>1, RingFacts, SuccessorIs DEF RingFull
  <2> QED
    BY <1>1, <1>5, <2>1 DEF Walk, NodesLeft, PlacementTypeOK
<1>7. i \in 1 .. Len(ring) /\ Far(ring, i) = step
  <2>2. (idx + step) % Len(ring) = IF idx + step < Len(ring) THEN idx + step ELSE idx + step - Len(ring)
    <3>1. step \in 0 .. Len(ring) - 1
      BY <1>6
    <3> QED
      BY <1>6, <3>1, PastTheEnd
  <2>3. i \in 1 .. Len(ring)
    BY <1>6, <2>2
  <2>4. Far(ring, i) = IF i >= idx + 1 THEN i - (idx + 1) ELSE i - (idx + 1) + Len(ring)
    BY <1>1, <1>5, <2>3, FarIs DEF RingFull
  <2> HIDE DEF i
  <2>5. i = IF idx + step < Len(ring) THEN idx + step + 1 ELSE idx + step - Len(ring) + 1
    BY <2>2 DEF i
  <2> QED
    BY <1>6, <2>3, <2>4, <2>5
<1>8. Here = ring[i].worker /\ Here \in Healthy
  BY <1>1, <1>7, RingNumbers DEF Here
<1>9. \A w \in Healthy : D[w] \in Nat
  BY <1>1, DistancesAre DEF RingFull
<1> HIDE DEF i, D
<1>10. D[Here] <= step
  <2>1. i \in NodesOf(ring, Here)
    BY <1>6, <1>7, <1>8 DEF NodesOf, RingFull, ARing
  <2> QED
    BY <1>1, <1>7, <1>8, <2>1, DistancesAre DEF RingFull, D
<1>11. ASSUME NEW w \in Healthy, D[w] = step PROVE w = Here
  <2>1. PICK j \in NodesOf(ring, w) : D[w] = Far(ring, j)
    BY <1>1, DistancesAre DEF RingFull, D
  <2>2. j \in 1 .. Len(ring) /\ ring[j].worker = w
    BY <1>1, RingNumbers DEF NodesOf
  <2>3. j = i
    BY <1>1, <1>7, <1>11, <2>1, <2>2, FarIsOne DEF RingFull
  <2> QED
    BY <1>8, <2>2, <2>3
<1>12. step' = step + 1
  BY DEF Walk
<1>13. \A w \in Healthy : w \in Seen <=> D[w] < step
  BY <1>1 DEF WalkInv, D
<1>14. \A j, k \in 1 .. Len(out) : j < k => D[out[j]] < D[out[k]]
  BY <1>1 DEF WalkInv, D
<1>15. CASE Here \in Seen
  <2>1. out' = out /\ Seen' = Seen
    BY <1>15 DEF Walk, Seen
  <2>2. ASSUME NEW w \in Healthy PROVE w \in Seen <=> D[w] < step + 1
    <3>1. D[w] # step
      BY <1>8, <1>9, <1>11, <1>13, <1>15
    <3> QED
      BY <1>6, <1>9, <1>13, <3>1
  <2>3. WalkInv'
    BY <1>1, <1>3, <1>4, <1>12, <1>14, <2>1, <2>2 DEF WalkInv, D
  <2> QED
    BY <1>1, <1>2, <1>3, <1>4, <2>3 DEF NearInv
<1>16. CASE Here \notin Seen
  <2>1. out' = Append(out, Here)
    BY <1>16 DEF Walk
  <2>2. /\ Len(out') = Len(out) + 1 /\ out'[Len(out) + 1] = Here
        /\ \A k \in 1 .. Len(out) : out'[k] = out[k]
    BY <1>6, <1>8, <2>1
  <2>3. Seen' = Seen \cup {Here}
    <3>1. \A k \in 1 .. Len(out') : k \in 1 .. Len(out) \/ k = Len(out) + 1
      BY <1>6, <2>2
    <3>2. \A k \in 1 .. Len(out) : k \in 1 .. Len(out') /\ Len(out) + 1 \in 1 .. Len(out')
      BY <1>6, <2>2
    <3>3. Len(out) + 1 \in 1 .. Len(out')
      BY <1>6, <2>2
    <3> QED
      BY <2>2, <3>1, <3>2, <3>3 DEF Seen
  <2>4. D[Here] = step
    BY <1>6, <1>8, <1>9, <1>10, <1>13, <1>16
  <2>5. \A w \in Healthy : w \in Seen' <=> D[w] < step + 1
    BY <1>6, <1>9, <1>11, <1>13, <2>3, <2>4
  <2>6. \A k \in 1 .. Len(out) : D[out[k]] < step
    <3>1. \A k \in 1 .. Len(out) : out[k] \in Seen /\ out[k] \in Healthy
      BY <1>6 DEF Seen
    <3> QED
      BY <1>13, <3>1
  <2>7. \A j, k \in 1 .. Len(out') : j < k => D[out'[j]] < D[out'[k]]
    BY <1>6, <1>14, <2>2, <2>4, <2>6
  <2>8. WalkInv'
    BY <1>3, <1>4, <1>6, <1>12, <2>2, <2>5, <2>7 DEF WalkInv, D
  <2> QED
    BY <1>1, <1>2, <1>3, <1>4, <2>8 DEF NearInv
<1> QED
  BY <1>15, <1>16

LEMMA NearStep == NearInv /\ [Next]_vars => NearInv'
<1> SUFFICES ASSUME NearInv, [Next]_vars PROVE NearInv'
  OBVIOUS
<1>0. PlacementInv /\ PlacementInv'
  BY PlacementStep DEF NearInv
<1>1. CASE NoneHealthy
  BY <1>0, <1>1 DEF NearInv, NoneHealthy, givenVars, Healthy
<1>2. CASE BuildRing
  BY <1>2, BuildRingNear
<1>3. CASE Probe
  BY <1>0, <1>3, NearRest DEF NearInv, Probe, givenVars, walkVars
<1>4. CASE SearchEnds
  <2>1. /\ at = "search" /\ at' = "walk" /\ UNCHANGED <<rows, excluded, limit, ring, target, step, out>>
    BY <1>4 DEF SearchEnds, givenVars, walkVars
  <2>2. out = << >> /\ step = 0 /\ RingFull /\ limit \in Nat
    BY <2>1 DEF NearInv, PlacementInv, RingOK, PlacementTypeOK
  <2>3. \A w \in Healthy : Distances(ring)[w] \in Nat
    BY <2>2, DistancesAre DEF RingFull
  <2>4. WalkInv
    BY <2>2, <2>3 DEF WalkInv, Seen
  <2> QED
    BY <1>0, <2>1, <2>2, <2>4, NearRest DEF NearInv
<1>5. CASE Walk
  BY <1>5, WalkNear
<1>6. CASE WalkEnds
  <2>1. /\ at = "walk" /\ at' = "pick" /\ UNCHANGED <<rows, excluded, limit, ring, target, step, out>>
    BY <1>6 DEF WalkEnds, givenVars, walkVars
  <2>2. WalkInv /\ RingFull
    BY <2>1 DEF NearInv, PlacementInv, RingOK
  <2>3. Collected
    BY <1>0, <1>6, <2>2 DEF Collected, WalkEnds, NodesLeft, WalkInv, PlacementInv, PlacementTypeOK
  <2> QED
    BY <1>0, <2>1, <2>2, <2>3, NearRest DEF NearInv
<1>7. CASE Compare
  BY <1>0, <1>7, NearRest DEF NearInv, Compare, givenVars, walkVars
<1>8. CASE PickEnds
  BY <1>0, <1>8, NearRest DEF NearInv, PickEnds, givenVars, walkVars
<1>9. CASE UNCHANGED vars
  BY <1>0, <1>9, NearRest DEF NearInv, vars, givenVars, walkVars
<1> QED
  BY <1>1, <1>2, <1>3, <1>4, <1>5, <1>6, <1>7, <1>8, <1>9 DEF Next

LEMMA NearStart == Init => NearInv
BY PlacementStart DEF Init, NearInv

\* The candidates, seen as a sequence of workers of the ring.
LEMMA CollectedShape ==
  ASSUME PlacementTypeOK, RingFull, Collected
  PROVE  /\ IsFiniteSet(Healthy) /\ Cardinality(Healthy) \in Nat /\ limit \in Nat
         /\ out \in Seq(Healthy) /\ Len(out) \in Nat /\ Seen = Firsts(out, Len(out))
         /\ \A w \in Healthy : Distances(ring)[w] \in Int
         /\ \A w \in Healthy \ Seen : \A k \in 1 .. Len(out) :
              Distances(ring)[out[k]] < Distances(ring)[w]
         /\ IsFiniteSet(Seen) /\ Cardinality(Seen) = Len(out)
         /\ Len(out) = limit \/ (Seen = Healthy /\ Len(out) <= limit)
<1>1. out \in Seq(Healthy) /\ Len(out) \in Nat /\ limit \in Nat /\ step \in Nat
  BY DEF PlacementTypeOK
<1>2. Len(ring) \in Nat \ {0}
  BY RingFacts DEF RingFull
<1>3. \A w \in Healthy : Distances(ring)[w] \in 0 .. Len(ring) - 1
  BY DistancesAre DEF RingFull
<1>4. Seen = Firsts(out, Len(out)) /\ Seen \subseteq Healthy
  BY <1>1 DEF Seen, Firsts
<1>5. \A k \in 1 .. Len(out) : out[k] \in Seen /\ out[k] \in Healthy
  BY <1>1 DEF Seen
<1>6. \A w \in Healthy \ Seen : \A k \in 1 .. Len(out) :
        Distances(ring)[out[k]] < Distances(ring)[w]
  BY <1>1, <1>2, <1>3, <1>5 DEF Collected, WalkInv
<1>7. IsFiniteSet(Seen) /\ Cardinality(Seen) = Len(out)
  <2>1. \A j, k \in 1 .. Len(out) : j # k => out[j] # out[k]
    BY <1>1, <1>3, <1>5 DEF Collected, WalkInv
  <2> QED
    BY <1>1, <1>4, <2>1, AsManyAsLong
<1>8. Len(out) = limit \/ (Seen = Healthy /\ Len(out) <= limit)
  <2>1. CASE step = Len(ring)
    <3>1. \A w \in Healthy : w \in Seen
      BY <1>2, <1>3, <2>1 DEF Collected, WalkInv
    <3>2. Seen = Healthy
      BY <1>4, <3>1
    <3> QED
      BY <3>2 DEF Collected, WalkInv
  <2> QED
    BY <2>1 DEF Collected
<1> QED
  BY <1>1, <1>2, <1>3, <1>4, <1>6, <1>7, <1>8, HealthyFinite

LEMMA CollectedAreNearest ==
  ASSUME PlacementTypeOK, RingFull, Collected
  PROVE  out = Nearest(ring)
<1>1. ARing(ring) /\ WorkersOf(ring) = Healthy
  BY DEF RingFull
<1>2. Distances(ring) \in [WorkersOf(ring) -> Int]
  BY <1>1, CollectedShape DEF Distances, WorkersOf
<1>3. Len(out) = IF limit < Cardinality(Healthy) THEN limit ELSE Cardinality(Healthy)
  <2>1. Cardinality(Seen) <= Cardinality(Healthy) /\ Cardinality(Seen) = Len(out)
    <3>1. Seen \subseteq Healthy
      BY CollectedShape DEF Firsts
    <3> QED
      BY <3>1, CollectedShape, FS_Subset
  <2> QED
    BY <2>1, CollectedShape
<1>4. \A j, k \in 1 .. Len(out) : j < k => Distances(ring)[out[j]] < Distances(ring)[out[k]]
  BY DEF Collected, WalkInv
<1>5. \A w \in WorkersOf(ring) : \A k \in 1 .. Len(out) :
        w \in Firsts(out, Len(out)) \/ Distances(ring)[out[k]] < Distances(ring)[w]
  BY <1>1, CollectedShape
<1>6. out \in Seq(WorkersOf(ring)) /\ IsFiniteSet(WorkersOf(ring))
  BY <1>1, CollectedShape
<1> QED
  BY <1>1, <1>2, <1>3, <1>4, <1>5, <1>6, NearestIs

-----------------------------------------------------------------------------
(* A ring without one of its workers.                                      *)

Kept(r, w) == {i \in DOMAIN r : r[i].worker # w}

\* Where node i of r is on the ring without w.
PosWithout(r, w, i) == Cardinality({j \in Kept(r, w) : j < i}) + 1

LEMMA WithoutIs ==
  ASSUME NEW r, ARing(r), NEW w, Kept(r, w) # {}
  PROVE  LET less == Without(r, w)
             pos(i) == PosWithout(r, w, i)
         IN  /\ ARing(less)
             /\ \A i \in Kept(r, w) : pos(i) \in 1 .. Len(less) /\ less[pos(i)] = r[i]
             /\ \A i, j \in Kept(r, w) : i < j <=> pos(i) < pos(j)
             /\ \A k \in 1 .. Len(less) : \E i \in Kept(r, w) : pos(i) = k
<1> DEFINE K == Kept(r, w)
           f == [i \in K |-> i]
           n == Cardinality(K)
           pos(i) == PosWithout(r, w, i)
           nth(k) == CHOOSE i \in K : Cardinality({j \in K : j < i}) = k - 1
           less == Without(r, w)
<1>1. /\ DOMAIN r = 1 .. Len(r) /\ Len(r) \in Nat \ {0}
      /\ \A i \in 1 .. Len(r) : r[i] \in Node(Healthy)
      /\ \A i \in 1 .. Len(r) : r[i].point \in Nat
  BY RingFacts DEF ARing
<1>2. IsFiniteSet(K) /\ K \subseteq 1 .. Len(r)
  <2>1. IsFiniteSet(1 .. Len(r)) /\ K \subseteq 1 .. Len(r)
    BY <1>1, FS_Interval DEF Kept
  <2> HIDE DEF K
  <2> QED
    BY <2>1, FS_Subset
<1>3. n \in Nat \ {0}
  BY <1>2, FS_CardinalityType, FS_EmptySet
<1>4. f \in [K -> Int] /\ \A i, j \in K : i # j => f[i] # f[j]
  BY <1>2
<1>5. ASSUME NEW i \in K PROVE Rank(K, f, i) = Cardinality({j \in K : j < i})
  <2>1. {j \in K : f[j] < f[i]} = {j \in K : j < i}
    OBVIOUS
  <2> QED
    BY <2>1 DEF Rank
<1>6. \A i \in K : pos(i) = Rank(K, f, i) + 1
  BY <1>5 DEF PosWithout
<1> HIDE DEF f, K
<1>7. \A i \in K : Rank(K, f, i) \in Nat /\ Rank(K, f, i) < n
  BY <1>2, <1>4, RankIsBelow
<1>8. \A i, j \in K : i < j => Rank(K, f, i) < Rank(K, f, j)
  <2> SUFFICES ASSUME NEW i \in K, NEW j \in K, i < j PROVE Rank(K, f, i) < Rank(K, f, j)
    OBVIOUS
  <2>1. f[i] < f[j]
    BY DEF f
  <2> QED
    BY <1>2, <1>4, <2>1, RankGrows
<1>9. \A i, j \in K : i < j <=> pos(i) < pos(j)
  BY <1>2, <1>6, <1>7, <1>8
<1>10. \A k \in 1 .. n : \E i \in K : Rank(K, f, i) = k - 1
  <2> SUFFICES ASSUME NEW k \in 1 .. n PROVE \E i \in K : Rank(K, f, i) = k - 1
    OBVIOUS
  <2>1. k - 1 \in Nat /\ k - 1 < n
    BY <1>3
  <2> QED
    BY <1>2, <1>4, <2>1, RankIsTaken
<1>11. ASSUME NEW i \in K PROVE pos(i) \in 1 .. n /\ nth(pos(i)) = i
  <2>1. pos(i) \in 1 .. n /\ Cardinality({j \in K : j < i}) = pos(i) - 1
    BY <1>3, <1>5, <1>6, <1>7
  <2>2. \A m \in K : Cardinality({j \in K : j < m}) = pos(i) - 1 => m = i
    <3> SUFFICES ASSUME NEW m \in K, Cardinality({j \in K : j < m}) = pos(i) - 1 PROVE m = i
      OBVIOUS
    <3>1. Rank(K, f, m) = Rank(K, f, i)
      BY <1>5, <2>1
    <3>2. ~(m < i) /\ ~(i < m)
      BY <1>7, <1>8, <3>1
    <3> QED
      BY <1>2, <3>2
  <2> QED
    BY <2>1, <2>2
<1>12. less = [k \in 1 .. n |-> r[nth(k)]]
  BY DEF Without, Kept, K
<1>13. \A k \in 1 .. n : \E i \in K : pos(i) = k /\ less[k] = r[i]
  <2> SUFFICES ASSUME NEW k \in 1 .. n PROVE \E i \in K : pos(i) = k /\ less[k] = r[i]
    OBVIOUS
  <2>1. PICK i \in K : Rank(K, f, i) = k - 1
    BY <1>10
  <2>2. pos(i) = k
    BY <1>6, <2>1
  <2>3. nth(k) = i
    BY <1>11, <2>2
  <2> QED
    BY <1>12, <2>2, <2>3
<1> HIDE DEF nth, n
<1>14. \A i \in K : less[pos(i)] = r[i]
  BY <1>11, <1>12
<1>15. less \in Seq(Node(Healthy)) /\ Len(less) = n /\ less # << >> /\ DOMAIN less = 1 .. n
  <2>1. \A k \in 1 .. n : less[k] \in Node(Healthy)
    BY <1>1, <1>2, <1>13
  <2>2. less = [k \in 1 .. n |-> less[k]]
    BY <1>12
  <2> HIDE DEF less
  <2>3. less \in [1 .. n -> Node(Healthy)]
    BY <2>1, <2>2
  <2> QED
    BY <1>3, <2>3
<1>16. Sorted(less)
  <2> SUFFICES ASSUME NEW k \in 1 .. n, NEW m \in 1 .. n, k < m
               PROVE  less[k].point <= less[m].point
    BY <1>15 DEF Sorted
  <2>1. PICK i \in K : pos(i) = k /\ less[k] = r[i]
    BY <1>13
  <2>2. PICK j \in K : pos(j) = m /\ less[m] = r[j]
    BY <1>13
  <2>3. i < j
    BY <1>9, <2>1, <2>2
  <2> QED
    BY <1>1, <1>2, <2>1, <2>2, <2>3 DEF ARing, Sorted
<1>17. ARing(less)
  BY <1>15, <1>16 DEF ARing
<1> QED
  BY <1>9, <1>11, <1>13, <1>14, <1>15, <1>17 DEF K

\* What stays on the ring is met in the same order as before.
LEMMA OrderStays ==
  ASSUME NEW r, ARing(r), NEW w, NEW i \in Kept(r, w), NEW j \in Kept(r, w)
  PROVE  Far(Without(r, w), PosWithout(r, w, i)) < Far(Without(r, w), PosWithout(r, w, j))
           <=> Far(r, i) < Far(r, j)
<1> DEFINE less == Without(r, w)
           pos(k) == PosWithout(r, w, k)
           s == Successor(r)
           t == Successor(less)
<1>1. /\ ARing(less)
      /\ \A k \in Kept(r, w) : pos(k) \in 1 .. Len(less) /\ less[pos(k)] = r[k]
      /\ \A k, m \in Kept(r, w) : k < m <=> pos(k) < pos(m)
      /\ \A k \in 1 .. Len(less) : \E m \in Kept(r, w) : pos(m) = k
  BY WithoutIs
<1>2. Len(r) \in Nat /\ Kept(r, w) \subseteq 1 .. Len(r) /\ Len(less) \in Nat
  BY <1>1, RingFacts DEF Kept
<1>3. \A k \in Kept(r, w) : After(less, pos(k)) <=> After(r, k)
  BY <1>1 DEF After
<1>4. /\ s \in 1 .. Len(r)
      /\ \/ \A k \in 1 .. Len(r) : k >= s <=> After(r, k)
         \/ s = 1 /\ \A k \in 1 .. Len(r) : ~After(r, k)
  BY SuccessorIs
<1>5. /\ t \in 1 .. Len(less)
      /\ \/ \A k \in 1 .. Len(less) : k >= t <=> After(less, k)
         \/ t = 1 /\ \A k \in 1 .. Len(less) : ~After(less, k)
  BY <1>1, SuccessorIs
<1>6. Far(r, i) < Far(r, j) <=>
        \/ i >= s /\ j < s
        \/ (i >= s <=> j >= s) /\ i < j
  BY <1>2, FarOrder
<1>7. Far(less, pos(i)) < Far(less, pos(j)) <=>
        \/ pos(i) >= t /\ pos(j) < t
        \/ (pos(i) >= t <=> pos(j) >= t) /\ pos(i) < pos(j)
  BY <1>1, FarOrder
<1> HIDE DEF less, pos, s, t
<1> SUFFICES Far(less, pos(i)) < Far(less, pos(j)) <=> Far(r, i) < Far(r, j)
  BY DEF less, pos
<1>8. i < j <=> pos(i) < pos(j)
  BY <1>1
<1>9. i \in 1 .. Len(r) /\ j \in 1 .. Len(r) /\ pos(i) \in 1 .. Len(less) /\ pos(j) \in 1 .. Len(less)
  BY <1>1, <1>2
<1>10. CASE \A k \in 1 .. Len(less) : k >= t <=> After(less, k)
  <2>1. After(r, i) <=> pos(i) >= t
    BY <1>3, <1>9, <1>10
  <2>2. After(r, j) <=> pos(j) >= t
    BY <1>3, <1>9, <1>10
  <2>3. CASE \A k \in 1 .. Len(r) : k >= s <=> After(r, k)
    <3>1. (i >= s <=> pos(i) >= t) /\ (j >= s <=> pos(j) >= t)
      BY <1>9, <2>1, <2>2, <2>3
    <3> QED
      BY <1>2, <1>4, <1>5, <1>6, <1>7, <1>8, <1>9, <3>1
  <2>4. CASE s = 1 /\ \A k \in 1 .. Len(r) : ~After(r, k)
    <3>1. pos(i) < t /\ pos(j) < t /\ i >= s /\ j >= s
      BY <1>5, <1>9, <2>1, <2>2, <2>4
    <3> QED
      BY <1>2, <1>4, <1>5, <1>6, <1>7, <1>8, <1>9, <3>1
  <2> QED
    BY <1>4, <2>3, <2>4
<1>11. CASE t = 1 /\ \A k \in 1 .. Len(less) : ~After(less, k)
  <2>1. ~After(r, i) /\ ~After(r, j)
    BY <1>3, <1>9, <1>11
  <2>2. (i >= s <=> j >= s) /\ pos(i) >= t /\ pos(j) >= t
    BY <1>4, <1>9, <1>11, <2>1
  <2> QED
    BY <1>6, <1>7, <1>8, <2>2, <1>9, <1>4, <1>5
<1> QED
  BY <1>5, <1>10, <1>11

\* So the other workers are ordered as before.
LEMMA WorkersStayOrdered ==
  ASSUME NEW r, ARing(r), NEW w, Kept(r, w) # {}
  PROVE  /\ WorkersOf(Without(r, w)) = WorkersOf(r) \ {w}
         /\ \A u, v \in WorkersOf(r) \ {w} :
              Distances(r)[u] < Distances(r)[v] <=>
                Distances(Without(r, w))[u] < Distances(Without(r, w))[v]
<1> DEFINE less == Without(r, w)
           pos(k) == PosWithout(r, w, k)
<1>1. /\ ARing(less)
      /\ \A k \in Kept(r, w) : pos(k) \in 1 .. Len(less) /\ less[pos(k)] = r[k]
      /\ \A k \in 1 .. Len(less) : \E m \in Kept(r, w) : pos(m) = k
  BY WithoutIs
<1>2. \A i, j \in Kept(r, w) : Far(less, pos(i)) < Far(less, pos(j)) <=> Far(r, i) < Far(r, j)
  BY OrderStays
<1>3. DOMAIN r = 1 .. Len(r) /\ DOMAIN less = 1 .. Len(less)
  BY <1>1, RingFacts
<1>4. \A i \in Kept(r, w) : Far(r, i) \in Int /\ Far(less, pos(i)) \in Int
  <2>1. Len(r) \in Nat /\ Len(less) \in Nat
    BY <1>1, RingFacts
  <2> QED
    BY <1>1, <1>3, <2>1, FarIs DEF Kept
<1> HIDE DEF less, pos
<1>5. WorkersOf(less) = WorkersOf(r) \ {w}
  <2>1. ASSUME NEW v \in WorkersOf(less) PROVE v \in WorkersOf(r) \ {w}
    <3>1. PICK k \in 1 .. Len(less) : less[k].worker = v
      BY <1>3 DEF WorkersOf
    <3>2. PICK m \in Kept(r, w) : pos(m) = k
      BY <1>1
    <3>3. r[m].worker = v
      BY <1>1, <3>1, <3>2
    <3> QED
      BY <3>3 DEF Kept, WorkersOf
  <2>2. ASSUME NEW v \in WorkersOf(r), v # w PROVE v \in WorkersOf(less)
    <3>1. PICK i \in DOMAIN r : r[i].worker = v
      BY DEF WorkersOf
    <3>2. i \in Kept(r, w)
      BY <2>2, <3>1 DEF Kept
    <3>3. pos(i) \in DOMAIN less /\ less[pos(i)].worker = v
      BY <1>1, <1>3, <3>1, <3>2
    <3> QED
      BY <3>3 DEF WorkersOf
  <2> QED
    BY <2>1, <2>2
\* The nearest node of a worker is its nearest one without w too.
<1>6. ASSUME NEW u \in WorkersOf(r) \ {w}
      PROVE  \E i \in Kept(r, w) : Distances(r)[u] = Far(r, i) /\ Distances(less)[u] = Far(less, pos(i))
  <2>1. PICK i \in NodesOf(r, u) : Distances(r)[u] = Far(r, i)
    BY DistancesAre
  <2>2. \A j \in NodesOf(r, u) : Distances(r)[u] <= Far(r, j)
    BY DistancesAre
  <2>3. NodesOf(r, u) \subseteq Kept(r, w)
    BY DEF NodesOf, Kept
  <2>4. i \in Kept(r, w) /\ pos(i) \in NodesOf(less, u)
    BY <1>1, <1>3, <2>1, <2>3 DEF NodesOf
  <2>5. PICK k \in NodesOf(less, u) : Distances(less)[u] = Far(less, k)
    BY <1>1, <1>5, DistancesAre
  <2>6. Distances(less)[u] <= Far(less, pos(i))
    BY <1>1, <1>5, <2>4, DistancesAre
  <2>7. PICK m \in Kept(r, w) : pos(m) = k
    BY <1>1, <1>3 DEF NodesOf
  <2>8. m \in NodesOf(r, u)
    BY <1>1, <2>7 DEF NodesOf, Kept
  <2>9. Far(r, i) <= Far(r, m)
    BY <2>1, <2>2, <2>8
  <2>10. Far(less, pos(i)) <= Far(less, pos(m))
    BY <1>2, <1>4, <2>4, <2>7, <2>9
  <2>11. Distances(less)[u] = Far(less, pos(i))
    BY <1>4, <2>4, <2>5, <2>6, <2>7, <2>10
  <2> QED
    BY <2>1, <2>4, <2>11
<1>7. ASSUME NEW u \in WorkersOf(r) \ {w}, NEW v \in WorkersOf(r) \ {w}
      PROVE  Distances(r)[u] < Distances(r)[v] <=> Distances(less)[u] < Distances(less)[v]
  <2>1. PICK i \in Kept(r, w) : Distances(r)[u] = Far(r, i) /\ Distances(less)[u] = Far(less, pos(i))
    BY <1>6
  <2>2. PICK j \in Kept(r, w) : Distances(r)[v] = Far(r, j) /\ Distances(less)[v] = Far(less, pos(j))
    BY <1>6
  <2> QED
    BY <1>2, <2>1, <2>2
<1> QED
  BY <1>5, <1>7 DEF less

\* A worker that is no candidate changes nothing by leaving.
LEMMA CollectedKeepAffinity ==
  ASSUME PlacementTypeOK, RingFull, Collected, NEW w \in Healthy \ Seen, Healthy # {w}
  PROVE  out = Nearest(Without(ring, w))
<1> DEFINE less == Without(ring, w)
           W == Healthy \ {w}
           f == [v \in W |-> Distances(ring)[v]]
<1>1. ARing(ring) /\ WorkersOf(ring) = Healthy
  BY DEF RingFull
<1>2. Kept(ring, w) # {}
  <2>1. PICK v \in WorkersOf(ring) : v # w
    BY <1>1
  <2> QED
    BY <2>1 DEF WorkersOf, Kept
<1>3. /\ ARing(less) /\ WorkersOf(less) = W
      /\ \A u, v \in W :
           Distances(ring)[u] < Distances(ring)[v] <=> Distances(less)[u] < Distances(less)[v]
  BY <1>1, <1>2, WithoutIs, WorkersStayOrdered
<1>4. /\ IsFiniteSet(Healthy) /\ Cardinality(Healthy) \in Nat /\ limit \in Nat
      /\ out \in Seq(Healthy) /\ Len(out) \in Nat /\ Seen = Firsts(out, Len(out))
      /\ \A v \in Healthy : Distances(ring)[v] \in Int
      /\ \A v \in Healthy \ Seen : \A k \in 1 .. Len(out) : Distances(ring)[out[k]] < Distances(ring)[v]
      /\ IsFiniteSet(Seen) /\ Cardinality(Seen) = Len(out)
      /\ Len(out) = limit
  BY CollectedShape
<1>5. IsFiniteSet(W) /\ Cardinality(W) = Cardinality(Healthy) - 1
  BY <1>4, FS_RemoveElement
<1>6. \A k \in 1 .. Len(out) : out[k] \in Seen /\ out[k] \in W
  BY <1>4 DEF Firsts
<1>7. Seen \subseteq W
  BY <1>4, <1>6 DEF Firsts
<1> HIDE DEF less, W
<1>8. Len(out) = IF limit < Cardinality(W) THEN limit ELSE Cardinality(W)
  <2>1. Cardinality(Seen) <= Cardinality(W)
    BY <1>5, <1>7, FS_Subset
  <2> QED
    BY <1>4, <1>5, <2>1
<1>9. out \in Seq(W)
  BY <1>4, <1>6
<1>10. f \in [W -> Int]
  BY <1>4 DEF W
<1>11. \A u, v \in W : f[u] < f[v] <=> Distances(less)[u] < Distances(less)[v]
  BY <1>3
<1>12. \A j, k \in 1 .. Len(out) : j < k => f[out[j]] < f[out[k]]
  BY <1>6 DEF Collected, WalkInv
<1>13. \A v \in W : \A k \in 1 .. Len(out) : v \in Firsts(out, Len(out)) \/ f[out[k]] < f[v]
  BY <1>4, <1>6 DEF W
<1> HIDE DEF f
<1>14. out = Nearest(less)
  BY <1>3, <1>5, <1>8, <1>9, <1>10, <1>11, <1>12, <1>13, NearestIs
<1> QED
  BY <1>14 DEF less

-----------------------------------------------------------------------------
(* test/consistent-hash.test.ts:17, for any ring, hash and limit: the walk
   of candidates() (consistent-hash.ts:67-75) collects the nearest distinct
   workers, nearest first, over the end of the ring if need be.            *)
THEOREM WalkFindsNearest == Spec => []CandidatesAreNearest
<1>1. NearInv => CandidatesAreNearest
  BY CollectedAreNearest DEF NearInv, PlacementInv, CandidatesAreNearest
<1> QED
  BY <1>1, NearStart, NearStep, PTL DEF Spec

(* test/consistent-hash.test.ts:27, for any ring: the candidates of a user
   are the same on the ring without a worker that is not one of them.      *)
THEOREM LeavingDisturbsNoOther == Spec => []AffinityKept
<1>1. NearInv => AffinityKept
  BY CollectedKeepAffinity DEF NearInv, PlacementInv, AffinityKept
<1> QED
  BY <1>1, NearStart, NearStep, PTL DEF Spec
=============================================================================
