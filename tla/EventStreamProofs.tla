------------------------- MODULE EventStreamProofs -------------------------
(***************************************************************************)
(* What a client reads of the event stream, for any number of clients,     *)
(* events and broken connections.                                          *)
(*                                                                         *)
(* What a client has read and what is on its way to it are one strictly    *)
(* increasing run of rows, since a connection starts behind the cursor;    *)
(* and for a client that resumes by seq this run has no gaps and, while    *)
(* the connection is up, ends at the newest row.                           *)
(***************************************************************************)
EXTENDS EventStream, TLAPS

StreamTyped ==
    /\ rows \in Nat
    /\ conn \in [Client -> {"new", "up", "down"}]
    /\ sent \in [Client -> SUBSET (1 .. rows)]
    /\ wire \in [Client -> Seq(Nat)]
    /\ seen \in [Client -> Seq(Nat)]

\* s is strictly increasing within low + 1 .. high.
Rising(s, low, high) ==
    /\ \A i \in 1 .. Len(s) : low < s[i] /\ s[i] <= high
    /\ \A i, j \in 1 .. Len(s) : i < j => s[i] < s[j]

InOrder(c) == Rising(seen[c], 0, rows) /\ Rising(wire[c], Cursor(c), rows)

\* s goes on from low without a gap.
From(s, low) == \A i \in 1 .. Len(s) : s[i] = low + i

Gapless(c) ==
    /\ From(seen[c], 0)
    /\ From(wire[c], Len(seen[c]))
    /\ Len(seen[c]) + Len(wire[c]) <= rows
    /\ conn[c] = "up" => Len(seen[c]) + Len(wire[c]) = rows

StreamInv ==
    /\ StreamTyped
    /\ \A c \in Client :
         /\ InOrder(c)
         /\ conn[c] # "up" => wire[c] = << >>
         /\ Resume[c] # "id" => Gapless(c)

-----------------------------------------------------------------------------
(* Sequences.                                                              *)

LEMMA EmptyRun ==
  ASSUME NEW low \in Nat, NEW high \in Nat
  PROVE  Rising(<< >>, low, high) /\ From(<< >>, low)
  BY DEF Rising, From

\* A run goes on with an element that is above all of it.
LEMMA RisingAppend ==
  ASSUME NEW s \in Seq(Nat), NEW low \in Nat, NEW high \in Nat, Rising(s, low, high),
         NEW x \in Nat, NEW top \in Nat, low < x, x <= top, high <= top,
         \A i \in 1 .. Len(s) : s[i] < x
  PROVE  Rising(Append(s, x), low, top)
<1>1. Len(s) \in Nat /\ \A i \in 1 .. Len(s) : s[i] \in Nat
  OBVIOUS
<1>2. /\ Len(Append(s, x)) = Len(s) + 1
      /\ \A i \in 1 .. Len(s) : Append(s, x)[i] = s[i]
      /\ Append(s, x)[Len(s) + 1] = x
  OBVIOUS
<1>3. \A i \in 1 .. Len(s) + 1 : i \in 1 .. Len(s) \/ i = Len(s) + 1
  BY <1>1
<1>4. \A i \in 1 .. Len(s) + 1 : low < Append(s, x)[i] /\ Append(s, x)[i] <= top
  BY <1>1, <1>2, <1>3 DEF Rising
<1>5. \A i, j \in 1 .. Len(s) + 1 : i < j => Append(s, x)[i] < Append(s, x)[j]
  BY <1>1, <1>2, <1>3 DEF Rising
<1> QED
  BY <1>2, <1>4, <1>5 DEF Rising

\* The rest of a run is above its head.
LEMMA RisingTail ==
  ASSUME NEW s \in Seq(Nat), s # << >>, NEW low, NEW high, Rising(s, low, high)
  PROVE  Rising(Tail(s), s[1], high)
<1>1. Len(s) \in Nat /\ Len(s) > 0 /\ 1 \in 1 .. Len(s)
  OBVIOUS
<1>2. Len(Tail(s)) = Len(s) - 1 /\ \A i \in 1 .. Len(s) - 1 : Tail(s)[i] = s[i + 1]
  BY <1>1
<1>3. \A i \in 1 .. Len(s) - 1 : i + 1 \in 1 .. Len(s) /\ 1 < i + 1
  BY <1>1
<1>4. \A i, j \in 1 .. Len(s) - 1 : i < j => i + 1 < j + 1
  BY <1>1
<1> QED
  BY <1>1, <1>2, <1>3, <1>4 DEF Rising

LEMMA FromAppend ==
  ASSUME NEW s \in Seq(Nat), NEW low \in Nat, From(s, low)
  PROVE  From(Append(s, low + Len(s) + 1), low)
<1>1. Len(s) \in Nat
  OBVIOUS
<1> DEFINE x == low + Len(s) + 1
<1>2. x = low + (Len(s) + 1)
  BY <1>1
<1> HIDE DEF x
<1>3. /\ Len(Append(s, x)) = Len(s) + 1
      /\ \A i \in 1 .. Len(s) : Append(s, x)[i] = s[i]
      /\ Append(s, x)[Len(s) + 1] = x
  OBVIOUS
<1>4. \A i \in 1 .. Len(s) + 1 : i \in 1 .. Len(s) \/ i = Len(s) + 1
  BY <1>1
<1>5. From(Append(s, x), low)
  BY <1>2, <1>3, <1>4 DEF From
<1> QED
  BY <1>5 DEF x

LEMMA FromTail ==
  ASSUME NEW s \in Seq(Nat), s # << >>, NEW low \in Nat, From(s, low)
  PROVE  s[1] = low + 1 /\ From(Tail(s), low + 1)
<1>1. Len(s) \in Nat /\ Len(s) > 0 /\ 1 \in 1 .. Len(s)
  OBVIOUS
<1>2. Len(Tail(s)) = Len(s) - 1 /\ \A i \in 1 .. Len(s) - 1 : Tail(s)[i] = s[i + 1]
  BY <1>1
<1>3. \A i \in 1 .. Len(s) - 1 : i + 1 \in 1 .. Len(s) /\ low + (i + 1) = (low + 1) + i
  BY <1>1
<1> QED
  BY <1>1, <1>2, <1>3 DEF From

LEMMA RowsAfterShape ==
  ASSUME rows \in Nat, NEW n \in 0 .. rows
  PROVE  /\ RowsAfter(n) \in Seq(Nat)
         /\ Len(RowsAfter(n)) = rows - n
         /\ \A k \in 1 .. rows - n : RowsAfter(n)[k] = n + k
         /\ ToSet(RowsAfter(n)) \subseteq 1 .. rows
<1>1. rows - n \in Nat
  OBVIOUS
<1>2. RowsAfter(n) \in Seq(Nat)
  BY <1>1 DEF RowsAfter
<1>3. Len(RowsAfter(n)) = rows - n
  BY <1>1 DEF RowsAfter
<1>4. \A k \in 1 .. rows - n : RowsAfter(n)[k] = n + k
  BY DEF RowsAfter
<1>5. DOMAIN RowsAfter(n) = 1 .. rows - n
  BY DEF RowsAfter
<1>6. ToSet(RowsAfter(n)) \subseteq 1 .. rows
  BY <1>4, <1>5 DEF ToSet
<1> QED
  BY <1>2, <1>3, <1>4, <1>6

LEMMA CursorShape ==
  ASSUME StreamTyped, NEW c \in Client, Rising(seen[c], 0, rows)
  PROVE  /\ Cursor(c) \in 0 .. rows
         /\ seen[c] = << >> => Cursor(c) = 0
         /\ \A i \in 1 .. Len(seen[c]) : seen[c][i] <= Cursor(c)
<1>1. seen[c] \in Seq(Nat) /\ Len(seen[c]) \in Nat
  BY DEF StreamTyped
<1>2. CASE seen[c] = << >>
  BY <1>1, <1>2 DEF Cursor, StreamTyped
<1>3. CASE seen[c] # << >>
  <2>1. Len(seen[c]) \in 1 .. Len(seen[c])
    BY <1>1, <1>3
  <2>2. Cursor(c) = seen[c][Len(seen[c])]
    BY <1>3 DEF Cursor, Last
  <2>3. \A i \in 1 .. Len(seen[c]) : i < Len(seen[c]) \/ i = Len(seen[c])
    BY <1>1
  <2>4. \A i \in 1 .. Len(seen[c]) : seen[c][i] \in Nat
    BY <1>1
  <2> QED
    BY <1>3, <2>1, <2>2, <2>3, <2>4 DEF Rising, StreamTyped
<1> QED
  BY <1>2, <1>3

\* A client that read without gaps has its number of events as its cursor.
LEMMA CursorIsLength ==
  ASSUME StreamTyped, NEW c \in Client, From(seen[c], 0)
  PROVE  Cursor(c) = Len(seen[c])
<1>1. seen[c] \in Seq(Nat) /\ Len(seen[c]) \in Nat
  BY DEF StreamTyped
<1>2. seen[c] # << >> => Len(seen[c]) \in 1 .. Len(seen[c])
  BY <1>1
<1>3. seen[c] = << >> => Len(seen[c]) = 0
  OBVIOUS
<1> QED
  BY <1>1, <1>2, <1>3 DEF Cursor, Last, From

\* What a client does not do leaves it alone.
LEMMA Elsewhere ==
  ASSUME NEW c \in Client, rows' = rows, conn'[c] = conn[c],
         wire'[c] = wire[c], seen'[c] = seen[c],
         InOrder(c), conn[c] # "up" => wire[c] = << >>,
         Resume[c] # "id" => Gapless(c)
  PROVE  /\ InOrder(c)'
         /\ (conn[c] # "up" => wire[c] = << >>)'
         /\ (Resume[c] # "id" => Gapless(c))'
  BY DEF InOrder, Gapless, Rising, From, Cursor

-----------------------------------------------------------------------------
(* The invariant.                                                          *)

LEMMA StreamInit == Init => StreamInv
<1> SUFFICES ASSUME Init PROVE StreamInv
  OBVIOUS
<1>1. StreamTyped
  BY DEF Init, StreamTyped
<1>2. ASSUME NEW c \in Client
      PROVE  seen[c] = << >> /\ wire[c] = << >> /\ conn[c] = "new" /\ rows = 0
  BY DEF Init
<1>3. ASSUME NEW c \in Client
      PROVE  InOrder(c) /\ Gapless(c)
  <2>1. Len(seen[c]) = 0 /\ Len(wire[c]) = 0 /\ Cursor(c) = 0
    BY <1>2 DEF Cursor
  <2>2. Rising(<< >>, 0, 0) /\ From(<< >>, 0)
    BY EmptyRun
  <2> QED
    BY <1>2, <2>1, <2>2 DEF InOrder, Gapless
<1> QED
  BY <1>1, <1>2, <1>3 DEF StreamInv

LEMMA StreamConnect ==
  ASSUME StreamInv, NEW c \in Client, Connect(c)
  PROVE  StreamInv'
<1>1. Cursor(c) \in 0 .. rows
  BY CursorShape DEF StreamInv, InOrder
<1>2. StreamTyped /\ rows \in Nat
  BY DEF StreamInv, StreamTyped
<1> DEFINE r == RowsAfter(Cursor(c))
<1>3. /\ r \in Seq(Nat) /\ Len(r) = rows - Cursor(c)
      /\ \A k \in 1 .. rows - Cursor(c) : r[k] = Cursor(c) + k
      /\ ToSet(r) \subseteq 1 .. rows
  BY <1>1, <1>2, RowsAfterShape
<1>4. Rising(r, Cursor(c), rows)
  BY <1>1, <1>2, <1>3 DEF Rising
<1>5. Replay(c) \in Seq(Nat) /\ ToSet(Replay(c)) \subseteq 1 .. rows
  <2>1. CASE Replay(c) = << >>
    BY <2>1 DEF ToSet
  <2>2. CASE Replay(c) = r
    BY <2>2, <1>3
  <2> QED
    BY <2>1, <2>2 DEF Replay
<1>6. Rising(Replay(c), Cursor(c), rows)
  <2>1. CASE Replay(c) = << >>
    BY <2>1 DEF Rising
  <2>2. CASE Replay(c) = r
    BY <2>2, <1>4
  <2> QED
    BY <2>1, <2>2 DEF Replay
<1>7. /\ conn' = [conn EXCEPT ![c] = "up"] /\ sent' = [sent EXCEPT ![c] = ToSet(Replay(c))]
      /\ wire' = [wire EXCEPT ![c] = Replay(c)] /\ rows' = rows /\ seen' = seen
  BY DEF Connect
<1>8. StreamTyped'
  BY <1>2, <1>5, <1>7 DEF StreamTyped
<1>9. wire'[c] = Replay(c) /\ conn'[c] = "up"
  BY <1>2, <1>7 DEF StreamTyped
<1>10. Cursor(c)' = Cursor(c)
  BY <1>7 DEF Cursor
<1>11. InOrder(c)'
  BY <1>6, <1>7, <1>9, <1>10 DEF StreamInv, InOrder, Rising
<1>12. ASSUME Resume[c] # "id" PROVE Gapless(c)'
  <2>1. From(seen[c], 0) /\ Cursor(c) = Len(seen[c])
    BY <1>2, <1>12, CursorIsLength DEF StreamInv, Gapless
  <2>2. wire'[c] = r
    BY <1>9, <1>12 DEF Replay
  <2>3. From(r, Len(seen[c]))
    BY <1>3, <2>1 DEF From
  <2>4. Len(seen[c]) + Len(r) = rows
    BY <1>1, <1>2, <1>3, <2>1
  <2>5. Len(seen[c]) + Len(r) <= rows
    BY <1>2, <2>4 DEF StreamTyped
  <2> HIDE DEF r
  <2> QED
    BY <1>2, <1>7, <2>1, <2>2, <2>3, <2>4, <2>5 DEF Gapless
<1>13. \A d \in Client : d # c => conn'[d] = conn[d] /\ wire'[d] = wire[d] /\ seen'[d] = seen[d]
  BY <1>2, <1>7 DEF StreamTyped
<1>14. ASSUME NEW d \in Client, d # c
       PROVE  /\ InOrder(d)'
              /\ (conn[d] # "up" => wire[d] = << >>)'
              /\ (Resume[d] # "id" => Gapless(d))'
  <2>1. InOrder(d) /\ (conn[d] # "up" => wire[d] = << >>) /\ (Resume[d] # "id" => Gapless(d))
    BY DEF StreamInv
  <2> QED
    BY <1>7, <1>13, <1>14, <2>1, Elsewhere
<1> QED
  BY <1>8, <1>9, <1>11, <1>12, <1>14 DEF StreamInv

LEMMA StreamAppend ==
  ASSUME StreamInv, AppendEvent
  PROVE  StreamInv'
<1>1. StreamTyped /\ rows \in Nat /\ rows' = rows + 1
  BY DEF StreamInv, StreamTyped, AppendEvent
<1>2. conn' = conn /\ seen' = seen
  BY DEF AppendEvent
<1>3. ASSUME NEW c \in Client
      PROVE  /\ wire'[c] = (IF Listens(c) THEN Append(wire[c], rows + 1) ELSE wire[c])
             /\ wire'[c] \in Seq(Nat)
             /\ sent'[c] \subseteq 1 .. rows'
  BY <1>1 DEF AppendEvent, StreamTyped
<1>4. wire' \in [Client -> Seq(Nat)] /\ sent' \in [Client -> SUBSET (1 .. rows')]
  BY <1>3 DEF AppendEvent
<1>5. StreamTyped'
  BY <1>1, <1>2, <1>4 DEF StreamTyped
<1>6. ASSUME NEW c \in Client
      PROVE  /\ InOrder(c)'
             /\ (conn[c] # "up" => wire[c] = << >>)'
             /\ (Resume[c] # "id" => Gapless(c))'
  <2>1. InOrder(c) /\ (conn[c] # "up" => wire[c] = << >>) /\ (Resume[c] # "id" => Gapless(c))
    BY DEF StreamInv
  <2>2. Listens(c) <=> conn[c] = "up"
    <3>1. rows + 1 \notin sent[c]
      BY <1>1 DEF StreamTyped
    <3> QED
      BY <3>1 DEF Listens
  <2>3. Cursor(c) \in 0 .. rows /\ Cursor(c)' = Cursor(c)
    BY <1>1, <1>2, <2>1, CursorShape DEF InOrder, Cursor
  <2>4. seen[c] \in Seq(Nat) /\ wire[c] \in Seq(Nat) /\ Len(seen[c]) \in Nat /\ Len(wire[c]) \in Nat
    BY <1>1 DEF StreamTyped
  <2>5. Rising(seen[c], 0, rows + 1)
    BY <1>1, <2>1, <2>4 DEF InOrder, Rising
  <2>6. CASE conn[c] # "up"
    <3>1. wire'[c] = << >> /\ wire[c] = << >> /\ Len(<< >>) = 0
      BY <1>3, <2>1, <2>2, <2>6
    <3>2. Rising(<< >>, Cursor(c), rows + 1) /\ From(<< >>, Len(seen[c]))
      BY <1>1, <2>3, <2>4, EmptyRun
    <3>3. InOrder(c)'
      BY <1>1, <1>2, <2>3, <2>5, <3>1, <3>2 DEF InOrder
    <3>4. ASSUME Resume[c] # "id" PROVE Gapless(c)'
      <4>1. From(seen[c], 0) /\ Len(seen[c]) + 0 <= rows + 1
        BY <1>1, <2>1, <2>4, <3>1, <3>4 DEF Gapless
      <4> QED
        BY <1>1, <1>2, <2>6, <3>1, <3>2, <4>1 DEF Gapless
    <3> QED
      BY <3>1, <3>3, <3>4
  <2>7. CASE conn[c] = "up"
    <3>1. wire'[c] = Append(wire[c], rows + 1)
      BY <1>3, <2>2, <2>7
    <3>2. Rising(Append(wire[c], rows + 1), Cursor(c), rows + 1)
      <4>1. Rising(wire[c], Cursor(c), rows)
        BY <2>1 DEF InOrder
      <4>2. \A i \in 1 .. Len(wire[c]) : wire[c][i] \in Nat /\ wire[c][i] <= rows
        BY <2>4, <4>1 DEF Rising
      <4>3. \A i \in 1 .. Len(wire[c]) : wire[c][i] < rows + 1
        BY <1>1, <4>2
      <4> QED
        BY <1>1, <2>3, <2>4, <4>1, <4>3, RisingAppend
    <3>3. InOrder(c)'
      BY <1>1, <1>2, <2>3, <2>5, <3>1, <3>2 DEF InOrder
    <3>4. ASSUME Resume[c] # "id" PROVE Gapless(c)'
      <4>1. From(seen[c], 0) /\ From(wire[c], Len(seen[c])) /\ Len(seen[c]) + Len(wire[c]) = rows
        BY <2>1, <2>7, <3>4 DEF Gapless
      <4>2. From(Append(wire[c], rows + 1), Len(seen[c]))
        BY <2>4, <4>1, FromAppend
      <4>3. Len(Append(wire[c], rows + 1)) = Len(wire[c]) + 1
        BY <1>1, <2>4
      <4>4. Len(seen[c]) + Len(Append(wire[c], rows + 1)) = rows + 1
        BY <1>1, <4>1, <4>3 DEF StreamTyped
      <4>5. Len(seen[c]) + Len(Append(wire[c], rows + 1)) <= rows + 1
        BY <1>1, <4>3, <4>4 DEF StreamTyped
      <4> QED
        BY <1>1, <1>2, <3>1, <4>1, <4>2, <4>4, <4>5 DEF Gapless
    <3> QED
      BY <1>2, <2>7, <3>3, <3>4
  <2> QED
    BY <2>6, <2>7
<1> QED
  BY <1>5, <1>6 DEF StreamInv

LEMMA StreamRead ==
  ASSUME StreamInv, NEW c \in Client, Read(c)
  PROVE  StreamInv'
<1>1. StreamTyped /\ rows \in Nat
  BY DEF StreamInv, StreamTyped
<1>2. /\ wire[c] # << >> /\ rows' = rows /\ conn' = conn /\ sent' = sent
      /\ seen' = [seen EXCEPT ![c] = Append(@, Head(wire[c]))]
      /\ wire' = [wire EXCEPT ![c] = Tail(@)]
  BY DEF Read
<1>3. seen[c] \in Seq(Nat) /\ wire[c] \in Seq(Nat) /\ Len(seen[c]) \in Nat /\ Len(wire[c]) \in Nat
  BY <1>1 DEF StreamTyped
<1>4. /\ 1 \in 1 .. Len(wire[c]) /\ Len(wire[c]) > 0
      /\ Head(wire[c]) = wire[c][1] /\ wire[c][1] \in Nat /\ Tail(wire[c]) \in Seq(Nat)
  BY <1>2, <1>3
<1>5. seen'[c] = Append(seen[c], wire[c][1]) /\ wire'[c] = Tail(wire[c])
  BY <1>1, <1>2, <1>4 DEF StreamTyped
<1>6. /\ Len(Append(seen[c], wire[c][1])) = Len(seen[c]) + 1
      /\ Append(seen[c], wire[c][1])[Len(seen[c]) + 1] = wire[c][1]
      /\ Append(seen[c], wire[c][1]) # << >>
  BY <1>3, <1>4
<1>7. Len(Tail(wire[c])) = Len(wire[c]) - 1
  BY <1>3, <1>4
<1>8. StreamTyped'
  <2>1. Append(seen[c], Head(wire[c])) \in Seq(Nat)
    BY <1>3, <1>4
  <2> QED
    BY <1>1, <1>2, <1>4, <2>1 DEF StreamTyped
<1>10. InOrder(c)'
  <2>1. Rising(seen[c], 0, rows) /\ Rising(wire[c], Cursor(c), rows)
    BY DEF StreamInv, InOrder
  <2>2. Cursor(c) \in 0 .. rows /\ \A i \in 1 .. Len(seen[c]) : seen[c][i] <= Cursor(c)
    BY <1>1, <2>1, CursorShape
  <2>3. Cursor(c) < wire[c][1] /\ wire[c][1] <= rows
    BY <1>4, <2>1 DEF Rising
  <2>4. \A i \in 1 .. Len(seen[c]) : seen[c][i] \in Nat /\ seen[c][i] < wire[c][1]
    <3>1. Cursor(c) \in Nat /\ wire[c][1] \in Nat /\ Cursor(c) < wire[c][1]
      <4>1. rows \in Nat
        BY <1>1
      <4> QED
        BY <1>4, <2>2, <2>3, <4>1
    <3>2. ASSUME NEW i \in 1 .. Len(seen[c])
          PROVE  seen[c][i] \in Nat /\ seen[c][i] < wire[c][1]
      <4>1. seen[c][i] \in Nat
        BY <1>3
      <4>2. seen[c][i] <= Cursor(c)
        BY <2>2
      <4> QED
        BY <3>1, <4>1, <4>2
    <3> QED
      BY <3>2
  <2>5. 0 < wire[c][1]
    BY <1>1, <1>4, <2>2, <2>3
  <2>6. Rising(Append(seen[c], wire[c][1]), 0, rows)
    <3>1. 0 \in Nat /\ rows <= rows
      BY <1>1
    <3> QED
      BY <1>1, <1>3, <1>4, <2>1, <2>3, <2>4, <2>5, <3>1, RisingAppend
  <2>7. Rising(Tail(wire[c]), wire[c][1], rows)
    BY <1>2, <1>3, <2>1, RisingTail
  <2>8. Cursor(c)' = wire[c][1]
    BY <1>5, <1>6 DEF Cursor, Last
  <2> QED
    BY <1>2, <1>5, <2>6, <2>7, <2>8 DEF InOrder
<1>11. ASSUME Resume[c] # "id" PROVE Gapless(c)'
  <2>1. /\ From(seen[c], 0) /\ From(wire[c], Len(seen[c]))
        /\ Len(seen[c]) + Len(wire[c]) <= rows
        /\ conn[c] = "up" => Len(seen[c]) + Len(wire[c]) = rows
    BY <1>11 DEF StreamInv, Gapless
  <2>2. wire[c][1] = Len(seen[c]) + 1 /\ From(Tail(wire[c]), Len(seen[c]) + 1)
    BY <1>2, <1>3, <2>1, FromTail
  <2>3. From(Append(seen[c], 0 + Len(seen[c]) + 1), 0)
    BY <1>3, <2>1, FromAppend
  <2>4. wire[c][1] = 0 + Len(seen[c]) + 1
    BY <1>3, <2>2
  <2>5. From(Append(seen[c], wire[c][1]), 0)
    BY <2>3, <2>4
  <2>6. Len(Append(seen[c], wire[c][1])) + Len(Tail(wire[c])) = Len(seen[c]) + Len(wire[c])
    <3> DEFINE a == Len(seen[c])
               b == Len(wire[c])
    <3>1. a \in Nat /\ b \in Nat
      BY <1>3
    <3>2. Len(Append(seen[c], wire[c][1])) = a + 1 /\ Len(Tail(wire[c])) = b - 1
      BY <1>6, <1>7
    <3> HIDE DEF a, b
    <3>3. (a + 1) + (b - 1) = a + b
      BY <3>1
    <3> QED
      BY <3>2, <3>3 DEF a, b
  <2> QED
    BY <1>2, <1>5, <1>6, <2>1, <2>2, <2>5, <2>6 DEF Gapless
<1>12. (conn[c] # "up" => wire[c] = << >>)'
  BY <1>2 DEF StreamInv
<1>13. \A d \in Client : d # c => conn'[d] = conn[d] /\ wire'[d] = wire[d] /\ seen'[d] = seen[d]
  BY <1>1, <1>2 DEF StreamTyped
<1>14. ASSUME NEW d \in Client, d # c
       PROVE  /\ InOrder(d)'
              /\ (conn[d] # "up" => wire[d] = << >>)'
              /\ (Resume[d] # "id" => Gapless(d))'
  <2>1. InOrder(d) /\ (conn[d] # "up" => wire[d] = << >>) /\ (Resume[d] # "id" => Gapless(d))
    BY DEF StreamInv
  <2> QED
    BY <1>2, <1>13, <1>14, <2>1, Elsewhere
<1> QED
  BY <1>8, <1>10, <1>11, <1>12, <1>14 DEF StreamInv

LEMMA StreamDrop ==
  ASSUME StreamInv, NEW c \in Client, Drop(c)
  PROVE  StreamInv'
<1>1. StreamTyped /\ rows' = rows /\ seen' = seen
  BY DEF StreamInv, Drop
<1>2. StreamTyped'
  <2>1. << >> \in Seq(Nat)
    OBVIOUS
  <2> QED
    BY <1>1, <2>1 DEF Drop, StreamTyped
<1>3. wire'[c] = << >> /\ conn'[c] = "down" /\ Len(wire'[c]) = 0
  BY <1>1 DEF Drop, StreamTyped
<1>4. InOrder(c)'
  BY <1>1, <1>3 DEF StreamInv, InOrder, Rising
<1>5. ASSUME Resume[c] # "id" PROVE Gapless(c)'
  <2>1. From(seen[c], 0) /\ Len(seen[c]) + Len(wire[c]) <= rows
    BY <1>5 DEF StreamInv, Gapless
  <2>2. Len(seen[c]) \in Nat /\ Len(wire[c]) \in Nat /\ rows \in Nat
    BY <1>1 DEF StreamTyped
  <2>3. Len(seen[c]) + 0 <= rows
    BY <1>1, <2>1 DEF StreamTyped
  <2>4. From(<< >>, Len(seen[c]))
    BY <2>2, EmptyRun
  <2>5. wire'[c] = << >> /\ Len(<< >>) = 0
    BY <1>3
  <2> QED
    BY <1>1, <1>3, <2>1, <2>3, <2>4, <2>5 DEF Gapless
<1>6. \A d \in Client : d # c => conn'[d] = conn[d] /\ wire'[d] = wire[d] /\ seen'[d] = seen[d]
  BY <1>1 DEF StreamTyped, Drop
<1>7. ASSUME NEW d \in Client, d # c
      PROVE  /\ InOrder(d)'
             /\ (conn[d] # "up" => wire[d] = << >>)'
             /\ (Resume[d] # "id" => Gapless(d))'
  <2>1. InOrder(d) /\ (conn[d] # "up" => wire[d] = << >>) /\ (Resume[d] # "id" => Gapless(d))
    BY DEF StreamInv
  <2> QED
    BY <1>1, <1>6, <1>7, <2>1, Elsewhere
<1> QED
  BY <1>2, <1>3, <1>4, <1>5, <1>7 DEF StreamInv

-----------------------------------------------------------------------------
(* The theorems.                                                           *)

\* server.ts, stream, and event-journal.ts: the invariant of a client's
\* sequence, read and on its way, holds for any number of clients, rows and
\* broken connections.
THEOREM StreamSafe == StreamSpec => []StreamInv
<1>1. Init => StreamInv
  BY StreamInit
<1>2. StreamInv /\ [Next]_streamVars => StreamInv'
  <2> SUFFICES ASSUME StreamInv, [Next]_streamVars PROVE StreamInv'
    OBVIOUS
  <2>1. CASE AppendEvent
    BY <2>1, StreamAppend
  <2>2. ASSUME NEW c \in Client, Connect(c) PROVE StreamInv'
    BY <2>2, StreamConnect
  <2>3. ASSUME NEW c \in Client, Read(c) PROVE StreamInv'
    BY <2>3, StreamRead
  <2>4. ASSUME NEW c \in Client, Drop(c) PROVE StreamInv'
    BY <2>4, StreamDrop
  <2>5. CASE UNCHANGED streamVars
    BY <2>5 DEF streamVars, StreamInv, StreamTyped, InOrder, Gapless, Rising, From, Cursor
  <2> QED
    BY <2>1, <2>2, <2>3, <2>4, <2>5 DEF Next
<1> QED
  BY <1>1, <1>2, PTL DEF StreamSpec

\* README.md:81, test/web-console.test.ts:18: no client reads a row twice or out
\* of order, and none that resumes by seq, or never, misses one.
THEOREM StreamReadsOnce == StreamSpec => []NoGapNoRepeat
<1>1. StreamInv => NoGapNoRepeat
  <2> SUFFICES ASSUME StreamInv, NEW c \in Client, NEW i \in DOMAIN seen[c]
               PROVE  /\ \A j \in 1 .. i - 1 : seen[c][j] < seen[c][i]
                      /\ Resume[c] # "id" => seen[c][i] = i
    BY DEF NoGapNoRepeat
  <2>1. seen[c] \in Seq(Nat) /\ Rising(seen[c], 0, rows)
    BY DEF StreamInv, StreamTyped, InOrder
  <2>2. i \in 1 .. Len(seen[c]) /\ Len(seen[c]) \in Nat
    BY <2>1
  <2>3. \A j \in 1 .. i - 1 : j \in 1 .. Len(seen[c]) /\ j < i
    BY <2>2
  <2>4. \A j \in 1 .. i - 1 : seen[c][j] < seen[c][i]
    BY <2>1, <2>2, <2>3 DEF Rising
  <2>5. Resume[c] # "id" => From(seen[c], 0)
    BY DEF StreamInv, Gapless
  <2>6. Resume[c] # "id" => seen[c][i] = i
    BY <2>2, <2>5 DEF From
  <2> QED
    BY <2>4, <2>6
<1> QED
  BY <1>1, StreamSafe, PTL
=============================================================================
