------------------------- MODULE RtspReceiveProofs -------------------------
(***************************************************************************)
(* What holds of RtspReceive for any buffer and any requests with their    *)
(* blank lines in place, however the stream is cut into pieces.            *)
(***************************************************************************)
EXTENDS RtspReceive, Integers, WellFoundedInduction, SequenceTheorems, TLAPS

USE SizeAssumption, ShapesAssumption, RequestsAssumption

-----------------------------------------------------------------------------
(* The buffer's search for a blank line.                                   *)

(* A request's cells are its characters, and none is a NUL.                *)
LEMMA CellsType ==
    ASSUME NEW n \in 1 .. MaxRequests, NEW s \in Shapes
    PROVE  /\ Cells(n, s) \in Seq(Cell) /\ Len(Cells(n, s)) = Len(s)
           /\ \A i \in 1 .. Len(s) : /\ Cells(n, s)[i].of = n /\ Cells(n, s)[i].c = s[i]
                                     /\ Cells(n, s)[i] # Nul
<1>1. s \in Seq(Characters) /\ Len(s) \in Nat
  OBVIOUS
<1>2. \A i \in 1 .. Len(s) : [of |-> n, c |-> s[i]] \in Cell
  BY <1>1 DEF Cell
<1>3. Cells(n, s) \in Seq(Cell) /\ Len(Cells(n, s)) = Len(s)
  BY <1>1, <1>2 DEF Cells
<1>4. ASSUME NEW i \in 1 .. Len(s) PROVE Cells(n, s)[i].of = n /\ Cells(n, s)[i].c = s[i]
  <2>1. Cells(n, s)[i] = [of |-> n, c |-> s[i]]
    BY DEF Cells
  <2>2. QED
    BY <2>1
<1>5. n # 0
  OBVIOUS
<1>6. Nul.of = 0
  BY DEF Nul
<1>7. QED
  BY <1>3, <1>4, <1>5, <1>6

(* A shape that fits has a blank line, and so at least four characters.    *)
LEMMA ShapeIsLong ==
    ASSUME NEW s \in Shapes
    PROVE  /\ Len(s) \in Nat /\ Len(s) >= 1
           /\ Len(s) <= Size => Len(s) \in BlankLines(s) /\ Len(s) >= 4
  BY BlankLinesAssumption DEF BlankLines

(* No blank line is found in a part of a request.                          *)
LEMMA NoEarlyEnd ==
    ASSUME NEW b \in [1 .. Size -> Cell], NEW n \in 1 .. MaxRequests, NEW s \in Shapes,
           NEW e \in Ends(b), e <= Len(s), \A i \in 1 .. e : b[i] = Cells(n, s)[i]
    PROVE  e = Len(s)
<1>1. e \in 4 .. Len(s) /\ \A i \in 1 .. 4 : b[e - 4 + i].c = BlankLine[i]
  BY ShapeIsLong DEF Ends
<1>2. \A i \in 1 .. 4 : e - 4 + i \in 1 .. e /\ e - 4 + i \in 1 .. Len(s)
  BY <1>1, ShapeIsLong
<1>3. \A i \in 1 .. 4 : s[e - 4 + i] = BlankLine[i]
  <2>1. ASSUME NEW j \in 1 .. e PROVE b[j].c = s[j]
    <3>1. j \in 1 .. Len(s)
      BY <1>1, ShapeIsLong
    <3>2. b[j] = Cells(n, s)[j]
      OBVIOUS
    <3>3. QED
      BY <3>1, <3>2, CellsType
  <2>2. QED
    BY <1>1, <1>2, <2>1
<1>4. e \in BlankLines(s)
  BY <1>1, <1>3 DEF BlankLines
<1>5. QED
  BY <1>4, BlankLinesAssumption

(* A request at the start of the buffer is found, and nothing before it.   *)
LEMMA WholeRequest ==
    ASSUME NEW b \in [1 .. Size -> Cell], NEW n \in 1 .. MaxRequests, NEW s \in Shapes,
           Len(s) <= Size, \A i \in 1 .. Len(s) : b[i] = Cells(n, s)[i]
    PROVE  /\ Len(s) \in Ends(b) /\ FirstOf(Ends(b)) = Len(s)
           /\ SubSeq(b, 1, Len(s)) = Cells(n, s)
<1>1. Len(s) \in 4 .. Size /\ Len(s) \in BlankLines(s)
  BY ShapeIsLong
<1>2. \A i \in 1 .. 4 : b[Len(s) - 4 + i].c = BlankLine[i]
  <2>1. \A i \in 1 .. 4 : Len(s) - 4 + i \in 1 .. Len(s)
    BY <1>1
  <2>2. \A i \in 1 .. 4 : s[Len(s) - 4 + i] = BlankLine[i]
    BY <1>1 DEF BlankLines
  <2>3. \A j \in 1 .. Len(s) : b[j].c = s[j]
    BY CellsType
  <2>4. QED
    BY <2>1, <2>2, <2>3
<1>3. Len(s) \in Ends(b)
  BY <1>1, <1>2, CellsType DEF Ends
<1>4. ASSUME NEW e \in Ends(b) PROVE Len(s) <= e
  <2>1. e \in Nat
    BY DEF Ends
  <2>2. CASE e <= Len(s)
    <3>1. \A i \in 1 .. e : b[i] = Cells(n, s)[i]
      BY <2>1, <2>2
    <3>2. e = Len(s)
      BY <2>2, <3>1, NoEarlyEnd
    <3>3. QED
      BY <3>2, <1>1
  <2>3. QED
    BY <1>1, <2>1, <2>2
<1>5. FirstOf(Ends(b)) = Len(s)
  <2>1. FirstOf(Ends(b)) \in Ends(b) /\ \A e \in Ends(b) : FirstOf(Ends(b)) <= e
    BY <1>3, <1>4 DEF FirstOf
  <2>2. \A e \in Ends(b) : e \in Nat
    BY DEF Ends
  <2>3. QED
    BY <1>1, <1>3, <1>4, <2>1, <2>2
<1>6. SubSeq(b, 1, Len(s)) = Cells(n, s)
  <2>1. \A i \in 1 .. Len(s) : b[i] \in Cell
    BY <1>1
  <2>2. /\ SubSeq(b, 1, Len(s)) \in Seq(Cell) /\ Len(SubSeq(b, 1, Len(s))) = Len(s)
        /\ \A i \in 1 .. Len(s) : SubSeq(b, 1, Len(s))[i] = b[i]
    BY <1>1, <2>1, SubSeqProperties
  <2>3. QED
    BY <2>2, CellsType
<1>7. QED
  BY <1>3, <1>5, <1>6

-----------------------------------------------------------------------------
(* What is in transit is laid out by requests: start[n] is where in wire   *)
(* the nth begins, not above 0 if it has been received in part or whole.   *)
LayoutOf(start, sent, w) ==
    /\ start \in [1 .. Len(sent) + 1 -> Int]
    /\ start[Len(sent) + 1] = Len(w) + 1
    /\ \A n \in 1 .. Len(sent) : start[n + 1] = start[n] + Len(sent[n])
    /\ \A m, n \in 1 .. Len(sent) + 1 : m <= n => start[m] <= start[n]
    /\ \A n \in 1 .. Len(sent) : \A i \in 1 .. Len(sent[n]) :
         start[n] + i - 1 >= 1 => w[start[n] + i - 1] = Cells(n, sent[n])[i]
    /\ \A p \in 1 .. Len(w) :
         /\ w[p].of \in 1 .. Len(sent)
         /\ start[w[p].of] <= p /\ p < start[w[p].of + 1]

Layout(start) == LayoutOf(start, requests, wire)

(* Until a request is processed the buffer holds the first part of the     *)
(* first, and nothing else.                                                *)
First(start) == frames = <<>> =>
    /\ start[1] = 1 - idx
    /\ \A i \in idx + 1 .. Size : buf[i] = Nul
    /\ requests # <<>> => /\ idx < Len(requests[1])
                          /\ \A i \in 1 .. idx : buf[i] = Cells(1, requests[1])[i]

(* After that, as long as pieces are requests, the next one to be received *)
(* begins the wire and will begin the buffer, until one ends the session.  *)
Later(start) == frames # <<>> /\ ~ragged /\ open =>
    idx = 0 /\ Len(frames) <= Len(requests) /\ start[Len(frames) + 1] = 1

ReceiveInv == /\ TypeOK /\ Framed /\ NothingDropped
              /\ \E start : Layout(start) /\ First(start) /\ Later(start)
-----------------------------------------------------------------------------
(* What the steps do to the layout and to the buffer.                      *)

(* What the peer sends is laid out after all that is in transit.           *)
LEMMA SendsLayout ==
    ASSUME TypeOK, NEW start, Layout(start), NEW shape \in Shapes, PeerSends(shape),
           NEW longer,
           longer = [n \in 1 .. Len(requests) + 2 |->
                       IF n <= Len(requests) + 1 THEN start[n]
                                                 ELSE Len(wire) + 1 + Len(shape)]
    PROVE  Layout(longer)' /\ requests' \in Seq(Shapes) /\ Len(requests') <= MaxRequests
           /\ wire' \in Seq(Cell) /\ Len(wire') = Len(wire) + Len(shape)
           /\ Len(requests') = Len(requests) + 1
           /\ \A n \in 1 .. Len(requests) : requests'[n] = requests[n]
<1> DEFINE R == Len(requests)
           new == Cells(R + 1, shape)
<1>1. /\ requests \in Seq(Shapes) /\ wire \in Seq(Cell) /\ R \in Nat /\ R < MaxRequests
      /\ requests' = Append(requests, shape) /\ wire' = wire \o new
  BY DEF TypeOK, PeerSends
<1>2. /\ new \in Seq(Cell) /\ Len(new) = Len(shape)
      /\ \A i \in 1 .. Len(shape) : new[i].of = R + 1
  BY <1>1, CellsType
<1>3. Len(shape) \in Nat /\ Len(shape) >= 1
  BY ShapeIsLong
<1>4. /\ requests' \in Seq(Shapes) /\ Len(requests') = R + 1
      /\ requests'[R + 1] = shape /\ \A n \in 1 .. R : requests'[n] = requests[n]
  BY <1>1
<1> HIDE DEF new
<1>5. /\ wire' \in Seq(Cell) /\ Len(wire') = Len(wire) + Len(shape)
      /\ \A p \in 1 .. Len(wire) : wire'[p] = wire[p]
      /\ \A i \in 1 .. Len(shape) : wire'[Len(wire) + i] = new[i]
  <2>1. /\ wire' \in Seq(Cell) /\ Len(wire') = Len(wire) + Len(shape)
        /\ \A p \in 1 .. Len(wire) + Len(shape) :
              wire'[p] = IF p <= Len(wire) THEN wire[p] ELSE new[p - Len(wire)]
    <3>1. wire \in Seq(Cell) /\ new \in Seq(Cell) /\ wire' = wire \o new
      BY <1>1, <1>2
    <3>2. /\ wire \o new \in Seq(Cell) /\ Len(wire \o new) = Len(wire) + Len(new)
          /\ \A p \in 1 .. Len(wire) + Len(new) :
                (wire \o new)[p] = IF p <= Len(wire) THEN wire[p] ELSE new[p - Len(wire)]
      BY <3>1, ConcatProperties
    <3>3. QED
      BY <1>2, <3>1, <3>2
  <2>2. ASSUME NEW i \in 1 .. Len(shape) PROVE wire'[Len(wire) + i] = new[i]
    <3>1. /\ Len(wire) + i \in 1 .. Len(wire) + Len(shape) /\ ~(Len(wire) + i <= Len(wire))
          /\ (Len(wire) + i) - Len(wire) = i
      BY <1>1, <1>3
    <3>2. QED
      BY <2>1, <3>1
  <2>3. ASSUME NEW p \in 1 .. Len(wire) PROVE wire'[p] = wire[p]
    <3>1. p \in 1 .. Len(wire) + Len(shape) /\ p <= Len(wire)
      BY <1>1, <1>3
    <3>2. QED
      BY <2>1, <3>1
  <2>4. QED
    BY <2>1, <2>2, <2>3
<1>a. ASSUME NEW n \in 1 .. R + 1 PROVE start[n] \in Int /\ start[n] <= Len(wire) + 1
  <2>1. R + 1 \in 1 .. R + 1 /\ n <= R + 1
    BY <1>1
  <2>2. QED
    BY <2>1 DEF Layout, LayoutOf
<1>6. /\ longer \in [1 .. R + 2 -> Int]
      /\ \A n \in 1 .. R + 1 : longer[n] = start[n]
      /\ longer[R + 1] = Len(wire) + 1
      /\ longer[R + 2] = Len(wire) + 1 + Len(shape)
  <2>1. Len(wire) \in Nat /\ start \in [1 .. R + 1 -> Int]
    BY <1>1 DEF Layout, LayoutOf
  <2>2. QED
    BY <1>1, <1>3, <2>1 DEF Layout, LayoutOf
<1>7. ASSUME NEW n \in 1 .. R + 1
      PROVE  /\ longer[n + 1] = longer[n] + Len(requests'[n])
             /\ \A i \in 1 .. Len(requests'[n]) : longer[n] + i - 1 >= 1 =>
                  wire'[longer[n] + i - 1] = Cells(n, requests'[n])[i]
  <2>1. CASE n = R + 1
    <3>1. longer[n + 1] = longer[n] + Len(requests'[n])
      BY <1>1, <1>3, <1>4, <1>6, <2>1
    <3>2. ASSUME NEW i \in 1 .. Len(shape)
          PROVE  wire'[longer[n] + i - 1] = Cells(n, shape)[i]
      <4>1. longer[n] + i - 1 = Len(wire) + i
        BY <1>1, <1>6, <2>1
      <4>2. QED
        BY <1>5, <2>1, <4>1 DEF new
    <3>3. QED
      BY <1>4, <2>1, <3>1, <3>2
  <2>2. CASE n \in 1 .. R
    <3>1. /\ longer[n] = start[n] /\ longer[n + 1] = start[n + 1]
          /\ requests'[n] = requests[n] /\ Len(requests[n]) \in Nat
      BY <1>1, <1>4, <1>6, <2>2, ShapeIsLong
    <3>2. longer[n + 1] = longer[n] + Len(requests'[n])
      BY <2>2, <3>1 DEF Layout, LayoutOf
    <3>3. ASSUME NEW i \in 1 .. Len(requests[n]), start[n] + i - 1 >= 1
          PROVE  wire'[start[n] + i - 1] = Cells(n, requests[n])[i]
      <4>1. start[n + 1] <= Len(wire) + 1 /\ start[n + 1] = start[n] + Len(requests[n])
            /\ start[n] \in Int
        <5>1. n \in 1 .. R + 1 /\ n + 1 \in 1 .. R + 1
          BY <1>1, <2>2
        <5>2. QED
          BY <1>a, <2>2, <5>1 DEF Layout, LayoutOf
      <4>2. start[n] + i - 1 \in 1 .. Len(wire)
        <5>1. PICK size \in Nat, l \in Nat : size = Len(requests[n]) /\ l = Len(wire)
          BY <1>1, <3>1
        <5>2. i \in 1 .. size /\ start[n] + size <= l + 1 /\ start[n] + i - 1 >= 1
          BY <3>3, <4>1, <5>1
        <5>3. start[n] + i - 1 \in 1 .. l
          BY <4>1, <5>2
        <5>4. QED
          BY <5>1, <5>3
      <4>3. wire[start[n] + i - 1] = Cells(n, requests[n])[i]
        BY <2>2, <3>3 DEF Layout, LayoutOf
      <4>4. QED
        BY <1>5, <4>2, <4>3
    <3>4. ASSUME NEW i \in 1 .. Len(requests'[n]), longer[n] + i - 1 >= 1
          PROVE  wire'[longer[n] + i - 1] = Cells(n, requests'[n])[i]
      <4>1. i \in 1 .. Len(requests[n]) /\ start[n] + i - 1 >= 1
        BY <3>1, <3>4
      <4>2. QED
        BY <3>1, <3>3, <4>1
    <3>5. \A i \in 1 .. Len(requests'[n]) : longer[n] + i - 1 >= 1 =>
            wire'[longer[n] + i - 1] = Cells(n, requests'[n])[i]
      BY <3>4
    <3>6. QED
      BY <3>2, <3>5, Zenon
  <2>3. n = R + 1 \/ n \in 1 .. R
    BY <1>1
  <2>4. QED
    BY <2>1, <2>2, <2>3, Zenon
<1>8. ASSUME NEW m \in 1 .. R + 2, NEW n \in 1 .. R + 2, m <= n
      PROVE  longer[m] <= longer[n]
  <2>2. CASE n = R + 2
    <3>1. m = R + 2 \/ m \in 1 .. R + 1
      BY <1>1
    <3>2. QED
      BY <1>1, <1>3, <1>6, <1>a, <2>2, <3>1
  <2>3. CASE n # R + 2
    <3>1. m \in 1 .. R + 1 /\ n \in 1 .. R + 1
      BY <1>1, <1>8, <2>3
    <3>2. QED
      BY <1>6, <1>8, <3>1 DEF Layout, LayoutOf
  <2>4. QED
    BY <2>2, <2>3
<1>9. ASSUME NEW p \in 1 .. Len(wire')
      PROVE  /\ wire'[p].of \in 1 .. R + 1
             /\ longer[wire'[p].of] <= p /\ p < longer[wire'[p].of + 1]
  <2>1. CASE p \in 1 .. Len(wire)
    <3>1. /\ wire'[p] = wire[p] /\ wire[p].of \in 1 .. R
          /\ start[wire[p].of] <= p /\ p < start[wire[p].of + 1]
      BY <1>5, <2>1 DEF Layout, LayoutOf
    <3>2. R \in Nat
      BY <1>1
    <3>3. \A o \in 1 .. R : o \in 1 .. R + 1 /\ o + 1 \in 1 .. R + 1
      BY <3>2
    <3>4. wire[p].of \in 1 .. R + 1 /\ wire[p].of + 1 \in 1 .. R + 1
      BY <3>1, <3>3, Zenon
    <3>5. QED
      BY <1>6, <3>1, <3>4
  <2>2. CASE p \notin 1 .. Len(wire)
    <3>1. PICK i \in 1 .. Len(shape) : p = Len(wire) + i
      <4>1. p - Len(wire) \in 1 .. Len(shape) /\ p = Len(wire) + (p - Len(wire))
        BY <1>1, <1>3, <1>5, <2>2
      <4>2. QED
        BY <4>1
    <3>2. wire'[p].of = R + 1
      BY <1>2, <1>5, <3>1
    <3>3. QED
      BY <1>1, <1>3, <1>6, <3>1, <3>2
  <2>3. QED
    BY <2>1, <2>2
<1>10. Layout(longer)'
  <2>1. /\ Len(requests') = R + 1 /\ Len(requests') + 1 = R + 2
        /\ longer[R + 2] = Len(wire') + 1
    BY <1>1, <1>3, <1>4, <1>5, <1>6
  <2> HIDE DEF R
  <2>2. /\ longer \in [1 .. Len(requests') + 1 -> Int]
        /\ longer[Len(requests') + 1] = Len(wire') + 1
        /\ \A n \in 1 .. Len(requests') : longer[n + 1] = longer[n] + Len(requests'[n])
    BY <2>1, <1>6, <1>7, Zenon
  <2>3. /\ \A m, n \in 1 .. Len(requests') + 1 : m <= n => longer[m] <= longer[n]
        /\ \A p \in 1 .. Len(wire') :
             /\ wire'[p].of \in 1 .. Len(requests')
             /\ longer[wire'[p].of] <= p /\ p < longer[wire'[p].of + 1]
    BY <2>1, <1>8, <1>9, Zenon
  <2>4. \A n \in 1 .. Len(requests') : \A i \in 1 .. Len(requests'[n]) :
          longer[n] + i - 1 >= 1 =>
            wire'[longer[n] + i - 1] = Cells(n, requests'[n])[i]
    BY <2>1, <1>7, Zenon
  <2>5. QED
    BY <2>2, <2>3, <2>4, Zenon DEF Layout, LayoutOf
<1>11. QED
  BY <1>1, <1>4, <1>5, <1>10
(* A piece received moves all that follows it to the front.                *)
LEMMA ReceiveLayout ==
    ASSUME TypeOK, NEW start, Layout(start), NEW k \in 1 .. Size, Receive(k),
           NEW moved, moved = [n \in 1 .. Len(requests) + 1 |-> start[n] - k]
    PROVE  Layout(moved)' /\ wire' \in Seq(Cell) /\ Len(wire') = Len(wire) - k
<1> DEFINE R == Len(requests)
<1>1. /\ requests \in Seq(Shapes) /\ wire \in Seq(Cell) /\ R \in Nat /\ Len(wire) \in Nat
      /\ k \in Nat /\ k <= Len(wire) /\ requests' = requests
      /\ wire' = SubSeq(wire, k + 1, Len(wire))
  BY DEF TypeOK, Receive
<1>b. k \in Nat /\ k <= Len(wire) /\ Len(wire) \in Nat /\ R \in Nat
  BY <1>1
<1>2. /\ wire' \in Seq(Cell) /\ Len(wire') = Len(wire) - k
      /\ \A p \in 1 .. Len(wire) - k : wire'[p] = wire[p + k]
  <2>1. /\ k + 1 \in Int /\ Len(wire) \in Int
        /\ \A i \in k + 1 .. Len(wire) : wire[i] \in Cell
    BY <1>1
  <2>2. /\ wire' \in Seq(Cell)
        /\ Len(wire') = IF k + 1 <= Len(wire) THEN Len(wire) - (k + 1) + 1 ELSE 0
        /\ \A p \in 1 .. Len(wire) - (k + 1) + 1 : wire'[p] = wire[(k + 1) + p - 1]
    BY <1>1, <2>1, SubSeqProperties
  <2>3. Len(wire') = Len(wire) - k /\ Len(wire) - (k + 1) + 1 = Len(wire) - k
    BY <1>1, <2>2
  <2>4. ASSUME NEW p \in 1 .. Len(wire) - k PROVE wire'[p] = wire[p + k]
    <3>1. (k + 1) + p - 1 = p + k
      BY <1>1
    <3>2. QED
      BY <2>2, <2>3, <3>1
  <2>5. QED
    BY <2>2, <2>3, <2>4
<1>3. /\ start \in [1 .. R + 1 -> Int] /\ moved \in [1 .. R + 1 -> Int]
      /\ \A n \in 1 .. R + 1 : moved[n] = start[n] - k
  BY <1>1 DEF Layout, LayoutOf
<1>4. ASSUME NEW n \in 1 .. R + 1 PROVE start[n] \in Int /\ start[n] <= Len(wire) + 1
  <2>1. R + 1 \in 1 .. R + 1 /\ n <= R + 1
    BY <1>1
  <2>2. QED
    BY <1>3, <2>1 DEF Layout, LayoutOf
<1>5. moved[R + 1] = Len(wire') + 1
  <2>1. R + 1 \in 1 .. R + 1 /\ start[R + 1] = Len(wire) + 1
    BY <1>1 DEF Layout, LayoutOf
  <2>2. QED
    BY <1>1, <1>2, <1>3, <2>1
<1>6. ASSUME NEW n \in 1 .. R
      PROVE  /\ moved[n + 1] = moved[n] + Len(requests[n])
             /\ \A i \in 1 .. Len(requests[n]) : moved[n] + i - 1 >= 1 =>
                  wire'[moved[n] + i - 1] = Cells(n, requests[n])[i]
  <2>1. n \in 1 .. R + 1 /\ n + 1 \in 1 .. R + 1
    BY <1>1
  <2>a. start[n + 1] = start[n] + Len(requests[n])
    BY DEF Layout, LayoutOf
  <2>2. PICK size \in Nat : size = Len(requests[n])
    BY <1>1, ShapeIsLong
  <2>b. PICK from \in Int : from = start[n] /\ start[n + 1] = from + size
    BY <1>4, <2>1, <2>2, <2>a
  <2>c. moved[n] = from - k /\ moved[n + 1] = (from + size) - k
    BY <1>3, <2>1, <2>b
  <2>3. moved[n + 1] = moved[n] + size
    BY <1>1, <2>b, <2>c
  <2>4. ASSUME NEW i \in 1 .. Len(requests[n]), moved[n] + i - 1 >= 1
        PROVE  wire'[moved[n] + i - 1] = Cells(n, requests[n])[i]
    <3>a. from + size <= Len(wire) + 1
      BY <1>4, <2>1, <2>b
    <3>b. i \in 1 .. size
      BY <2>2
    <3>1. /\ (moved[n] + i - 1) + k = start[n] + i - 1 /\ start[n] + i - 1 >= 1
          /\ moved[n] + i - 1 \in Int
      <4>1. (from - k) + i - 1 >= 1 /\ i \in Nat
        BY <2>4, <2>c, <3>b
      <4>2. ((from - k) + i - 1) + k = from + i - 1 /\ from + i - 1 >= 1
            /\ (from - k) + i - 1 \in Int
        BY <1>b, <4>1
      <4>3. QED
        BY <2>b, <2>c, <4>2
    <3>2. moved[n] + i - 1 \in 1 .. Len(wire) - k
      <4>1. (from - k) + i - 1 >= 1 /\ i \in Nat /\ i <= size
        BY <2>4, <2>c, <3>b
      <4>2. (from - k) + i - 1 \in 1 .. Len(wire) - k
        BY <1>b, <3>a, <4>1
      <4>3. QED
        BY <2>c, <4>2
    <3>3. wire[start[n] + i - 1] = Cells(n, requests[n])[i]
      BY <3>1 DEF Layout, LayoutOf
    <3>4. QED
      BY <1>2, <3>1, <3>2, <3>3
  <2>5. QED
    BY <2>2, <2>3, <2>4
<1>7. ASSUME NEW m \in 1 .. R + 1, NEW n \in 1 .. R + 1, m <= n
      PROVE  moved[m] <= moved[n]
  <2>1. start[m] <= start[n]
    BY <1>7 DEF Layout, LayoutOf
  <2>2. QED
    BY <1>1, <1>3, <1>4, <2>1
<1>8. ASSUME NEW p \in 1 .. Len(wire')
      PROVE  /\ wire'[p].of \in 1 .. R
             /\ moved[wire'[p].of] <= p /\ p < moved[wire'[p].of + 1]
  <2>1. p \in 1 .. Len(wire) - k /\ p + k \in 1 .. Len(wire)
    BY <1>1, <1>2
  <2>2. PICK n : n = wire'[p].of /\ n = wire[p + k].of
    BY <1>2, <2>1
  <2>3. n \in 1 .. R /\ start[n] <= p + k /\ p + k < start[n + 1]
    BY <2>1, <2>2 DEF Layout, LayoutOf
  <2>4. n \in 1 .. R + 1 /\ n + 1 \in 1 .. R + 1
    BY <1>1, <2>3
  <2>a. PICK from \in Int, to \in Int : from = start[n] /\ to = start[n + 1]
    BY <1>4, <2>4
  <2>b. moved[n] = from - k /\ moved[n + 1] = to - k
    BY <1>3, <2>4, <2>a
  <2>5. moved[n] <= p /\ p < moved[n + 1]
    <3>1. from <= p + k /\ p + k < to /\ p \in Int
      BY <2>1, <2>3, <2>a
    <3>2. from - k <= p /\ p < to - k
      BY <1>b, <3>1
    <3>3. QED
      BY <2>b, <3>2
  <2>6. QED
    BY <2>2, <2>3, <2>5
<1>9. LayoutOf(moved, requests, wire')
  BY <1>3, <1>5, <1>6, <1>7, <1>8 DEF LayoutOf
<1>10. QED
  BY <1>1, <1>2, <1>9 DEF Layout

(* The buffer with a piece received behind what it held.                   *)
LEMMA FilledIs ==
    ASSUME TypeOK, NEW k \in 1 .. Size, Receive(k), NEW b, b = Filled(SubSeq(wire, 1, k))
    PROVE  /\ b \in [1 .. Size -> Cell]
           /\ \A i \in 1 .. Size : b[i] = IF i \in idx + 1 .. idx + k THEN wire[i - idx] ELSE buf[i]
           /\ idx \in Nat /\ k \in Nat /\ idx + k <= Size /\ k <= Len(wire) /\ Len(wire) \in Nat
<1>1. /\ idx \in Nat /\ k \in Nat /\ idx + k <= Size /\ k <= Len(wire) /\ Len(wire) \in Nat
      /\ wire \in Seq(Cell) /\ buf \in [1 .. Size -> Cell]
  BY DEF TypeOK, Receive
<1>2. PICK piece \in Seq(Cell) : /\ piece = SubSeq(wire, 1, k) /\ Len(piece) = k
                                 /\ \A i \in 1 .. k : piece[i] = wire[i]
  <2>1. \A i \in 1 .. k : wire[i] \in Cell
    BY <1>1
  <2>2. /\ SubSeq(wire, 1, k) \in Seq(Cell) /\ Len(SubSeq(wire, 1, k)) = k
        /\ \A i \in 1 .. k : SubSeq(wire, 1, k)[i] = wire[i]
    BY <1>1, <2>1, SubSeqProperties
  <2>3. QED
    BY <2>2
<1>3. ASSUME NEW i \in 1 .. Size
      PROVE  /\ b[i] = IF i \in idx + 1 .. idx + k THEN wire[i - idx] ELSE buf[i]
             /\ b[i] \in Cell
  <2>1. b[i] = IF i \in idx + 1 .. idx + k THEN piece[i - idx] ELSE buf[i]
    BY <1>2 DEF Filled
  <2>2. i \in idx + 1 .. idx + k => i - idx \in 1 .. k /\ i - idx \in 1 .. Len(wire)
    BY <1>1
  <2>3. QED
    BY <1>1, <1>2, <2>1, <2>2
<1>4. b = [i \in 1 .. Size |-> b[i]]
  BY DEF Filled
<1>5. QED
  BY <1>1, <1>3, <1>4

(* What a piece makes of the buffer while the first request is received.   *)
LEMMA FirstPiece ==
    ASSUME TypeOK, NEW start, Layout(start), First(start), frames = <<>>,
           NEW k \in 1 .. Size, Receive(k), NEW b, b = Filled(SubSeq(wire, 1, k)),
           NEW size, size = Len(requests[1])
    PROVE  /\ requests # <<>>
           /\ \A i \in idx + k + 1 .. Size : b[i] = Nul
           /\ idx + k < size =>
                Ends(b) = {} /\ \A i \in 1 .. idx + k : b[i] = Cells(1, requests[1])[i]
           /\ idx + k >= size =>
                /\ Ends(b) # {} /\ FirstOf(Ends(b)) = size
                /\ SubSeq(b, 1, size) = Cells(1, requests[1])
                /\ ~Ragged(k) => start[2] = k + 1 /\ idx + k = size
<1>1. /\ b \in [1 .. Size -> Cell]
      /\ \A i \in 1 .. Size : b[i] = IF i \in idx + 1 .. idx + k THEN wire[i - idx] ELSE buf[i]
      /\ idx \in Nat /\ k \in Nat /\ k >= 1 /\ idx + k <= Size /\ k <= Len(wire) /\ Len(wire) \in Nat
  BY FilledIs
<1>2. start[1] = 1 - idx /\ \A i \in idx + 1 .. Size : buf[i] = Nul
  BY DEF First
<1>3. requests \in Seq(Shapes) /\ Len(requests) \in Nat /\ Len(requests) <= MaxRequests
  BY DEF TypeOK
<1>4. requests # <<>>
  <2> SUFFICES ASSUME requests = <<>> PROVE FALSE
    OBVIOUS
  <2>1. start[1] = Len(wire) + 1
    BY DEF Layout, LayoutOf
  <2>2. QED
    BY <1>1, <1>2, <2>1
<1>5. 1 \in 1 .. Len(requests) /\ requests[1] \in Shapes /\ 1 \in 1 .. MaxRequests
  BY <1>3, <1>4
<1>6. /\ size \in Nat /\ idx < size
      /\ \A i \in 1 .. idx : buf[i] = Cells(1, requests[1])[i]
  BY <1>4, <1>5, ShapeIsLong DEF First
<1>7. \A i \in idx + k + 1 .. Size : b[i] = Nul
  <2> SUFFICES ASSUME NEW i \in idx + k + 1 .. Size PROVE b[i] = Nul
    OBVIOUS
  <2>1. i \in 1 .. Size /\ i \notin idx + 1 .. idx + k /\ i \in idx + 1 .. Size
    BY <1>1
  <2>2. QED
    BY <1>1, <1>2, <2>1
<1>8. ASSUME NEW i \in 1 .. idx + k, i <= size PROVE b[i] = Cells(1, requests[1])[i]
  <2>1. i \in 1 .. Size
    BY <1>1
  <2>2. CASE i <= idx
    <3>1. i \in 1 .. idx /\ i \notin idx + 1 .. idx + k
      BY <1>1, <2>2
    <3>2. QED
      BY <1>1, <1>6, <2>1, <3>1
  <2>3. CASE ~(i <= idx)
    <3>1. i \in idx + 1 .. idx + k /\ i \in 1 .. size /\ i - idx >= 1
      BY <1>1, <1>6, <1>8, <2>3
    <3>2. start[1] + i - 1 = i - idx
      BY <1>1, <1>2
    <3>3. start[1] + i - 1 >= 1 => wire[start[1] + i - 1] = Cells(1, requests[1])[i]
      BY <1>5, <3>1 DEF Layout, LayoutOf
    <3>4. QED
      BY <1>1, <2>1, <3>1, <3>2, <3>3
  <2>4. QED
    BY <2>2, <2>3
<1>9. ASSUME idx + k < size
      PROVE  Ends(b) = {} /\ \A i \in 1 .. idx + k : b[i] = Cells(1, requests[1])[i]
  <2>1. ASSUME NEW i \in 1 .. idx + k PROVE b[i] = Cells(1, requests[1])[i]
    <3>1. i <= size
      BY <1>1, <1>6, <1>9
    <3>2. QED
      BY <1>8, <3>1
  <2>2. ASSUME NEW e \in Ends(b) PROVE FALSE
    <3>1. e \in 4 .. Size /\ \A i \in 1 .. e : b[i] # Nul
      BY DEF Ends
    <3>2. e <= idx + k
      <4> SUFFICES ASSUME ~(e <= idx + k) PROVE FALSE
        OBVIOUS
      <4>1. e \in idx + k + 1 .. Size /\ e \in 1 .. e
        BY <1>1, <3>1
      <4>2. QED
        BY <1>7, <3>1, <4>1
    <3>3. \A i \in 1 .. e : b[i] = Cells(1, requests[1])[i]
      BY <1>1, <2>1, <3>1, <3>2
    <3>4. e <= Len(requests[1])
      BY <1>1, <1>6, <1>9, <3>1, <3>2
    <3>5. e = size
      BY <1>1, <1>5, <3>3, <3>4, NoEarlyEnd
    <3>6. QED
      BY <1>1, <1>6, <1>9, <3>2, <3>5
  <2>3. QED
    BY <2>1, <2>2
<1>10. ASSUME idx + k >= size
       PROVE  /\ Ends(b) # {} /\ FirstOf(Ends(b)) = size
              /\ SubSeq(b, 1, size) = Cells(1, requests[1])
              /\ ~Ragged(k) => start[2] = k + 1 /\ idx + k = size
  <2>1. size <= Size
    BY <1>1, <1>6, <1>10
  <2>2. \A i \in 1 .. size : b[i] = Cells(1, requests[1])[i]
    BY <1>1, <1>6, <1>8, <1>10
  <2>3. Ends(b) # {} /\ FirstOf(Ends(b)) = size /\ SubSeq(b, 1, size) = Cells(1, requests[1])
    BY <1>1, <1>5, <2>1, <2>2, WholeRequest
  <2>4. ASSUME ~Ragged(k) PROVE start[2] = k + 1 /\ idx + k = size
    <3>1. start[2] = start[1] + size
      BY <1>5 DEF Layout, LayoutOf
    <3>2. start[2] = 1 - idx + size
      BY <1>2, <3>1
    <3>3. wire[1].of = 1
      <4>1. start[1] + (idx + 1) - 1 = 1 /\ idx + 1 \in 1 .. size
        BY <1>1, <1>2, <1>6
      <4>2. start[1] + (idx + 1) - 1 >= 1 =>
              wire[start[1] + (idx + 1) - 1] = Cells(1, requests[1])[idx + 1]
        BY <1>5, <4>1 DEF Layout, LayoutOf
      <4>3. wire[1] = Cells(1, requests[1])[idx + 1]
        BY <4>1, <4>2
      <4>4. Cells(1, requests[1])[idx + 1].of = 1
        BY <1>5, <4>1, CellsType
      <4>5. QED
        BY <4>3, <4>4
    <3>4. wire[k].of = 1
      BY <2>4, <3>3 DEF Ragged
    <3>5. k < start[2]
      <4>1. k \in 1 .. Len(wire)
        BY <1>1
      <4>2. k < start[wire[k].of + 1]
        BY <4>1 DEF Layout, LayoutOf
      <4>3. QED
        BY <3>4, <4>2
    <3>6. idx \in Nat /\ k \in Nat /\ size \in Nat /\ idx + k >= size /\ k < 1 - idx + size
      BY <1>1, <1>6, <1>10, <3>2, <3>5
    <3>7. idx + k = size /\ 1 - idx + size = k + 1
      BY <3>6
    <3>8. QED
      BY <3>2, <3>7
  <2>5. QED
    BY <2>3, <2>4
<1>11. QED
  BY <1>4, <1>7, <1>9, <1>10, <1>1, <1>6
(* After that, a piece that is not ragged is the next request, whole.      *)
LEMMA LaterPiece ==
    ASSUME TypeOK, NEW start, Layout(start), Later(start), frames # <<>>, ~ragged,
           NEW k \in 1 .. Size, Receive(k), ~Ragged(k),
           NEW b, b = Filled(SubSeq(wire, 1, k)), NEW m, m = Len(frames) + 1
    PROVE  /\ idx = 0 /\ m \in 1 .. Len(requests) /\ Len(requests[m]) = k
           /\ start[m + 1] = k + 1
           /\ Ends(b) # {} /\ FirstOf(Ends(b)) = k /\ SubSeq(b, 1, k) = Cells(m, requests[m])
<1>1. /\ b \in [1 .. Size -> Cell]
      /\ \A i \in 1 .. Size : b[i] = IF i \in idx + 1 .. idx + k THEN wire[i - idx] ELSE buf[i]
      /\ k \in Nat /\ k >= 1 /\ k <= Size /\ k <= Len(wire) /\ Len(wire) \in Nat
  BY FilledIs
<1>2. /\ requests \in Seq(Shapes) /\ Len(requests) \in Nat /\ Len(requests) <= MaxRequests
      /\ Len(frames) \in Nat /\ Len(frames) >= 1
  BY DEF TypeOK
<1>3. idx = 0 /\ Len(frames) <= Len(requests) /\ start[m] = 1 /\ m \in Nat /\ m >= 2
  BY <1>2 DEF Later, Receive
<1>4. m \in 1 .. Len(requests)
  <2> SUFFICES ASSUME m = Len(requests) + 1 PROVE FALSE
    BY <1>2, <1>3
  <2>1. start[m] = Len(wire) + 1
    BY DEF Layout, LayoutOf
  <2>2. QED
    BY <1>1, <1>3, <2>1
<1>5. /\ requests[m] \in Shapes /\ m \in 1 .. MaxRequests
      /\ Len(requests[m]) \in Nat /\ Len(requests[m]) >= 1
  BY <1>2, <1>4, ShapeIsLong
<1>6. PICK size \in Nat : size = Len(requests[m]) /\ size >= 1
  BY <1>5
<1>7. start[m + 1] = 1 + size
  BY <1>3, <1>4, <1>6 DEF Layout, LayoutOf
<1>8. 1 + size <= Len(wire) + 1
  <2>1. m + 1 \in 1 .. Len(requests) + 1 /\ Len(requests) + 1 \in 1 .. Len(requests) + 1
        /\ m + 1 <= Len(requests) + 1
    BY <1>2, <1>4
  <2>2. start[m + 1] <= start[Len(requests) + 1]
    BY <2>1 DEF Layout, LayoutOf
  <2>3. QED
    BY <1>7, <2>2 DEF Layout, LayoutOf
<1>9. ASSUME NEW i \in 1 .. size PROVE wire[i] = Cells(m, requests[m])[i] /\ wire[i].of = m
  <2>1. start[m] + i - 1 = i /\ i >= 1
    BY <1>3
  <2>2. wire[i] = Cells(m, requests[m])[i]
    BY <1>4, <1>6, <2>1 DEF Layout, LayoutOf
  <2>3. Cells(m, requests[m])[i].of = m
    BY <1>5, <1>6, CellsType
  <2>4. QED
    BY <2>2, <2>3
<1>10. wire[k].of = m /\ k <= size
  <2>1. wire[1].of = m
    BY <1>6, <1>9
  <2>2. wire[k].of = m
    BY <2>1 DEF Ragged
  <2>3. k \in 1 .. Len(wire)
    BY <1>1
  <2>4. k < start[wire[k].of + 1]
    BY <2>3 DEF Layout, LayoutOf
  <2>5. k < 1 + size
    BY <1>7, <2>2, <2>4
  <2>6. QED
    BY <1>1, <2>2, <2>5
<1>11. k = size
  <2> SUFFICES ASSUME k < size PROVE FALSE
    BY <1>1, <1>10
  <2>1. k + 1 \in 1 .. size /\ k < Len(wire)
    BY <1>1, <1>8
  <2>2. wire[k + 1].of = m
    BY <1>9, <2>1
  <2>3. wire[k].of > 1
    BY <1>3, <1>10
  <2>4. QED
    BY <1>10, <2>1, <2>2, <2>3 DEF Ragged
<1>12. \A i \in 1 .. Len(requests[m]) : b[i] = Cells(m, requests[m])[i]
  <2> SUFFICES ASSUME NEW i \in 1 .. size PROVE b[i] = Cells(m, requests[m])[i]
    BY <1>6
  <2>1. i \in 1 .. Size /\ i \in idx + 1 .. idx + k /\ i - idx = i
    BY <1>1, <1>3, <1>11
  <2>2. QED
    BY <1>1, <1>9, <2>1
<1>13. Len(requests[m]) = k /\ k <= Size /\ start[m + 1] = k + 1
  BY <1>1, <1>6, <1>7, <1>11
<1>14. Ends(b) # {} /\ FirstOf(Ends(b)) = k /\ SubSeq(b, 1, k) = Cells(m, requests[m])
  <2>1. /\ Len(requests[m]) \in Ends(b) /\ FirstOf(Ends(b)) = Len(requests[m])
        /\ SubSeq(b, 1, Len(requests[m])) = Cells(m, requests[m])
    BY <1>1, <1>5, <1>12, <1>13, WholeRequest
  <2>2. QED
    BY <1>13, <2>1
<1>15. QED
  BY <1>3, <1>4, <1>13, <1>14
-----------------------------------------------------------------------------
(* Induction, on a set in the place of a predicate.                        *)
LEMMA SetInduction ==
    ASSUME NEW G, 0 \in G, \A n \in Nat : n \in G => n + 1 \in G
    PROVE  Nat \subseteq G
<1> SUFFICES ASSUME NEW T, T = Nat \ G, T # {} PROVE FALSE
  OBVIOUS
<1>1. T \subseteq Nat
  OBVIOUS
<1>2. PICK x \in T : \A y \in T : <<y, x>> \notin OpToRel(<, Nat)
  BY <1>1, NatLessThanWellFounded, WFMin
<1>3. x \in Nat /\ x # 0
  OBVIOUS
<1>4. <<x - 1, x>> \in OpToRel(<, Nat)
  BY <1>3 DEF OpToRel
<1>5. x - 1 \notin T
  BY <1>2, <1>4
<1>6. x - 1 \in Nat /\ (x - 1) + 1 = x
  BY <1>3
<1>7. x \in G
  BY <1>5, <1>6
<1>8. QED
  BY <1>7

(* The function Totals defines exists.                                     *)
LEMMA TotalsRecur ==
    ASSUME NEW seqs, Len(seqs) \in Nat
    PROVE  /\ Totals(seqs)[0] = 0
           /\ \A k \in 1 .. Len(seqs) : Totals(seqs)[k] = Totals(seqs)[k - 1] + Len(seqs[k])
<1> DEFINE Body(f, n) == [k \in 0 .. n |-> IF k = 0 THEN 0 ELSE f[k - 1] + Len(seqs[k])]
           G == {n \in Nat : \E f : f = Body(f, n)}
<1>1. 0 \in G
  <2> DEFINE f == [k \in 0 .. 0 |-> 0]
  <2>1. f = Body(f, 0)
    OBVIOUS
  <2>2. QED
    BY <2>1
<1>2. ASSUME NEW n \in Nat, n \in G PROVE n + 1 \in G
  <2>1. PICK f : f = Body(f, n)
    BY <1>2
  <2> DEFINE g == [k \in 0 .. n + 1 |-> IF k <= n THEN f[k] ELSE f[n] + Len(seqs[n + 1])]
  <2>2. ASSUME NEW k \in 0 .. n + 1
        PROVE  g[k] = IF k = 0 THEN 0 ELSE g[k - 1] + Len(seqs[k])
    BY <2>1, <1>2
  <2>3. g = Body(g, n + 1)
    BY <2>2
  <2> HIDE DEF g
  <2>4. \E h : h = Body(h, n + 1)
    BY <2>3
  <2>5. QED
    BY <2>4
<1>3. Nat \subseteq G
  <2> HIDE DEF G
  <2> QED
    BY <1>1, <1>2, SetInduction
<1>4. PICK f : f = Body(f, Len(seqs))
  BY <1>3
<1>5. Totals(seqs) = Body(Totals(seqs), Len(seqs))
  BY <1>4 DEF Totals
<1>6. QED
  BY <1>5

(* A total of lengths is a natural number.                                 *)
LEMMA TotalIsNat ==
    ASSUME NEW T, \A t \in T : Len(t) \in Nat, NEW seqs \in Seq(T)
    PROVE  Total(seqs) \in Nat /\ \A n \in 0 .. Len(seqs) : Totals(seqs)[n] \in Nat
<1> DEFINE G == {n \in Nat : n <= Len(seqs) => Totals(seqs)[n] \in Nat}
<1>1. 0 \in G
  BY TotalsRecur
<1>2. ASSUME NEW n \in Nat, n \in G PROVE n + 1 \in G
  <2> SUFFICES ASSUME n + 1 <= Len(seqs) PROVE Totals(seqs)[n + 1] \in Nat
    OBVIOUS
  <2>1. /\ n + 1 \in 1 .. Len(seqs) /\ (n + 1) - 1 = n /\ n <= Len(seqs)
        /\ Len(seqs) \in Nat
    OBVIOUS
  <2>2. Totals(seqs)[n + 1] = Totals(seqs)[(n + 1) - 1] + Len(seqs[n + 1])
    BY <2>1, TotalsRecur
  <2>3. Totals(seqs)[n] \in Nat /\ Len(seqs[n + 1]) \in Nat
    BY <1>2, <2>1
  <2>4. QED
    BY <2>1, <2>2, <2>3
<1>3. Nat \subseteq G
  <2> HIDE DEF G
  <2> QED
    BY <1>1, <1>2, SetInduction
<1>4. QED
  BY <1>3 DEF Total

(* One more sequence adds its length to the total.                         *)
LEMMA TotalAppend ==
    ASSUME NEW T, \A t \in T : Len(t) \in Nat, NEW seqs \in Seq(T), NEW s \in T
    PROVE  Total(Append(seqs, s)) = Total(seqs) + Len(s)
<1> DEFINE more == Append(seqs, s)
           G == {n \in Nat : n <= Len(seqs) =>
                                Totals(more)[n] = Totals(seqs)[n]}
<1>1. /\ Len(seqs) \in Nat /\ Len(more) \in Nat /\ Len(more) = Len(seqs) + 1
      /\ more[Len(seqs) + 1] = s /\ \A k \in 1 .. Len(seqs) : more[k] = seqs[k]
  OBVIOUS
<1> HIDE DEF more
<1>2. 0 \in G
  BY <1>1, TotalsRecur
<1>3. ASSUME NEW n \in Nat, n \in G PROVE n + 1 \in G
  <2> SUFFICES ASSUME n + 1 <= Len(seqs)
               PROVE  Totals(more)[n + 1] = Totals(seqs)[n + 1]
    OBVIOUS
  <2>1. /\ n + 1 \in 1 .. Len(seqs) /\ n + 1 \in 1 .. Len(more)
        /\ (n + 1) - 1 = n /\ n <= Len(seqs)
    BY <1>1
  <2>2. Totals(more)[n + 1] = Totals(more)[n] + Len(more[n + 1])
    BY <1>1, <2>1, TotalsRecur
  <2>3. Totals(seqs)[n + 1] = Totals(seqs)[n] + Len(seqs[n + 1])
    BY <1>1, <2>1, TotalsRecur
  <2>4. Totals(more)[n] = Totals(seqs)[n]
    BY <1>3, <2>1
  <2>5. more[n + 1] = seqs[n + 1]
    BY <1>1, <2>1
  <2>6. QED
    BY <2>2, <2>3, <2>4, <2>5
<1>4. Nat \subseteq G
  <2> HIDE DEF G
  <2> QED
    BY <1>2, <1>3, SetInduction
<1>5. Totals(more)[Len(seqs)] = Totals(seqs)[Len(seqs)]
  BY <1>1, <1>4
<1>6. Totals(more)[Len(more)] = Totals(more)[Len(seqs)] + Len(s)
  <2>1. Len(more) \in 1 .. Len(more) /\ Len(more) - 1 = Len(seqs) /\ more[Len(more)] = s
    BY <1>1
  <2>2. QED
    BY <1>1, <2>1, TotalsRecur
<1>7. QED
  BY <1>5, <1>6 DEF Total, more
-----------------------------------------------------------------------------
(* A search that finds a blank line finds it in the buffer.                *)
LEMMA FirstOfIs ==
    ASSUME NEW b \in [1 .. Size -> Cell], Ends(b) # {}
    PROVE  FirstOf(Ends(b)) \in 4 .. Size
<1>1. PICK E : E = Ends(b)
  OBVIOUS
<1>2. E \subseteq 4 .. Size /\ E \subseteq Nat /\ E # {}
  BY <1>1 DEF Ends
<1>3. PICK x \in E : \A y \in E : <<y, x>> \notin OpToRel(<, Nat)
  BY <1>2, NatLessThanWellFounded, WFMin
<1>4. ASSUME NEW y \in E PROVE x <= y
  <2>1. x \in Nat /\ y \in Nat
    BY <1>2
  <2>2. y < x => <<y, x>> \in OpToRel(<, Nat)
    BY <2>1 DEF OpToRel
  <2>3. ~(y < x)
    BY <1>3, <2>2
  <2>4. QED
    BY <2>1, <2>3
<1>5. FirstOf(E) \in E
  BY <1>4 DEF FirstOf
<1>6. QED
  BY <1>1, <1>2, <1>5

(* What processing a piece leaves of the types.                            *)
LEMMA ProcessType ==
    ASSUME TypeOK, NEW b \in [1 .. Size -> Cell], Ends(b) # {},
           NEW last \in LastLines(b, FirstOf(Ends(b)))
    PROVE  /\ Parsed(b, last) \in [1 .. Size -> Cell]
           /\ SubSeq(b, 1, FirstOf(Ends(b))) \in Seq(Cell)
           /\ Len(SubSeq(b, 1, FirstOf(Ends(b)))) = FirstOf(Ends(b))
<1>1. PICK end \in 4 .. Size : end = FirstOf(Ends(b))
  BY FirstOfIs
<1>2. \A i \in 1 .. end : b[i] \in Cell
  OBVIOUS
<1>3. SubSeq(b, 1, end) \in Seq(Cell) /\ Len(SubSeq(b, 1, end)) = end
  BY <1>2, SubSeqProperties
<1>4. Nul \in Cell
  BY DEF Nul, Cell
<1>5. QED
  BY <1>1, <1>3, <1>4 DEF Parsed

(* A piece that is received leaves the wire and is counted in the buffer.  *)
LEMMA Balance ==
    ASSUME NEW sent \in Nat, NEW got \in Nat, NEW left \in Nat, NEW i \in Nat,
           NEW k \in Nat, sent - left = got + i
    PROVE  sent - (left - k) = got + (i + k)
  OBVIOUS

(* No step of the peer or of the connection leaves ReceiveInv.             *)
LEMMA Invariance == Spec => []ReceiveInv
<1>0. /\ \A s \in Shapes : Len(s) \in Nat
      /\ \A q \in Seq(Cell) : Len(q) \in Nat
  OBVIOUS
<1>1. Init => ReceiveInv
  <2> SUFFICES ASSUME Init PROVE ReceiveInv
    OBVIOUS
  <2>1. Nul \in Cell
    BY DEF Nul, Cell
  <2>2. TypeOK
    <3>1. buf \in [1 .. Size -> Cell] /\ idx \in 0 .. Size
      BY <2>1 DEF Init
    <3>2. /\ wire \in Seq(Cell) /\ requests \in Seq(Shapes)
          /\ frames \in Seq(Seq(Cell)) /\ Len(requests) <= MaxRequests
      BY DEF Init
    <3>3. QED
      BY <3>1, <3>2, Zenon DEF TypeOK, Init
  <2>3. Framed /\ NothingDropped
    <3>1. Len(requests) = 0 /\ Len(frames) = 0 /\ Len(wire) = 0 /\ requests = frames
      BY DEF Init
    <3>2. Total(requests) = 0 /\ Total(frames) = 0
      BY <3>1, TotalsRecur DEF Total
    <3>3. QED
      BY <3>1, <3>2 DEF Init, Framed, NothingDropped, Ended
  <2>4. PICK start : start = [n \in 1 .. 1 |-> 1]
    OBVIOUS
  <2>5. Layout(start) /\ First(start) /\ Later(start)
    BY <2>4 DEF Init, Layout, LayoutOf, First, Later
  <2>6. QED
    BY <2>2, <2>3, <2>5 DEF ReceiveInv
<1>2. ReceiveInv /\ [Next]_vars => ReceiveInv'
  <2> SUFFICES ASSUME ReceiveInv, [Next]_vars PROVE ReceiveInv'
    OBVIOUS
  <2>0. TypeOK /\ Framed /\ NothingDropped
    BY DEF ReceiveInv
  <2>s. PICK start : Layout(start) /\ First(start) /\ Later(start)
    BY DEF ReceiveInv
  <2>t. /\ requests \in Seq(Shapes) /\ Len(requests) \in Nat /\ Len(requests) <= MaxRequests
        /\ frames \in Seq(Seq(Cell)) /\ Len(frames) \in Nat /\ ragged \in BOOLEAN
        /\ wire \in Seq(Cell) /\ Len(wire) \in Nat /\ idx \in Nat
    BY <2>0 DEF TypeOK
  <2>1. ASSUME NEW shape \in Shapes, PeerSends(shape) PROVE ReceiveInv'
    <3>1. PICK longer :
            longer = [n \in 1 .. Len(requests) + 2 |->
                        IF n <= Len(requests) + 1 THEN start[n]
                                                  ELSE Len(wire) + 1 + Len(shape)]
      OBVIOUS
    <3>2. /\ Layout(longer)' /\ requests' \in Seq(Shapes) /\ Len(requests') <= MaxRequests
          /\ wire' \in Seq(Cell) /\ Len(wire') = Len(wire) + Len(shape)
          /\ Len(requests') = Len(requests) + 1
          /\ \A n \in 1 .. Len(requests) : requests'[n] = requests[n]
      BY <2>0, <2>s, <2>1, <3>1, SendsLayout
    <3>3. requests' = Append(requests, shape) /\ UNCHANGED <<buf, idx, open, frames, ragged>>
      BY <2>1 DEF PeerSends
    <3>4. TypeOK'
      BY <2>0, <3>2, <3>3 DEF TypeOK
    <3>a. \A n \in 1 .. Len(requests) + 1 : longer[n] = start[n]
      BY <2>t, <3>1
    <3>b. Len(shape) >= 1 /\ Len(shape) \in Nat
      BY ShapeIsLong
    <3>5. First(longer)'
      <4> SUFFICES ASSUME frames = <<>>
                   PROVE  /\ longer[1] = 1 - idx
                          /\ \A i \in idx + 1 .. Size : buf[i] = Nul
                          /\ idx < Len(requests'[1])
                          /\ \A i \in 1 .. idx : buf[i] = Cells(1, requests'[1])[i]
        BY <3>3 DEF First
      <4>1. start[1] = 1 - idx /\ \A i \in idx + 1 .. Size : buf[i] = Nul
        BY <2>s DEF First
      <4>2. longer[1] = 1 - idx
        BY <2>t, <3>a, <4>1
      <4>3. CASE requests = <<>>
        <5>1. start[1] = Len(wire) + 1
          BY <2>s, <4>3 DEF Layout, LayoutOf
        <5>2. idx = 0
          BY <2>t, <4>1, <5>1
        <5>3. requests'[1] = shape
          BY <3>3, <4>3
        <5>4. QED
          BY <3>b, <4>1, <4>2, <5>2, <5>3
      <4>4. CASE requests # <<>>
        <5>1. requests'[1] = requests[1]
          BY <2>t, <3>2, <4>4
        <5>2. QED
          BY <2>s, <4>1, <4>2, <4>4, <5>1 DEF First
      <4>5. QED
        BY <4>3, <4>4
    <3>6. Later(longer)'
      <4> SUFFICES ASSUME frames # <<>>, ~ragged, open
                   PROVE  /\ idx = 0 /\ Len(frames) <= Len(requests')
                          /\ longer[Len(frames) + 1] = 1
        BY <3>3 DEF Later
      <4>1. idx = 0 /\ Len(frames) <= Len(requests) /\ start[Len(frames) + 1] = 1
        BY <2>s DEF Later
      <4>2. Len(frames) + 1 \in 1 .. Len(requests) + 1
        BY <2>t, <4>1
      <4>3. longer[Len(frames) + 1] = start[Len(frames) + 1]
        BY <3>a, <4>2
      <4>4. Len(frames) <= Len(requests')
        BY <2>t, <3>2, <4>1
      <4>5. QED
        BY <4>1, <4>3, <4>4
    <3>7. Framed'
      <4> SUFFICES ASSUME NEW n \in 1 .. Len(frames), n = 1 \/ ~ragged
                   PROVE  n <= Len(requests') /\ frames[n] = Cells(n, requests'[n])
        BY <3>3 DEF Framed
      <4>1. n <= Len(requests) /\ frames[n] = Cells(n, requests[n])
        BY <2>0 DEF Framed
      <4>2. n \in 1 .. Len(requests)
        BY <2>t, <4>1
      <4>3. requests'[n] = requests[n]
        BY <3>2, <4>2
      <4>4. n <= Len(requests')
        BY <2>t, <3>2, <4>1
      <4>5. QED
        BY <4>1, <4>3, <4>4
    <3>8. NothingDropped'
      <4>1. Total(requests') = Total(requests) + Len(shape) /\ Total(requests) \in Nat
        BY <1>0, <2>t, <3>3, TotalAppend, TotalIsNat
      <4>2. QED
        BY <1>0, <2>0, <2>t, <3>2, <3>3, <4>1 DEF NothingDropped, Ended
    <3>9. QED
      BY <3>2, <3>4, <3>5, <3>6, <3>7, <3>8 DEF ReceiveInv
  <2>2. ASSUME NEW k \in 1 .. Size, NoBlock(k) PROVE ReceiveInv'
    <3>1. PICK b : b = Filled(SubSeq(wire, 1, k))
      OBVIOUS
    <3>2. /\ Receive(k) /\ Ends(b) = {} /\ buf' = b /\ idx' = idx + k
          /\ ragged' = (ragged \/ Ragged(k))
          /\ UNCHANGED <<open, requests, frames>>
      BY <2>2, <3>1 DEF NoBlock, Receive
    <3>e. ~Ended /\ ~Ended'
      BY <3>2 DEF Receive, Ended
    <3>3. b \in [1 .. Size -> Cell] /\ k \in Nat /\ idx + k <= Size
      BY <2>0, <3>1, <3>2, FilledIs
    <3>4. PICK moved : moved = [n \in 1 .. Len(requests) + 1 |-> start[n] - k]
      OBVIOUS
    <3>5. Layout(moved)' /\ wire' \in Seq(Cell) /\ Len(wire') = Len(wire) - k
      BY <2>0, <2>s, <3>2, <3>4, ReceiveLayout
    <3>6. TypeOK'
      BY <2>0, <2>t, <3>2, <3>3, <3>5 DEF TypeOK
    <3>7. First(moved)'
      <4> SUFFICES ASSUME frames = <<>>
                   PROVE  /\ moved[1] = 1 - (idx + k)
                          /\ \A i \in idx + k + 1 .. Size : b[i] = Nul
                          /\ idx + k < Len(requests[1])
                          /\ \A i \in 1 .. idx + k : b[i] = Cells(1, requests[1])[i]
        BY <3>2 DEF First
      <4>1. PICK size : size = Len(requests[1])
        OBVIOUS
      <4>2. /\ requests # <<>> /\ \A i \in idx + k + 1 .. Size : b[i] = Nul
            /\ idx + k < size => \A i \in 1 .. idx + k : b[i] = Cells(1, requests[1])[i]
            /\ ~(idx + k >= size)
        BY <2>0, <2>s, <3>1, <3>2, <4>1, FirstPiece
      <4>3. size \in Nat
        BY <1>0, <2>t, <4>1, <4>2
      <4>4. idx + k < size
        BY <2>t, <3>3, <4>2, <4>3
      <4>5. moved[1] = start[1] - k /\ start[1] = 1 - idx
        BY <2>s, <2>t, <3>4 DEF First
      <4>6. moved[1] = 1 - (idx + k)
        BY <2>t, <3>3, <4>5
      <4>7. QED
        BY <4>1, <4>2, <4>4, <4>6
    <3>8. Later(moved)'
      <4> SUFFICES ASSUME frames # <<>>, ~ragged, ~Ragged(k) PROVE FALSE
        BY <3>2 DEF Later
      <4>1. PICK m : m = Len(frames) + 1
        OBVIOUS
      <4>2. Ends(b) # {}
        BY <2>0, <2>s, <3>1, <3>2, <4>1, LaterPiece
      <4>3. QED
        BY <3>2, <4>2
    <3>9. Framed'
      BY <2>0, <3>2 DEF Framed
    <3>10. NothingDropped'
      <4> SUFFICES ASSUME ~ragged
                   PROVE  Total(requests) - (Len(wire) - k) = Total(frames) + (idx + k)
        BY <3>2, <3>5, <3>e DEF NothingDropped
      <4>1. Total(requests) \in Nat /\ Total(frames) \in Nat
        BY <1>0, <2>t, TotalIsNat
      <4>2. Total(requests) - Len(wire) = Total(frames) + idx
        BY <2>0, <3>e DEF NothingDropped
      <4>3. k \in Nat /\ idx \in Nat
        BY <2>t, <3>3
      <4>4. PICK sent, got, left :
              sent = Total(requests) /\ got = Total(frames) /\ left = Len(wire)
        OBVIOUS
      <4>5. sent \in Nat /\ got \in Nat /\ left \in Nat
        BY <2>t, <4>1, <4>4
      <4>6. sent - left = got + idx
        BY <4>2, <4>4
      <4>7. sent - (left - k) = got + (idx + k)
        BY <4>3, <4>5, <4>6, Balance
      <4>8. QED
        BY <4>4, <4>7
    <3>11. QED
      BY <3>5, <3>6, <3>7, <3>8, <3>9, <3>10 DEF ReceiveInv
  <2>3. ASSUME NEW k \in 1 .. Size, Process(k) PROVE ReceiveInv'
    <3>1. PICK b : b = Filled(SubSeq(wire, 1, k))
      OBVIOUS
    <3>a. PICK end, piece : end = FirstOf(Ends(b)) /\ piece = SubSeq(b, 1, end)
      OBVIOUS
    <3>2. /\ Receive(k) /\ Ends(b) # {} /\ AfterRequest
          /\ frames' = Append(frames, piece)
          /\ \E last \in LastLines(b, end) : buf' = Parsed(b, last)
          /\ ragged' = (ragged \/ Ragged(k)) /\ UNCHANGED requests
      BY <2>3, <3>1, <3>a DEF Process, Receive
    <3>e. /\ open' \in BOOLEAN /\ idx' \in {0, idx} /\ idx' < Size
          /\ open' => idx' = 0
      <4>1. idx < Size /\ Size \in Nat
        BY <2>0, <3>1, <3>2, FilledIs
      <4>2. (idx' = 0 /\ open' \in BOOLEAN) \/ (idx' = idx /\ open' = FALSE)
        BY <3>2 DEF AfterRequest
      <4>3. CASE idx' = 0 /\ open' \in BOOLEAN
        BY <4>1, <4>3, SizeAssumption
      <4>4. CASE idx' = idx /\ open' = FALSE
        BY <4>1, <4>4
      <4>5. QED
        BY <4>2, <4>3, <4>4
    <3>3. b \in [1 .. Size -> Cell] /\ k \in Nat /\ idx + k <= Size
      BY <2>0, <3>1, <3>2, FilledIs
    <3>b. PICK last \in LastLines(b, end) : buf' = Parsed(b, last)
      BY <3>2
    <3>c. /\ buf' \in [1 .. Size -> Cell] /\ piece \in Seq(Cell) /\ Len(piece) = end
          /\ end \in Nat
      <4>1. end \in 4 .. Size
        BY <3>2, <3>3, <3>a, FirstOfIs
      <4>2. /\ Parsed(b, last) \in [1 .. Size -> Cell]
            /\ piece \in Seq(Cell) /\ Len(piece) = end
        BY <2>0, <3>2, <3>3, <3>a, <3>b, ProcessType
      <4>3. QED
        BY <3>b, <4>1, <4>2
    <3>d. /\ frames' \in Seq(Seq(Cell)) /\ Len(frames') = Len(frames) + 1
          /\ frames'[Len(frames) + 1] = piece
          /\ \A n \in 1 .. Len(frames) : frames'[n] = frames[n]
      BY <2>t, <3>2, <3>c
    <3>4. PICK moved : moved = [n \in 1 .. Len(requests) + 1 |-> start[n] - k]
      OBVIOUS
    <3>5. Layout(moved)' /\ wire' \in Seq(Cell) /\ Len(wire') = Len(wire) - k
      BY <2>0, <2>s, <3>2, <3>4, ReceiveLayout
    <3>6. TypeOK'
      <4>1. ragged' \in BOOLEAN /\ idx' \in 0 .. Size /\ open' \in BOOLEAN
        BY <2>t, <3>2, <3>e
      <4>2. QED
        BY <2>0, <3>2, <3>5, <3>c, <3>d, <4>1 DEF TypeOK
    (* What was processed, if it is held to have been a request.           *)
    <3>7. PICK m : m = Len(frames) + 1
      OBVIOUS
    <3>8. ASSUME m = 1
          PROVE  /\ m \in 1 .. Len(requests) /\ piece = Cells(m, requests[m])
                 /\ ~Ragged(k) => idx + k = end /\ start[m + 1] = k + 1
      <4>1. frames = <<>>
        BY <2>t, <3>7, <3>8
      <4>2. PICK size : size = Len(requests[1])
        OBVIOUS
      <4>3. /\ requests # <<>>
            /\ idx + k < size => Ends(b) = {}
            /\ idx + k >= size =>
                 /\ end = size /\ SubSeq(b, 1, size) = Cells(1, requests[1])
                 /\ ~Ragged(k) => start[2] = k + 1 /\ idx + k = size
        BY <2>0, <2>s, <3>1, <3>2, <3>a, <4>1, <4>2, FirstPiece
      <4>4. size \in Nat
        BY <1>0, <2>t, <4>2, <4>3
      <4>5. idx + k >= size
        BY <2>t, <3>2, <3>3, <4>3, <4>4
      <4>6. 1 \in 1 .. Len(requests)
        BY <2>t, <4>3
      <4>7. QED
        BY <3>8, <3>a, <4>3, <4>5, <4>6
    <3>9. ASSUME m # 1, ~ragged, ~Ragged(k)
          PROVE  /\ m \in 1 .. Len(requests) /\ piece = Cells(m, requests[m])
                 /\ idx + k = end /\ start[m + 1] = k + 1
      <4>1. frames # <<>>
        BY <2>t, <3>7, <3>9
      <4>2. /\ idx = 0 /\ m \in 1 .. Len(requests) /\ start[m + 1] = k + 1
            /\ FirstOf(Ends(b)) = k /\ SubSeq(b, 1, k) = Cells(m, requests[m])
        BY <2>0, <2>s, <3>1, <3>2, <3>7, <3>9, <4>1, LaterPiece
      <4>3. QED
        BY <3>3, <3>a, <4>2
    <3>10. ASSUME ~ragged, ~Ragged(k) PROVE idx + k = end /\ start[m + 1] = k + 1
      BY <3>8, <3>9, <3>10
    <3>11. First(moved)'
      <4>1. frames' # <<>>
        BY <2>t, <3>d
      <4>2. QED
        BY <4>1 DEF First
    <3>12. Later(moved)'
      <4> SUFFICES ASSUME ~ragged, ~Ragged(k)
                   PROVE  Len(frames') <= Len(requests) /\ moved[Len(frames') + 1] = 1
        BY <3>2, <3>e DEF Later
      <4>1. m \in 1 .. Len(requests) /\ start[m + 1] = k + 1
        BY <3>8, <3>9
      <4>2. m + 1 \in 1 .. Len(requests) + 1 /\ Len(frames') = m
        BY <2>t, <3>7, <3>d, <4>1
      <4>3. moved[m + 1] = start[m + 1] - k
        BY <3>4, <4>2
      <4>4. QED
        BY <3>3, <4>1, <4>2, <4>3
    <3>13. Framed'
      <4>0. requests' = requests /\ (~ragged' <=> ~ragged /\ ~Ragged(k))
        BY <3>2
      <4> SUFFICES ASSUME NEW n \in 1 .. Len(frames'), n = 1 \/ (~ragged /\ ~Ragged(k))
                   PROVE  n <= Len(requests) /\ frames'[n] = Cells(n, requests[n])
        BY <4>0 DEF Framed
      <4>1. CASE n \in 1 .. Len(frames)
        BY <2>0, <3>d, <4>1 DEF Framed
      <4>2. CASE n = m
        BY <2>t, <3>7, <3>8, <3>9, <3>d, <4>2
      <4>3. n \in 1 .. Len(frames) \/ n = m
        BY <2>t, <3>7, <3>d
      <4>4. QED
        BY <4>1, <4>2, <4>3
    <3>14. NothingDropped'
      <4> SUFFICES ASSUME ~ragged, ~Ragged(k)
                   PROVE  Total(requests) - (Len(wire) - k) = Total(frames') + 0
        <5>1. (IF Ended' THEN 0 ELSE idx') = 0
          BY <3>e DEF Ended
        <5>2. QED
          BY <3>2, <3>5, <5>1 DEF NothingDropped
      <4>1. /\ Total(requests) \in Nat /\ Total(frames) \in Nat
            /\ Total(frames') = Total(frames) + end
        BY <1>0, <2>t, <3>2, <3>c, TotalIsNat, TotalAppend
      <4>2. Total(requests) - Len(wire) = Total(frames) + idx /\ idx + k = end
        <5>1. ~Ended
          BY <3>2 DEF Receive, Ended
        <5>2. QED
          BY <2>0, <3>10, <5>1 DEF NothingDropped
      <4>3. k \in Nat /\ idx \in Nat /\ end \in Nat
        BY <2>t, <3>3, <3>c
      <4>4. PICK sent, got, left :
              sent = Total(requests) /\ got = Total(frames) /\ left = Len(wire)
        OBVIOUS
      <4>5. sent \in Nat /\ got \in Nat /\ left \in Nat
        BY <2>t, <4>1, <4>4
      <4>6. sent - left = got + idx
        BY <4>2, <4>4
      <4>7. sent - (left - k) = got + (idx + k)
        BY <4>3, <4>5, <4>6, Balance
      <4>8. Total(requests) - (Len(wire) - k) = Total(frames) + (idx + k)
        BY <4>4, <4>7
      <4>9. Total(requests) - (Len(wire) - k) = Total(frames')
        BY <4>1, <4>2, <4>8, Zenon
      <4>10. Total(frames') \in Nat
        BY <4>1, <4>3
      <4>11. QED
        BY <4>9, <4>10
    <3>15. QED
      BY <3>5, <3>6, <3>11, <3>12, <3>13, <3>14 DEF ReceiveInv
  <2>4. CASE Full
    <3>1. open' = FALSE /\ UNCHANGED <<buf, idx, wire, requests, frames, ragged>>
      BY <2>4 DEF Full
    <3>2. open /\ idx = Size
      BY <2>4 DEF Full
    <3>3. TypeOK' /\ Framed' /\ Layout(start)' /\ First(start)' /\ Later(start)'
      BY <2>0, <2>s, <3>1 DEF TypeOK, Framed, Layout, First, Later
    <3>4. ~Ended /\ ~Ended'
      BY <3>1, <3>2 DEF Ended
    <3>5. NothingDropped'
      BY <2>0, <3>1, <3>4 DEF NothingDropped
    <3>6. QED
      BY <3>3, <3>5 DEF ReceiveInv
  <2>5. CASE UNCHANGED vars
    BY <2>0, <2>s, <2>5 DEF vars, ReceiveInv, TypeOK, Framed, NothingDropped, Ended, Layout, First, Later
  <2>6. QED
    BY <2>1, <2>2, <2>3, <2>4, <2>5 DEF Next
<1>3. QED
  BY <1>1, <1>2, PTL DEF Spec

-----------------------------------------------------------------------------
(* The buffer, its index and the histories keep their types: recv is never *)
(* given room beyond the buffer, nor the parser a cell that is not in it.  *)
THEOREM TypeCorrect == Spec => []TypeOK
<1>1. ReceiveInv => TypeOK
  BY DEF ReceiveInv
<1>2. QED
  BY <1>1, Invariance, PTL

(* The first request is handed to the parser as it was sent, cut up in any *)
(* way; later ones are if each comes by itself and whole, whatever the     *)
(* parser left of the earlier ones in the buffer.                          *)
THEOREM RequestsAreFramed == Spec => []Framed
<1>1. ReceiveInv => Framed
  BY DEF ReceiveInv
<1>2. QED
  BY <1>1, Invariance, PTL

(* Of such requests every character is in transit, in the buffer or in a   *)
(* request that was processed: idx = 0 after a request throws none away,   *)
(* nor does leaving the loop after a TEARDOWN or KILL.                     *)
THEOREM NothingIsLost == Spec => []NothingDropped
<1>1. ReceiveInv => NothingDropped
  BY DEF ReceiveInv
<1>2. QED
  BY <1>1, Invariance, PTL
=============================================================================
