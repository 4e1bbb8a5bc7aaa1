------------------------ MODULE TopologyEditor_proofs ------------------------
(***************************************************************************)
(* Proofs about the controller's running topology, whatever the user does  *)
(* in the editor and whatever desktops report, for any nodes, desktops and *)
(* coordinates: crossings are reversible, and exactly the armed edges lead *)
(* somewhere.                                                              *)
(***************************************************************************)
EXTENDS TopologyEditor, FiniteSetTheorems, TLAPS

Screens == Placements(Nodes)

-----------------------------------------------------------------------------
(* Rectangles and edges.                                                   *)

LEMMA EdgeFacts ==
  ASSUME NEW edge \in Edge
  PROVE  /\ Opposite(edge) \in Edge /\ Opposite(Opposite(edge)) = edge
         /\ Opposite(edge) \in Sideways <=> edge \in Sideways
BY DEF Edge, Sideways, Opposite

LEMMA RectFacts ==
  ASSUME NEW rect \in Rects, NEW edge \in Edge
  PROVE  /\ Line(rect, edge) \in Int /\ Start(rect, edge) \in Int
         /\ Length(rect, edge) \in Int /\ Length(rect, edge) > 0
         /\ End(rect, edge) = Start(rect, edge) + Length(rect, edge) /\ End(rect, edge) \in Int
         /\ Start(rect, Opposite(edge)) = Start(rect, edge)
         /\ Length(rect, Opposite(edge)) = Length(rect, edge)
         /\ End(rect, Opposite(edge)) = End(rect, edge)
<1>1. /\ rect.x \in Int /\ rect.y \in Int /\ rect.width \in Int /\ rect.height \in Int
      /\ rect.width > 0 /\ rect.height > 0
  BY DEF Rects, Positive
<1>2. Line(rect, edge) \in Int
  BY <1>1 DEF Line, Edge, RightOf, BottomOf
<1> QED
  BY <1>1, <1>2, EdgeFacts DEF Start, Length, End

(* Two rectangles on the same side of a line overlap where both are.       *)
LEMMA SameSide ==
  ASSUME NEW rect \in Rects, NEW other \in Rects, NEW edge \in Edge, NEW axis \in Int,
         Line(rect, edge) = Line(other, edge),
         Start(rect, edge) <= axis, axis < Start(rect, edge) + Length(rect, edge),
         Start(other, edge) <= axis, axis < Start(other, edge) + Length(other, edge)
  PROVE  Overlaps(rect, other) /\ Overlaps(other, rect)
<1>1. /\ rect.x \in Int /\ rect.y \in Int /\ rect.width \in Int /\ rect.height \in Int
      /\ rect.width > 0 /\ rect.height > 0
      /\ other.x \in Int /\ other.y \in Int /\ other.width \in Int /\ other.height \in Int
      /\ other.width > 0 /\ other.height > 0
  BY DEF Rects, Positive
<1>2. CASE edge = "Left"
  BY <1>1, <1>2 DEF Line, Start, Length, Sideways, Overlaps, RightOf, BottomOf
<1>3. CASE edge = "Right"
  BY <1>1, <1>3 DEF Line, Start, Length, Sideways, Overlaps, RightOf, BottomOf
<1>4. CASE edge = "Top"
  BY <1>1, <1>4 DEF Line, Start, Length, Sideways, Overlaps, RightOf, BottomOf
<1>5. CASE edge = "Bottom"
  BY <1>1, <1>5 DEF Line, Start, Length, Sideways, Overlaps, RightOf, BottomOf
<1> QED
  BY <1>2, <1>3, <1>4, <1>5 DEF Edge

LEMMA ScreenFacts ==
  ASSUME NEW screen \in Screens
  PROVE  /\ Bounds(screen) \in Rects /\ Extent(screen.layout) \in Rects
         /\ screen.node \in Nodes /\ screen.layout \in Desktops
         /\ screen.layout.monitors \in Seq(Rects)
         /\ \A edge \in Edge : Length(Bounds(screen), edge) = Length(Extent(screen.layout), edge)
<1>1. /\ screen.x \in Int /\ screen.y \in Int /\ screen.layout \in Desktops
      /\ screen.node \in Nodes
  BY DEF Screens, Placements
<1>2. /\ screen.layout.width \in Positive /\ screen.layout.height \in Positive
      /\ screen.layout.monitors \in Seq(Rects)
  BY <1>1 DEF Desktops
<1> QED
  BY <1>1, <1>2 DEF Bounds, Extent, Rect, Rects, Length

-----------------------------------------------------------------------------
(* What is found first.                                                    *)

(* A nonempty set of numbers has a least one.                              *)
LEMMA LeastNumber ==
  ASSUME NEW T, T \subseteq Nat, T # {}
  PROVE  \E x \in T : \A y \in T : x <= y
<1> DEFINE Below(n) == 1 .. n
           R == StrictSubsetOrdering(Nat)
           Finite == FiniteSubsetsOf(Nat)
           TT == {Below(n) : n \in T}
<1>1. IsWellFoundedOn(R, Finite)
  BY FS_StrictSubsetOrderingWellFounded
<1>2. TT \subseteq Finite /\ TT # {}
  <2>1. \A n \in Nat : IsFiniteSet(1 .. n) /\ 1 .. n \subseteq Nat
    BY FS_Interval
  <2> QED
    BY <2>1 DEF FiniteSubsetsOf
<1>3. \E x \in TT : \A y \in TT : ~ (<<y, x>> \in R)
  <2> HIDE DEF R, Finite, TT
  <2> QED
    BY <1>1, <1>2, WFMin
<1>4. PICK m \in T : \A n \in T : <<Below(n), Below(m)>> \notin R
  BY <1>3
<1>5. ASSUME NEW n \in T, n < m PROVE FALSE
  <2>1. /\ Below(n) \subseteq Below(m) /\ Below(n) \subseteq Nat /\ Below(m) \subseteq Nat
        /\ m \in Below(m) /\ m \notin Below(n)
    BY <1>5
  <2>2. <<Below(n), Below(m)>> \in R
    <3> HIDE DEF Below
    <3> QED
      BY <2>1 DEF StrictSubsetOrdering
  <2> QED
    BY <1>4, <2>2
<1> QED
  BY <1>5

LEMMA FirstFound ==
  ASSUME NEW T, NEW seq \in Seq(T), NEW found, found \subseteq DOMAIN seq, found # {}
  PROVE  \E k \in found : FirstOf(seq, found) = <<seq[k]>>
<1>1. found \subseteq Nat
  OBVIOUS
<1>2. PICK k \in found : \A j \in found : k <= j
  BY <1>1, LeastNumber
<1> DEFINE first == CHOOSE i \in found : \A j \in found : i <= j
<1>3. first \in found
  BY <1>2
<1>4. FirstOf(seq, found) = <<seq[first]>>
  BY DEF FirstOf
<1> QED
  BY <1>3, <1>4

LEMMA PlacedScreen ==
  ASSUME NEW t \in Seq(Screens), ValidTopology(t), NEW i \in DOMAIN t
  PROVE  ScreenOf(t, t[i].node) = <<t[i]>>
<1> DEFINE found == {j \in DOMAIN t : t[j].node = t[i].node}
<1>1. found = {i}
  BY DEF ValidTopology
<1>2. PICK k \in found : FirstOf(t, found) = <<t[k]>>
  <2> HIDE DEF found
  <2> QED
    BY <1>1, FirstFound
<1> QED
  BY <1>1, <1>2 DEF ScreenOf

-----------------------------------------------------------------------------
(* Crossing an edge.                                                       *)

LEMMA EntersFacts ==
  ASSUME NEW source \in Screens, NEW candidate \in Screens, NEW edge \in Edge, NEW offset \in Int
  PROVE  /\ OffsetOn(source, candidate, edge, offset) \in Int
         /\ OffsetOn(source, candidate, edge, offset) =
              Start(Bounds(source), edge) + offset - Start(Bounds(candidate), edge)
<1>1. Start(Bounds(source), edge) \in Int /\ Start(Bounds(candidate), edge) \in Int
  BY ScreenFacts, RectFacts
<1> QED
  BY <1>1 DEF OffsetOn

(* Only one screen is entered at a pixel of an edge.                       *)
LEMMA OneIsEntered ==
  ASSUME NEW t \in Seq(Screens), ValidTopology(t), NEW source \in Screens, NEW edge \in Edge,
         NEW offset \in Int, NEW i \in DOMAIN t, NEW j \in DOMAIN t,
         Enters(source, t[i], edge, offset), Enters(source, t[j], edge, offset)
  PROVE  i = j
<1> DEFINE axis == Start(Bounds(source), edge) + offset
           back == Opposite(edge)
<1>1. t[i] \in Screens /\ t[j] \in Screens /\ back \in Edge /\ DOMAIN t \subseteq Int
  BY EdgeFacts
<1>2. axis \in Int
  BY ScreenFacts, RectFacts
<1>3. ASSUME NEW k \in {i, j}
      PROVE  /\ Bounds(t[k]) \in Rects
             /\ Line(Bounds(t[k]), back) = Line(Bounds(source), edge)
             /\ Start(Bounds(t[k]), back) <= axis
             /\ axis < Start(Bounds(t[k]), back) + Length(Bounds(t[k]), back)
  <2>1. /\ t[k] \in Screens /\ Bounds(t[k]) \in Rects /\ Enters(source, t[k], edge, offset)
        /\ Bounds(source) \in Rects
    BY <1>1, ScreenFacts
  <2> DEFINE along == OffsetOn(source, t[k], edge, offset)
  <2>2. /\ Line(Bounds(source), edge) = Line(Bounds(t[k]), back)
        /\ 0 <= along /\ along < Length(Bounds(t[k]), edge)
    BY <2>1 DEF Enters, Touches
  <2>3. /\ Start(Bounds(t[k]), edge) \in Int /\ Length(Bounds(t[k]), edge) \in Int
        /\ Start(Bounds(t[k]), back) = Start(Bounds(t[k]), edge)
        /\ Length(Bounds(t[k]), back) = Length(Bounds(t[k]), edge)
        /\ Start(Bounds(source), edge) \in Int
    BY <2>1, RectFacts
  <2>4. along = axis - Start(Bounds(t[k]), edge)
    BY <2>3 DEF OffsetOn
  <2> HIDE DEF along, axis, back
  <2> QED
    BY <1>2, <2>1, <2>2, <2>3, <2>4
<1>4. Overlaps(Bounds(t[i]), Bounds(t[j])) /\ Overlaps(Bounds(t[j]), Bounds(t[i]))
  <2> HIDE DEF axis, back
  <2> QED
    BY <1>1, <1>2, <1>3, SameSide
<1>5. ~(i < j) /\ ~(j < i)
  BY <1>4 DEF ValidTopology
<1> QED
  BY <1>1, <1>5

(* Where a pixel of both desktops' edges is met, the pointer crosses.      *)
LEMMA CrossingTo ==
  ASSUME NEW t \in Seq(Screens), ValidTopology(t), NEW edge \in Edge, NEW offset \in Int,
         NEW i \in DOMAIN t, NEW j \in DOMAIN t,
         ContainsEdgeOffset(t[i].layout, edge, offset), Enters(t[i], t[j], edge, offset)
  PROVE  Transition(t, t[i].node, edge, offset) =
           [target |-> <<t[j].node>>,
            position |-> EntryPosition(t[j].layout, edge, OffsetOn(t[i], t[j], edge, offset))]
<1> DEFINE entered == {k \in DOMAIN t : Enters(t[i], t[k], edge, offset)}
<1>1. ScreenOf(t, t[i].node) = <<t[i]>> /\ t[i] \in Screens
  BY PlacedScreen
<1>2. entered = {j}
  BY <1>1, OneIsEntered
<1>3. FirstOf(t, entered) = <<t[j]>>
  <2> HIDE DEF entered
  <2>1. PICK k \in entered : FirstOf(t, entered) = <<t[k]>>
    BY <1>2, FirstFound
  <2> QED
    BY <1>2, <2>1
<1> QED
  BY <1>1, <1>2, <1>3 DEF Transition, NoScreen

LEMMA CrossingFrom ==
  ASSUME NEW t \in Seq(Screens), ValidTopology(t), NEW edge \in Edge, NEW offset \in Int,
         NEW i \in DOMAIN t, Transition(t, t[i].node, edge, offset).target # NoScreen
  PROVE  /\ ContainsEdgeOffset(t[i].layout, edge, offset)
         /\ \E j \in DOMAIN t : Enters(t[i], t[j], edge, offset)
<1>1. ScreenOf(t, t[i].node) = <<t[i]>>
  BY PlacedScreen
<1>2. NoTransition.target = NoScreen
  BY DEF NoTransition
<1> QED
  BY <1>1, <1>2 DEF Transition

(* Who enters a desktop can leave it where it was entered.                 *)
LEMMA EntersBack ==
  ASSUME NEW source \in Screens, NEW candidate \in Screens, NEW edge \in Edge, NEW offset \in Int,
         0 <= offset, offset < Length(Bounds(source), edge),
         ContainsEdgeOffset(source.layout, edge, offset), Enters(source, candidate, edge, offset)
  PROVE  LET along == OffsetOn(source, candidate, edge, offset) IN
         /\ along \in Int
         /\ ContainsEdgeOffset(candidate.layout, Opposite(edge), along)
         /\ Enters(candidate, source, Opposite(edge), along)
         /\ OffsetOn(candidate, source, Opposite(edge), along) = offset
<1> DEFINE along == OffsetOn(source, candidate, edge, offset)
           back == Opposite(edge)
<1>1. /\ back \in Edge /\ Opposite(back) = edge /\ along \in Int
      /\ along = Start(Bounds(source), edge) + offset - Start(Bounds(candidate), edge)
  BY EdgeFacts, EntersFacts
<1>2. /\ Start(Bounds(source), edge) \in Int /\ Start(Bounds(candidate), edge) \in Int
      /\ Start(Bounds(source), back) = Start(Bounds(source), edge)
      /\ Start(Bounds(candidate), back) = Start(Bounds(candidate), edge)
      /\ Length(Bounds(source), back) = Length(Bounds(source), edge)
  BY ScreenFacts, RectFacts
<1>3. OffsetOn(candidate, source, back, along) = offset
  <2>1. OffsetOn(candidate, source, back, along) =
          Start(Bounds(candidate), back) + along - Start(Bounds(source), back)
    BY <1>1, EntersFacts
  <2> HIDE DEF along, back
  <2> QED
    BY <1>1, <1>2, <2>1
<1>4. /\ candidate.node # source.node /\ Line(Bounds(source), edge) = Line(Bounds(candidate), back)
      /\ ContainsEdgeOffset(candidate.layout, back, along)
  BY DEF Enters, Touches
<1>5. Enters(candidate, source, back, along)
  <2> HIDE DEF along, back
  <2> QED
    BY <1>1, <1>2, <1>3, <1>4 DEF Enters, Touches
<1> QED
  BY <1>1, <1>3, <1>4, <1>5

(* Crossing and returning leads back to where the pointer was.             *)
LEMMA CrossingBack ==
  ASSUME NEW t \in Seq(Screens), ValidTopology(t), NEW i \in DOMAIN t, NEW edge \in Edge,
         NEW offset \in 0..(Length(Bounds(t[i]), edge) - 1),
         Transition(t, t[i].node, edge, offset).target # NoScreen
  PROVE  LET there == Transition(t, t[i].node, edge, offset)
             along == IF edge \in Sideways THEN there.position.y ELSE there.position.x
             back == Transition(t, there.target[1], Opposite(edge), along)
         IN  /\ back.target = <<t[i].node>>
             /\ back.position = EntryPosition(t[i].layout, Opposite(edge), offset)
<1>1. /\ t[i] \in Screens /\ Length(Bounds(t[i]), edge) \in Int
      /\ offset \in Int /\ 0 <= offset /\ offset < Length(Bounds(t[i]), edge)
  <2>1. t[i] \in Screens /\ Length(Bounds(t[i]), edge) \in Int
    BY ScreenFacts, RectFacts
  <2> QED
    BY <2>1
<1>2. PICK j \in DOMAIN t : /\ ContainsEdgeOffset(t[i].layout, edge, offset)
                            /\ Enters(t[i], t[j], edge, offset)
  BY <1>1, CrossingFrom
<1> DEFINE there == Transition(t, t[i].node, edge, offset)
           pixel == OffsetOn(t[i], t[j], edge, offset)
           along == IF edge \in Sideways THEN there.position.y ELSE there.position.x
<1>3. /\ there.target = <<t[j].node>>
      /\ there.position = EntryPosition(t[j].layout, edge, pixel)
  <2>1. there = [target |-> <<t[j].node>>, position |-> EntryPosition(t[j].layout, edge, pixel)]
    BY <1>1, <1>2, CrossingTo
  <2> HIDE DEF there, pixel
  <2> QED
    BY <2>1
<1>4. along = pixel
  BY <1>3 DEF EntryPosition, Edge, Sideways
<1>5. /\ t[j] \in Screens /\ pixel \in Int /\ Opposite(edge) \in Edge
      /\ ContainsEdgeOffset(t[j].layout, Opposite(edge), pixel)
      /\ Enters(t[j], t[i], Opposite(edge), pixel)
      /\ OffsetOn(t[j], t[i], Opposite(edge), pixel) = offset
  BY <1>1, <1>2, EntersBack, EdgeFacts
<1>6. Transition(t, t[j].node, Opposite(edge), pixel) =
        [target |-> <<t[i].node>>, position |-> EntryPosition(t[i].layout, Opposite(edge), offset)]
  <2> HIDE DEF pixel
  <2> QED
    BY <1>5, CrossingTo
<1>7. there.target[1] = t[j].node
  BY <1>3
<1> HIDE DEF there, pixel
<1> QED
  BY <1>4, <1>6, <1>7 DEF there

-----------------------------------------------------------------------------
(* Armed edges.                                                            *)

LEMMA LeastPair ==
  ASSUME NEW A, A \subseteq Nat, NEW B, B \subseteq Nat, NEW pairs, pairs \subseteq A \X B,
         pairs # {}
  PROVE  \E pair \in pairs : \A other \in pairs :
           pair[1] < other[1] \/ (pair[1] = other[1] /\ pair[2] <= other[2])
<1> DEFINE Firsts == {pair[1] : pair \in pairs}
<1>1. Firsts \subseteq Nat /\ Firsts # {}
  OBVIOUS
<1>2. PICK a \in Firsts : \A i \in Firsts : a <= i
  <2> HIDE DEF Firsts
  <2> QED
    BY <1>1, LeastNumber
<1> DEFINE Seconds == {pair[2] : pair \in {q \in pairs : q[1] = a}}
<1>3. Seconds \subseteq Nat /\ Seconds # {}
  OBVIOUS
<1>4. PICK b \in Seconds : \A j \in Seconds : b <= j
  <2> HIDE DEF Seconds
  <2> QED
    BY <1>3, LeastNumber
<1>5. PICK pair \in pairs : pair[1] = a /\ pair[2] = b
  BY <1>4
<1>6. ASSUME NEW other \in pairs
      PROVE  pair[1] < other[1] \/ (pair[1] = other[1] /\ pair[2] <= other[2])
  <2>1. other[1] \in Firsts /\ other[1] \in Nat /\ a \in Nat
    BY <1>1
  <2>2. a <= other[1]
    BY <1>2, <2>1
  <2>3. a = other[1] => b <= other[2]
    BY <1>4
  <2> QED
    BY <1>5, <2>1, <2>2, <2>3
<1> QED
  BY <1>6

LEMMA MonitorFacts ==
  ASSUME NEW screen \in Screens, ValidDesktop(screen.layout), NEW edge \in Edge,
         NEW i \in EdgeMonitors(screen.layout, edge)
  PROVE  /\ i \in Nat /\ screen.layout.monitors[i] \in Rects
         /\ 0 <= Start(screen.layout.monitors[i], edge)
         /\ End(screen.layout.monitors[i], edge) <= Length(Bounds(screen), edge)
<1> DEFINE monitor == screen.layout.monitors[i]
<1>1. i \in Nat /\ monitor \in Rects
  BY ScreenFacts DEF EdgeMonitors
<1>2. /\ monitor.x >= 0 /\ monitor.y >= 0
      /\ RightOf(monitor) <= screen.layout.width /\ BottomOf(monitor) <= screen.layout.height
  BY DEF EdgeMonitors, ValidDesktop
<1> QED
  BY <1>1, <1>2 DEF Start, End, Length, Bounds, Rect, RightOf, BottomOf, Rects

LEMMA OnMonitor ==
  ASSUME NEW layout, NEW edge, NEW offset
  PROVE  ContainsEdgeOffset(layout, edge, offset) <=>
           \E i \in EdgeMonitors(layout, edge) :
             /\ Start(layout.monitors[i], edge) <= offset
             /\ offset < End(layout.monitors[i], edge)
BY DEF ContainsEdgeOffset, EdgeMonitors

LEMMA Middle ==
  ASSUME NEW from \in Int, NEW to \in Int, from < to
  PROVE  Midpoint(from, to) \in Int /\ from <= Midpoint(from, to) /\ Midpoint(from, to) < to
<1>1. PICK half \in Int : half = (to - from - 1) \div 2
  OBVIOUS
<1>2. 0 <= half /\ 2 * half <= to - from - 1
  BY <1>1
<1> QED
  BY <1>1, <1>2 DEF Midpoint

(* The shared offset is a pixel of both edges.                             *)
LEMMA SharedPixel ==
  ASSUME NEW source \in Screens, NEW candidate \in Screens, NEW edge \in Edge,
         ValidDesktop(source.layout), ValidDesktop(candidate.layout),
         source.node # candidate.node, SharedEdgeOffset(source, candidate, edge) # <<>>
  PROVE  \E offset \in Int :
           /\ SharedEdgeOffset(source, candidate, edge) = <<offset>>
           /\ ContainsEdgeOffset(source.layout, edge, offset)
           /\ Enters(source, candidate, edge, offset)
<1> DEFINE here == source.layout.monitors
           there == candidate.layout.monitors
           origin == Start(Bounds(source), edge)
           start == Start(Bounds(candidate), edge)
           Near == EdgeMonitors(source.layout, edge)
           Far == EdgeMonitors(candidate.layout, Opposite(edge))
           From(i, j) == Larger(origin + Start(here[i], edge), start + Start(there[j], edge))
           To(i, j) == Smaller(origin + End(here[i], edge), start + End(there[j], edge))
           pairs == {pair \in Near \X Far : From(pair[1], pair[2]) < To(pair[1], pair[2])}
           Earlier(pair, other) ==
             pair[1] < other[1] \/ (pair[1] = other[1] /\ pair[2] <= other[2])
           first == CHOOSE pair \in pairs : \A other \in pairs : Earlier(pair, other)
<1>1. Touches(source, candidate, edge) /\ pairs # {}
  BY DEF SharedEdgeOffset
<1>2. SharedEdgeOffset(source, candidate, edge) =
        <<Midpoint(From(first[1], first[2]), To(first[1], first[2])) - origin>>
  BY <1>1 DEF SharedEdgeOffset
<1>3. Near \subseteq Nat /\ Far \subseteq Nat
  BY ScreenFacts DEF EdgeMonitors
<1>4. first \in pairs
  <2>1. \E pair \in pairs : \A other \in pairs : Earlier(pair, other)
    <3>1. pairs \subseteq Near \X Far
      OBVIOUS
    <3> HIDE DEF pairs, Near, Far
    <3> QED
      BY <1>1, <1>3, <3>1, LeastPair, ZenonT(60)
  <2> HIDE DEF pairs, Earlier
  <2> QED
    BY <2>1
<1>5. PICK i \in Near, j \in Far : first[1] = i /\ first[2] = j /\ From(i, j) < To(i, j)
  <2> HIDE DEF first, Near, Far
  <2> QED
    BY <1>4
<1>6. /\ origin \in Int /\ start \in Int
      /\ Start(here[i], edge) \in Int /\ End(here[i], edge) \in Int
      /\ Start(there[j], edge) \in Int /\ End(there[j], edge) \in Int
      /\ Start(there[j], Opposite(edge)) = Start(there[j], edge)
      /\ End(there[j], Opposite(edge)) = End(there[j], edge)
      /\ 0 <= Start(there[j], edge) /\ End(there[j], edge) <= Length(Bounds(candidate), edge)
      /\ Length(Bounds(candidate), edge) \in Int
  <2>1. /\ here[i] \in Rects /\ there[j] \in Rects
        /\ 0 <= Start(there[j], Opposite(edge))
        /\ End(there[j], Opposite(edge)) <= Length(Bounds(candidate), Opposite(edge))
    BY EdgeFacts, MonitorFacts
  <2>2. /\ Start(there[j], Opposite(edge)) = Start(there[j], edge)
        /\ End(there[j], Opposite(edge)) = End(there[j], edge)
        /\ Length(Bounds(candidate), Opposite(edge)) = Length(Bounds(candidate), edge)
        /\ Length(Bounds(candidate), edge) \in Int
    BY <2>1, ScreenFacts, RectFacts, EdgeFacts
  <2>3. /\ origin \in Int /\ start \in Int
        /\ Start(here[i], edge) \in Int /\ End(here[i], edge) \in Int
        /\ Start(there[j], edge) \in Int /\ End(there[j], edge) \in Int
    BY <2>1, ScreenFacts, RectFacts
  <2> QED
    BY <2>1, <2>2, <2>3
<1>7. PICK from \in Int, to \in Int : /\ from = From(i, j) /\ to = To(i, j) /\ from < to
                                      /\ origin + Start(here[i], edge) <= from
                                      /\ start + Start(there[j], edge) <= from
                                      /\ to <= origin + End(here[i], edge)
                                      /\ to <= start + End(there[j], edge)
  <2> HIDE DEF here, there, origin, start
  <2> QED
    BY <1>5, <1>6, SMTT(60) DEF Larger, Smaller
<1>8. PICK offset \in Int : /\ offset = Midpoint(from, to) - origin
                            /\ from <= origin + offset /\ origin + offset < to
  <2> HIDE DEF origin
  <2>1. /\ Midpoint(from, to) \in Int /\ from <= Midpoint(from, to) /\ Midpoint(from, to) < to
    BY <1>7, Middle
  <2>2. PICK middle \in Int : middle = Midpoint(from, to) /\ from <= middle /\ middle < to
    BY <2>1
  <2>3. /\ middle - origin \in Int /\ from <= origin + (middle - origin)
        /\ origin + (middle - origin) < to
    BY <1>6, <2>2
  <2> QED
    BY <2>2, <2>3
<1>9. SharedEdgeOffset(source, candidate, edge) = <<offset>>
  <2> HIDE DEF first, From, To, origin
  <2> QED
    BY <1>2, <1>5, <1>7, <1>8
<1>10. ContainsEdgeOffset(source.layout, edge, offset)
  <2>1. Start(here[i], edge) <= offset /\ offset < End(here[i], edge)
    <3> HIDE DEF here, origin
    <3> QED
      BY <1>6, <1>7, <1>8
  <2> QED
    BY <2>1, OnMonitor
<1>11. Enters(source, candidate, edge, offset)
  <2> DEFINE along == OffsetOn(source, candidate, edge, offset)
  <2>1. along = origin + offset - start /\ along \in Int
    BY EntersFacts
  <2>2. /\ Start(there[j], edge) <= along /\ along < End(there[j], edge)
    <3> HIDE DEF there, origin, start, along
    <3> QED
      BY <1>6, <1>7, <1>8, <2>1
  <2>3. 0 <= along /\ along < Length(Bounds(candidate), edge)
    <3> HIDE DEF there, along
    <3> QED
      BY <1>6, <2>1, <2>2
  <2>4. ContainsEdgeOffset(candidate.layout, Opposite(edge), along)
    <3>1. /\ Start(there[j], Opposite(edge)) <= along
          /\ along < End(there[j], Opposite(edge))
      BY <1>6, <2>2
    <3> HIDE DEF along
    <3> QED
      BY <3>1, OnMonitor
  <2> QED
    BY <1>1, <2>3, <2>4 DEF Enters
<1> QED
  BY <1>9, <1>10, <1>11

(* Where the pointer crosses to a neighbour there is a shared offset.      *)
LEMMA SharedSomewhere ==
  ASSUME NEW source \in Screens, NEW candidate \in Screens, NEW edge \in Edge,
         ValidDesktop(source.layout), ValidDesktop(candidate.layout), NEW offset \in Int,
         ContainsEdgeOffset(source.layout, edge, offset), Enters(source, candidate, edge, offset)
  PROVE  SharedEdgeOffset(source, candidate, edge) # <<>>
<1> DEFINE here == source.layout.monitors
           there == candidate.layout.monitors
           origin == Start(Bounds(source), edge)
           start == Start(Bounds(candidate), edge)
           Near == EdgeMonitors(source.layout, edge)
           Far == EdgeMonitors(candidate.layout, Opposite(edge))
           along == OffsetOn(source, candidate, edge, offset)
           From(i, j) == Larger(origin + Start(here[i], edge), start + Start(there[j], edge))
           To(i, j) == Smaller(origin + End(here[i], edge), start + End(there[j], edge))
           pairs == {pair \in Near \X Far : From(pair[1], pair[2]) < To(pair[1], pair[2])}
<1>1. Touches(source, candidate, edge) /\ along = origin + offset - start /\ along \in Int
  BY EntersFacts DEF Enters
<1>2. PICK i \in Near : Start(here[i], edge) <= offset /\ offset < End(here[i], edge)
  BY OnMonitor
<1>3. PICK j \in Far : /\ Start(there[j], Opposite(edge)) <= along
                       /\ along < End(there[j], Opposite(edge))
  BY OnMonitor DEF Enters
<1>4. /\ origin \in Int /\ start \in Int
      /\ Start(here[i], edge) \in Int /\ End(here[i], edge) \in Int
      /\ Start(there[j], edge) \in Int /\ End(there[j], edge) \in Int
      /\ Start(there[j], Opposite(edge)) = Start(there[j], edge)
      /\ End(there[j], Opposite(edge)) = End(there[j], edge)
  <2>1. here[i] \in Rects /\ there[j] \in Rects
    BY EdgeFacts, MonitorFacts
  <2>2. /\ Start(there[j], Opposite(edge)) = Start(there[j], edge)
        /\ End(there[j], Opposite(edge)) = End(there[j], edge)
    BY <2>1, RectFacts, EdgeFacts
  <2>3. /\ origin \in Int /\ start \in Int
        /\ Start(here[i], edge) \in Int /\ End(here[i], edge) \in Int
        /\ Start(there[j], edge) \in Int /\ End(there[j], edge) \in Int
    BY <2>1, ScreenFacts, RectFacts
  <2> QED
    BY <2>2, <2>3
<1>5. From(i, j) <= origin + offset /\ origin + offset < To(i, j)
  <2> HIDE DEF here, there, origin, start, along
  <2> QED
    BY <1>1, <1>2, <1>3, <1>4 DEF Larger, Smaller
<1>6. From(i, j) \in Int /\ To(i, j) \in Int /\ origin + offset \in Int
  <2> HIDE DEF here, there, origin, start
  <2> QED
    BY <1>4 DEF Larger, Smaller
<1>7. From(i, j) < To(i, j)
  <2> HIDE DEF From, To, origin
  <2> QED
    BY <1>5, <1>6
<1>8. <<i, j>> \in pairs
  <2> HIDE DEF From, To, Near, Far
  <2> QED
    BY <1>7
<1>9. pairs # {}
  <2> HIDE DEF pairs
  <2> QED
    BY <1>8
<1> QED
  BY <1>1, <1>9 DEF SharedEdgeOffset

(* Exactly the armed edges of the controller's desktop lead somewhere.     *)
LEMMA ArmedLead ==
  ASSUME NEW t \in Seq(Screens), ValidTopology(t), NEW home \in DOMAIN t, t[home].node = Local,
         NEW edge \in Edge
  PROVE  /\ EdgeTarget(t, Local, edge) = <<>> =>
              /\ \A offset \in Int : Transition(t, Local, edge, offset).target = NoScreen
              /\ \A percent \in 0..100 : PositionTarget(t, Local, edge, percent) = <<>>
         /\ EdgeTarget(t, Local, edge) # <<>> =>
              Transition(t, Local, edge, EdgeTarget(t, Local, edge)[1].offset).target
                = <<EdgeTarget(t, Local, edge)[1].node>>
<1> DEFINE source == t[home]
           met == {i \in DOMAIN t : /\ t[i].node # Local
                                    /\ SharedEdgeOffset(source, t[i], edge) # <<>>}
           target == EdgeTarget(t, Local, edge)
<1>1. /\ ScreenOf(t, Local) = <<source>> /\ source \in Screens
      /\ \A i \in DOMAIN t : t[i] \in Screens /\ ValidDesktop(t[i].layout)
  BY PlacedScreen DEF ValidTopology
<1>2. target = IF met = {} THEN <<>>
               ELSE <<[node |-> FirstOf(t, met)[1].node,
                       offset |-> SharedEdgeOffset(source, FirstOf(t, met)[1], edge)[1]]>>
  BY <1>1 DEF EdgeTarget, NoScreen
<1>3. ASSUME target = <<>>, NEW offset \in Int
      PROVE  Transition(t, Local, edge, offset).target = NoScreen
  <2> SUFFICES ASSUME Transition(t, Local, edge, offset).target # NoScreen PROVE FALSE
    OBVIOUS
  <2>1. PICK i \in DOMAIN t : /\ ContainsEdgeOffset(source.layout, edge, offset)
                              /\ Enters(source, t[i], edge, offset)
    BY CrossingFrom
  <2>2. SharedEdgeOffset(source, t[i], edge) # <<>> /\ t[i].node # Local
    BY <1>1, <2>1, SharedSomewhere DEF Enters
  <2>3. met # {}
    BY <2>2
  <2> HIDE DEF met, target
  <2> QED
    BY <1>2, <1>3, <2>3
<1>4. ASSUME target = <<>>, NEW percent \in 0..100
      PROVE  PositionTarget(t, Local, edge, percent) = <<>>
  <2> DEFINE offset == OffsetAt(Bounds(source), edge, percent)
  <2>1. offset \in Int
    <3>1. Length(Bounds(source), edge) \in Int
      BY <1>1, ScreenFacts, RectFacts
    <3> QED
      BY <3>1 DEF OffsetAt
  <2>2. Transition(t, Local, edge, offset).target = NoScreen
    <3> HIDE DEF offset, target
    <3> QED
      BY <1>3, <1>4, <2>1
  <2> QED
    BY <1>1, <2>2 DEF PositionTarget
<1>5. ASSUME target # <<>>
      PROVE  Transition(t, Local, edge, target[1].offset).target = <<target[1].node>>
  <2>1. met # {}
    <3> HIDE DEF met, target
    <3> QED
      BY <1>2, <1>5
  <2>2. PICK i \in met : FirstOf(t, met) = <<t[i]>>
    <3>1. met \subseteq DOMAIN t
      OBVIOUS
    <3> HIDE DEF met
    <3> QED
      BY <2>1, <3>1, FirstFound
  <2>3. PICK offset \in Int : /\ SharedEdgeOffset(source, t[i], edge) = <<offset>>
                              /\ ContainsEdgeOffset(source.layout, edge, offset)
                              /\ Enters(source, t[i], edge, offset)
    BY <1>1, SharedPixel
  <2>4. target = <<[node |-> t[i].node, offset |-> offset]>>
    <3> HIDE DEF met, target
    <3> QED
      BY <1>2, <2>1, <2>2, <2>3
  <2>5. Transition(t, Local, edge, offset).target = <<t[i].node>>
    <3>1. i \in DOMAIN t
      OBVIOUS
    <3>2. Transition(t, source.node, edge, offset) =
            [target |-> <<t[i].node>>,
             position |-> EntryPosition(t[i].layout, edge, OffsetOn(source, t[i], edge, offset))]
      BY <2>3, <3>1, CrossingTo
    <3> QED
      BY <3>2
  <2>6. target[1].node = t[i].node /\ target[1].offset = offset
    <3> HIDE DEF target
    <3> QED
      BY <2>4
  <2> HIDE DEF target
  <2> QED
    BY <2>5, <2>6
<1> QED
  BY <1>3, <1>4, <1>5

-----------------------------------------------------------------------------
(* The arrangements there can be.                                          *)

HasLocal(list) == \E i \in DOMAIN list : list[i].node = Local

Arrangements == {t \in Seq(Screens) : ValidTopology(t) /\ HasLocal(t)}

Edited ==
  [node : Nodes, x : Int, y : Int, width : Positive, height : Positive, layout : Desktops]

Reports ==
  [kind : {"LocalDesktopChanged"}, layout : Desktops]
    \cup [kind : {"DisplayChanged"}, screen : Screens]

(* The editor always has the local screen, and what runs or is to run is a *)
(* topology that was found valid, with the local screen.                   *)
EditorInv ==
  /\ screens \in Seq(Edited) /\ HasLocal(screens)
  /\ selected \in DOMAIN screens /\ drag_origin \in {0} \cup DOMAIN screens

RuntimeInv ==
  /\ desktop \in Desktops /\ local_desktop \in Desktops
  /\ running \in Arrangements \cup {<<>>}
  /\ commands \in Seq(Arrangements) /\ events \in Seq(Reports)

TopologyInv == EditorInv /\ RuntimeInv

LEMMA AtType ==
  ASSUME NEW screen \in Edited, NEW x \in Int, NEW y \in Int
  PROVE  At(screen, x, y) \in Edited /\ At(screen, x, y).node = screen.node
<1>1. \A value \in Int : Saturated(value) \in Int
  BY CoordinateAssumption DEF Saturated
<1> QED
  BY <1>1 DEF At, Edited

LEMMA FromPlacementType ==
  ASSUME NEW screen \in Screens
  PROVE  FromPlacement(screen) \in Edited /\ FromPlacement(screen).node = screen.node
<1>1. screen.layout.width \in Positive /\ screen.layout.height \in Positive
  BY DEF Screens, Placements, Desktops
<1> QED
  BY <1>1 DEF FromPlacement, Screen, Edited, Screens, Placements

LEMMA BuiltType ==
  ASSUME NEW screen \in Edited
  PROVE  Built(screen) \in Screens /\ Built(screen).node = screen.node
<1>1. Single(screen.width, screen.height) \in Desktops
  BY DEF Edited, Single, Desktop, Rect, Rects, Desktops, Positive
<1> QED
  BY <1>1 DEF Built, Placement, Screens, Placements, Edited

LEMMA BuildArranged ==
  ASSUME NEW list \in Seq(Edited), HasLocal(list), ValidTopology(Build(list))
  PROVE  Build(list) \in Arrangements
<1>1. \A i \in DOMAIN list : Built(list[i]) \in Screens /\ Built(list[i]).node = list[i].node
  BY BuiltType
<1>2. Build(list) \in Seq(Screens)
  BY <1>1 DEF Build
<1>3. HasLocal(Build(list))
  BY <1>1 DEF Build, HasLocal
<1> QED
  BY <1>2, <1>3 DEF Arrangements

LEMMA GeometryType == ASSUME NEW screen \in Edited PROVE Geometry(screen) \in Rects
BY DEF Geometry, Rect, Rects, Edited

(* A set of numbers up to N has a greatest one.                            *)
LEMMA GreatestNumber ==
  ASSUME NEW N \in Nat, NEW T, T \subseteq 1 .. N, T # {}
  PROVE  \E x \in T : \A y \in T : y <= x
<1> DEFINE Rest == {N - x : x \in T}
<1>1. Rest \subseteq Nat /\ Rest # {}
  <2>1. \A x \in 1 .. N : N - x \in Nat
    OBVIOUS
  <2> QED
    BY <2>1
<1>2. PICK least \in Rest : \A i \in Rest : least <= i
  <2> HIDE DEF Rest
  <2> QED
    BY <1>1, LeastNumber
<1>3. PICK x \in T : least = N - x
  BY <1>2
<1>4. ASSUME NEW y \in T PROVE y <= x
  <2>1. N - x <= N - y
    BY <1>2, <1>3
  <2>2. x \in Int /\ y \in Int
    OBVIOUS
  <2> QED
    BY <2>1, <2>2
<1> QED
  BY <1>4

LEMMA OriginType ==
  ASSUME NEW rect \in Rects, NEW size \in Int, NEW N \in Nat, NEW I, I \subseteq 1 .. N,
         NEW neighbours \in [I -> Rects], NEW low \in {"Left", "Top"}
  PROVE  AttachedOrigin(rect, size, neighbours, low) \in Int
<1> DEFINE high == Opposite(low)
           Below(i) == Line(rect, low) = Line(neighbours[i], high)
           Above(i) == Line(rect, high) = Line(neighbours[i], low)
           attached == {i \in DOMAIN neighbours : Below(i) \/ Above(i)}
           last == CHOOSE i \in attached : \A j \in attached : j <= i
<1>1. low \in Edge /\ high \in Edge
  BY EdgeFacts DEF Edge
<1>2. Line(rect, low) \in Int /\ Line(rect, high) \in Int
  BY <1>1, RectFacts
<1>3. \A value \in Int : Half(value) \in Int
  BY DEF Half
<1>4. attached # {} => Line(neighbours[last], low) \in Int
  <2> SUFFICES ASSUME attached # {} PROVE Line(neighbours[last], low) \in Int
    OBVIOUS
  <2>1. attached \subseteq 1 .. N /\ attached \subseteq I
    OBVIOUS
  <2>2. last \in attached
    <3> HIDE DEF attached
    <3>1. \E i \in attached : \A j \in attached : j <= i
      BY <2>1, GreatestNumber
    <3> QED
      BY <3>1
  <2>3. neighbours[last] \in Rects
    <3> HIDE DEF attached, last
    <3> QED
      BY <2>1, <2>2
  <2> HIDE DEF last
  <2> QED
    BY <1>1, <2>3, RectFacts
<1> HIDE DEF last, high
<1>5. /\ Line(rect, high) - Line(rect, low) - size \in Int
      /\ attached # {} => Line(neighbours[last], low) - size \in Int
  BY <1>2, <1>4
<1>6. Line(rect, low) + Half(Line(rect, high) - Line(rect, low) - size) \in Int
  BY <1>2, <1>3, <1>5
<1> QED
  BY <1>2, <1>5, <1>6 DEF AttachedOrigin, last, high

LEMMA ResizedOriginType ==
  ASSUME NEW rect \in Rects, NEW width \in Int, NEW height \in Int, NEW N \in Nat, NEW I,
         I \subseteq 1 .. N, NEW neighbours \in [I -> Rects]
  PROVE  /\ ResizedOrigin(rect, width, height, neighbours).x \in Int
         /\ ResizedOrigin(rect, width, height, neighbours).y \in Int
BY OriginType DEF ResizedOrigin

LEMMA ResizeArranged ==
  ASSUME NEW t \in Arrangements, NEW node \in Nodes, NEW layout \in Desktops
  PROVE  ResizeScreen(t, node, layout) \in Arrangements \cup {<<>>}
<1> DEFINE index == IndexOf(t, node)
           neighbours == [i \in DOMAIN t \ {index} |-> Bounds(t[i])]
           origin == ResizedOrigin(Bounds(t[index]), layout.width, layout.height, neighbours)
           resized == [t EXCEPT ![index] = Placement(node, origin.x, origin.y, layout)]
<1> SUFFICES ASSUME ScreenOf(t, node) # NoScreen, ValidTopology(resized)
             PROVE  resized \in Arrangements
  BY DEF ResizeScreen
<1>1. t \in Seq(Screens) /\ HasLocal(t) /\ Len(t) \in Nat /\ DOMAIN t = 1 .. Len(t)
  BY DEF Arrangements
<1>2. index \in DOMAIN t /\ t[index].node = node
  <2>1. \E i \in DOMAIN t : t[i].node = node
    BY DEF ScreenOf, FirstOf
  <2> QED
    BY <2>1 DEF IndexOf
<1> HIDE DEF index
<1>3. origin.x \in Int /\ origin.y \in Int
  <2>1. /\ neighbours \in [DOMAIN t \ {index} -> Rects]
        /\ DOMAIN t \ {index} \subseteq 1 .. Len(t) /\ Bounds(t[index]) \in Rects
    BY <1>1, <1>2, ScreenFacts
  <2>2. layout.width \in Int /\ layout.height \in Int
    BY DEF Desktops, Positive
  <2> HIDE DEF neighbours
  <2> QED
    BY <1>1, <2>1, <2>2, ResizedOriginType
<1>4. Placement(node, origin.x, origin.y, layout) \in Screens
  BY <1>3 DEF Placement, Screens, Placements
<1> HIDE DEF origin
<1>5. resized \in Seq(Screens)
  BY <1>1, <1>2, <1>4
<1>6. HasLocal(resized)
  BY <1>1, <1>2 DEF HasLocal, Placement
<1> QED
  BY <1>5, <1>6 DEF Arrangements

-----------------------------------------------------------------------------
(* The steps.                                                              *)

LEMMA Joined ==
  ASSUME NEW T, NEW p \in Seq(T), NEW q \in Seq(T)
  PROVE  /\ p \o q \in Seq(T) /\ Len(p \o q) = Len(p) + Len(q)
         /\ DOMAIN (p \o q) = 1 .. Len(p) + Len(q)
         /\ \A j \in 1 .. Len(p) + Len(q) :
              (p \o q)[j] = IF j <= Len(p) THEN p[j] ELSE q[j - Len(p)]
OBVIOUS

LEMMA WithoutType ==
  ASSUME NEW T, NEW list \in Seq(T), NEW i \in DOMAIN list
  PROVE  /\ Without(list, i) \in Seq(T) /\ Len(list) \in Nat
         /\ Len(Without(list, i)) = Len(list) - 1
         /\ \A j \in DOMAIN list \ {i} : \E k \in DOMAIN Without(list, i) :
              Without(list, i)[k] = list[j]
<1> DEFINE before == SubSeq(list, 1, i - 1)
           after == SubSeq(list, i + 1, Len(list))
           rest == Without(list, i)
<1>1. /\ Len(list) \in Nat /\ i \in Nat /\ 1 <= i /\ i <= Len(list)
      /\ DOMAIN list = 1 .. Len(list)
  OBVIOUS
<1>2. /\ before \in Seq(T) /\ Len(before) = i - 1
      /\ \A j \in 1 .. i - 1 : before[j] = list[j]
  BY <1>1
<1>3. /\ after \in Seq(T) /\ Len(after) = Len(list) - i
      /\ \A j \in 1 .. Len(list) - i : after[j] = list[i + j]
  BY <1>1
<1> HIDE DEF before, after
<1>4. rest = before \o after
  BY DEF Without, RemoveAt, before, after
<1>5. /\ rest \in Seq(T) /\ Len(rest) = Len(list) - 1 /\ DOMAIN rest = 1 .. Len(list) - 1
      /\ \A j \in 1 .. Len(list) - 1 :
           rest[j] = IF j <= i - 1 THEN before[j] ELSE after[j - (i - 1)]
  <2>1. /\ rest \in Seq(T) /\ Len(rest) = Len(before) + Len(after)
        /\ \A j \in 1 .. Len(before) + Len(after) :
             rest[j] = IF j <= Len(before) THEN before[j] ELSE after[j - Len(before)]
    <3>1. /\ before \o after \in Seq(T) /\ Len(before \o after) = Len(before) + Len(after)
          /\ \A j \in 1 .. Len(before) + Len(after) :
               (before \o after)[j] = IF j <= Len(before) THEN before[j] ELSE after[j - Len(before)]
      BY <1>2, <1>3, Joined
    <3> HIDE DEF rest
    <3> QED
      BY <1>4, <3>1, Zenon
  <2>2. (i - 1) + (Len(list) - i) = Len(list) - 1
    BY <1>1
  <2>3. /\ Len(rest) = Len(list) - 1
        /\ \A j \in 1 .. Len(list) - 1 :
             rest[j] = IF j <= i - 1 THEN before[j] ELSE after[j - (i - 1)]
    <3> HIDE DEF rest
    <3> QED
      BY <1>2, <1>3, <2>1, <2>2, Zenon
  <2>4. DOMAIN rest = 1 .. Len(rest)
    <3> HIDE DEF rest
    <3> QED
      BY <2>1
  <2> HIDE DEF rest
  <2> QED
    BY <2>1, <2>3, <2>4
<1> HIDE DEF rest
<1>6. ASSUME NEW j \in DOMAIN list \ {i} PROVE \E k \in DOMAIN rest : rest[k] = list[j]
  <2>1. j \in Nat /\ 1 <= j /\ j <= Len(list) /\ j # i
    BY <1>1
  <2>2. CASE j < i
    <3>1. j \in 1 .. Len(list) - 1 /\ j <= i - 1 /\ j \in 1 .. i - 1
      BY <1>1, <2>1, <2>2
    <3> QED
      BY <1>2, <1>5, <3>1
  <2>3. CASE j > i
    <3>1. /\ j - 1 \in 1 .. Len(list) - 1 /\ ~(j - 1 <= i - 1)
          /\ (j - 1) - (i - 1) = j - i /\ j - i \in 1 .. Len(list) - i /\ i + (j - i) = j
      BY <1>1, <2>1, <2>3
    <3> QED
      BY <1>3, <1>5, <3>1
  <2> QED
    BY <1>1, <2>1, <2>2, <2>3
<1> QED
  BY <1>1, <1>5, <1>6 DEF rest

(* A screen of the editor is replaced by one of the same node.             *)
LEMMA EditorKept ==
  ASSUME EditorInv, NEW i \in DOMAIN screens, NEW new \in Edited, new.node = screens[i].node,
         screens' = [screens EXCEPT ![i] = new], selected' \in DOMAIN screens,
         drag_origin' \in {0} \cup DOMAIN screens
  PROVE  EditorInv'
<1>1. screens' \in Seq(Edited) /\ DOMAIN screens' = DOMAIN screens
  BY DEF EditorInv
<1>2. HasLocal(screens)'
  BY <1>1 DEF EditorInv, HasLocal
<1> QED
  BY <1>1, <1>2 DEF EditorInv

LEMMA EditorUntouched ==
  ASSUME EditorInv, UNCHANGED screens, selected' \in DOMAIN screens,
         drag_origin' \in {0} \cup DOMAIN screens
  PROVE  EditorInv'
BY DEF EditorInv, HasLocal

LEMMA AddScreenType == ASSUME EditorInv, AddScreen PROVE EditorInv'
<1>1. PICK node \in Nodes, layout \in Layouts :
        screens' = Append(screens,
          At(FromPlacement(Placement(node, 0, 0, layout)),
             RightOf(Geometry(screens[selected])),
             screens[selected].y + Half(screens[selected].height - layout.height)))
  BY DEF AddScreen
<1> DEFINE new == At(FromPlacement(Placement(node, 0, 0, layout)),
                     RightOf(Geometry(screens[selected])),
                     screens[selected].y + Half(screens[selected].height - layout.height))
<1>2. new \in Edited
  <2>1. screens[selected] \in Edited /\ layout \in Desktops
    BY EditorAssumption DEF EditorInv
  <2>2. FromPlacement(Placement(node, 0, 0, layout)) \in Edited
    <3>1. Placement(node, 0, 0, layout) \in Screens
      BY <2>1 DEF Placement, Screens, Placements
    <3> QED
      BY <3>1, FromPlacementType
  <2>3. RightOf(Geometry(screens[selected])) \in Int
    BY <2>1, GeometryType DEF RightOf, Rects, Positive
  <2>4. screens[selected].y + Half(screens[selected].height - layout.height) \in Int
    <3>1. screens[selected].height - layout.height \in Int /\ screens[selected].y \in Int
      BY <2>1 DEF Edited, Desktops, Positive
    <3>2. \A value \in Int : Half(value) \in Int
      BY DEF Half
    <3> QED
      BY <3>1, <3>2
  <2> QED
    BY <2>2, <2>3, <2>4, AtType
<1>3. /\ screens' = Append(screens, new) /\ selected' = Len(screens) + 1
      /\ drag_origin' = drag_origin
  BY <1>1 DEF AddScreen
<1> HIDE DEF new
<1>4. /\ screens' \in Seq(Edited) /\ DOMAIN screens' = 1 .. Len(screens) + 1
      /\ Len(screens) \in Nat /\ DOMAIN screens = 1 .. Len(screens)
      /\ \A i \in DOMAIN screens : screens'[i] = screens[i]
  BY <1>2, <1>3 DEF EditorInv
<1>5. DOMAIN screens \subseteq DOMAIN screens' /\ selected' \in DOMAIN screens'
  BY <1>3, <1>4
<1>6. HasLocal(screens)'
  BY <1>4, <1>5 DEF EditorInv, HasLocal
<1> QED
  BY <1>3, <1>4, <1>5, <1>6 DEF EditorInv

LEMMA RemoveSelectedType == ASSUME EditorInv, RemoveSelected PROVE EditorInv'
<1>1. /\ screens' = Without(screens, selected) /\ drag_origin' = 0
      /\ selected' = Smaller(selected, Len(screens) - 1)
      /\ screens[selected].node # Local /\ Len(screens) > 1
  BY DEF RemoveSelected, CanRemoveScreen
<1>2. screens \in Seq(Edited) /\ selected \in DOMAIN screens
  BY DEF EditorInv
<1>3. /\ screens' \in Seq(Edited) /\ Len(screens) \in Nat /\ Len(screens') = Len(screens) - 1
      /\ \A j \in DOMAIN screens \ {selected} : \E k \in DOMAIN screens' : screens'[k] = screens[j]
  BY <1>1, <1>2, WithoutType
<1>4. selected' \in DOMAIN screens'
  <2>1. selected \in Nat /\ 1 <= selected /\ selected <= Len(screens)
    BY <1>2
  <2>2. DOMAIN screens' = 1 .. Len(screens) - 1
    BY <1>3
  <2> QED
    BY <1>1, <1>3, <2>1, <2>2 DEF Smaller
<1>5. HasLocal(screens)'
  BY <1>1, <1>3 DEF EditorInv, HasLocal
<1> QED
  BY <1>1, <1>3, <1>4, <1>5 DEF EditorInv

LEMMA EditExtentType == ASSUME EditorInv, EditExtent PROVE EditorInv'
<1>1. PICK layout \in Layouts :
        \/ screens' = [screens EXCEPT ![selected].width = layout.width]
        \/ screens' = [screens EXCEPT ![selected].height = layout.height]
  BY DEF EditExtent
<1>2. /\ layout.width \in Positive /\ layout.height \in Positive
      /\ selected \in DOMAIN screens /\ screens[selected] \in Edited
  BY EditorAssumption DEF EditorInv, Desktops
<1> DEFINE wide == [screens[selected] EXCEPT !.width = layout.width]
           high == [screens[selected] EXCEPT !.height = layout.height]
<1>3. /\ wide \in Edited /\ wide.node = screens[selected].node
      /\ high \in Edited /\ high.node = screens[selected].node
  BY <1>2 DEF Edited
<1>4. PICK new \in {wide, high} : screens' = [screens EXCEPT ![selected] = new]
  BY <1>1
<1>5. selected' = selected /\ drag_origin' = drag_origin
  BY DEF EditExtent
<1> HIDE DEF wide, high
<1> QED
  BY <1>2, <1>3, <1>4, <1>5, EditorKept DEF EditorInv

LEMMA DragType == ASSUME EditorInv, NEW i \in DOMAIN screens, Drag(i) PROVE EditorInv'
<1>1. PICK x \in Int, y \in Int : screens' = [screens EXCEPT ![i] = At(screens[i], x, y)]
  BY EditorAssumption DEF Drag
<1>2. At(screens[i], x, y) \in Edited /\ At(screens[i], x, y).node = screens[i].node
  BY AtType DEF EditorInv
<1>3. selected' = i /\ drag_origin' = i
  BY DEF Drag
<1> QED
  BY <1>1, <1>2, <1>3, EditorKept

LEMMA SnapPlaceType ==
  ASSUME EditorInv, NEW i \in DOMAIN screens, NEW at \in SnapPlaces(i)
  PROVE  at.x \in Int /\ at.y \in Int
<1>1. PICK j \in DOMAIN screens : at \in SnapCandidates(Geometry(screens[i]), Geometry(screens[j]))
  BY DEF SnapPlaces
<1>2. Geometry(screens[i]) \in Rects /\ Geometry(screens[j]) \in Rects
  BY GeometryType DEF EditorInv
<1>3. ASSUME NEW moved \in Rects, NEW other \in Rects, at \in SnapCandidates(moved, other)
      PROVE  at.x \in Int /\ at.y \in Int
  <2>1. /\ moved.x \in Int /\ moved.y \in Int /\ moved.width \in Int /\ moved.height \in Int
        /\ other.x \in Int /\ other.y \in Int /\ other.width \in Int /\ other.height \in Int
    BY DEF Rects, Positive
  <2>2. \A value, low, high \in Int : Bounded(value, low, high) \in Int
    BY DEF Bounded, Smaller, Larger
  <2>3. /\ Bounded(moved.y, other.y - moved.height + 1, BottomOf(other) - 1) \in Int
        /\ Bounded(moved.x, other.x - moved.width + 1, RightOf(other) - 1) \in Int
        /\ RightOf(other) \in Int /\ BottomOf(other) \in Int
        /\ other.x - moved.width \in Int /\ other.y - moved.height \in Int
    <3>1. /\ other.y - moved.height + 1 \in Int /\ BottomOf(other) - 1 \in Int
          /\ other.x - moved.width + 1 \in Int /\ RightOf(other) - 1 \in Int
          /\ RightOf(other) \in Int /\ BottomOf(other) \in Int
          /\ other.x - moved.width \in Int /\ other.y - moved.height \in Int
      BY <2>1 DEF RightOf, BottomOf
    <3> QED
      BY <2>1, <2>2, <3>1
  <2> QED
    BY <1>3, <2>3 DEF SnapCandidates
<1> QED
  BY <1>1, <1>2, <1>3

LEMMA DropScreenType == ASSUME EditorInv, DropScreen PROVE EditorInv'
<1>1. /\ drag_origin \in DOMAIN screens /\ drag_origin' = 0 /\ selected' = selected
      /\ \/ UNCHANGED screens
         \/ \E at \in SnapPlaces(drag_origin) :
              screens' = [screens EXCEPT ![drag_origin] = At(screens[drag_origin], at.x, at.y)]
  BY DEF DropScreen, EditorInv
<1>2. CASE UNCHANGED screens
  BY <1>1, <1>2, EditorUntouched DEF EditorInv
<1>3. CASE ~UNCHANGED screens
  <2>1. PICK at \in SnapPlaces(drag_origin) :
          screens' = [screens EXCEPT ![drag_origin] = At(screens[drag_origin], at.x, at.y)]
    BY <1>1, <1>3
  <2> DEFINE new == At(screens[drag_origin], at.x, at.y)
  <2>2. new \in Edited /\ new.node = screens[drag_origin].node
    BY <1>1, SnapPlaceType, AtType DEF EditorInv
  <2>3. screens' = [screens EXCEPT ![drag_origin] = new]
    BY <2>1
  <2> HIDE DEF new
  <2> QED
    BY <1>1, <2>2, <2>3, EditorKept DEF EditorInv
<1> QED
  BY <1>2, <1>3

LEMMA AlignScreenType ==
  ASSUME EditorInv, NEW alignment \in Alignments, AlignScreen(alignment)
  PROVE  EditorInv'
<1> DEFINE own == Geometry(screens[selected])
           near == {j \in DOMAIN screens \ {selected} : SharesEdge(own, Geometry(screens[j]))}
           neighbour == CHOOSE j \in near : \A other \in near : j <= other
           other == Geometry(screens[neighbour])
<1>1. /\ near # {} /\ selected' = selected /\ drag_origin' = drag_origin
      /\ screens \in Seq(Edited) /\ selected \in DOMAIN screens
  BY DEF AlignScreen, EditorInv
<1>2. neighbour \in near
  <2>1. near \subseteq Nat
    BY <1>1
  <2> HIDE DEF near
  <2>2. \E j \in near : \A k \in near : j <= k
    BY <1>1, <2>1, LeastNumber
  <2> QED
    BY <2>2
<1>3. screens[selected] \in Edited /\ own \in Rects /\ other \in Rects
  <2>1. neighbour \in DOMAIN screens
    <3> HIDE DEF neighbour
    <3> QED
      BY <1>2
  <2> HIDE DEF neighbour
  <2> QED
    BY <1>1, <2>1, GeometryType
<1>4. \A start, length, size \in Int : AlignCoordinate(start, length, size, alignment) \in Int
  BY DEF AlignCoordinate, Alignments, Half
<1>5. /\ own.x \in Int /\ own.y \in Int
      /\ AlignCoordinate(other.y, other.height, own.height, alignment) \in Int
      /\ AlignCoordinate(other.x, other.width, own.width, alignment) \in Int
  <2> HIDE DEF own, other
  <2>1. /\ own.x \in Int /\ own.y \in Int /\ own.width \in Int /\ own.height \in Int
        /\ other.x \in Int /\ other.y \in Int /\ other.width \in Int /\ other.height \in Int
    BY <1>3 DEF Rects, Positive
  <2> QED
    BY <1>4, <2>1
<1>6. PICK x \in Int, y \in Int :
        screens' = [screens EXCEPT ![selected] = At(screens[selected], x, y)]
  BY <1>5 DEF AlignScreen
<1>7. /\ At(screens[selected], x, y) \in Edited
      /\ At(screens[selected], x, y).node = screens[selected].node
  BY <1>3, AtType
<1> QED
  BY <1>1, <1>6, <1>7, EditorKept DEF EditorInv

LEMMA SetLocalType ==
  ASSUME EditorInv, NEW layout \in Desktops, SetLocalDesktop(layout), UNCHANGED drag_origin
  PROVE  EditorInv'
<1> DEFINE i == LocalIndex
           others == [j \in DOMAIN screens \ {i} |-> Geometry(screens[j])]
           origin == ResizedOrigin(Geometry(screens[i]), layout.width, layout.height, others)
           new == [At(screens[i], origin.x, origin.y)
                     EXCEPT !.width = layout.width, !.height = layout.height]
           resized == [screens EXCEPT ![i] = new]
           dx == screens[i].x - resized[i].x
           dy == screens[i].y - resized[i].y
           moved == [j \in DOMAIN resized |-> At(resized[j], resized[j].x + dx, resized[j].y + dy)]
<1>1. /\ screens' = [moved EXCEPT ![i].layout = layout] /\ selected' = i
      /\ drag_origin' = drag_origin
  BY DEF SetLocalDesktop, ResizeInEditor
<1>2. /\ screens \in Seq(Edited) /\ Len(screens) \in Nat /\ DOMAIN screens = 1 .. Len(screens)
      /\ drag_origin \in {0} \cup DOMAIN screens
      /\ layout.width \in Positive /\ layout.height \in Positive
  BY DEF EditorInv, Desktops
<1>3. i \in DOMAIN screens /\ screens[i].node = Local /\ screens[i] \in Edited
  <2>1. i \in DOMAIN screens /\ screens[i].node = Local
    BY DEF LocalIndex, EditorInv, HasLocal
  <2> QED
    BY <1>2, <2>1
<1> HIDE DEF i
<1>4. origin.x \in Int /\ origin.y \in Int
  <2>1. /\ others \in [DOMAIN screens \ {i} -> Rects] /\ Geometry(screens[i]) \in Rects
        /\ DOMAIN screens \ {i} \subseteq 1 .. Len(screens)
    BY <1>2, <1>3, GeometryType
  <2>2. layout.width \in Int /\ layout.height \in Int
    BY <1>2 DEF Positive
  <2> HIDE DEF others
  <2> QED
    BY <1>2, <2>1, <2>2, ResizedOriginType
<1> HIDE DEF origin
<1>5. new \in Edited /\ new.node = Local
  <2>1. /\ At(screens[i], origin.x, origin.y) \in Edited
        /\ At(screens[i], origin.x, origin.y).node = Local
    BY <1>3, <1>4, AtType
  <2> QED
    BY <1>2, <2>1 DEF Edited
<1> HIDE DEF new
<1>6. resized \in Seq(Edited) /\ DOMAIN resized = DOMAIN screens /\ resized[i].node = Local
  BY <1>2, <1>3, <1>5
<1> HIDE DEF resized
<1>7. dx \in Int /\ dy \in Int
  <2>1. resized[i] \in Edited
    BY <1>3, <1>6
  <2>2. screens[i].x \in Int /\ screens[i].y \in Int
    BY <1>3 DEF Edited
  <2>3. resized[i].x \in Int /\ resized[i].y \in Int
    BY <2>1 DEF Edited
  <2> QED
    BY <2>2, <2>3
<1> HIDE DEF dx, dy
<1>8. ASSUME NEW j \in DOMAIN resized
      PROVE  /\ At(resized[j], resized[j].x + dx, resized[j].y + dy) \in Edited
             /\ At(resized[j], resized[j].x + dx, resized[j].y + dy).node = resized[j].node
  <2>1. resized[j] \in Edited
    BY <1>6
  <2>2. resized[j].x + dx \in Int /\ resized[j].y + dy \in Int
    BY <1>7, <2>1 DEF Edited
  <2> QED
    BY <2>1, <2>2, AtType
<1>9. /\ moved \in Seq(Edited) /\ DOMAIN moved = DOMAIN screens /\ moved[i].node = Local
      /\ moved[i] \in Edited
  <2>1. moved \in [1 .. Len(screens) -> Edited]
    BY <1>2, <1>6, <1>8
  <2>2. moved \in Seq(Edited)
    BY <1>2, <2>1
  <2> QED
    BY <1>2, <1>3, <1>6, <1>8, <2>1, <2>2
<1> HIDE DEF moved
<1>10. screens' = [moved EXCEPT ![i] = [moved[i] EXCEPT !.layout = layout]]
  BY <1>1
<1>11. [moved[i] EXCEPT !.layout = layout] \in Edited
       /\ [moved[i] EXCEPT !.layout = layout].node = Local
  BY <1>9 DEF Edited
<1>12. /\ screens' \in Seq(Edited) /\ DOMAIN screens' = DOMAIN screens /\ screens'[i].node = Local
  BY <1>3, <1>9, <1>10, <1>11
<1>13. HasLocal(screens)'
  BY <1>3, <1>12 DEF HasLocal
<1> QED
  BY <1>1, <1>2, <1>3, <1>12, <1>13 DEF EditorInv

LEMMA TakeDisplayChangedType == ASSUME TopologyInv, TakeDisplayChanged PROVE EditorInv'
<1> DEFINE screen == Head(events).screen
<1>1. EditorInv /\ events \in Seq(Reports) /\ events # <<>> /\ drag_origin' = drag_origin
      /\ Head(events).kind = "DisplayChanged"
  BY DEF TakeDisplayChanged, TopologyInv, RuntimeInv
<1>2. screen \in Screens
  <2>1. Head(events) \in Reports
    BY <1>1
  <2> QED
    BY <1>1, <2>1 DEF Reports
<1>3. \/ UNCHANGED <<screens, selected>>
      \/ \E i \in DOMAIN screens : /\ screens[i].node = screen.node
                                   /\ screens' = [screens EXCEPT ![i] = FromPlacement(screen)]
                                   /\ selected' = i
  BY DEF TakeDisplayChanged
<1> HIDE DEF screen
<1>4. FromPlacement(screen) \in Edited /\ FromPlacement(screen).node = screen.node
  BY <1>2, FromPlacementType
<1>5. drag_origin' \in {0} \cup DOMAIN screens /\ selected \in DOMAIN screens
  BY <1>1 DEF EditorInv
<1>6. CASE UNCHANGED <<screens, selected>>
  BY <1>1, <1>5, <1>6, EditorUntouched
<1>7. ASSUME NEW i \in DOMAIN screens, screens[i].node = screen.node,
             screens' = [screens EXCEPT ![i] = FromPlacement(screen)], selected' = i
      PROVE  EditorInv'
  BY <1>1, <1>4, <1>5, <1>7, EditorKept
<1> QED
  BY <1>3, <1>6, <1>7

(* The first report that waits.                                            *)
LEMMA ReportTaken ==
  ASSUME RuntimeInv, events # <<>>
  PROVE  /\ Tail(events) \in Seq(Reports)
         /\ Head(events).kind = "LocalDesktopChanged" => Head(events).layout \in Desktops
<1>1. Head(events) \in Reports /\ Tail(events) \in Seq(Reports)
  BY DEF RuntimeInv
<1> QED
  BY <1>1 DEF Reports

LEMMA TopologyInit == ASSUME Init PROVE TopologyInv
<1>1. PICK order \in Orders :
        \E at \in [Remote(order) -> Coordinates \X Coordinates],
           layout \in [DOMAIN order -> Layouts] :
          /\ ValidTopology(Configured(order, at, layout))
          /\ screens = [i \in DOMAIN Configured(order, at, layout) |->
                          FromPlacement(Configured(order, at, layout)[i])]
          /\ running = Configured(order, at, layout)
          /\ desktop = ScreenOf(Configured(order, at, layout), Local)[1].layout
  BY DEF Init
<1>2. PICK at \in [Remote(order) -> Coordinates \X Coordinates],
           layout \in [DOMAIN order -> Layouts] :
        /\ ValidTopology(Configured(order, at, layout))
        /\ screens = [i \in DOMAIN Configured(order, at, layout) |->
                        FromPlacement(Configured(order, at, layout)[i])]
        /\ running = Configured(order, at, layout)
        /\ desktop = ScreenOf(Configured(order, at, layout), Local)[1].layout
  BY <1>1
<1>3. /\ order \in Seq(Nodes) /\ Len(order) \in Nat /\ DOMAIN order = 1 .. Len(order)
      /\ \E i \in DOMAIN order : order[i] = Local
  BY EditorAssumption
<1> DEFINE remote == Remote(order)
           topology == Configured(order, at, layout)
<1>4. topology = [i \in DOMAIN order |->
                    IF i \in remote THEN Placement(order[i], at[i][1], at[i][2], layout[i])
                    ELSE Placement(Local, 0, 0, layout[i])]
  BY DEF Configured
<1>5. /\ ValidTopology(topology)
      /\ screens = [i \in DOMAIN topology |-> FromPlacement(topology[i])]
      /\ running = topology /\ desktop = ScreenOf(topology, Local)[1].layout
      /\ at \in [remote -> Coordinates \X Coordinates] /\ layout \in [DOMAIN order -> Layouts]
      /\ \A i \in DOMAIN order : i \notin remote => order[i] = Local
  BY <1>2 DEF Remote
<1> HIDE DEF remote, topology
<1>6. ASSUME NEW i \in DOMAIN order PROVE topology[i] \in Screens /\ topology[i].node = order[i]
  <2>1. order[i] \in Nodes /\ layout[i] \in Desktops /\ Local \in Nodes
    BY <1>3, <1>5, EditorAssumption
  <2>2. CASE i \in remote
    <3>1. at[i][1] \in Int /\ at[i][2] \in Int
      BY <1>5, <2>2, EditorAssumption
    <3>2. topology[i] = Placement(order[i], at[i][1], at[i][2], layout[i])
      BY <1>4, <2>2
    <3> QED
      BY <2>1, <3>1, <3>2 DEF Placement, Screens, Placements
  <2>3. CASE i \notin remote
    <3>1. topology[i] = Placement(Local, 0, 0, layout[i]) /\ order[i] = Local
      BY <1>4, <1>5, <2>3
    <3> QED
      BY <2>1, <3>1 DEF Placement, Screens, Placements
  <2> QED
    BY <2>2, <2>3
<1>7. DOMAIN topology = 1 .. Len(order)
  BY <1>3, <1>4
<1>8. topology \in Seq(Screens)
  <2>1. topology = [i \in 1 .. Len(order) |-> topology[i]]
    BY <1>4, <1>7
  <2>2. topology \in [1 .. Len(order) -> Screens]
    BY <1>3, <1>6, <2>1
  <2> QED
    BY <1>3, <2>2
<1>9. HasLocal(topology)
  BY <1>3, <1>6, <1>7 DEF HasLocal
<1>10. topology \in Arrangements
  BY <1>5, <1>8, <1>9 DEF Arrangements
<1>11. desktop \in Desktops
  <2>1. PICK i \in DOMAIN topology : topology[i].node = Local
    BY <1>9 DEF HasLocal
  <2>2. ScreenOf(topology, Local) = <<topology[i]>>
    BY <1>5, <1>8, <2>1, PlacedScreen
  <2> QED
    BY <1>5, <1>8, <2>1, <2>2, ScreenFacts
<1>12. EditorInv
  <2>1. \A i \in DOMAIN topology : /\ FromPlacement(topology[i]) \in Edited
                                   /\ FromPlacement(topology[i]).node = topology[i].node
    BY <1>8, FromPlacementType
  <2>2. screens \in [1 .. Len(order) -> Edited] /\ DOMAIN screens = DOMAIN topology
    BY <1>5, <1>7, <2>1
  <2>3. screens \in Seq(Edited)
    BY <1>3, <2>2
  <2>4. HasLocal(screens)
    BY <1>5, <1>9, <2>1, <2>2 DEF HasLocal
  <2>5. 1 \in DOMAIN screens
    BY <1>3, <1>7, <2>2
  <2> QED
    BY <2>3, <2>4, <2>5 DEF Init, EditorInv
<1>13. RuntimeInv
  BY <1>5, <1>10, <1>11 DEF Init, RuntimeInv
<1> QED
  BY <1>12, <1>13 DEF TopologyInv

LEMMA RuntimeUntouched ==
  ASSUME RuntimeInv, UNCHANGED <<desktop, local_desktop, running, commands, events>>
  PROVE  RuntimeInv'
BY DEF RuntimeInv

LEMMA EditsKeep == ASSUME TopologyInv, Edits, EditorInv' PROVE TopologyInv'
BY RuntimeUntouched DEF TopologyInv, Edits, runtime

LEMMA SaveConfigType == ASSUME TopologyInv, SaveConfig PROVE TopologyInv'
<1>1. Build(screens) \in Arrangements
  BY BuildArranged DEF SaveConfig, TopologyInv, EditorInv
<1>2. EditorInv'
  BY EditorUntouched DEF SaveConfig, editor, TopologyInv, EditorInv
<1>3. RuntimeInv'
  <2> DEFINE built == Build(screens)
  <2>1. /\ built \in Arrangements
        /\ running \in Arrangements \cup {<<>>} /\ commands \in Seq(Arrangements)
        /\ events \in Seq(Reports) /\ desktop \in Desktops /\ local_desktop \in Desktops
        /\ desktop' = desktop /\ local_desktop' = local_desktop
    BY <1>1 DEF SaveConfig, editor, TopologyInv, RuntimeInv
  <2> HIDE DEF built
  <2>2. CASE running # <<>>
    <3>1. commands' = Append(commands, built) /\ running' = running /\ events' = events
      BY <2>2 DEF SaveConfig, built
    <3>2. commands' \in Seq(Arrangements)
      BY <2>1, <3>1
    <3> QED
      BY <2>1, <3>1, <3>2 DEF RuntimeInv
  <2>3. CASE running = <<>>
    <3>1. running' = built /\ commands' = <<>> /\ events' = <<>>
      BY <2>3 DEF SaveConfig, built
    <3>2. commands' \in Seq(Arrangements) /\ events' \in Seq(Reports)
      BY <3>1
    <3> QED
      BY <2>1, <3>1, <3>2 DEF RuntimeInv
  <2> QED
    BY <2>2, <2>3
<1> QED
  BY <1>2, <1>3 DEF TopologyInv

LEMMA LocalDesktopChangesType == ASSUME TopologyInv, LocalDesktopChanges PROVE TopologyInv'
<1>1. PICK layout \in Layouts :
        /\ desktop' = layout /\ running' = ResizeScreen(running, Local, layout)
        /\ events' = IF running' = <<>> THEN events
                     ELSE Append(events, [kind |-> "LocalDesktopChanged", layout |-> layout])
  BY DEF LocalDesktopChanges
<1>2. layout \in Desktops /\ running \in Arrangements /\ Local \in Nodes
  BY EditorAssumption DEF LocalDesktopChanges, TopologyInv, RuntimeInv
<1>3. running' \in Arrangements \cup {<<>>}
  BY <1>1, <1>2, ResizeArranged
<1>4. events' \in Seq(Reports)
  <2>1. [kind |-> "LocalDesktopChanged", layout |-> layout] \in Reports
    BY <1>2 DEF Reports
  <2> QED
    BY <1>1, <2>1 DEF TopologyInv, RuntimeInv
<1>5. commands' \in Seq(Arrangements) /\ local_desktop' \in Desktops
  BY DEF LocalDesktopChanges, TopologyInv, RuntimeInv, editor
<1>6. EditorInv'
  BY EditorUntouched DEF LocalDesktopChanges, editor, TopologyInv, EditorInv
<1> QED
  BY <1>1, <1>2, <1>3, <1>4, <1>5, <1>6 DEF TopologyInv, RuntimeInv

LEMMA AgentReportsDesktopType == ASSUME TopologyInv, AgentReportsDesktop PROVE TopologyInv'
<1>1. PICK node \in Nodes, layout \in Layouts :
        /\ ScreenOf(running, node) # NoScreen
        /\ running' = ResizeScreen(running, node, layout) /\ running' # <<>>
        /\ events' = Append(events, [kind |-> "DisplayChanged",
                                     screen |-> ScreenOf(running', node)[1]])
  BY DEF AgentReportsDesktop
<1>2. layout \in Desktops /\ running \in Arrangements
  <2>1. running # <<>>
    BY <1>1 DEF ScreenOf, FirstOf, NoScreen
  <2> QED
    BY <2>1, EditorAssumption DEF TopologyInv, RuntimeInv
<1>3. running' \in Arrangements
  BY <1>1, <1>2, ResizeArranged
<1> DEFINE found == {i \in DOMAIN running' : running'[i].node = node}
<1>4. ScreenOf(running', node)[1] \in Screens
  <2>1. running' \in Seq(Screens)
    BY <1>3 DEF Arrangements
  <2>2. found # {}
    <3>1. PICK i \in DOMAIN running : running[i].node = node
      BY <1>1 DEF ScreenOf, FirstOf
    <3> DEFINE index == IndexOf(running, node)
    <3>2. index \in DOMAIN running /\ running[index].node = node
      BY <3>1 DEF IndexOf
    <3> HIDE DEF index
    <3>3. \/ running' = running
          \/ \E x, y : running' = [running EXCEPT ![index] = Placement(node, x, y, layout)]
      BY <1>1, <3>2 DEF ResizeScreen, index
    <3>4. index \in DOMAIN running' /\ running'[index].node = node
      BY <3>2, <3>3 DEF Placement
    <3> QED
      BY <3>4
  <2>3. PICK i \in found : FirstOf(running', found) = <<running'[i]>>
    <3>1. found \subseteq DOMAIN running'
      OBVIOUS
    <3> HIDE DEF found
    <3> QED
      BY <2>1, <2>2, <3>1, FirstFound
  <2>4. ScreenOf(running', node) = <<running'[i]>>
    BY <2>3 DEF ScreenOf
  <2> QED
    BY <2>1, <2>4
<1>5. events' \in Seq(Reports)
  <2>1. [kind |-> "DisplayChanged", screen |-> ScreenOf(running', node)[1]] \in Reports
    BY <1>4 DEF Reports
  <2> QED
    BY <1>1, <2>1 DEF TopologyInv, RuntimeInv
<1>6. EditorInv'
  BY EditorUntouched DEF AgentReportsDesktop, editor, TopologyInv, EditorInv
<1>7. UNCHANGED <<desktop, local_desktop, commands>>
  BY DEF AgentReportsDesktop, editor
<1> QED
  BY <1>3, <1>5, <1>6, <1>7 DEF TopologyInv, RuntimeInv

LEMMA TopologyStep == ASSUME TopologyInv, [Next]_editorVars PROVE TopologyInv'
<1>1. CASE UNCHANGED editorVars
  BY <1>1, RuntimeUntouched, EditorUntouched
  DEF editorVars, editor, runtime, TopologyInv, EditorInv
<1>2. EditorInv /\ RuntimeInv
  BY DEF TopologyInv
<1>3. CASE AddScreen
  BY <1>2, <1>3, AddScreenType, EditsKeep DEF AddScreen
<1>4. CASE RemoveSelected
  BY <1>2, <1>4, RemoveSelectedType, EditsKeep DEF RemoveSelected
<1>5. CASE EditExtent
  BY <1>2, <1>5, EditExtentType, EditsKeep DEF EditExtent
<1>6. ASSUME NEW i \in DOMAIN screens, Drag(i) PROVE TopologyInv'
  <2>1. EditorInv'
    BY <1>2, <1>6, DragType
  <2> QED
    BY <1>6, <2>1, EditsKeep DEF Drag
<1>7. CASE DropScreen
  BY <1>2, <1>7, DropScreenType, EditsKeep DEF DropScreen
<1>8. ASSUME NEW alignment \in Alignments, AlignScreen(alignment) PROVE TopologyInv'
  <2>1. EditorInv'
    BY <1>2, <1>8, AlignScreenType
  <2> QED
    BY <1>8, <2>1, EditsKeep DEF AlignScreen
<1>9. CASE TakeReconfigure
  <2>1. /\ running' = Head(commands) /\ commands' = Tail(commands) /\ commands # <<>>
        /\ UNCHANGED <<editor, desktop, events>>
    BY <1>9 DEF TakeReconfigure
  <2>2. Head(commands) \in Arrangements /\ Tail(commands) \in Seq(Arrangements)
    BY <1>2, <2>1 DEF RuntimeInv
  <2>3. RuntimeInv'
    BY <1>2, <2>1, <2>2 DEF RuntimeInv, editor
  <2>4. EditorInv'
    BY <1>2, <2>1, EditorUntouched DEF editor, EditorInv
  <2> QED
    BY <2>3, <2>4 DEF TopologyInv
<1>10. CASE SyncDesktopGeometry
  <2>1. /\ SetLocalDesktop(desktop) /\ local_desktop' = desktop
        /\ UNCHANGED <<drag_origin, desktop, runtime>> /\ desktop \in Desktops
    BY <1>2, <1>10 DEF SyncDesktopGeometry, SetLocalDesktop, RuntimeInv
  <2>2. EditorInv'
    BY <1>2, <2>1, SetLocalType
  <2>3. RuntimeInv'
    BY <1>2, <2>1 DEF RuntimeInv, runtime
  <2> QED
    BY <2>2, <2>3 DEF TopologyInv
<1>11. CASE TakeLocalDesktopChanged
  <2> DEFINE layout == Head(events).layout
  <2>1. /\ SetLocalDesktop(layout) /\ local_desktop' = layout
        /\ events' = Tail(events) /\ UNCHANGED <<drag_origin, desktop, running, commands>>
    BY <1>11 DEF TakeLocalDesktopChanged, SetLocalDesktop
  <2>2. layout \in Desktops /\ Tail(events) \in Seq(Reports)
    BY <1>2, <1>11, ReportTaken DEF TakeLocalDesktopChanged
  <2> HIDE DEF layout
  <2>3. EditorInv'
    BY <1>2, <2>1, <2>2, SetLocalType
  <2>4. RuntimeInv'
    BY <1>2, <2>1, <2>2 DEF RuntimeInv
  <2> QED
    BY <2>3, <2>4 DEF TopologyInv
<1>12. CASE TakeDisplayChanged
  <2>1. EditorInv'
    BY <1>12, TakeDisplayChangedType
  <2>2. /\ events' = Tail(events) /\ events # <<>>
        /\ UNCHANGED <<local_desktop, desktop, running, commands>>
    BY <1>12 DEF TakeDisplayChanged
  <2>3. RuntimeInv'
    BY <1>2, <2>2, ReportTaken DEF RuntimeInv
  <2> QED
    BY <2>1, <2>3 DEF TopologyInv
<1> QED
  BY <1>1, <1>3, <1>4, <1>5, <1>6, <1>7, <1>8, <1>9, <1>10, <1>11, <1>12, SaveConfigType,
     LocalDesktopChangesType, AgentReportsDesktopType
  DEF Next

(* Whatever the user edits, drags, removes, saves, and whatever desktops   *)
(* report: where one desktop's edge leads to another, the other's leads    *)
(* back to the same pixel.                                                 *)
THEOREM PointersComeBack == Spec => []CrossingsAreReversible
<1>1. TopologyInv => CrossingsAreReversible
  <2> SUFFICES ASSUME TopologyInv, NEW i \in DOMAIN running, NEW edge \in Edge,
                      NEW offset \in 0..(Length(Bounds(running[i]), edge) - 1),
                      Transition(running, running[i].node, edge, offset).target # NoScreen
               PROVE  LET there == Transition(running, running[i].node, edge, offset)
                          along == IF edge \in Sideways THEN there.position.y
                                   ELSE there.position.x
                          back == Transition(running, there.target[1], Opposite(edge), along)
                      IN  /\ back.target = <<running[i].node>>
                          /\ back.position =
                               EntryPosition(running[i].layout, Opposite(edge), offset)
    BY DEF CrossingsAreReversible
  <2>1. running \in Seq(Screens) /\ ValidTopology(running)
    BY DEF TopologyInv, RuntimeInv, Arrangements
  <2> QED
    BY <2>1, CrossingBack
<1> QED
  BY <1>1, TopologyInit, TopologyStep, PTL DEF Spec

(* Whatever they do: an edge of the controller's desktop that is not armed *)
(* leads nowhere, at no pixel of it, and where the runtime falls back on   *)
(* without a position the pointer crosses to the node that is meant.       *)
THEOREM ArmedEdgesAreRight == Spec => []ArmedEdgesLeadSomewhere
<1>1. TopologyInv => ArmedEdgesLeadSomewhere
  <2> SUFFICES ASSUME TopologyInv, running # <<>> PROVE ArmedEdgesLeadSomewhere
    BY DEF ArmedEdgesLeadSomewhere
  <2>1. running \in Seq(Screens) /\ ValidTopology(running) /\ HasLocal(running)
    BY DEF TopologyInv, RuntimeInv, Arrangements
  <2>2. PICK home \in DOMAIN running : running[home].node = Local
    BY <2>1 DEF HasLocal
  <2>3. \A edge \in Edge :
          /\ EdgeTarget(running, Local, edge) = <<>> =>
               /\ \A offset \in Int : Transition(running, Local, edge, offset).target = NoScreen
               /\ \A percent \in 0..100 : PositionTarget(running, Local, edge, percent) = <<>>
          /\ EdgeTarget(running, Local, edge) # <<>> =>
               Transition(running, Local, edge, EdgeTarget(running, Local, edge)[1].offset).target
                 = <<EdgeTarget(running, Local, edge)[1].node>>
    BY <2>1, <2>2, ArmedLead
  <2>4. \A edge \in Edge :
          0..(Length(Bounds(ScreenOf(running, Local)[1]), edge) - 1) \subseteq Int
    OBVIOUS
  <2> QED
    BY <2>3, <2>4 DEF ArmedEdgesLeadSomewhere
<1> QED
  BY <1>1, TopologyInit, TopologyStep, PTL DEF Spec

=============================================================================
