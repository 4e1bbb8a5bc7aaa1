------------------------------- MODULE Desktop -------------------------------
(***************************************************************************)
(* Desktops and their arrangement: rectangles, the monitors of a desktop,  *)
(* the topology of desktops and the transitions across their edges         *)
(* (domain/geometry.rs, domain/display.rs, domain/topology.rs), the edges  *)
(* the controller arms and the resizing of a placed desktop                *)
(* (tevir/runtime.rs, tevir/config.rs).                                    *)
(*                                                                         *)
(* Coordinates are i32 in the code and every sum of them i64:              *)
(* CoordinateLimit is 2^31, and nothing else is bounded by a width.        *)
(* Names, scale and rotation of a monitor play no part here.               *)
(***************************************************************************)
EXTENDS Integers, Sequences, FiniteSets

CONSTANT CoordinateLimit

ASSUME CoordinateAssumption == CoordinateLimit \in Nat \ {0}

Edge == {"Left", "Right", "Top", "Bottom"}
Sideways == {"Left", "Right"}

Opposite(edge) ==
  CASE edge = "Left" -> "Right" [] edge = "Right" -> "Left"
    [] edge = "Top" -> "Bottom" [] edge = "Bottom" -> "Top"

(* i32::try_from.                                                          *)
Fits(value) == -CoordinateLimit <= value /\ value < CoordinateLimit

(* i64 division by two, which truncates toward zero.                       *)
Half(value) == IF value >= 0 THEN value \div 2 ELSE -((-value) \div 2)

Larger(a, b) == IF a > b THEN a ELSE b
Smaller(a, b) == IF a < b THEN a ELSE b

-----------------------------------------------------------------------------
(* Rectangles.  One that stands at `Start` on an axis ends before `End`.   *)

Rect(x, y, width, height) == [x |-> x, y |-> y, width |-> width, height |-> height]
Positive == Nat \ {0}
Rects == [x : Int, y : Int, width : Positive, height : Positive]
RightOf(rect) == rect.x + rect.width
BottomOf(rect) == rect.y + rect.height

Overlaps(rect, other) ==
  /\ rect.x < RightOf(other) /\ RightOf(rect) > other.x
  /\ rect.y < BottomOf(other) /\ BottomOf(rect) > other.y

(* An edge of a rectangle: the line it lies on, and its extent along it.   *)
Line(rect, edge) ==
  CASE edge = "Left" -> rect.x [] edge = "Right" -> RightOf(rect)
    [] edge = "Top" -> rect.y [] edge = "Bottom" -> BottomOf(rect)
Start(rect, edge) == IF edge \in Sideways THEN rect.y ELSE rect.x
Length(rect, edge) == IF edge \in Sideways THEN rect.height ELSE rect.width
End(rect, edge) == Start(rect, edge) + Length(rect, edge)

SharesEdge(rect, other) ==
  \E edge \in Edge :
    /\ Line(rect, edge) = Line(other, Opposite(edge))
    /\ Start(rect, edge) < End(other, edge) /\ End(rect, edge) > Start(other, edge)

-----------------------------------------------------------------------------
(* A desktop: its size and the monitors in it, in order.                   *)

Desktop(width, height, monitors) == [width |-> width, height |-> height, monitors |-> monitors]
Single(width, height) == Desktop(width, height, <<Rect(0, 0, width, height)>>)
Desktops == [width : Positive, height : Positive, monitors : Seq(Rects)]
Extent(layout) == Rect(0, 0, layout.width, layout.height)

ReachesEdge(layout, monitor, edge) == Line(monitor, edge) = Line(Extent(layout), edge)

(* DesktopLayout::validate, without the bounds on names and numbers.       *)
ValidDesktop(layout) ==
  /\ layout.monitors # <<>>
  /\ \A i \in DOMAIN layout.monitors :
       LET monitor == layout.monitors[i] IN
       /\ monitor.x >= 0 /\ monitor.y >= 0
       /\ RightOf(monitor) <= layout.width /\ BottomOf(monitor) <= layout.height
  /\ \A edge \in Edge :
       \E i \in DOMAIN layout.monitors : ReachesEdge(layout, layout.monitors[i], edge)

ContainsEdgeOffset(layout, edge, offset) ==
  \E i \in DOMAIN layout.monitors :
    LET monitor == layout.monitors[i] IN
    /\ ReachesEdge(layout, monitor, edge)
    /\ Start(monitor, edge) <= offset /\ offset < End(monitor, edge)

(* The monitors whose extents are the segments of an edge, by their index. *)
EdgeMonitors(layout, edge) ==
  {i \in DOMAIN layout.monitors : ReachesEdge(layout, layout.monitors[i], edge)}

-----------------------------------------------------------------------------
(* Desktops placed in one plane.  The order of a topology's screens is the *)
(* order they were configured in.                                          *)

Placement(node, x, y, layout) == [node |-> node, x |-> x, y |-> y, layout |-> layout]
Bounds(screen) == Rect(screen.x, screen.y, screen.layout.width, screen.layout.height)
Placements(nodes) == [node : nodes, x : Int, y : Int, layout : Desktops]

NoScreen == <<>>

(* The first of the elements found, as a sequence of at most one.          *)
FirstOf(seq, found) ==
  IF found = {} THEN NoScreen ELSE <<seq[CHOOSE i \in found : \A j \in found : i <= j]>>

ScreenOf(topology, node) == FirstOf(topology, {i \in DOMAIN topology : topology[i].node = node})

IndexOf(topology, node) == CHOOSE i \in DOMAIN topology : topology[i].node = node

Touches(screen, other, edge) ==
  Line(Bounds(screen), edge) = Line(Bounds(other), Opposite(edge))

SegmentsOverlap(screen, other, edge) ==
  LET here == screen.layout.monitors
      there == other.layout.monitors
      from == Start(Bounds(screen), edge)
      to == Start(Bounds(other), edge)
  IN  \E i \in EdgeMonitors(screen.layout, edge),
         j \in EdgeMonitors(other.layout, Opposite(edge)) :
        /\ from + Start(here[i], edge) < to + End(there[j], edge)
        /\ from + End(here[i], edge) > to + Start(there[j], edge)

SharesExposedEdge(screen, other) ==
  \E edge \in Edge : Touches(screen, other, edge) /\ SegmentsOverlap(screen, other, edge)

(* The indexes reached from the first one over neighbours.  A breadth-first *)
(* search has reached everything after as many rounds as there are indexes. *)
Reached(indexes, first, Neighbours(_, _)) ==
  LET reach[n \in 0..Cardinality(indexes)] ==
        IF n = 0 THEN {first}
        ELSE reach[n - 1] \cup {j \in indexes : \E i \in reach[n - 1] : Neighbours(i, j)}
  IN  reach[Cardinality(indexes)]

ConnectedScreens(topology) ==
  LET Exposed(i, j) == SharesExposedEdge(topology[i], topology[j])
  IN  Reached(DOMAIN topology, 1, Exposed) = DOMAIN topology

(* Topology::new.                                                          *)
ValidTopology(screens) ==
  /\ screens # <<>>
  /\ \A i, j \in DOMAIN screens : screens[i].node = screens[j].node => i = j
  /\ \A i \in DOMAIN screens :
       /\ ValidDesktop(screens[i].layout)
       /\ RightOf(Bounds(screens[i])) <= CoordinateLimit
       /\ BottomOf(Bounds(screens[i])) <= CoordinateLimit
  /\ \A i, j \in DOMAIN screens : i < j => ~Overlaps(Bounds(screens[i]), Bounds(screens[j]))
  /\ ConnectedScreens(screens)

-----------------------------------------------------------------------------
(* Crossing an edge.                                                       *)

(* The position just inside a desktop behind `edge`, at `along` on its     *)
(* opposite edge.                                                          *)
EntryPosition(layout, edge, along) ==
  CASE edge = "Left" -> [x |-> layout.width - 1, y |-> along]
    [] edge = "Right" -> [x |-> 0, y |-> along]
    [] edge = "Top" -> [x |-> along, y |-> layout.height - 1]
    [] edge = "Bottom" -> [x |-> along, y |-> 0]


(* Where `offset` on the source's edge lies on the candidate's.            *)
OffsetOn(source, candidate, edge, offset) ==
  Start(Bounds(source), edge) + offset - Start(Bounds(candidate), edge)

NoTransition == [target |-> NoScreen]

(* Mutant: the pointer may enter where the candidate has no monitor.       *)
EntersBounds(source, candidate, edge, offset) ==
  LET along == OffsetOn(source, candidate, edge, offset) IN
  /\ candidate.node # source.node
  /\ Touches(source, candidate, edge)
  /\ 0 <= along /\ along < Length(Bounds(candidate), edge)

(* Who leaves the source at `offset` of its edge enters the candidate.     *)
Enters(source, candidate, edge, offset) ==
  LET along == OffsetOn(source, candidate, edge, offset) IN
  /\ candidate.node # source.node
  /\ Touches(source, candidate, edge)
  /\ 0 <= along /\ along < Length(Bounds(candidate), edge)
  /\ ContainsEdgeOffset(candidate.layout, Opposite(edge), along)

(* Topology::transition.                                                   *)
Transition(topology, current, edge, offset) ==
  LET source == ScreenOf(topology, current)[1]
      entered == {i \in DOMAIN topology : Enters(source, topology[i], edge, offset)}
      candidate == FirstOf(topology, entered)[1]
  IN  IF \/ ScreenOf(topology, current) = NoScreen
         \/ ~ContainsEdgeOffset(source.layout, edge, offset)
         \/ entered = {}
      THEN NoTransition
      ELSE [target |-> <<candidate.node>>,
            position |-> EntryPosition(candidate.layout, edge,
                                       OffsetOn(source, candidate, edge, offset))]

(* Mutant: the end of the overlap instead of its middle.                   *)
EndOfOverlap(from, to) == to

(* The middle of the overlap from `from` up to `to`.                       *)
Midpoint(from, to) == from + (to - from - 1) \div 2

(* shared_edge_offset: the middle of the first overlap of a segment of the *)
(* source with one of the candidate, as a sequence of at most one offset.  *)
SharedEdgeOffset(source, candidate, edge) ==
  LET here == source.layout.monitors
      there == candidate.layout.monitors
      origin == Start(Bounds(source), edge)
      From(i, j) == Larger(origin + Start(here[i], edge),
                           Start(Bounds(candidate), edge) + Start(there[j], edge))
      To(i, j) == Smaller(origin + End(here[i], edge),
                          Start(Bounds(candidate), edge) + End(there[j], edge))
      pairs == {pair \in EdgeMonitors(source.layout, edge)
                           \X EdgeMonitors(candidate.layout, Opposite(edge)) :
                  From(pair[1], pair[2]) < To(pair[1], pair[2])}
      Earlier(pair, other) ==
        pair[1] < other[1] \/ (pair[1] = other[1] /\ pair[2] <= other[2])
  IN  IF ~Touches(source, candidate, edge) \/ pairs = {} THEN <<>>
      ELSE LET first == CHOOSE pair \in pairs : \A other \in pairs : Earlier(pair, other)
           IN  <<Midpoint(From(first[1], first[2]), To(first[1], first[2])) - origin>>

(* activation_target without a position: a neighbour and where it is met,  *)
(* as a sequence of at most one.                                           *)
EdgeTarget(topology, local, edge) ==
  LET source == ScreenOf(topology, local)[1]
      met == {i \in DOMAIN topology : /\ topology[i].node # local
                                      /\ SharedEdgeOffset(source, topology[i], edge) # <<>>}
      candidate == FirstOf(topology, met)[1]
  IN  IF ScreenOf(topology, local) = NoScreen \/ met = {} THEN <<>>
      ELSE <<[node |-> candidate.node,
              offset |-> SharedEdgeOffset(source, candidate, edge)[1]]>>

(* A position on an edge, in hundredths of its length, as a pixel of it.   *)
OffsetAt(rect, edge, percent) ==
  (2 * percent * (Length(rect, edge) - 1) + 100) \div 200

(* activation_target at a position.                                        *)
PositionTarget(topology, local, edge, percent) ==
  LET offset == OffsetAt(Bounds(ScreenOf(topology, local)[1]), edge, percent)
      transition == Transition(topology, local, edge, offset)
  IN  IF transition.target = NoScreen THEN <<>>
      ELSE <<[node |-> transition.target[1], offset |-> offset]>>

(* EdgeBehavior::active_interval: an edge rule has a range and a flag, and *)
(* a dead zone cuts both ends off.                                         *)
ActiveFrom(rule, dead) == Larger(rule.from, dead)
ActiveTo(rule, dead) == Smaller(rule.to, 100 - dead)
IsActive(rule, dead) == rule.enabled /\ ActiveFrom(rule, dead) < ActiveTo(rule, dead)

Allows(rule, dead, percent) ==
  IsActive(rule, dead) /\ ActiveFrom(rule, dead) <= percent /\ percent <= ActiveTo(rule, dead)

(* EdgeBehavior::validate.                                                 *)
ValidRule(rule, dead) ==
  dead <= 49 /\ rule.from < rule.to /\ rule.to <= 100

(* capture_edges.                                                          *)
CaptureEdges(topology, local, rules, dead) ==
  {edge \in Edge : IsActive(rules[edge], dead) /\ EdgeTarget(topology, local, edge) # <<>>}

-----------------------------------------------------------------------------
(* Resizing a placed desktop.  Editor and runtime share the arithmetic:    *)
(* the centre is kept, unless a neighbour is attached on an axis.          *)

(* One axis of the new origin, decided by the last neighbour attached on   *)
(* it.  `low` is Left or Top: being attached there takes precedence.       *)
AttachedOrigin(rect, size, neighbours, low) ==
  LET high == Opposite(low)
      Below(i) == Line(rect, low) = Line(neighbours[i], high)
      Above(i) == Line(rect, high) = Line(neighbours[i], low)
      attached == {i \in DOMAIN neighbours : Below(i) \/ Above(i)}
      last == CHOOSE i \in attached : \A j \in attached : j <= i
  IN  IF attached = {}
      THEN Line(rect, low) + Half(Line(rect, high) - Line(rect, low) - size)
      ELSE IF Below(last) THEN Line(rect, low)
      ELSE Line(neighbours[last], low) - size
ResizedOrigin(rect, width, height, neighbours) ==
  [x |-> AttachedOrigin(rect, width, neighbours, "Left"),
   y |-> AttachedOrigin(rect, height, neighbours, "Top")]

(* resize_topology_screen: the topology to use from now on, or the         *)
(* sequence without a screen when the new extent is refused.               *)
ResizeScreen(topology, node, layout) ==
  LET index == IndexOf(topology, node)
      neighbours == [i \in DOMAIN topology \ {index} |-> Bounds(topology[i])]
      origin == ResizedOrigin(Bounds(topology[index]), layout.width, layout.height, neighbours)
      resized == [topology EXCEPT ![index] = Placement(node, origin.x, origin.y, layout)]
  IN  IF ScreenOf(topology, node) = NoScreen THEN <<>>
      ELSE IF topology[index].layout = layout THEN topology
      ELSE IF Fits(origin.x) /\ Fits(origin.y) /\ ValidTopology(resized) THEN resized
      ELSE <<>>

=============================================================================
