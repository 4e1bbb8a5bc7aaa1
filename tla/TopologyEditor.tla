--------------------------- MODULE TopologyEditor ---------------------------
(***************************************************************************)
(* The visual editor of the desktop application (ConfigEditor in           *)
(* tevir/app.rs) next to the controller's running topology, which the      *)
(* runtime changes by itself when a desktop reports a new extent           *)
(* (tevir/runtime.rs).  What the runtime changed reaches the editor as an  *)
(* event, what the user saved reaches the runtime as a command.            *)
(*                                                                         *)
(* The editor's fields are texts; they are modelled by the numbers they    *)
(* parse to.                                                               *)
(***************************************************************************)
EXTENDS Desktop, SequencesExt

CONSTANTS
  Local,        \* the controller's node
  Nodes,        \* all nodes
  Orders,       \* orders in which screens are configured
  Layouts,      \* the desktops there can be
  Coordinates,  \* where screens are configured
  DragTargets,  \* coordinates they are dragged to
  MaxChanges    \* bound on what user and desktops do

ASSUME EditorAssumption ==
  /\ Local \in Nodes /\ MaxChanges \in Nat
  /\ Layouts \subseteq Desktops /\ Coordinates \subseteq Int /\ DragTargets \subseteq Int
  /\ \A order \in Orders : order \in Seq(Nodes) /\ \E i \in DOMAIN order : order[i] = Local

VARIABLES
  screens,        \* ConfigEditor.screens
  selected,       \* ConfigEditor.selected_screen
  drag_origin,    \* index of the screen dragged, or 0
  desktop,        \* the local monitors as they are
  local_desktop,  \* DesktopApp.local_desktop
  running,        \* the runtime's topology, or <<>> without a session
  commands,       \* topologies sent to the runtime and not taken, in order
  events,         \* runtime events the application has not taken, in order
  changes,
  untouched       \* history: the user has neither edited nor saved

editor == <<screens, selected, drag_origin, local_desktop>>
runtime == <<running, commands, events>>
editorVars == <<editor, desktop, runtime, changes, untouched>>

(* A screen of the editor: its layout is what was last reported, and its   *)
(* extent may have been edited since.                                      *)
Screen(node, x, y, width, height, layout) ==
  [node |-> node, x |-> x, y |-> y, width |-> width, height |-> height, layout |-> layout]

FromPlacement(screen) ==
  Screen(screen.node, screen.x, screen.y, screen.layout.width, screen.layout.height,
         screen.layout)

Geometry(screen) == Rect(screen.x, screen.y, screen.width, screen.height)

(* ScreenEditor::build.                                                    *)
Built(screen) ==
  Placement(screen.node, screen.x, screen.y,
    IF screen.layout.width = screen.width /\ screen.layout.height = screen.height
    THEN screen.layout ELSE Single(screen.width, screen.height))

Build(edited) == [i \in DOMAIN edited |-> Built(edited[i])]

(* saturating_i64_to_i32.                                                  *)
Saturated(value) ==
  IF value < -CoordinateLimit THEN -CoordinateLimit
  ELSE IF value >= CoordinateLimit THEN CoordinateLimit - 1
  ELSE value

At(screen, x, y) == [screen EXCEPT !.x = Saturated(x), !.y = Saturated(y)]

GeometriesAreConnected(geometries) ==
  LET Share(i, j) == SharesEdge(geometries[i], geometries[j])
  IN  geometries # <<>> /\ Reached(DOMAIN geometries, 1, Share) = DOMAIN geometries

Geometries(edited) == [i \in DOMAIN edited |-> Geometry(edited[i])]

-----------------------------------------------------------------------------
(* A configured topology with the screens in the given order and the local *)
(* desktop at the origin.                                                  *)
Remote(order) == {i \in DOMAIN order : order[i] # Local}

Configured(order, at, layout) ==
  [i \in DOMAIN order |->
     IF i \in Remote(order) THEN Placement(order[i], at[i][1], at[i][2], layout[i])
     ELSE Placement(Local, 0, 0, layout[i])]

Init ==
  /\ \E order \in Orders :
     \E at \in [Remote(order) -> Coordinates \X Coordinates], layout \in [DOMAIN order -> Layouts] :
       LET topology == Configured(order, at, layout) IN
       /\ ValidTopology(topology)
       /\ screens = [i \in DOMAIN topology |-> FromPlacement(topology[i])]
       /\ running = topology
       /\ desktop = ScreenOf(topology, Local)[1].layout
  /\ local_desktop = desktop
  /\ selected = 1 /\ drag_origin = 0
  /\ commands = <<>> /\ events = <<>>
  /\ changes = 0
  /\ untouched = TRUE

-----------------------------------------------------------------------------
(* The user.                                                               *)

Changes ==
  /\ changes < MaxChanges
  /\ changes' = changes + 1

Edits ==
  /\ Changes
  /\ untouched' = FALSE
  /\ UNCHANGED <<desktop, local_desktop, runtime>>

Without(seq, i) == RemoveAt(seq, i)

(* A node that is trusted and not placed yet, to the right of the selected *)
(* screen and centred on it.                                               *)
AddScreen ==
  /\ Edits
  /\ \E node \in Nodes \ {screens[i].node : i \in DOMAIN screens}, layout \in Layouts :
       LET beside == screens[selected] IN
       screens' = Append(screens,
         At(FromPlacement(Placement(node, 0, 0, layout)),
            RightOf(Geometry(beside)), beside.y + Half(beside.height - layout.height)))
  /\ selected' = Len(screens) + 1
  /\ UNCHANGED drag_origin

CanRemoveScreen(i) ==
  /\ Len(screens) > 1
  /\ GeometriesAreConnected(Geometries(Without(screens, i)))

RemoveSelected ==
  /\ Edits
  /\ screens[selected].node # Local
  /\ CanRemoveScreen(selected)
  /\ screens' = Without(screens, selected)
  /\ selected' = Smaller(selected, Len(screens) - 1)
  /\ drag_origin' = 0

(* One field of the selected machine is edited.                            *)
EditExtent ==
  /\ Edits
  /\ \E layout \in Layouts :
       \/ screens' = [screens EXCEPT ![selected].width = layout.width]
       \/ screens' = [screens EXCEPT ![selected].height = layout.height]
  /\ UNCHANGED <<selected, drag_origin>>

(* topology_canvas: the screen follows the pointer while it is dragged.    *)
Drag(i) ==
  /\ Edits
  /\ drag_origin \in {0, i}
  /\ drag_origin' = i /\ selected' = i
  /\ \E x, y \in DragTargets : screens' = [screens EXCEPT ![i] = At(screens[i], x, y)]

Bounded(value, low, high) == Smaller(Larger(value, low), high)

(* Mutant: a corner is enough to attach a screen.                          *)
CornerCandidates(moved, other) ==
  {[x |-> other.x - moved.width,
    y |-> Bounded(moved.y, other.y - moved.height, BottomOf(other))],
   [x |-> RightOf(other), y |-> Bounded(moved.y, other.y - moved.height, BottomOf(other))],
   [x |-> Bounded(moved.x, other.x - moved.width, RightOf(other)),
    y |-> other.y - moved.height],
   [x |-> Bounded(moved.x, other.x - moved.width, RightOf(other)), y |-> BottomOf(other)]}

(* snap_candidates: one place on each side of another screen, moved as     *)
(* little as possible along it.                                            *)
SnapCandidates(moved, other) ==
  LET y == Bounded(moved.y, other.y - moved.height + 1, BottomOf(other) - 1)
      x == Bounded(moved.x, other.x - moved.width + 1, RightOf(other) - 1)
  IN  {[x |-> other.x - moved.width, y |-> y],
       [x |-> RightOf(other), y |-> y],
       [x |-> x, y |-> other.y - moved.height],
       [x |-> x, y |-> BottomOf(other)]}

(* A placement of screen i without an overlap that leaves all connected.   *)
Fitting(edited, i) ==
  /\ \A j \in DOMAIN edited \ {i} : ~Overlaps(Geometry(edited[i]), Geometry(edited[j]))
  /\ GeometriesAreConnected(Geometries(edited))

SnapPlaces(i) ==
  LET moved == Geometry(screens[i])
      candidates == UNION {SnapCandidates(moved, Geometry(screens[j])) :
                             j \in DOMAIN screens \ {i}}
  IN  {at \in candidates : Fitting([screens EXCEPT ![i] = At(screens[i], at.x, at.y)], i)}

Distance(screen, at) ==
  (at.x - screen.x) * (at.x - screen.x) + (at.y - screen.y) * (at.y - screen.y)

(* snap_screen: the closest fitting place; which of two equally close ones *)
(* the code takes depends on the order of the screens.                     *)
DropScreen ==
  /\ Edits
  /\ drag_origin # 0
  /\ drag_origin' = 0
  /\ LET places == SnapPlaces(drag_origin)
         moved == screens[drag_origin]
         closest == {at \in places :
                       \A other \in places : Distance(moved, at) <= Distance(moved, other)}
     IN  IF places = {} THEN UNCHANGED screens
         ELSE \E at \in closest :
                screens' = [screens EXCEPT ![drag_origin] = At(moved, at.x, at.y)]
  /\ UNCHANGED selected

(* align_screen, along the first screen that shares an edge with it.       *)
Alignments == {"Start", "Center", "End"}

AlignCoordinate(start, length, own, alignment) ==
  start + CASE alignment = "Start" -> 0
            [] alignment = "Center" -> Half(length - own)
            [] alignment = "End" -> length - own

SideBySide(rect, other) ==
  /\ \E edge \in Sideways : Line(rect, edge) = Line(other, Opposite(edge))
  /\ rect.y < BottomOf(other) /\ BottomOf(rect) > other.y

AlignScreen(alignment) ==
  LET own == Geometry(screens[selected])
      near == {j \in DOMAIN screens \ {selected} : SharesEdge(own, Geometry(screens[j]))}
      neighbour == CHOOSE j \in near : \A other \in near : j <= other
      other == Geometry(screens[neighbour])
      aligned ==
        IF SideBySide(own, other)
        THEN At(screens[selected], own.x,
                AlignCoordinate(other.y, other.height, own.height, alignment))
        ELSE At(screens[selected],
                AlignCoordinate(other.x, other.width, own.width, alignment), own.y)
  IN  /\ Edits
      /\ near # {}
      /\ \A j \in DOMAIN screens \ {selected, neighbour} :
           ~Overlaps(Geometry(aligned), Geometry(screens[j]))
      /\ screens' = [screens EXCEPT ![selected] = aligned]
      /\ UNCHANGED <<selected, drag_origin>>

(* save_config: a running controller gets the topology live, otherwise a   *)
(* session starts with it.                                                 *)
SaveConfig ==
  /\ Changes
  /\ ValidTopology(Build(screens))
  /\ untouched' = FALSE
  /\ IF running # <<>>
     THEN commands' = Append(commands, Build(screens)) /\ UNCHANGED <<running, events>>
     ELSE running' = Build(screens) /\ commands' = <<>> /\ events' = <<>>
  /\ UNCHANGED <<editor, desktop>>

-----------------------------------------------------------------------------
(* Desktops change, and the runtime is told.                               *)

(* The desktop of the controller.  A refused extent ends the session.      *)
LocalDesktopChanges ==
  /\ Changes
  /\ running # <<>>
  /\ \E layout \in Layouts \ {desktop} :
       /\ desktop' = layout
       /\ running' = ResizeScreen(running, Local, layout)
       /\ events' = IF running' = <<>> THEN events
                    ELSE Append(events, [kind |-> "LocalDesktopChanged", layout |-> layout])
  /\ commands' = IF running' = <<>> THEN <<>> ELSE commands
  /\ UNCHANGED <<editor, untouched>>

(* An agent reports its desktop, on every connection and after a change.   *)
(* A refused extent leaves the topology as it was.                         *)
AgentReportsDesktop ==
  /\ Changes
  /\ \E node \in Nodes \ {Local}, layout \in Layouts :
       LET resized == ResizeScreen(running, node, layout) IN
       /\ ScreenOf(running, node) # NoScreen
       /\ resized # <<>>
       /\ running' = resized
       /\ events' = Append(events, [kind |-> "DisplayChanged",
                                    screen |-> ScreenOf(resized, node)[1]])
  /\ UNCHANGED <<editor, desktop, commands, untouched>>

(* ReconfigureController.                                                  *)
TakeReconfigure ==
  /\ running # <<>> /\ commands # <<>>
  /\ running' = Head(commands)
  /\ commands' = Tail(commands)
  /\ UNCHANGED <<editor, desktop, events, changes, untouched>>

-----------------------------------------------------------------------------
(* The application hears of it.                                            *)

LocalIndex == CHOOSE i \in DOMAIN screens : screens[i].node = Local

(* resize_screen.                                                          *)
ResizeInEditor(edited, i, width, height) ==
  LET others == [j \in DOMAIN edited \ {i} |-> Geometry(edited[j])]
      origin == ResizedOrigin(Geometry(edited[i]), width, height, others)
  IN  [edited EXCEPT ![i] = [At(edited[i], origin.x, origin.y)
                               EXCEPT !.width = width, !.height = height]]

(* set_local_desktop: the local screen is resized, and all screens are     *)
(* moved so that it stays where it was.                                    *)
SetLocalDesktop(layout) ==
  LET i == LocalIndex
      resized == ResizeInEditor(screens, i, layout.width, layout.height)
      dx == screens[i].x - resized[i].x
      dy == screens[i].y - resized[i].y
      moved == [j \in DOMAIN resized |-> At(resized[j], resized[j].x + dx, resized[j].y + dy)]
  IN  /\ local_desktop' = layout
      /\ screens' = [moved EXCEPT ![i].layout = layout]
      /\ selected' = i

(* sync_desktop_geometry: the window system is asked in every frame.       *)
SyncDesktopGeometry ==
  /\ desktop # local_desktop
  /\ SetLocalDesktop(desktop)
  /\ UNCHANGED <<drag_origin, desktop, runtime, changes, untouched>>

TakeLocalDesktopChanged ==
  /\ events # <<>> /\ Head(events).kind = "LocalDesktopChanged"
  /\ SetLocalDesktop(Head(events).layout)
  /\ events' = Tail(events)
  /\ UNCHANGED <<drag_origin, desktop, running, commands, changes, untouched>>

(* update_screen.                                                          *)
TakeDisplayChanged ==
  LET screen == Head(events).screen
      shown == {i \in DOMAIN screens : screens[i].node = screen.node}
  IN  /\ events # <<>> /\ Head(events).kind = "DisplayChanged"
      /\ IF shown = {} THEN UNCHANGED <<screens, selected>>
         ELSE \E i \in shown :
                /\ screens' = [screens EXCEPT ![i] = FromPlacement(screen)]
                /\ selected' = i
      /\ events' = Tail(events)
      /\ UNCHANGED <<drag_origin, local_desktop, desktop, running, commands, changes, untouched>>

Next ==
  \/ AddScreen
  \/ RemoveSelected
  \/ EditExtent
  \/ \E i \in DOMAIN screens : Drag(i)
  \/ DropScreen
  \/ \E alignment \in Alignments : AlignScreen(alignment)
  \/ SaveConfig
  \/ LocalDesktopChanges
  \/ AgentReportsDesktop
  \/ TakeReconfigure
  \/ SyncDesktopGeometry
  \/ TakeLocalDesktopChanged
  \/ TakeDisplayChanged

Spec == Init /\ [][Next]_editorVars

-----------------------------------------------------------------------------
(* Properties.                                                             *)

(* Where one desktop's edge leads to another, the other's edge leads back  *)
(* to the same place: a pointer that crosses and returns without moving    *)
(* along the edge is where it left.                                        *)
CrossingsAreReversible ==
  \A i \in DOMAIN running, edge \in Edge :
    \A offset \in 0..(Length(Bounds(running[i]), edge) - 1) :
      LET there == Transition(running, running[i].node, edge, offset)
          along == IF edge \in Sideways THEN there.position.y ELSE there.position.x
          back == Transition(running, there.target[1], Opposite(edge), along)
      IN  there.target # NoScreen =>
            /\ back.target = <<running[i].node>>
            /\ back.position = EntryPosition(running[i].layout, Opposite(edge), offset)

(* capture_edges and the activation that follows agree: through an edge    *)
(* that is not armed the pointer leaves at no pixel and no position, and   *)
(* where the runtime falls back on without a position, it leaves to that   *)
(* node.                                                                   *)
ArmedEdgesLeadSomewhere ==
  running # <<>> =>
    \A edge \in Edge :
      LET home == Bounds(ScreenOf(running, Local)[1])
          Crossed(offset) == Transition(running, Local, edge, offset).target
          target == EdgeTarget(running, Local, edge)
      IN  IF target = <<>>
          THEN /\ \A offset \in 0..(Length(home, edge) - 1) : Crossed(offset) = NoScreen
               /\ \A percent \in 0..100 : PositionTarget(running, Local, edge, percent) = <<>>
          ELSE Crossed(target[1].offset) = <<target[1].node>>

(* A screen that is dropped attaches to the others, wherever it was        *)
(* dragged to: if the others could be saved without it, all can be saved.  *)
(* Screens of one monitor only: the editor looks at outlines, Topology::new *)
(* at monitors.                                                            *)
SingleMonitors == \A i \in DOMAIN screens : Len(Built(screens[i]).layout.monitors) = 1

DroppedScreenAttaches ==
  [][DropScreen /\ SingleMonitors /\ ValidTopology(Build(Without(screens, drag_origin)))
       => ValidTopology(Build(screens'))]_editorVars

(* "Publishes the live placement to the desktop UI": as long as the user    *)
(* changes nothing, the editor shows the running arrangement once it has   *)
(* taken every event; every screen lies at the same place relative to the  *)
(* local one.                                                              *)
EditorShowsRunningTopology ==
  (untouched /\ events = <<>> /\ local_desktop = desktop /\ running # <<>>) =>
    \A i \in DOMAIN running :
      LET shown == ScreenOf(screens, running[i].node)
          home == ScreenOf(screens, Local)
          base == ScreenOf(running, Local)
      IN  /\ shown # NoScreen
          /\ shown[1].x - home[1].x = running[i].x - base[1].x
          /\ shown[1].y - home[1].y = running[i].y - base[1].y

=============================================================================
