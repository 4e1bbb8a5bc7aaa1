----------------------------- MODULE CapturePath -----------------------------
(***************************************************************************)
(* The controller's runtime as the client of the capture service           *)
(* (tevir/runtime.rs): activations and the switch delay, the emergency     *)
(* shortcut, what gives capture back, and one session after another on the *)
(* same service.                                                           *)
(*                                                                         *)
(* Focus is what ControllerSession makes of it, without epochs, batches    *)
(* and geometry: a topology says which node each edge leads to.  A drain   *)
(* of the event queue is one turn of the runtime's loop, so commands and   *)
(* network events wait until it is over.                                   *)
(***************************************************************************)
EXTENDS CaptureService

CONSTANTS
  Local,        \* the controller's node
  Peers,        \* the other nodes
  ControlKeys,  \* LEFT_CONTROL and RIGHT_CONTROL
  AltKeys,      \* LEFT_ALT and RIGHT_ALT
  Escape

ASSUME PathAssumption ==
  /\ Local \notin Peers
  /\ ControlKeys \cup AltKeys \cup {Escape} \subseteq Keys

VARIABLES
  session,    \* "none", "select" (between two turns) or "drain"
  topology,   \* the node each edge of the local desktop leads to
  delayed,    \* edge_behavior.switch_delay_ms is not 0
  peers,      \* peers connected
  focus,
  pending_activation,  \* the edge and the target it had, or NoActivation
  shortcut,   \* emergency_shortcut
  seen        \* history: keys down for a reader of the events taken so far

pathVars == <<captureVars, session, topology, delayed, peers, focus,
              pending_activation, shortcut, seen>>
sessionVars == <<session, topology, delayed, peers, focus,
                 pending_activation, shortcut, seen>>
behavior == <<topology, delayed>>

NoActivation == [edge |-> NoEdge, target |-> Local]

NoShortcut == [control |-> FALSE, alt |-> FALSE]

(* Every topology has a remote screen (SessionRuntime::start checks it),   *)
(* but none need touch the local desktop.                                  *)
Topologies == UNION {[placed -> Peers] : placed \in SUBSET Edges}

(* capture_edges: the edges with an interval that leads to a neighbour and *)
(* that the edge policy leaves open.                                       *)
CaptureEdges(map, open) == DOMAIN map \cap open

PathInit ==
  /\ CaptureInit
  /\ session = "none"
  /\ topology = <<>> /\ delayed = FALSE
  /\ peers = {} /\ focus = Local /\ pending_activation = NoActivation
  /\ shortcut = NoShortcut
  /\ seen = {}

-----------------------------------------------------------------------------
(* Giving capture back.                                                    *)

(* Mutant: the edges stay armed when the session is over.                  *)
FarewellReleaseOnly == <<Release>>

(* What run_worker posts when the session is over.  An error of `release`  *)
(* or `configure` is ignored there.                                        *)
Farewell == <<Release, Configure({})>>

AsFarAsTheyFit(posted) ==
  IF worker = "running"
  THEN SubSeq(commands \o posted, 1,
         IF Len(commands \o posted) < CommandCapacity
         THEN Len(commands \o posted) ELSE CommandCapacity)
  ELSE commands

End(posted) ==
  /\ session' = "none"
  /\ commands' = AsFarAsTheyFit(posted \o Farewell)
  /\ focus' = Local /\ pending_activation' = NoActivation

(* Locals of run_controller are gone with it.                              *)
KeepUnlessOver(connected) ==
  /\ peers' = IF session' = "none" THEN {} ELSE connected
  /\ shortcut' = IF session' = "none" THEN NoShortcut ELSE shortcut

(* The handler goes on with `node` focused after it has posted `posted`; a *)
(* command that cannot be posted ends the session.                         *)
Continue(posted, node, awaited) ==
  IF posted = <<>> \/ CanPost(posted)
  THEN /\ commands' = commands \o posted
       /\ focus' = node
       /\ pending_activation' = awaited
       /\ UNCHANGED session
  ELSE End(<<>>)

(* return_to_local, and nothing when focus is local already.               *)
ReturnCommands == IF focus = Local THEN <<>> ELSE <<Release>>

(* reconcile_topology announces a new epoch, and gives capture back when   *)
(* focus is local, moved there or not.                                     *)
Reconciled(placed) == IF focus \in placed THEN focus ELSE Local
ReconcileCommands(placed) == IF Reconciled(placed) = Local THEN <<Release>> ELSE <<>>

-----------------------------------------------------------------------------
(* A session starts and ends.                                              *)

StartSession ==
  /\ session = "none" /\ worker = "running"
  /\ Happens
  /\ delayed' \in BOOLEAN
  /\ topology' \in Topologies
  /\ \E open \in SUBSET Edges :
       /\ CanPost(<<Configure({})>>)
       /\ commands' = Append(commands, Configure(CaptureEdges(topology', open)))
  /\ session' = "select"
  /\ UNCHANGED <<captured, refused, tasks, active, service, events, peers, focus, pending_activation,
                 shortcut, seen>>

StopSession ==
  /\ session = "select"
  /\ End(<<Release>>)
  /\ KeepUnlessOver(peers)
  /\ UNCHANGED <<nativeVars, service, events, behavior, seen>>

Request ==
  /\ session = "select"
  /\ Happens
  /\ UNCHANGED <<captured, refused, tasks, active, service, events, seen>>

ReturnControl ==
  /\ Request
  /\ Continue(ReturnCommands, Local, NoActivation)
  /\ KeepUnlessOver(peers)
  /\ UNCHANGED behavior

(* ReconfigureController: peers that are no longer placed are dropped.     *)
Reconfigure ==
  /\ Request
  /\ topology' \in Topologies
  /\ delayed' \in BOOLEAN
  /\ \E placed \in SUBSET Peers, open \in SUBSET Edges :
       /\ {topology'[edge] : edge \in DOMAIN topology'} \subseteq placed
       /\ Continue(ReconcileCommands(placed) \o <<Configure(CaptureEdges(topology', open))>>,
                   Reconciled(placed), NoActivation)
       /\ KeepUnlessOver(peers \cap placed)

(* accept_controller_peer.                                                 *)
PeerConnects ==
  /\ session = "select"
  /\ \E peer \in Peers \ peers : peers' = peers \cup {peer}
  /\ UNCHANGED <<captureVars, session, behavior, focus, pending_activation, shortcut,
                 seen>>

(* disconnect_controller_peer.  A delayed activation is left to its delay. *)
PeerDisconnects ==
  /\ Request
  /\ \E peer \in peers :
       /\ IF peer = focus THEN Continue(<<Release>>, Local, pending_activation)
          ELSE Continue(<<>>, focus, pending_activation)
       /\ KeepUnlessOver(peers \ {peer})
  /\ UNCHANGED behavior

(* DisplayChanged of an agent, when it changes the topology: an edge may   *)
(* lead elsewhere from now on, and the service is not configured anew.     *)
PeerChangesDisplay ==
  /\ Request
  /\ peers # {}
  /\ topology' \in Topologies
  /\ Continue(ReconcileCommands(Peers), Reconciled(Peers), pending_activation)
  /\ KeepUnlessOver(peers)
  /\ UNCHANGED delayed

-----------------------------------------------------------------------------
(* drain_capture_events, one event after the other until there is none.    *)

(* A turn without anything to do is left out.                              *)
Tick ==
  /\ session = "select"
  /\ events # <<>> \/ pending_activation # NoActivation
  /\ session' = "drain"
  /\ UNCHANGED <<captureVars, behavior, peers, focus, pending_activation, shortcut,
                 seen>>

(* What every event has in common.                                         *)
Waits(kinds) == session = "drain" /\ events # <<>> /\ Head(events).kind \in kinds

Take ==
  /\ events' = Tail(events)
  /\ seen' = Head(events).down
  /\ UNCHANGED <<nativeVars, service, delayed>>

(* activate, which refuses when focus is not local.  A topology without a  *)
(* neighbour there refuses too, and a refusal ends the session.            *)
Activate(edge) ==
  IF focus = Local /\ edge \in DOMAIN topology
  THEN Continue(<<>>, topology[edge], NoActivation)
  ELSE End(<<>>)

(* The position decides whether the edge policy allows it and whether a    *)
(* desktop touches the edge there.                                         *)
TakeActivated ==
  LET edge == Head(events).edge IN
  /\ Waits({"Activated"})
  /\ \E excluded \in BOOLEAN :
       IF excluded \/ edge \notin DOMAIN topology \/ topology[edge] \notin peers
       THEN Continue(<<Release>>, focus, pending_activation)
       ELSE IF delayed
       THEN Continue(<<>>, focus, [edge |-> edge, target |-> topology[edge]])
       ELSE Activate(edge)
  /\ Take
  /\ KeepUnlessOver(peers)
  /\ UNCHANGED topology

(* A new extent of the local desktop is refused, changes the topology, or  *)
(* leaves it as it was.  Focus may stay with a peer.                       *)
TakeDesktopChanged ==
  LET returned == IF pending_activation = NoActivation THEN <<>> ELSE <<Release>> IN
  /\ Waits({"DesktopChanged"})
  /\ \/ End(returned) /\ UNCHANGED topology
     \/ /\ topology' \in Topologies
        /\ Continue(returned \o ReconcileCommands(Peers), Reconciled(Peers), NoActivation)
     \/ Continue(returned, focus, NoActivation) /\ UNCHANGED topology
  /\ Take
  /\ KeepUnlessOver(peers)

(* Mutant: a release of one of the keys is not noticed.                    *)
ObserveIgnoringReleases(keys, press) ==
  [control |-> shortcut.control \/ (keys \cap ControlKeys # {} /\ press),
   alt |-> shortcut.alt \/ (keys \cap AltKeys # {} /\ press)]

(* EmergencyShortcut::observe keeps one flag for both keys of a pair.      *)
ObserveShortcut(keys, press) ==
  [control |-> IF keys \cap ControlKeys # {} THEN press ELSE shortcut.control,
   alt |-> IF keys \cap AltKeys # {} THEN press ELSE shortcut.alt]

Emergency(event) ==
  event.key = Escape /\ event.press /\ shortcut.control /\ shortcut.alt

Routable == pending_activation = NoActivation /\ focus # Local

(* Escape completes the shortcut: control returns, whatever was pending.   *)
TakeEmergency ==
  /\ Waits({"Input"})
  /\ Emergency(Head(events))
  /\ Continue(ReturnCommands, Local, NoActivation)
  /\ Take
  /\ KeepUnlessOver(peers)
  /\ UNCHANGED topology

(* Any other input goes to the focused peer, or nowhere while an           *)
(* activation is pending.                                                  *)
TakeKey ==
  LET event == Head(events) IN
  /\ Waits({"Input"})
  /\ event.key # Motion /\ ~Emergency(event)
  /\ shortcut' = ObserveShortcut({event.key}, event.press)
  /\ UNCHANGED <<commands, session, topology, peers, focus, pending_activation>>
  /\ Take

TakeReleases ==
  LET keys == Head(events).keys IN
  /\ Waits({"Releases"})
  /\ shortcut' = ObserveShortcut(keys, FALSE)
  /\ UNCHANGED <<commands, session, topology, peers, focus, pending_activation>>
  /\ Take

(* Motion may leave the focused desktop for another node of the topology.  *)
TakeMotion ==
  /\ Waits({"Input"})
  /\ Head(events).key = Motion
  /\ \/ Continue(<<>>, focus, pending_activation)
     \/ /\ Routable
        /\ \E node \in (Peers \cup {Local}) \ {focus} :
             Continue(IF node = Local THEN <<Release>> ELSE <<>>, node, NoActivation)
  /\ Take
  /\ KeepUnlessOver(peers)
  /\ UNCHANGED topology

TakeReleased ==
  /\ Waits({"Released"})
  /\ Take
  /\ pending_activation' = NoActivation
  /\ UNCHANGED <<commands, session, topology, peers, focus, shortcut>>

TakeReady ==
  /\ Waits({"Ready"})
  /\ Take
  /\ UNCHANGED <<commands, session, topology, peers, focus, pending_activation, shortcut>>

TakeEnd ==
  /\ Waits({"Failed", "Stopped"})
  /\ End(<<>>)
  /\ Take
  /\ KeepUnlessOver(peers)
  /\ UNCHANGED topology

(* The drain is over.  complete_pending_activation: the delay of a pending *)
(* activation may be over too; its edge is looked up in the topology of    *)
(* now.                                                                    *)
Activates == focus = Local /\ pending_activation.edge \in DOMAIN topology

CompletePending ==
  IF pending_activation.target \in peers
  THEN IF Activates
       THEN /\ session' = "select"
            /\ focus' = topology[pending_activation.edge]
            /\ pending_activation' = NoActivation
            /\ UNCHANGED commands
       ELSE End(<<>>)
  ELSE IF CanPost(<<Release>>)
       THEN /\ session' = "select"
            /\ commands' = Append(commands, Release)
            /\ pending_activation' = NoActivation
            /\ UNCHANGED focus
       ELSE End(<<>>)

EndDrain ==
  /\ session = "drain" /\ events = <<>>
  /\ \/ /\ session' = "select"
        /\ UNCHANGED <<commands, focus, pending_activation>>
     \/ pending_activation # NoActivation /\ CompletePending
  /\ KeepUnlessOver(peers)
  /\ UNCHANGED <<nativeVars, service, events, behavior, seen>>

Runtime ==
  \/ Tick
  \/ TakeActivated \/ TakeDesktopChanged
  \/ TakeEmergency \/ TakeKey \/ TakeReleases \/ TakeMotion
  \/ TakeReleased \/ TakeReady \/ TakeEnd
  \/ EndDrain

Requests ==
  \/ StartSession \/ StopSession \/ ReturnControl \/ Reconfigure
  \/ PeerConnects \/ PeerDisconnects \/ PeerChangesDisplay

PathNext ==
  \/ Environment /\ UNCHANGED sessionVars
  \/ Worker /\ UNCHANGED sessionVars
  \/ Requests
  \/ Runtime

PathSpec == PathInit /\ [][PathNext]_pathVars

(* The threads run: the worker and its two tasks are never kept from       *)
(* taking what is ready for them.  Nothing is assumed of the user, the     *)
(* compositor, the peers or the sessions.                                  *)
FairPathSpec == PathSpec /\ WF_pathVars(Worker /\ UNCHANGED sessionVars)

-----------------------------------------------------------------------------
(* Properties.                                                             *)

(* The emergency shortcut's flags never outlive the keys: control returns  *)
(* by itself only with Escape pressed while a Control and an Alt key are   *)
(* down in the input taken so far, however activations, releases and       *)
(* sessions came before.                                                   *)
ReturnsOnlyOnShortcut ==
  /\ shortcut.control => seen \cap ControlKeys # {}
  /\ shortcut.alt => seen \cap AltKeys # {}

(* Without a session the user's input comes back to the local desktop: a   *)
(* barrier that was hit, before or after the session ended, does not keep  *)
(* the pointer, unless the portal refused to release it.                   *)
InputComesBack ==
  (session = "none" /\ captured) ~> (~captured \/ session # "none" \/ refused)

(* "Native display changes invalidate active focus": when the runtime has  *)
(* dealt with a change of its own desktop, focus is local.                 *)
DisplayChangeEndsFocus == [][TakeDesktopChanged => focus' = Local]_pathVars

=============================================================================
