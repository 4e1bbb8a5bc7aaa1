-------------------------- MODULE InputPath_proofs --------------------------
(***************************************************************************)
(* Proofs about the controller's session, whatever it is called with,      *)
(* about the input path it is a part of, and about the agents' sessions,   *)
(* whatever they receive, for every set of agents, every batch size and    *)
(* every bound on epochs, keys, connections and display changes.           *)
(***************************************************************************)
EXTENDS InputPath, TLAPS

-----------------------------------------------------------------------------
(* The controller's session, whoever calls it (Spec of ControllerSession).  *)


Messages == InputMessages \cup FocusMessages

-----------------------------------------------------------------------------
(* Facts about the operators the actions are built from.                   *)

(* A topology gives every node it places, the local one among them, a      *)
(* nonempty extent.                                                        *)
LEMMA TopologyFacts ==
  ASSUME NEW topology \in Topologies
  PROVE  /\ Local \in DOMAIN topology
         /\ DOMAIN topology \subseteq Nodes
         /\ \A n \in DOMAIN topology : topology[n] \in Nat \ {0}
         /\ PeersOf(topology) \subseteq Agents
<1>1. PICK placed \in SUBSET Nodes : topology \in [placed -> Sizes]
  BY DEF Topologies
<1>2. Local \in DOMAIN topology
  BY DEF Topologies
<1> QED
  BY <1>1, <1>2, SizesAssumption DEF PeersOf, Agents

LEMMA CenterType ==
  ASSUME NEW size \in Nat \ {0}
  PROVE  Center(size) \in Nat /\ Center(size) < size
BY DEF Center

LEMMA ClampType ==
  ASSUME NEW size \in Nat \ {0}, NEW offset \in Nat
  PROVE  Clamp(offset, size) \in Nat /\ Clamp(offset, size) < size
BY DEF Clamp

LEMMA BatchType ==
  ASSUME TypeOK, NEW p \in Agents, NEW events \in Seq(InputEvents)
  PROVE  BatchFor(p, events) \in Seq(Messages)
<1>1. InputBatch(focus_epoch, last_sent[p] + 1, events) \in Messages
  BY DEF TypeOK, InputBatch, Messages, InputMessages
<1> QED
  BY <1>1 DEF BatchFor

LEMMA MotionType == ASSUME NEW e \in Nat PROVE MotionEvent(e) \in InputEvents
BY DEF MotionEvent, InputEvents, Motion

LEMMA KeyType == ASSUME NEW e \in Nat, NEW n \in Nat PROVE KeyEvent(n, e) \in InputEvents
BY DEF KeyEvent, InputEvents

LEMMA PushType ==
  ASSUME TypeOK, NEW event \in InputEvents
  PROVE  Push(event) \in Seq(InputEvents)
BY DEF TypeOK, Push

(* What an announcement leaves behind.                                     *)
LEMMA AnnounceType ==
  ASSUME TypeOK, NEW recipients, NEW target \in Nodes, NEW entry \in Nat,
         NEW events \in Seq(InputEvents), Announce(recipients, target, entry, events)
  PROVE  /\ focus_epoch' \in Nat
         /\ outbox' \in [Agents -> Seq(Messages)]
         /\ release' \in BOOLEAN
<1>1. focus_epoch' \in Nat /\ release' \in BOOLEAN
  BY DEF Announce, TypeOK
<1>2. FocusChanged(focus_epoch + 1, target, entry) \in Messages
  BY DEF TypeOK, FocusChanged, Messages, FocusMessages, Positions
<1>3. ASSUME NEW p \in Agents
      PROVE  BatchFirst(IF events = <<>> THEN <<>> ELSE BatchFor(p, events),
                        IF p \in recipients
                        THEN <<FocusChanged(focus_epoch + 1, target, entry)>> ELSE <<>>)
               \in Seq(Messages)
  <2>1. (IF events = <<>> THEN <<>> ELSE BatchFor(p, events)) \in Seq(Messages)
    BY BatchType
  <2>2. (IF p \in recipients
         THEN <<FocusChanged(focus_epoch + 1, target, entry)>> ELSE <<>>) \in Seq(Messages)
    BY <1>2
  <2> QED
    BY <2>1, <2>2 DEF BatchFirst
<1> QED
  BY <1>1, <1>3 DEF Announce

(* Sending a batch to the focused peer counts it; both numbers keep their  *)
(* type.                                                                   *)
LEMMA CountBatchType ==
  ASSUME TypeOK, CountBatch
  PROVE  last_sent' \in [Agents -> Nat] /\ pending' \in [Agents -> SUBSET Nat]
<1>1. CASE focus \in Agents
  <2>1. last_sent[focus] + 1 \in Nat /\ pending[focus] \in SUBSET Nat
    BY <1>1 DEF TypeOK
  <2> QED
    BY <2>1 DEF TypeOK, CountBatch
<1>2. CASE focus \notin Agents
  BY <1>2 DEF TypeOK, CountBatch
<1> QED
  BY <1>1, <1>2

LEMMA NoMessagesType == NoMessages \in [Agents -> Seq(Messages)]
BY DEF NoMessages

LEMMA TopologyType ==
  ASSUME TypeOK
  PROVE  /\ focus \in Nodes
         /\ \A n \in DOMAIN screens : n \in Nodes /\ screens[n] \in Nat \ {0}
         /\ Local \in DOMAIN screens
         /\ Peers \subseteq DOMAIN screens
BY TopologyFacts DEF TypeOK, Peers, PeersOf

-----------------------------------------------------------------------------
(* Every call keeps the types.                                             *)

LEMMA FlushType == ASSUME TypeOK, Flush PROVE TypeOK'
<1>1. CASE FailStranded
  BY <1>1 DEF TypeOK, FailStranded, Errors, focusState, deliveries
<1>2. CASE ~FailStranded
  <2>1. last_sent' \in [Agents -> Nat] /\ pending' \in [Agents -> SUBSET Nat]
    BY <1>2, CountBatchType DEF Flush
  <2>2. outbox' \in [Agents -> Seq(Messages)]
    <3>1. outbox' = [p \in Agents |-> BatchFor(p, buffer)]
      BY <1>2 DEF Flush
    <3> QED
      BY <3>1, BatchType DEF TypeOK
  <2>3. /\ buffer' = <<>>
        /\ UNCHANGED <<screens, focusState, last_acknowledged, captured, release, error>>
    BY <1>2 DEF Flush, Taken
  <2> QED
    BY <2>1, <2>2, <2>3 DEF TypeOK, focusState, Messages
<1> QED
  BY <1>1, <1>2

LEMMA RefusalType == ASSUME TypeOK, ActivateRefused \/ RouteWhileLocal PROVE TypeOK'
BY DEF TypeOK, ActivateRefused, RouteWhileLocal, Fail, Errors, focusState, deliveries

LEMMA ReturnToLocalType == ASSUME TypeOK, ReturnToLocal PROVE TypeOK'
<1>1. position' \in Nat
  BY TopologyType, CenterType DEF ReturnToLocal
<1>2. Local \in Nodes /\ <<>> \in Seq(InputEvents)
  BY NodesAssumption
<1>3. Announce(Peers, Local, position', <<>>)
  BY DEF ReturnToLocal
<1>4. /\ focus_epoch' \in Nat
      /\ outbox' \in [Agents -> Seq(Messages)]
      /\ release' \in BOOLEAN
  BY <1>1, <1>2, <1>3, AnnounceType
<1> QED
  BY <1>1, <1>4, TopologyType DEF ReturnToLocal, TypeOK, deliveries, Positions, Messages

LEMMA ChangeFocusType ==
  ASSUME TypeOK, NEW target \in DOMAIN screens, NEW entry \in Nat,
         ChangeFocus(target, entry), UNCHANGED <<screens, captured>>, error' \in Errors
  PROVE  TypeOK'
<1>1. CASE MustWait /\ UNCHANGED <<focusState, buffer, deliveries, outbox, release>>
  BY <1>1 DEF TypeOK, focusState, deliveries
<1>2. CASE ~(MustWait /\ UNCHANGED <<focusState, buffer, deliveries, outbox, release>>)
  <2>1. /\ IF CanSend THEN CountBatch ELSE UNCHANGED <<last_sent, pending>>
        /\ buffer' = IF CanSend THEN Taken ELSE buffer
        /\ focus' = target
        /\ position' = Clamp(entry, screens[target])
        /\ Announce(Peers, target, position', IF CanSend THEN buffer ELSE <<>>)
        /\ UNCHANGED last_acknowledged
    BY <1>2 DEF ChangeFocus
  <2>2. position' \in Nat
    BY <2>1, ClampType, TopologyType
  <2>3. target \in Nodes /\ (IF CanSend THEN buffer ELSE <<>>) \in Seq(InputEvents)
    BY TopologyType DEF TypeOK
  <2>4. /\ focus_epoch' \in Nat
        /\ outbox' \in [Agents -> Seq(Messages)]
        /\ release' \in BOOLEAN
    BY <2>1, <2>2, <2>3, AnnounceType
  <2>5. last_sent' \in [Agents -> Nat] /\ pending' \in [Agents -> SUBSET Nat]
    BY <2>1, CountBatchType DEF TypeOK
  <2>6. buffer' \in Seq(InputEvents)
    BY <2>1 DEF TypeOK, Taken
  <2> QED
    BY <2>1, <2>2, <2>4, <2>5, <2>6 DEF TypeOK, Positions, Messages
<1> QED
  BY <1>1, <1>2

LEMMA ActivateType ==
  ASSUME TypeOK, NEW target \in Peers, NEW entry \in Nat, Activate(target, entry)
  PROVE  TypeOK'
<1>1. CASE FailStranded
  BY <1>1 DEF TypeOK, FailStranded, Errors, focusState, deliveries
<1>2. CASE ~FailStranded
  BY <1>2, ChangeFocusType, TopologyType DEF Activate, TypeOK
<1> QED
  BY <1>1, <1>2

LEMMA RouteCrossingType ==
  ASSUME TypeOK, NEW target \in DOMAIN screens, NEW entry \in Nat,
         RouteCrossing(target, entry)
  PROVE  TypeOK'
BY ChangeFocusType DEF RouteCrossing, TypeOK

LEMMA RouteEventType ==
  ASSUME TypeOK, NEW event \in InputEvents, NEW to \in Nat, RouteEvent(event, to),
         captured' \in Nat
  PROVE  TypeOK'
<1>1. Push(event) \in Seq(InputEvents) /\ buffer \in Seq(InputEvents)
      /\ <<event>> \in Seq(InputEvents) /\ <<>> \in Seq(InputEvents)
  BY PushType DEF TypeOK
<1>2. buffer' \in Seq(InputEvents) /\ position' \in Positions /\ error' \in Errors
  BY <1>1 DEF RouteEvent, TypeOK, Positions, Errors
<1>3. last_sent' \in [Agents -> Nat] /\ pending' \in [Agents -> SUBSET Nat]
  BY CountBatchType DEF RouteEvent, TypeOK, deliveries
<1>4. last_acknowledged' \in [Agents -> Nat]
  BY DEF RouteEvent, TypeOK, deliveries
<1>5. outbox' \in [Agents -> Seq(Messages)]
  <2>1. CASE outbox' = outbox
    BY <2>1 DEF TypeOK, Messages
  <2>2. CASE outbox' = [p \in Agents |-> BatchFor(p, buffer)]
    BY <2>2, <1>1, BatchType
  <2>3. CASE outbox' = [p \in Agents |-> BatchFor(p, Push(event))]
    BY <2>3, <1>1, BatchType
  <2> QED
    BY <2>1, <2>2, <2>3 DEF RouteEvent
<1> QED
  BY <1>2, <1>3, <1>4, <1>5 DEF RouteEvent, TypeOK, Messages

LEMMA RouteKeyType == ASSUME TypeOK, RouteKey PROVE TypeOK'
<1>1. KeyEvent(captured + 1, focus_epoch) \in InputEvents
  BY KeyType DEF TypeOK
<1>2. position \in Nat /\ captured' \in Nat
  BY DEF TypeOK, RouteKey, Positions
<1> QED
  BY <1>1, <1>2, RouteEventType DEF RouteKey

LEMMA RouteMotionType == ASSUME TypeOK, NEW to \in Nat, RouteMotion(to) PROVE TypeOK'
<1>1. MotionEvent(focus_epoch) \in InputEvents /\ captured' \in Nat
  BY MotionType DEF TypeOK, RouteMotion
<1> QED
  BY <1>1, RouteEventType DEF RouteMotion

LEMMA PeerType ==
  ASSUME TypeOK, NEW p \in Agents,
         ResetPeer(p) \/ (\E through \in Nat : Acknowledge(p, through))
  PROVE  TypeOK'
<1>1. CASE ResetPeer(p)
  <2>1. CASE Fail("UnknownPeer")
    BY <2>1 DEF Fail, TypeOK, focusState, deliveries, Errors
  <2>2. CASE /\ last_sent' = [last_sent EXCEPT ![p] = 0]
             /\ last_acknowledged' = [last_acknowledged EXCEPT ![p] = 0]
             /\ pending' = [pending EXCEPT ![p] = {}]
             /\ UNCHANGED <<screens, focusState, buffer, captured, outbox, release, error>>
    BY <2>2 DEF TypeOK, focusState
  <2> QED
    BY <1>1, <2>1, <2>2 DEF ResetPeer
<1>2. ASSUME NEW through \in Nat, Acknowledge(p, through) PROVE TypeOK'
  <2>1. ASSUME NEW reason \in Errors, Fail(reason) PROVE TypeOK'
    BY <2>1 DEF Fail, TypeOK, focusState, deliveries
  <2>2. CASE UNCHANGED vars
    BY <2>2 DEF TypeOK, vars, focusState, deliveries
  <2>3. CASE /\ last_acknowledged' = [last_acknowledged EXCEPT ![p] = through]
             /\ pending' = [pending EXCEPT ![p] = Unacknowledged(p, through)]
             /\ UNCHANGED <<screens, focusState, buffer, last_sent, captured,
                            outbox, release, error>>
    <3>1. Unacknowledged(p, through) \subseteq Nat
      BY DEF Unacknowledged, TypeOK
    <3> QED
      BY <2>3, <3>1 DEF TypeOK, focusState
  <2>4. "UnknownPeer" \in Errors /\ "AcknowledgementBeyondSent" \in Errors
    BY DEF Errors
  <2> QED
    BY <1>2, <2>1, <2>2, <2>3, <2>4 DEF Acknowledge
<1> QED
  BY <1>1, <1>2

LEMMA TakeActionsType == ASSUME TypeOK, TakeActions PROVE TypeOK'
BY NoMessagesType DEF TakeActions, TypeOK, focusState, deliveries, Messages

LEMMA ReconcileType ==
  ASSUME TypeOK, NEW next \in Topologies, ReconcileTopology(next)
  PROVE  TypeOK'
<1>1. CASE FailStranded
  BY <1>1 DEF TypeOK, FailStranded, Errors, focusState, deliveries
<1>2. CASE ~FailStranded
  <2>1. /\ screens' = next
        /\ focus' = FocusIn(next)
        /\ position' = PointerIn(next)
        /\ buffer' = IF CanSend THEN Taken ELSE buffer
        /\ RetainDeliveries(next)
        /\ Announce(Recipients(next), focus', position',
                    IF CanSend THEN buffer ELSE <<>>)
        /\ UNCHANGED <<captured, error>>
    BY <1>2 DEF ReconcileTopology
  <2>2. focus' \in DOMAIN next /\ focus' \in Nodes
    BY <2>1, TopologyFacts DEF FocusIn
  <2>3. position' \in Nat
    BY <2>1, TopologyFacts, CenterType, ClampType DEF PointerIn, TypeOK, Positions
  <2>4. (IF CanSend THEN buffer ELSE <<>>) \in Seq(InputEvents)
    BY DEF TypeOK
  <2>5. /\ focus_epoch' \in Nat
        /\ outbox' \in [Agents -> Seq(Messages)]
        /\ release' \in BOOLEAN
    BY <2>1, <2>2, <2>3, <2>4, AnnounceType
  <2>6. /\ last_sent' \in [Agents -> Nat]
        /\ last_acknowledged' \in [Agents -> Nat]
        /\ pending' \in [Agents -> SUBSET Nat]
    BY <2>1 DEF RetainDeliveries, TypeOK
  <2>7. buffer' \in Seq(InputEvents)
    BY <2>1 DEF TypeOK, Taken
  <2> QED
    BY <2>1, <2>2, <2>3, <2>5, <2>6, <2>7 DEF TypeOK, Positions, Messages
<1> QED
  BY <1>1, <1>2

-----------------------------------------------------------------------------
(* The initial state has the types, and so has every state after a call.   *)
LEMMA InitType == Init => TypeOK
<1> SUFFICES ASSUME Init PROVE TypeOK
  OBVIOUS
<1>1. Local \in DOMAIN screens /\ position \in Nat
  BY TopologyFacts, CenterType DEF Init
<1>2. /\ last_sent \in [Agents -> Nat]
      /\ last_acknowledged \in [Agents -> Nat]
      /\ pending \in [Agents -> SUBSET Nat]
  BY DEF Init
<1>3. error \in Errors /\ focus_epoch \in Nat /\ captured \in Nat /\ buffer \in Seq(InputEvents)
  BY DEF Init, Errors
<1> QED
  BY <1>1, <1>2, <1>3, NoMessagesType DEF Init, TypeOK, Positions, Messages

LEMMA BoundIsNat == MaxEpoch + MaxKeys \in Nat
BY ControllerBounds

LEMMA CallsType ==
  ASSUME TypeOK, NEW sequence \in Nat, CallsUpTo(sequence) PROVE TypeOK'
<1>1. CASE Flush
  BY <1>1, FlushType
<1>2. CASE ReturnToLocal
  BY <1>2, ReturnToLocalType
<1>3. CASE ActivateRefused \/ RouteWhileLocal
  BY <1>3, RefusalType
<1>4. CASE RouteKey
  BY <1>4, RouteKeyType
<1>5. ASSUME NEW to \in 0 .. screens[focus] - 1, RouteMotion(to) PROVE TypeOK'
  BY <1>5, RouteMotionType
<1>6. ASSUME NEW target \in Peers, NEW entry \in 0 .. screens[target] - 1,
             Activate(target, entry)
      PROVE  TypeOK'
  BY <1>6, ActivateType
<1>7. ASSUME NEW target \in DOMAIN screens, NEW entry \in 0 .. screens[target] - 1,
             RouteCrossing(target, entry)
      PROVE  TypeOK'
  BY <1>7, RouteCrossingType
<1>8. ASSUME NEW p \in Agents,
             ResetPeer(p) \/ (\E through \in 0 .. sequence : Acknowledge(p, through))
      PROVE  TypeOK'
  BY <1>8, PeerType
<1>9. CASE TakeActions
  BY <1>9, TakeActionsType
<1> QED
  BY <1>1, <1>2, <1>3, <1>4, <1>5, <1>6, <1>7, <1>8, <1>9 DEF CallsUpTo

LEMMA StutterType == ASSUME TypeOK, UNCHANGED vars PROVE TypeOK'
BY DEF TypeOK, vars, focusState, deliveries

(* Whatever sequence of calls the runtime makes, with any nodes, extents   *)
(* and batch size, every variable keeps its type and the focused node is   *)
(* on the topology (controller.rs, every method).                          *)
THEOREM TypeCorrect == Spec => []TypeOK
<1>1. TypeOK /\ [Next]_vars => TypeOK'
  BY BoundIsNat, CallsType, ReconcileType, StutterType DEF Next, Calls
<1> QED
  BY <1>1, InitType, PTL DEF Spec

-----------------------------------------------------------------------------
(* The delivery window.  It is inductive together with the types: a batch  *)
(* is counted only for a focused peer with nothing in flight.              *)

LEMMA WindowUnchanged ==
  ASSUME DeliveryWindow, UNCHANGED deliveries
  PROVE  DeliveryWindow'
BY DEF DeliveryWindow, deliveries

LEMMA CountBatchWindow ==
  ASSUME TypeOK, DeliveryWindow, focus # Local, ~InFlight(focus),
         CountBatch, UNCHANGED last_acknowledged
  PROVE  DeliveryWindow'
<1>1. focus \in Agents
  BY TopologyType DEF Agents
<1>2. last_sent[focus] = last_acknowledged[focus]
  BY <1>1 DEF DeliveryWindow, InFlight
<1>3. /\ last_sent'[focus] = last_sent[focus] + 1
      /\ pending'[focus] = {last_sent[focus] + 1}
  BY <1>1 DEF CountBatch, InFlight, TypeOK
<1>4. ASSUME NEW p \in Agents, p # focus
      PROVE  last_sent'[p] = last_sent[p] /\ pending'[p] = pending[p]
  BY <1>4 DEF CountBatch, TypeOK
<1> QED
  BY <1>1, <1>2, <1>3, <1>4 DEF DeliveryWindow

LEMMA ChangeFocusWindow ==
  ASSUME TypeOK, DeliveryWindow, NEW target, NEW entry, ChangeFocus(target, entry)
  PROVE  DeliveryWindow'
<1>1. CASE UNCHANGED deliveries
  BY <1>1, WindowUnchanged
<1>2. CASE CanSend /\ CountBatch /\ UNCHANGED last_acknowledged
  BY <1>2, CountBatchWindow DEF CanSend
<1> QED
  BY <1>1, <1>2 DEF ChangeFocus, deliveries

LEMMA RouteEventWindow ==
  ASSUME TypeOK, DeliveryWindow, NEW event, NEW to, RouteEvent(event, to)
  PROVE  DeliveryWindow'
<1>1. CASE UNCHANGED deliveries
  BY <1>1, WindowUnchanged
<1>2. CASE focus # Local /\ ~InFlight(focus) /\ CountBatch /\ UNCHANGED last_acknowledged
  BY <1>2, CountBatchWindow
<1> QED
  BY <1>1, <1>2 DEF RouteEvent

LEMMA AcknowledgeWindow ==
  ASSUME TypeOK, DeliveryWindow, NEW p \in Agents, NEW through \in Nat,
         Acknowledge(p, through)
  PROVE  DeliveryWindow'
<1>1. CASE UNCHANGED deliveries
  BY <1>1, WindowUnchanged
<1>2. CASE /\ through \in (last_acknowledged[p] + 1) .. last_sent[p]
           /\ last_acknowledged' = [last_acknowledged EXCEPT ![p] = through]
           /\ pending' = [pending EXCEPT ![p] = Unacknowledged(p, through)]
           /\ UNCHANGED last_sent
  <2>1. through = last_sent[p] /\ pending[p] = {last_sent[p]}
    BY <1>2 DEF DeliveryWindow, TypeOK
  <2>2. Unacknowledged(p, through) = {}
    BY <2>1 DEF Unacknowledged, TypeOK
  <2> QED
    BY <1>2, <2>1, <2>2 DEF DeliveryWindow, TypeOK
<1> QED
  BY <1>1, <1>2 DEF Acknowledge, Fail, vars, deliveries

LEMMA ResetPeerWindow ==
  ASSUME TypeOK, DeliveryWindow, NEW p \in Agents, ResetPeer(p)
  PROVE  DeliveryWindow'
BY ZenonT(60) DEF ResetPeer, Fail, deliveries, DeliveryWindow, TypeOK

LEMMA ReconcileWindow ==
  ASSUME TypeOK, DeliveryWindow, NEW next \in Topologies, ReconcileTopology(next)
  PROVE  DeliveryWindow'
<1>1. CASE FailStranded
  BY <1>1, WindowUnchanged DEF FailStranded
<1>2. CASE RetainDeliveries(next)
  <2>1. ASSUME NEW p \in Agents, p \in PeersOf(next), CanSend, p = focus
        PROVE  /\ last_sent'[p] = last_acknowledged'[p] + 1
               /\ pending'[p] = {last_sent'[p]}
    <3>1. pending[p] = {} /\ last_sent[p] = last_acknowledged[p]
      BY <2>1 DEF CanSend, InFlight, DeliveryWindow
    <3> QED
      BY <1>2, <2>1, <3>1 DEF RetainDeliveries
  <2>2. ASSUME NEW p \in Agents, p \in PeersOf(next), ~(CanSend /\ p = focus)
        PROVE  /\ last_sent'[p] = last_sent[p]
               /\ last_acknowledged'[p] = last_acknowledged[p]
               /\ pending'[p] = pending[p]
    BY <1>2, <2>2 DEF RetainDeliveries
  <2>3. ASSUME NEW p \in Agents, p \notin PeersOf(next)
        PROVE  last_sent'[p] = last_acknowledged'[p] /\ pending'[p] = {}
    BY <1>2, <2>3 DEF RetainDeliveries
  <2> QED
    BY <2>1, <2>2, <2>3 DEF DeliveryWindow
<1> QED
  BY <1>1, <1>2 DEF ReconcileTopology

LEMMA CallsWindow ==
  ASSUME TypeOK, DeliveryWindow, NEW sequence \in Nat, CallsUpTo(sequence)
  PROVE  DeliveryWindow'
<1>1. CASE Flush
  <2>1. CASE FailStranded
    BY <2>1, WindowUnchanged DEF FailStranded
  <2>2. CASE CanSend /\ CountBatch /\ UNCHANGED last_acknowledged
    BY <2>2, CountBatchWindow DEF CanSend
  <2> QED
    BY <1>1, <2>1, <2>2 DEF Flush
<1>2. CASE ReturnToLocal
  BY <1>2, WindowUnchanged DEF ReturnToLocal
<1>3. CASE ActivateRefused \/ RouteWhileLocal
  BY <1>3, WindowUnchanged DEF ActivateRefused, RouteWhileLocal, Fail
<1>4. CASE RouteKey
  BY <1>4, RouteEventWindow DEF RouteKey
<1>5. ASSUME NEW to \in 0 .. screens[focus] - 1, RouteMotion(to) PROVE DeliveryWindow'
  BY <1>5, RouteEventWindow DEF RouteMotion
<1>6. ASSUME NEW target \in Peers, NEW entry \in 0 .. screens[target] - 1,
             Activate(target, entry)
      PROVE  DeliveryWindow'
  BY <1>6, WindowUnchanged, ChangeFocusWindow DEF Activate, FailStranded
<1>7. ASSUME NEW target \in DOMAIN screens, NEW entry \in 0 .. screens[target] - 1,
             RouteCrossing(target, entry)
      PROVE  DeliveryWindow'
  BY <1>7, ChangeFocusWindow DEF RouteCrossing
<1>8. ASSUME NEW p \in Agents,
             ResetPeer(p) \/ (\E through \in 0 .. sequence : Acknowledge(p, through))
      PROVE  DeliveryWindow'
  BY <1>8, ResetPeerWindow, AcknowledgeWindow
<1>9. CASE TakeActions
  BY <1>9, WindowUnchanged DEF TakeActions
<1> QED
  BY <1>1, <1>2, <1>3, <1>4, <1>5, <1>6, <1>7, <1>8, <1>9 DEF CallsUpTo

(* At most one batch per peer is unacknowledged, it is the last one sent,  *)
(* and nothing unsent counts as acknowledged, for any number of peers and  *)
(* whatever is acknowledged, reset or unplaced (flush, acknowledge,        *)
(* reset_peer and reconcile_topology in controller.rs).                    *)
THEOREM DeliveryWindowHolds == Spec => []DeliveryWindow
<1>1. Init => DeliveryWindow
  BY DEF Init, DeliveryWindow
<1>2. TypeOK /\ DeliveryWindow /\ [Next]_vars => DeliveryWindow'
  <2>1. UNCHANGED vars => UNCHANGED deliveries
    BY DEF vars
  <2> QED
    BY <2>1, BoundIsNat, CallsWindow, ReconcileWindow, WindowUnchanged DEF Next, Calls
<1> QED
  BY <1>1, <1>2, TypeCorrect, PTL DEF Spec

-----------------------------------------------------------------------------
(* The pointer.                                                            *)

LEMMA PointerUnchanged ==
  ASSUME PointerOnFocusedDesktop, UNCHANGED <<screens, focus, position>>
  PROVE  PointerOnFocusedDesktop'
BY DEF PointerOnFocusedDesktop

LEMMA ChangeFocusPointer ==
  ASSUME TypeOK, PointerOnFocusedDesktop, NEW target \in DOMAIN screens, NEW entry \in Nat,
         ChangeFocus(target, entry), UNCHANGED screens
  PROVE  PointerOnFocusedDesktop'
<1>1. CASE UNCHANGED focusState
  BY <1>1, PointerUnchanged DEF focusState
<1>2. CASE focus' = target /\ position' = Clamp(entry, screens[target])
  BY <1>2, ClampType, TopologyType DEF PointerOnFocusedDesktop
<1> QED
  BY <1>1, <1>2 DEF ChangeFocus

LEMMA RouteEventPointer ==
  ASSUME PointerOnFocusedDesktop, NEW event, NEW to, RouteEvent(event, to), to < screens[focus]
  PROVE  PointerOnFocusedDesktop'
BY DEF RouteEvent, PointerOnFocusedDesktop

LEMMA ReconcilePointer ==
  ASSUME TypeOK, PointerOnFocusedDesktop, NEW next \in Topologies, ReconcileTopology(next)
  PROVE  PointerOnFocusedDesktop'
<1>1. CASE FailStranded
  BY <1>1, PointerUnchanged DEF FailStranded, focusState
<1>2. CASE screens' = next /\ focus' = FocusIn(next) /\ position' = PointerIn(next)
  <2>1. CASE focus \in DOMAIN next
    BY <1>2, <2>1, TopologyFacts, ClampType
       DEF FocusIn, PointerIn, PointerOnFocusedDesktop, TypeOK, Positions
  <2>2. CASE focus \notin DOMAIN next
    BY <1>2, <2>2, TopologyFacts, CenterType DEF FocusIn, PointerIn, PointerOnFocusedDesktop
  <2> QED
    BY <2>1, <2>2
<1> QED
  BY <1>1, <1>2 DEF ReconcileTopology

LEMMA CallsPointer ==
  ASSUME TypeOK, PointerOnFocusedDesktop, NEW sequence \in Nat, CallsUpTo(sequence)
  PROVE  PointerOnFocusedDesktop'
<1>1. CASE Flush \/ TakeActions
  BY <1>1, PointerUnchanged DEF Flush, FailStranded, TakeActions, focusState
<1>2. CASE ReturnToLocal
  BY <1>2, CenterType, TopologyType DEF ReturnToLocal, PointerOnFocusedDesktop
<1>3. CASE ActivateRefused \/ RouteWhileLocal
  BY <1>3, PointerUnchanged DEF ActivateRefused, RouteWhileLocal, Fail, focusState
<1>4. CASE RouteKey
  BY <1>4, RouteEventPointer DEF RouteKey, PointerOnFocusedDesktop
<1>5. ASSUME NEW to \in 0 .. screens[focus] - 1, RouteMotion(to)
      PROVE  PointerOnFocusedDesktop'
  BY <1>5, RouteEventPointer DEF RouteMotion
<1>6. ASSUME NEW target \in Peers, NEW entry \in 0 .. screens[target] - 1,
             Activate(target, entry)
      PROVE  PointerOnFocusedDesktop'
  <2>1. CASE FailStranded
    BY <2>1, PointerUnchanged DEF FailStranded, focusState
  <2>2. CASE ChangeFocus(target, entry) /\ UNCHANGED screens
    BY <2>2, ChangeFocusPointer, TopologyType
  <2> QED
    BY <1>6, <2>1, <2>2 DEF Activate
<1>7. ASSUME NEW target \in DOMAIN screens, NEW entry \in 0 .. screens[target] - 1,
             RouteCrossing(target, entry)
      PROVE  PointerOnFocusedDesktop'
  BY <1>7, ChangeFocusPointer DEF RouteCrossing
<1>8. ASSUME NEW p \in Agents,
             ResetPeer(p) \/ (\E through \in 0 .. sequence : Acknowledge(p, through))
      PROVE  PointerOnFocusedDesktop'
  <2>1. UNCHANGED <<screens, focus, position>>
    BY <1>8 DEF ResetPeer, Acknowledge, Fail, vars, focusState
  <2> QED
    BY <2>1, PointerUnchanged
<1> QED
  BY <1>1, <1>2, <1>3, <1>4, <1>5, <1>6, <1>7, <1>8 DEF CallsUpTo

(* The pointer stays on the focused desktop, whatever the extents and      *)
(* however the topology changes under it (activate, route_input,           *)
(* return_to_local and reconcile_topology in controller.rs).               *)
THEOREM PointerStaysOnDesktop == Spec => []PointerOnFocusedDesktop
<1>1. Init => PointerOnFocusedDesktop
  BY TopologyFacts, CenterType DEF Init, PointerOnFocusedDesktop
<1>2. TypeOK /\ PointerOnFocusedDesktop /\ [Next]_vars => PointerOnFocusedDesktop'
  <2>1. UNCHANGED vars => UNCHANGED <<screens, focus, position>>
    BY DEF vars, focusState
  <2> QED
    BY <2>1, BoundIsNat, CallsPointer, ReconcilePointer, PointerUnchanged DEF Next, Calls
<1> QED
  BY <1>1, <1>2, TypeCorrect, PTL DEF Spec

-----------------------------------------------------------------------------
(* Announcements.                                                          *)

(* An announcement advances the epoch by one and ends with the new focus   *)
(* for every recipient, whatever was flushed before it.                    *)
LEMMA AnnounceEndsWithFocus ==
  ASSUME TypeOK, NEW recipients \in SUBSET Agents, NEW target \in Nodes, NEW entry \in Nat,
         NEW events \in Seq(InputEvents), Announce(recipients, target, entry, events)
  PROVE  /\ focus_epoch' = focus_epoch + 1
         /\ \A p \in recipients :
              /\ outbox'[p] # <<>>
              /\ outbox'[p][Len(outbox'[p])] = FocusChanged(focus_epoch + 1, target, entry)
<1> DEFINE batch(p) == IF events = <<>> THEN <<>> ELSE BatchFor(p, events)
           news == FocusChanged(focus_epoch + 1, target, entry)
<1>1. ASSUME NEW p \in recipients PROVE outbox'[p] = batch(p) \o <<news>>
  BY DEF Announce, BatchFirst
<1>2. ASSUME NEW p \in recipients PROVE batch(p) \in Seq(Messages)
  BY BatchType
<1>3. news \in Messages
  BY DEF TypeOK, FocusChanged, Messages, FocusMessages, Positions
<1> HIDE DEF batch, news
<1>4. ASSUME NEW p \in recipients
      PROVE  /\ outbox'[p] # <<>>
             /\ outbox'[p][Len(outbox'[p])] = news
  <2>1. /\ Len(batch(p) \o <<news>>) = Len(batch(p)) + 1
        /\ (batch(p) \o <<news>>)[Len(batch(p)) + 1] = news
        /\ Len(batch(p)) \in Nat
    BY <1>2, <1>3
  <2>2. batch(p) \o <<news>> # <<>>
    BY <2>1
  <2> QED
    BY <1>1, <2>1, <2>2
<1>5. focus_epoch' = focus_epoch + 1
  BY DEF Announce
<1> QED
  BY <1>4, <1>5 DEF news

(* The step condition of FocusChangeIsAnnounced.                           *)
Announced ==
  /\ focus' # focus => focus_epoch' # focus_epoch
  /\ focus_epoch' # focus_epoch =>
       /\ focus_epoch' = focus_epoch + 1
       /\ \A p \in Peers \cup PeersOf(screens') :
            /\ outbox'[p] # <<>>
            /\ outbox'[p][Len(outbox'[p])] =
                 FocusChanged(focus_epoch', focus', position')

LEMMA FocusUnchanged == ASSUME UNCHANGED <<focus, focus_epoch>> PROVE Announced
BY DEF Announced

LEMMA ChangeFocusAnnounced ==
  ASSUME TypeOK, NEW target \in DOMAIN screens, NEW entry \in Nat,
         ChangeFocus(target, entry), UNCHANGED screens
  PROVE  Announced
<1>1. CASE UNCHANGED focusState
  BY <1>1, FocusUnchanged DEF focusState
<1>2. CASE /\ focus' = target
           /\ position' = Clamp(entry, screens[target])
           /\ Announce(Peers, target, position', IF CanSend THEN buffer ELSE <<>>)
  <2>1. target \in Nodes /\ position' \in Nat /\ Peers \subseteq Agents
    BY <1>2, TopologyType, TopologyFacts, ClampType DEF TypeOK, Peers
  <2>2. (IF CanSend THEN buffer ELSE <<>>) \in Seq(InputEvents)
    BY DEF TypeOK
  <2>3. Peers \cup PeersOf(screens') = Peers
    BY DEF Peers
  <2>4. /\ focus_epoch' = focus_epoch + 1
        /\ \A p \in Peers :
             /\ outbox'[p] # <<>>
             /\ outbox'[p][Len(outbox'[p])] = FocusChanged(focus_epoch + 1, target, position')
    BY <1>2, <2>1, <2>2, AnnounceEndsWithFocus
  <2>5. focus_epoch' # focus_epoch
    BY <2>4 DEF TypeOK
  <2> QED
    BY <1>2, <2>3, <2>4, <2>5 DEF Announced
<1> QED
  BY <1>1, <1>2 DEF ChangeFocus

LEMMA ReturnToLocalAnnounced == ASSUME TypeOK, ReturnToLocal PROVE Announced
<1>1. position' \in Nat /\ Local \in Nodes /\ <<>> \in Seq(InputEvents)
  BY TopologyType, CenterType, NodesAssumption DEF ReturnToLocal
<1>2. Peers \subseteq Agents /\ Peers \cup PeersOf(screens') = Peers
  BY TopologyFacts DEF TypeOK, Peers, ReturnToLocal
<1>3. Announce(Peers, Local, position', <<>>) /\ focus' = Local
  BY DEF ReturnToLocal
<1>4. /\ focus_epoch' = focus_epoch + 1
      /\ \A p \in Peers :
           /\ outbox'[p] # <<>>
           /\ outbox'[p][Len(outbox'[p])] = FocusChanged(focus_epoch + 1, Local, position')
  BY <1>1, <1>2, <1>3, AnnounceEndsWithFocus
<1>5. focus_epoch' # focus_epoch
  BY <1>4 DEF TypeOK
<1> QED
  BY <1>2, <1>3, <1>4, <1>5 DEF Announced

LEMMA ReconcileAnnounced ==
  ASSUME TypeOK, NEW next \in Topologies, ReconcileTopology(next)
  PROVE  Announced
<1>1. CASE FailStranded
  BY <1>1, FocusUnchanged DEF FailStranded, focusState
<1>2. CASE ~FailStranded
  <2>1. /\ screens' = next
        /\ focus' = FocusIn(next)
        /\ position' = PointerIn(next)
        /\ Announce(Recipients(next), focus', position',
                    IF CanSend THEN buffer ELSE <<>>)
    BY <1>2 DEF ReconcileTopology
  <2>2. focus' \in Nodes
    BY <2>1, TopologyFacts DEF FocusIn
  <2>3. position' \in Nat
    BY <2>1, TopologyFacts, CenterType, ClampType DEF PointerIn, TypeOK, Positions
  <2>4. (IF CanSend THEN buffer ELSE <<>>) \in Seq(InputEvents)
    BY DEF TypeOK
  <2>5. Recipients(next) \subseteq Agents /\ Recipients(next) = Peers \cup PeersOf(screens')
    BY <2>1, TopologyFacts DEF Recipients, TypeOK, Peers
  <2>6. /\ focus_epoch' = focus_epoch + 1
        /\ \A p \in Recipients(next) :
             /\ outbox'[p] # <<>>
             /\ outbox'[p][Len(outbox'[p])] = FocusChanged(focus_epoch + 1, focus', position')
    BY <2>1, <2>2, <2>3, <2>4, <2>5, AnnounceEndsWithFocus, ZenonT(60)
  <2>7. focus_epoch' # focus_epoch
    BY <2>6 DEF TypeOK
  <2> QED
    BY <2>5, <2>6, <2>7 DEF Announced
<1> QED
  BY <1>1, <1>2

LEMMA CallsAnnounced ==
  ASSUME TypeOK, NEW sequence \in Nat, CallsUpTo(sequence) PROVE Announced
<1>1. CASE Flush \/ TakeActions
  BY <1>1, FocusUnchanged DEF Flush, FailStranded, TakeActions, focusState
<1>2. CASE ReturnToLocal
  BY <1>2, ReturnToLocalAnnounced
<1>3. CASE ActivateRefused \/ RouteWhileLocal
  BY <1>3, FocusUnchanged DEF ActivateRefused, RouteWhileLocal, Fail, focusState
<1>4. CASE RouteKey
  BY <1>4, FocusUnchanged DEF RouteKey, RouteEvent
<1>5. ASSUME NEW to \in 0 .. screens[focus] - 1, RouteMotion(to) PROVE Announced
  BY <1>5, FocusUnchanged DEF RouteMotion, RouteEvent
<1>6. ASSUME NEW target \in Peers, NEW entry \in 0 .. screens[target] - 1,
             Activate(target, entry)
      PROVE  Announced
  <2>1. CASE FailStranded
    BY <2>1, FocusUnchanged DEF FailStranded, focusState
  <2>2. CASE ChangeFocus(target, entry) /\ UNCHANGED screens
    BY <2>2, ChangeFocusAnnounced, TopologyType
  <2> QED
    BY <1>6, <2>1, <2>2 DEF Activate
<1>7. ASSUME NEW target \in DOMAIN screens, NEW entry \in 0 .. screens[target] - 1,
             RouteCrossing(target, entry)
      PROVE  Announced
  BY <1>7, ChangeFocusAnnounced DEF RouteCrossing
<1>8. ASSUME NEW p \in Agents,
             ResetPeer(p) \/ (\E through \in 0 .. sequence : Acknowledge(p, through))
      PROVE  Announced
  BY <1>8, FocusUnchanged DEF ResetPeer, Acknowledge, Fail, vars, focusState
<1> QED
  BY <1>1, <1>2, <1>3, <1>4, <1>5, <1>6, <1>7, <1>8 DEF CallsUpTo

(* Focus never moves without a new epoch, epochs advance one by one, and   *)
(* every peer placed before or after the step is told last of all where    *)
(* focus is now (advance_epoch_and_broadcast and its callers in            *)
(* controller.rs).                                                         *)
THEOREM FocusChangesAreAnnounced == Spec => FocusChangeIsAnnounced
<1>1. TypeOK /\ [Next]_vars => [Announced]_vars
  BY BoundIsNat, CallsAnnounced, ReconcileAnnounced DEF Next, Calls
<1> QED
  BY <1>1, TypeCorrect, PTL DEF Spec, FocusChangeIsAnnounced, Announced

-----------------------------------------------------------------------------
(* Epochs and keys while the topology stays as it is.                      *)

(* The part of EventsKeepTheirEpoch about one message list, and about the  *)
(* events that wait.                                                       *)
Tagged(message) ==
  message.type = "Input" =>
    \A i \in 1 .. Len(message.events) : message.events[i].epoch = message.epoch
AllTagged(messages) == \A message \in Entries(messages) : Tagged(message)
InEpoch(events, epoch) == \A i \in 1 .. Len(events) : events[i].epoch = epoch

(* Without a focused peer nothing waits.                                   *)
NothingWaitsLocally == focus = Local => buffer = <<>>

EpochInv ==
  /\ TypeOK
  /\ NothingWaitsLocally
  /\ InEpoch(buffer, focus_epoch)
  /\ \A p \in Agents : AllTagged(outbox[p])

LEMMA EpochInvImplies == EpochInv => EventsKeepTheirEpoch
BY DEF EpochInv, EventsKeepTheirEpoch, InEpoch, AllTagged, Tagged

LEMMA BatchTagged ==
  ASSUME NEW p \in Agents, NEW events \in Seq(InputEvents), InEpoch(events, focus_epoch)
  PROVE  AllTagged(BatchFor(p, events))
<1>1. Tagged(InputBatch(focus_epoch, last_sent[p] + 1, events))
  BY DEF Tagged, InputBatch, InEpoch
<1>2. CASE p = focus
  <2>1. Entries(BatchFor(p, events)) = {InputBatch(focus_epoch, last_sent[p] + 1, events)}
    BY <1>2 DEF Entries, BatchFor
  <2> QED
    BY <1>1, <2>1 DEF AllTagged
<1>3. CASE p # focus
  BY <1>3 DEF Entries, BatchFor, AllTagged
<1> QED
  BY <1>2, <1>3

(* An announcement carries no event out of its epoch, and its own message  *)
(* carries none at all.                                                    *)
LEMMA AnnounceTagged ==
  ASSUME TypeOK, NEW recipients \in SUBSET Agents, NEW target \in Nodes, NEW entry \in Nat,
         NEW events \in Seq(InputEvents), InEpoch(events, focus_epoch),
         Announce(recipients, target, entry, events)
  PROVE  \A p \in Agents : AllTagged(outbox'[p])
<1> DEFINE batch(p) == IF events = <<>> THEN <<>> ELSE BatchFor(p, events)
           news(p) == IF p \in recipients
                      THEN <<FocusChanged(focus_epoch + 1, target, entry)>> ELSE <<>>
<1>1. ASSUME NEW p \in Agents PROVE outbox'[p] = batch(p) \o news(p)
  BY DEF Announce, BatchFirst
<1>2. ASSUME NEW p \in Agents PROVE batch(p) \in Seq(Messages) /\ AllTagged(batch(p))
  BY BatchType, BatchTagged DEF AllTagged, Entries
<1>3. FocusChanged(focus_epoch + 1, target, entry) \in Messages
  BY DEF TypeOK, FocusChanged, Messages, FocusMessages, Positions
<1>4. Tagged(FocusChanged(focus_epoch + 1, target, entry))
  BY DEF Tagged, FocusChanged
<1>5. ASSUME NEW p \in Agents PROVE news(p) \in Seq(Messages) /\ AllTagged(news(p))
  BY <1>3, <1>4 DEF AllTagged, Entries
<1> HIDE DEF batch, news
<1>6. ASSUME NEW p \in Agents PROVE AllTagged(batch(p) \o news(p))
  <2>1. Entries(batch(p) \o news(p)) \subseteq Entries(batch(p)) \cup Entries(news(p))
    BY <1>2, <1>5, SMTT(60) DEF Entries
  <2> QED
    BY <1>2, <1>5, <2>1 DEF AllTagged
<1> QED
  BY <1>1, <1>6

LEMMA EpochUnchanged ==
  ASSUME EpochInv, TypeOK', UNCHANGED <<focus, focus_epoch, buffer, outbox>>
  PROVE  EpochInv'
BY DEF EpochInv, NothingWaitsLocally, InEpoch, AllTagged

LEMMA ChangeFocusEpoch ==
  ASSUME EpochInv, TypeOK', NEW target \in DOMAIN screens, NEW entry \in Nat,
         ChangeFocus(target, entry)
  PROVE  EpochInv'
<1>1. CASE UNCHANGED <<focusState, buffer, deliveries, outbox, release>>
  BY <1>1, EpochUnchanged DEF focusState
<1>2. CASE /\ ~MustWait
           /\ buffer' = IF CanSend THEN Taken ELSE buffer
           /\ position' = Clamp(entry, screens[target])
           /\ Announce(Peers, target, position', IF CanSend THEN buffer ELSE <<>>)
  <2>1. buffer' = <<>>
    BY <1>2 DEF MustWait, Taken
  <2>2. target \in Nodes /\ position' \in Nat /\ Peers \in SUBSET Agents
    BY <1>2, TopologyType, TopologyFacts, ClampType DEF EpochInv, TypeOK, Peers
  <2>3. /\ (IF CanSend THEN buffer ELSE <<>>) \in Seq(InputEvents)
        /\ InEpoch(IF CanSend THEN buffer ELSE <<>>, focus_epoch)
    BY DEF EpochInv, TypeOK, InEpoch
  <2>4. \A p \in Agents : AllTagged(outbox'[p])
    BY <1>2, <2>2, <2>3, AnnounceTagged DEF EpochInv
  <2> QED
    BY <2>1, <2>4 DEF EpochInv, NothingWaitsLocally, InEpoch
<1> QED
  BY <1>1, <1>2 DEF ChangeFocus

LEMMA PushEpoch ==
  ASSUME TypeOK, NEW event \in InputEvents, event.epoch = focus_epoch,
         InEpoch(buffer, focus_epoch)
  PROVE  InEpoch(Push(event), focus_epoch)
<1>1. CASE CanCoalesce(event)
  BY <1>1 DEF Push
<1>2. CASE ~CanCoalesce(event)
  <2>1. /\ Len(Append(buffer, event)) = Len(buffer) + 1
        /\ \A i \in 1 .. Len(buffer) + 1 :
             Append(buffer, event)[i] = IF i = Len(buffer) + 1 THEN event ELSE buffer[i]
        /\ Len(buffer) \in Nat
    BY DEF TypeOK
  <2> QED
    BY <1>2, <2>1 DEF Push, InEpoch
<1> QED
  BY <1>1, <1>2

LEMMA RouteEventEpoch ==
  ASSUME EpochInv, TypeOK', NEW event \in InputEvents, event.epoch = focus_epoch, NEW to,
         RouteEvent(event, to)
  PROVE  EpochInv'
<1>1. /\ Push(event) \in Seq(InputEvents) /\ InEpoch(Push(event), focus_epoch)
      /\ buffer \in Seq(InputEvents) /\ InEpoch(buffer, focus_epoch)
  BY PushType, PushEpoch DEF EpochInv, TypeOK
<1>2. InEpoch(<<event>>, focus_epoch) /\ InEpoch(<<>>, focus_epoch)
  BY DEF InEpoch
<1>3. InEpoch(buffer', focus_epoch)
  BY <1>1, <1>2 DEF RouteEvent
<1>4. \A p \in Agents : AllTagged(outbox'[p])
  <2>1. CASE outbox' = outbox
    BY <2>1 DEF EpochInv
  <2>2. CASE outbox' = [p \in Agents |-> BatchFor(p, buffer)]
    BY <1>1, <2>2, BatchTagged
  <2>3. CASE outbox' = [p \in Agents |-> BatchFor(p, Push(event))]
    BY <1>1, <2>3, BatchTagged
  <2> QED
    BY <2>1, <2>2, <2>3 DEF RouteEvent
<1> QED
  BY <1>3, <1>4 DEF EpochInv, RouteEvent, NothingWaitsLocally

LEMMA FlushEpoch == ASSUME EpochInv, TypeOK', Flush PROVE EpochInv'
<1>1. ~FailStranded
  BY DEF EpochInv, NothingWaitsLocally, FailStranded, Stranded
<1>2. /\ buffer' = <<>>
      /\ outbox' = [p \in Agents |-> BatchFor(p, buffer)]
      /\ UNCHANGED <<focus, focus_epoch>>
  BY <1>1 DEF Flush, Taken, focusState
<1>3. \A p \in Agents : AllTagged(outbox'[p])
  BY <1>2, BatchTagged DEF EpochInv, TypeOK
<1> QED
  BY <1>2, <1>3 DEF EpochInv, NothingWaitsLocally, InEpoch

LEMMA ReturnToLocalEpoch == ASSUME EpochInv, TypeOK', ReturnToLocal PROVE EpochInv'
<1>1. position' \in Nat /\ Local \in Nodes /\ <<>> \in Seq(InputEvents)
  BY TopologyType, CenterType, NodesAssumption DEF EpochInv, ReturnToLocal
<1>2. Peers \in SUBSET Agents /\ InEpoch(<<>>, focus_epoch)
  BY TopologyFacts DEF EpochInv, TypeOK, Peers, InEpoch
<1>3. Announce(Peers, Local, position', <<>>)
  BY DEF ReturnToLocal
<1>4. \A p \in Agents : AllTagged(outbox'[p])
  BY <1>1, <1>2, <1>3, AnnounceTagged DEF EpochInv
<1> QED
  BY <1>4 DEF EpochInv, NothingWaitsLocally, InEpoch, ReturnToLocal

LEMMA CallsEpoch ==
  ASSUME EpochInv, TypeOK', NEW sequence \in Nat, CallsUpTo(sequence) PROVE EpochInv'
<1>1. CASE Flush
  BY <1>1, FlushEpoch
<1>2. CASE ReturnToLocal
  BY <1>2, ReturnToLocalEpoch
<1>3. CASE ActivateRefused \/ RouteWhileLocal
  BY <1>3, EpochUnchanged DEF ActivateRefused, RouteWhileLocal, Fail, focusState
<1>4. CASE RouteKey
  <2>1. /\ KeyEvent(captured + 1, focus_epoch) \in InputEvents
        /\ KeyEvent(captured + 1, focus_epoch).epoch = focus_epoch
    BY KeyType DEF EpochInv, TypeOK, KeyEvent
  <2> QED
    BY <1>4, <2>1, RouteEventEpoch DEF RouteKey
<1>5. ASSUME NEW to \in 0 .. screens[focus] - 1, RouteMotion(to) PROVE EpochInv'
  <2>1. /\ MotionEvent(focus_epoch) \in InputEvents
        /\ MotionEvent(focus_epoch).epoch = focus_epoch
    BY MotionType DEF EpochInv, TypeOK, MotionEvent
  <2> QED
    BY <1>5, <2>1, RouteEventEpoch DEF RouteMotion
<1>6. ASSUME NEW target \in Peers, NEW entry \in 0 .. screens[target] - 1,
             Activate(target, entry)
      PROVE  EpochInv'
  <2>1. ChangeFocus(target, entry)
    BY <1>6 DEF Activate, FailStranded, Stranded, EpochInv, NothingWaitsLocally
  <2>2. target \in DOMAIN screens /\ entry \in Nat
    BY TopologyType DEF EpochInv
  <2> QED
    BY <2>1, <2>2, ChangeFocusEpoch
<1>7. ASSUME NEW target \in DOMAIN screens, NEW entry \in 0 .. screens[target] - 1,
             RouteCrossing(target, entry)
      PROVE  EpochInv'
  BY <1>7, ChangeFocusEpoch DEF RouteCrossing
<1>8. ASSUME NEW p \in Agents,
             ResetPeer(p) \/ (\E through \in 0 .. sequence : Acknowledge(p, through))
      PROVE  EpochInv'
  <2>1. UNCHANGED <<focus, focus_epoch, buffer, outbox>>
    BY <1>8 DEF ResetPeer, Acknowledge, Fail, vars, focusState
  <2> QED
    BY <2>1, EpochUnchanged
<1>9. CASE TakeActions
  BY <1>9 DEF TakeActions, NoMessages, EpochInv, NothingWaitsLocally, InEpoch, AllTagged,
              Entries, focusState
<1> QED
  BY <1>1, <1>2, <1>3, <1>4, <1>5, <1>6, <1>7, <1>8, <1>9 DEF CallsUpTo

(* The strengthened invariant holds while the topology stays as it is.     *)
LEMMA EpochInvHolds == FixedTopologySpec => []EpochInv
<1>1. Init => EpochInv
  <2> SUFFICES ASSUME Init PROVE EpochInv
    OBVIOUS
  <2>1. TypeOK
    BY InitType
  <2>2. buffer = <<>> /\ \A p \in Agents : outbox[p] = <<>>
    BY DEF Init, NoMessages
  <2> QED
    BY <2>1, <2>2 DEF EpochInv, NothingWaitsLocally, InEpoch, AllTagged, Entries
<1>2. EpochInv /\ [Calls]_vars => EpochInv'
  <2>1. EpochInv /\ Calls => EpochInv'
    BY BoundIsNat, CallsType, CallsEpoch DEF EpochInv, Calls
  <2>2. EpochInv /\ UNCHANGED vars => EpochInv'
    BY StutterType, EpochUnchanged DEF EpochInv, vars, focusState
  <2> QED
    BY <2>1, <2>2
<1> QED
  BY <1>1, <1>2, PTL DEF FixedTopologySpec

(* While no desktop and no configuration changes, a batch carries only     *)
(* events of its own epoch and the events that wait are of the current one *)
(* (change_focus flushes before it advances the epoch, and gives up when   *)
(* events stay behind).                                                    *)
THEOREM EventsKeepEpoch == FixedTopologySpec => []EventsKeepTheirEpoch
BY EpochInvHolds, EpochInvImplies, PTL

(* The step condition of KeysAreNeverDropped.                              *)
SentToFocus(event) ==
  /\ focus # Local
  /\ outbox'[focus] # <<>>
  /\ outbox'[focus][1].type = "Input"
  /\ event \in Entries(outbox'[focus][1].events)

KeysKept ==
  \A i \in 1 .. Len(buffer) :
    \/ buffer[i].key = Motion
    \/ buffer[i] \in Entries(buffer')
    \/ focus # Local /\ focus' = Local
    \/ SentToFocus(buffer[i])

LEMMA BufferKept == ASSUME UNCHANGED buffer PROVE KeysKept
BY DEF KeysKept, Entries

LEMMA NothingToKeep == ASSUME buffer = <<>> PROVE KeysKept
BY DEF KeysKept

(* A batch of `events` carries them all, whatever follows it.              *)
LEMMA BatchCarries ==
  ASSUME TypeOK, focus # Local, NEW events \in Seq(InputEvents), NEW rest \in Seq(Messages),
         outbox'[focus] = BatchFor(focus, events) \o rest,
         NEW event \in Entries(events)
  PROVE  SentToFocus(event)
<1> DEFINE batch == InputBatch(focus_epoch, last_sent[focus] + 1, events)
<1>1. focus \in Agents
  BY TopologyType DEF Agents
<1>2. batch \in Messages
  BY <1>1 DEF TypeOK, InputBatch, Messages, InputMessages
<1>3. batch.type = "Input" /\ batch.events = events
  BY DEF InputBatch
<1>4. outbox'[focus] = <<batch>> \o rest
  BY DEF BatchFor
<1> HIDE DEF batch
<1>5. /\ (<<batch>> \o rest)[1] = batch
      /\ Len(<<batch>> \o rest) = 1 + Len(rest)
      /\ Len(rest) \in Nat
  BY <1>2
<1>6. <<batch>> \o rest # <<>>
  BY <1>5
<1> QED
  BY <1>3, <1>4, <1>5, <1>6 DEF SentToFocus

LEMMA BatchAlone ==
  ASSUME TypeOK, focus # Local, NEW events \in Seq(InputEvents),
         outbox'[focus] = BatchFor(focus, events), NEW event \in Entries(events)
  PROVE  SentToFocus(event)
<1>1. BatchFor(focus, events) \o <<>> = BatchFor(focus, events) /\ <<>> \in Seq(Messages)
  <2>1. focus \in Agents
    BY TopologyType DEF Agents
  <2> QED
    BY <2>1, BatchType
<1> QED
  BY <1>1, BatchCarries

LEMMA ChangeFocusKeys ==
  ASSUME EpochInv, NEW target \in DOMAIN screens, NEW entry \in Nat, ChangeFocus(target, entry)
  PROVE  KeysKept
<1>1. CASE UNCHANGED buffer
  BY <1>1, BufferKept
<1>2. CASE /\ CanSend
           /\ position' = Clamp(entry, screens[target])
           /\ Announce(Peers, target, position', IF CanSend THEN buffer ELSE <<>>)
  <2> DEFINE news == IF focus \in Peers
                     THEN <<FocusChanged(focus_epoch + 1, target, position')>> ELSE <<>>
  <2>1. focus # Local /\ focus \in Agents /\ buffer # <<>> /\ buffer \in Seq(InputEvents)
    BY <1>2, TopologyType DEF CanSend, EpochInv, TypeOK, Agents
  <2>2. target \in Nodes /\ position' \in Nat
    BY <1>2, TopologyType, ClampType DEF EpochInv
  <2>3. news \in Seq(Messages)
    <3>1. FocusChanged(focus_epoch + 1, target, position') \in Messages
      BY <2>2 DEF EpochInv, TypeOK, FocusChanged, Messages, FocusMessages, Positions
    <3> QED
      BY <3>1
  <2>4. outbox'[focus] = BatchFor(focus, buffer) \o news
    BY <1>2, <2>1 DEF Announce, BatchFirst
  <2> HIDE DEF news
  <2>5. \A event \in Entries(buffer) : SentToFocus(event)
    BY <2>1, <2>3, <2>4, BatchCarries DEF EpochInv
  <2> QED
    BY <2>5 DEF KeysKept, Entries
<1> QED
  BY <1>1, <1>2 DEF ChangeFocus, MustWait

(* An event pushed leaves every waiting key in the buffer.                 *)
LEMMA PushKeeps ==
  ASSUME TypeOK, NEW event \in InputEvents
  PROVE  \A i \in 1 .. Len(buffer) : buffer[i] \in Entries(Push(event))
<1>1. CASE CanCoalesce(event)
  BY <1>1 DEF Push, Entries
<1>2. CASE ~CanCoalesce(event)
  <2>1. /\ Len(Append(buffer, event)) = Len(buffer) + 1
        /\ \A i \in 1 .. Len(buffer) : Append(buffer, event)[i] = buffer[i]
        /\ Len(buffer) \in Nat
    BY DEF TypeOK
  <2> QED
    BY <1>2, <2>1 DEF Push, Entries
<1> QED
  BY <1>1, <1>2

LEMMA RouteEventKeys ==
  ASSUME EpochInv, NEW event \in InputEvents, NEW to, RouteEvent(event, to)
  PROVE  KeysKept
<1>1. focus # Local /\ focus \in Agents /\ TypeOK
      /\ buffer \in Seq(InputEvents) /\ Push(event) \in Seq(InputEvents)
  BY TopologyType, PushType DEF RouteEvent, EpochInv, TypeOK, Agents
<1>2. CASE UNCHANGED buffer
  BY <1>2, BufferKept
<1>3. CASE outbox' = [p \in Agents |-> BatchFor(p, buffer)]
  <2>1. \A waiting \in Entries(buffer) : SentToFocus(waiting)
    BY <1>1, <1>3, BatchAlone
  <2> QED
    BY <2>1 DEF KeysKept, Entries
<1>4. CASE outbox' = [p \in Agents |-> BatchFor(p, Push(event))]
  <2>1. \A waiting \in Entries(Push(event)) : SentToFocus(waiting)
    BY <1>1, <1>4, BatchAlone
  <2> QED
    BY <1>1, <2>1, PushKeeps DEF KeysKept
<1>5. CASE buffer' = Push(event)
  BY <1>1, <1>5, PushKeeps DEF KeysKept
<1> QED
  BY <1>2, <1>3, <1>4, <1>5 DEF RouteEvent

LEMMA CallsKeys ==
  ASSUME EpochInv, NEW sequence \in Nat, CallsUpTo(sequence) PROVE KeysKept
<1>1. CASE Flush
  <2>1. ~FailStranded
    BY DEF EpochInv, NothingWaitsLocally, FailStranded, Stranded
  <2>2. CanSend /\ outbox' = [p \in Agents |-> BatchFor(p, buffer)]
    BY <1>1, <2>1 DEF Flush
  <2>3. focus # Local /\ focus \in Agents /\ buffer \in Seq(InputEvents) /\ TypeOK
    BY <2>2, TopologyType DEF CanSend, EpochInv, TypeOK, Agents
  <2>4. \A waiting \in Entries(buffer) : SentToFocus(waiting)
    BY <2>2, <2>3, BatchAlone
  <2> QED
    BY <2>4 DEF KeysKept, Entries
<1>2. CASE ReturnToLocal
  BY <1>2 DEF ReturnToLocal, KeysKept
<1>3. CASE ActivateRefused \/ RouteWhileLocal
  BY <1>3, BufferKept DEF ActivateRefused, RouteWhileLocal, Fail
<1>4. CASE RouteKey
  BY <1>4, KeyType, RouteEventKeys DEF RouteKey, EpochInv, TypeOK
<1>5. ASSUME NEW to \in 0 .. screens[focus] - 1, RouteMotion(to) PROVE KeysKept
  BY <1>5, MotionType, RouteEventKeys DEF RouteMotion, EpochInv, TypeOK
<1>6. ASSUME NEW target \in Peers, NEW entry \in 0 .. screens[target] - 1,
             Activate(target, entry)
      PROVE  KeysKept
  BY <1>6, NothingToKeep DEF Activate, EpochInv, NothingWaitsLocally
<1>7. ASSUME NEW target \in DOMAIN screens, NEW entry \in 0 .. screens[target] - 1,
             RouteCrossing(target, entry)
      PROVE  KeysKept
  BY <1>7, ChangeFocusKeys DEF RouteCrossing
<1>8. ASSUME NEW p \in Agents,
             ResetPeer(p) \/ (\E through \in 0 .. sequence : Acknowledge(p, through))
      PROVE  KeysKept
  BY <1>8, BufferKept DEF ResetPeer, Acknowledge, Fail, vars
<1>9. CASE TakeActions
  BY <1>9, BufferKept DEF TakeActions
<1> QED
  BY <1>1, <1>2, <1>3, <1>4, <1>5, <1>6, <1>7, <1>8, <1>9 DEF CallsUpTo

(* While no desktop and no configuration changes, a waiting key leaves the *)
(* buffer only in a batch to the focused peer or for a return to local     *)
(* control ("Key and button transitions are never dropped"; flush,         *)
(* route_input and change_focus in controller.rs).                         *)
THEOREM KeysAreKept == FixedTopologySpec => KeysAreNeverDropped
<1>1. EpochInv /\ [Calls]_vars => [KeysKept]_vars
  BY BoundIsNat, CallsKeys DEF Calls
<1> QED
  BY <1>1, EpochInvHolds, PTL
     DEF FixedTopologySpec, KeysAreNeverDropped, KeysKept, SentToFocus


-----------------------------------------------------------------------------
(* Queues.                                                                 *)

LEMMA EmptyQueue == ASSUME NEW S PROVE <<>> \in Seq(S) /\ Entries(<<>>) = {}
BY DEF Entries

LEMMA AppendQueue ==
  ASSUME NEW S, NEW q \in Seq(S), NEW m \in S
  PROVE  /\ Append(q, m) \in Seq(S) /\ Append(q, m) # <<>>
         /\ Entries(Append(q, m)) = Entries(q) \cup {m}
         /\ Len(Append(q, m)) = Len(q) + 1 /\ Len(q) \in Nat
         /\ \A i \in 1 .. Len(q) : Append(q, m)[i] = q[i]
         /\ Append(q, m)[Len(q) + 1] = m
<1>1. /\ Append(q, m) \in Seq(S)
      /\ Len(Append(q, m)) = Len(q) + 1 /\ Len(q) \in Nat
      /\ \A i \in 1 .. Len(q) : Append(q, m)[i] = q[i]
      /\ Append(q, m)[Len(q) + 1] = m
  OBVIOUS
<1>2. 1 .. Len(q) + 1 = (1 .. Len(q)) \cup {Len(q) + 1}
  BY <1>1
<1>3. Entries(Append(q, m)) = Entries(q) \cup {m}
  BY <1>1, <1>2 DEF Entries
<1>4. Append(q, m) # <<>>
  BY <1>1
<1> QED
  BY <1>1, <1>3, <1>4

LEMMA TailQueue ==
  ASSUME NEW S, NEW q \in Seq(S), q # <<>>
  PROVE  /\ Tail(q) \in Seq(S) /\ Head(q) \in S
         /\ Entries(q) = Entries(Tail(q)) \cup {Head(q)}
         /\ Len(q) \in Nat /\ Len(q) >= 1 /\ Len(Tail(q)) = Len(q) - 1
         /\ Head(q) = q[1]
         /\ \A i \in 1 .. Len(q) - 1 : Tail(q)[i] = q[i + 1]
<1>1. /\ Tail(q) \in Seq(S) /\ Head(q) \in S
      /\ Len(q) \in Nat /\ Len(q) >= 1 /\ Len(Tail(q)) = Len(q) - 1
      /\ Head(q) = q[1]
      /\ \A i \in 1 .. Len(q) - 1 : Tail(q)[i] = q[i + 1]
  OBVIOUS
<1>2. Entries(Tail(q)) \cup {Head(q)} \subseteq Entries(q)
  BY <1>1 DEF Entries
<1>3. ASSUME NEW i \in 1 .. Len(q) PROVE q[i] \in Entries(Tail(q)) \cup {Head(q)}
  <2>1. CASE i = 1
    BY <1>1, <2>1
  <2>2. CASE i # 1
    <3>1. i - 1 \in 1 .. Len(Tail(q)) /\ Tail(q)[i - 1] = q[i]
      BY <1>1, <2>2
    <3> QED
      BY <3>1 DEF Entries
  <2> QED
    BY <2>1, <2>2
<1> QED
  BY <1>1, <1>2, <1>3 DEF Entries

LEMMA JoinQueues ==
  ASSUME NEW S, NEW p \in Seq(S), NEW q \in Seq(S)
  PROVE  /\ p \o q \in Seq(S)
         /\ Entries(p \o q) = Entries(p) \cup Entries(q)
         /\ Len(p \o q) = Len(p) + Len(q) /\ Len(p) \in Nat /\ Len(q) \in Nat
         /\ \A i \in 1 .. Len(p) + Len(q) :
              (p \o q)[i] = IF i <= Len(p) THEN p[i] ELSE q[i - Len(p)]
<1>1. /\ p \o q \in Seq(S)
      /\ Len(p \o q) = Len(p) + Len(q) /\ Len(p) \in Nat /\ Len(q) \in Nat
      /\ \A i \in 1 .. Len(p) + Len(q) :
           (p \o q)[i] = IF i <= Len(p) THEN p[i] ELSE q[i - Len(p)]
  OBVIOUS
<1>2. Entries(p \o q) \subseteq Entries(p) \cup Entries(q)
  BY <1>1 DEF Entries
<1>3. Entries(p) \subseteq Entries(p \o q)
  <2>1. ASSUME NEW i \in 1 .. Len(p) PROVE p[i] \in Entries(p \o q)
    <3>1. i \in 1 .. Len(p \o q) /\ (p \o q)[i] = p[i]
      BY <1>1
    <3> QED
      BY <3>1 DEF Entries
  <2> QED
    BY <2>1 DEF Entries
<1>4. Entries(q) \subseteq Entries(p \o q)
  <2>1. ASSUME NEW i \in 1 .. Len(q) PROVE q[i] \in Entries(p \o q)
    <3>1. Len(p) + i \in 1 .. Len(p \o q) /\ (p \o q)[Len(p) + i] = q[i]
      BY <1>1
    <3> QED
      BY <3>1 DEF Entries
  <2> QED
    BY <2>1 DEF Entries
<1> QED
  BY <1>1, <1>2, <1>3, <1>4

LEMMA PrefixQueue ==
  ASSUME NEW S, NEW q \in Seq(S), NEW kept \in Prefixes(q)
  PROVE  /\ kept \in Seq(S)
         /\ Entries(kept) \subseteq Entries(q)
         /\ Len(kept) \in Nat /\ Len(q) \in Nat /\ Len(kept) <= Len(q)
         /\ \A i \in 1 .. Len(kept) : kept[i] = q[i]
<1>1. PICK n \in 0 .. Len(q) : kept = SubSeq(q, 1, n)
  BY DEF Prefixes
<1>2. /\ kept \in Seq(S) /\ Len(kept) = n
      /\ Len(kept) \in Nat /\ Len(q) \in Nat /\ Len(kept) <= Len(q)
      /\ \A i \in 1 .. Len(kept) : kept[i] = q[i]
  BY <1>1
<1> QED
  BY <1>2 DEF Entries

(* A queue among others.                                                   *)
LEMMA PutQueue ==
  ASSUME NEW S, NEW K, NEW queues \in [K -> Seq(S)], NEW key \in K, NEW m \in S
  PROVE  /\ Put(queues, key, m) \in [K -> Seq(S)]
         /\ Put(queues, key, m)[key] = Append(queues[key], m)
         /\ \A other \in K : other # key => Put(queues, key, m)[other] = queues[other]
BY DEF Put

LEMMA PopQueue ==
  ASSUME NEW S, NEW K, NEW queues \in [K -> Seq(S)], NEW key \in K, queues[key] # <<>>
  PROVE  /\ Pop(queues, key) \in [K -> Seq(S)]
         /\ Pop(queues, key)[key] = Tail(queues[key])
         /\ \A other \in K : other # key => Pop(queues, key)[other] = queues[other]
         /\ Head(queues[key]) \in S
BY DEF Pop

-----------------------------------------------------------------------------
(* Types.                                                                  *)

Batch == [epoch : Nat, sequence : Nat, events : Seq(InputEvents)]

Action ==
  {ReleaseAllInput, FocusEntered}
    \cup [type : {"ApplyInput"}, batch : Batch]
    \cup [type : {"Send"}, through : Nat]

Command ==
  [type : {"BeginSession"}, generation : Sessions]
    \cup [type : {"ApplyBatch"}, generation : Sessions, batch : Batch]
    \cup [type : {"ReleaseAll"}, generation : Sessions]

NativeEvent ==
  [type : {"Applied"}, generation : Sessions, sequence : Nat]
    \cup [type : {"DesktopChanged"}, size : Sizes]

DownMessage == Messages \cup {Disconnected}

UpMessage ==
  [type : {"InputAcknowledged"}, through : Nat]
    \cup [type : {"DisplayChanged"}, size : Sizes]
    \cup {Disconnected}

(* The controller's session, whatever ended it.                            *)
SessionType ==
  /\ screens \in Topologies /\ DOMAIN screens = Nodes
  /\ focus \in Nodes
  /\ focus_epoch \in Nat
  /\ position \in Positions
  /\ buffer \in Seq(InputEvents)
  /\ last_sent \in [Agents -> Nat]
  /\ last_acknowledged \in [Agents -> Nat]
  /\ pending \in [Agents -> SUBSET Nat]
  /\ captured \in Nat
  /\ outbox \in [Agents -> Seq(Messages)]
  /\ release \in BOOLEAN
  /\ error \in Errors \cup {"OutboundQueue"}

AgentType ==
  /\ display_size \in [Agents -> Sizes]
  /\ highest_focus_epoch \in [Agents -> Nat]
  /\ active_focus_epoch \in [Agents -> Nat \cup {None}]
  /\ last_focus \in [Agents -> FocusStates]
  /\ last_applied_sequence \in [Agents -> Nat]
  /\ pending_batch \in [Agents -> Batch]
  /\ closed \in [Agents -> BOOLEAN]
  /\ actions \in [Agents -> Seq(Action)]
  /\ agent_error = [a \in Agents |-> agent_error[a]]
  /\ connection \in [Agents -> Sessions \cup {NoSession}]
  /\ application_pending \in [Agents -> BOOLEAN]
  /\ reporting \in [Agents -> BOOLEAN]

(* What a session returned waits only while there is a connection.         *)
ActionsNeedConnection ==
  \A a \in Agents : actions[a] # <<>> \/ reporting[a] => connection[a] # NoSession

NativeType ==
  /\ commands \in [Agents -> Seq(Command)]
  /\ native_events \in [Agents -> Seq(NativeEvent)]
  /\ active_generation \in [Agents -> Sessions \cup {NoSession}]
  /\ held \in [Agents -> SUBSET InputEvents]
  /\ injected \in [Agents -> Seq(InputEvents)]
  /\ applied \in [Sessions -> Nat]

ConnectionType ==
  /\ peers \in [Agents -> Sessions \cup {NoSession}]
  /\ opened \in 0 .. MaxSessions
  /\ owner \in [Sessions -> Nodes]
  /\ alive \in [Sessions -> BOOLEAN]
  /\ worker \in [Sessions -> {"none", "running", "ended"}]
  /\ down \in [Sessions -> Seq(DownMessage)]
  /\ up \in [Sessions -> Seq(UpMessage)]

(* A connection belongs to the agent that opened it.                       *)
OpenedByAgents ==
  /\ \A s \in Sessions : owner[s] \in Agents <=> s <= opened
  /\ \A s \in Sessions : s > opened => ~alive[s] /\ worker[s] = "none" /\ up[s] = <<>>

FocusType == focused_in \in [0 .. MaxEpoch -> Nodes]

PathType ==
  /\ SessionType
  /\ AgentType
  /\ ActionsNeedConnection
  /\ NativeType
  /\ ConnectionType
  /\ OpenedByAgents
  /\ FocusType

(* What a step of the path does to the controller's session.               *)
SessionStep ==
  \/ error = "none" /\ \E sequence \in Nat : CallsUpTo(sequence)
  \/ \E next \in Topologies : DOMAIN next = Nodes /\ ReconcileTopology(next)
  \/ Fail("OutboundQueue")
  \/ UNCHANGED vars

LEMMA PeersAreAgents == ASSUME SessionType PROVE Peers = Agents
BY DEF SessionType, Peers, PeersOf, Agents

LEMMA OpenSession == ASSUME SessionType, error = "none" PROVE TypeOK
BY DEF SessionType, TypeOK, Errors, Messages

LEMMA SteppedSession == ASSUME TypeOK', DOMAIN screens' = Nodes PROVE SessionType'
BY DEF SessionType, TypeOK, Messages

LEMMA CallKeepsTopology ==
  ASSUME NEW sequence \in Nat, CallsUpTo(sequence) PROVE screens' = screens
<1>1. CASE Flush \/ ReturnToLocal \/ ActivateRefused \/ RouteWhileLocal \/ TakeActions
  BY <1>1 DEF Flush, FailStranded, ReturnToLocal, ActivateRefused, RouteWhileLocal,
              TakeActions, Fail
<1>2. CASE RouteKey \/ \E to \in 0 .. screens[focus] - 1 : RouteMotion(to)
  BY <1>2 DEF RouteKey, RouteMotion, RouteEvent
<1>3. ASSUME NEW target, NEW entry, Activate(target, entry) \/ RouteCrossing(target, entry)
      PROVE  screens' = screens
  BY <1>3 DEF Activate, RouteCrossing, FailStranded
<1>4. ASSUME NEW p \in Agents, NEW through, ResetPeer(p) \/ Acknowledge(p, through)
      PROVE  screens' = screens
  BY <1>4 DEF ResetPeer, Acknowledge, Fail, vars
<1> QED
  BY <1>1, <1>2, <1>3, <1>4 DEF CallsUpTo

LEMMA SessionStepType == ASSUME SessionType, SessionStep PROVE SessionType'
<1>1. ASSUME error = "none", NEW sequence \in Nat, CallsUpTo(sequence) PROVE SessionType'
  BY <1>1, OpenSession, CallsType, CallKeepsTopology, SteppedSession DEF SessionType
<1>2. ASSUME NEW next \in Topologies, DOMAIN next = Nodes, ReconcileTopology(next)
      PROVE  SessionType'
  <2>1. TypeOK'
    BY <1>2, OpenSession, ReconcileType DEF ReconcileTopology, Idle
  <2>2. screens' = next \/ screens' = screens
    BY <1>2 DEF ReconcileTopology, FailStranded
  <2> QED
    BY <1>2, <2>1, <2>2, SteppedSession DEF SessionType
<1>3. CASE Fail("OutboundQueue")
  BY <1>3 DEF SessionType, Fail, focusState, deliveries
<1>4. CASE UNCHANGED vars
  BY <1>4 DEF SessionType, vars, focusState, deliveries
<1> QED
  BY <1>1, <1>2, <1>3, <1>4 DEF SessionStep

(* An event taken from a connection in use is news of the agent that opened *)
(* it.                                                                     *)
LEMMA TakenEvent ==
  ASSUME ConnectionType, OpenedByAgents, NEW s \in Sessions, NEW type,
         TakeNetworkEvent(s, type)
  PROVE  /\ owner[s] \in Agents /\ peers[owner[s]] = s /\ s <= opened /\ worker[s] # "none"
         /\ up[s] # <<>> /\ Head(up[s]) \in UpMessage /\ Head(up[s]).type = type
         /\ Idle /\ up' = Pop(up, s)
<1>1. worker[s] # "none" /\ up[s] # <<>> /\ Head(up[s]).type = type /\ peers[owner[s]] = s
  BY DEF TakeNetworkEvent, IsNextIn, ActiveSession
<1>2. s <= opened
  BY <1>1 DEF OpenedByAgents, ConnectionType, Sessions
<1>3. Idle /\ up' = Pop(up, s)
  BY DEF TakeNetworkEvent, Selecting
<1> QED
  BY <1>1, <1>2, <1>3 DEF OpenedByAgents, ConnectionType

LEMMA UpMessageType ==
  ASSUME NEW m \in UpMessage
  PROVE  /\ m.type = "InputAcknowledged" => m.through \in Nat /\ m = InputAcknowledged(m.through)
         /\ m.type = "DisplayChanged" => m.size \in Sizes /\ m = DisplayChanged(m.size)
         /\ m.type = "Disconnected" => m = Disconnected
BY DEF UpMessage, InputAcknowledged, DisplayChanged, Disconnected

(* No focus moves in a step that leaves the focus and its epoch alone.     *)
LEMMA FocusStands == ASSUME UNCHANGED <<focus_epoch, focused_in>> PROVE RecordFocus
BY DEF RecordFocus

LEMMA PathStep ==
  ASSUME SessionType, ConnectionType, OpenedByAgents, [PathNext]_pathVars
  PROVE  SessionStep /\ RecordFocus
<1>1. CASE UNCHANGED controllerVars /\ UNCHANGED focused_in
  BY <1>1, FocusStands DEF controllerVars, vars, focusState, SessionStep
<1>2. CASE ApplyControllerActions
  <2>1. UNCHANGED <<focus_epoch, focused_in>>
    BY <1>2 DEF ApplyControllerActions, TakeActions, Fail, focusState, historyVars
  <2>2. Fail("OutboundQueue") \/ CallsUpTo(0)
    BY <1>2 DEF ApplyControllerActions, CallsUpTo
  <2> QED
    BY <1>2, <2>1, <2>2, FocusStands DEF SessionStep, ApplyControllerActions
<1>3. CASE Captured
  <2>1. CallsUpTo(0)
    BY <1>3, PeersAreAgents DEF Captured, CallsUpTo, Activated, Moved, SessionType, Agents,
                                Activate, FailStranded, Stranded
  <2> QED
    BY <1>3, <2>1 DEF SessionStep, Captured, Activated, Activate, RouteKey, RouteEvent, Moved,
                      RouteMotion, RouteCrossing, Idle
<1>4. CASE EndTick
  <2>1. UNCHANGED <<focus_epoch, focused_in>>
    BY <1>4 DEF EndTick, Flush, FailStranded, focusState, historyVars, vars
  <2>2. CallsUpTo(0) \/ UNCHANGED vars
    BY <1>4 DEF EndTick, CallsUpTo
  <2> QED
    BY <1>4, <2>1, <2>2, FocusStands DEF SessionStep, EndTick, Idle
<1>5. CASE ReturnLocal
  BY <1>5 DEF ReturnLocal, ReturnToLocal, CallsUpTo, SessionStep, Idle
<1>6. ASSUME NEW s \in Sessions, AcceptControllerPeer(s) PROVE SessionStep /\ RecordFocus
  <2>1. UNCHANGED <<focus_epoch, focused_in>>
    BY <1>6 DEF AcceptControllerPeer, ResetPeer, Fail, focusState, historyVars
  <2>2. owner[s] \in Agents
    BY <1>6 DEF AcceptControllerPeer, OpenedByAgents
  <2>3. CallsUpTo(0) /\ error = "none"
    BY <1>6, <2>2 DEF AcceptControllerPeer, CallsUpTo, ResetPeer, Idle
  <2> QED
    BY <2>1, <2>3, FocusStands DEF SessionStep
<1>7. ASSUME NEW s \in Sessions, DisplayReported(s) PROVE SessionStep /\ RecordFocus
  <2>1. /\ owner[s] \in Agents /\ Head(up[s]) \in UpMessage /\ Head(up[s]).size \in Sizes
    BY <1>7, TakenEvent, UpMessageType DEF DisplayReported
  <2> DEFINE next == [screens EXCEPT ![owner[s]] = Head(up[s]).size]
  <2>2. next \in Topologies /\ DOMAIN next = Nodes
    <3>1. screens \in [Nodes -> Sizes] /\ Local \in Nodes
      BY NodesAssumption DEF SessionType, Topologies
    <3>2. next \in [Nodes -> Sizes]
      BY <2>1, <3>1
    <3> QED
      BY <3>1, <3>2 DEF Topologies
  <2>3. ReconcileTopology(next) \/ Fail("OutboundQueue") \/ UNCHANGED vars
    BY <1>7 DEF DisplayReported
  <2>4. RecordFocus
    BY <1>7 DEF DisplayReported
  <2> QED
    BY <2>2, <2>3, <2>4 DEF SessionStep
<1>8. ASSUME NEW s \in Sessions, Acknowledged(s) PROVE SessionStep /\ RecordFocus
  <2>1. owner[s] \in Agents /\ Head(up[s]).through \in Nat /\ Idle
    BY <1>8, TakenEvent, UpMessageType DEF Acknowledged
  <2>2. Acknowledge(owner[s], Head(up[s]).through) /\ UNCHANGED focused_in
    BY <1>8 DEF Acknowledged, historyVars
  <2>3. CallsUpTo(Head(up[s]).through)
    BY <2>1, <2>2 DEF CallsUpTo
  <2>4. UNCHANGED focus_epoch
    BY <2>2 DEF Acknowledge, Fail, vars, focusState
  <2> QED
    BY <2>1, <2>2, <2>3, <2>4, FocusStands DEF SessionStep, Idle
<1>9. ASSUME NEW s \in Sessions, DisconnectControllerPeer(s) PROVE SessionStep /\ RecordFocus
  BY <1>9 DEF DisconnectControllerPeer, ReturnToLocal, CallsUpTo, SessionStep, Idle
<1>10. ASSUME NEW s \in Sessions,
              IgnoreNetworkEvent(s) \/ Lose(s) \/ ConnectionWorkerEnds(s)
       PROVE  UNCHANGED controllerVars /\ UNCHANGED focused_in
  BY <1>10 DEF IgnoreNetworkEvent, Lose, ConnectionWorkerEnds, historyVars
<1>11. ASSUME NEW a \in Agents, AgentNext(a) \/ Connect(a) \/ DisplayTick(a)
       PROVE  UNCHANGED controllerVars /\ UNCHANGED focused_in
  BY <1>11 DEF AgentNext, ReceiveFocus, ReceiveInput, ReceiveDisconnected, ApplyAgentAction,
               ReceiveApplied, ReceiveDesktopChanged, ReportDisplay, Inject, Connect,
               DisplayTick, historyVars
<1>12. CASE UNCHANGED pathVars
  BY <1>1, <1>12 DEF pathVars, historyVars
<1> QED
  BY <1>1, <1>2, <1>3, <1>4, <1>5, <1>6, <1>7, <1>8, <1>9, <1>10, <1>11, <1>12
     DEF PathNext, SteadyNext, ControllerNext

LEMMA AgentFrame ==
  ASSUME AgentType, ActionsNeedConnection, UNCHANGED agentVars
  PROVE  AgentType' /\ ActionsNeedConnection'
BY DEF AgentType, ActionsNeedConnection, agentVars, agentSessions, focusVars, deliveryVars

LEMMA NativeFrame ==
  ASSUME NativeType, UNCHANGED nativeVars, UNCHANGED <<injected, applied>>
  PROVE  NativeType'
BY DEF NativeType, nativeVars

LEMMA ConnectionFrame ==
  ASSUME ConnectionType, OpenedByAgents, UNCHANGED <<peers, connectionVars>>
  PROVE  ConnectionType' /\ OpenedByAgents'
BY DEF ConnectionType, OpenedByAgents, connectionVars

LEMMA FocusTyped ==
  ASSUME SessionType, FocusType, RecordFocus, SessionType'
  PROVE  FocusType'
BY DEF SessionType, FocusType, RecordFocus

LEMMA BatchIsTyped ==
  ASSUME NEW m \in DownMessage, m.type = "Input"
  PROVE  /\ m \in InputMessages
         /\ [epoch |-> m.epoch, sequence |-> m.sequence, events |-> m.events] \in Batch
BY DEF DownMessage, Messages, FocusMessages, InputMessages, Disconnected, Batch

LEMMA FocusIsTyped ==
  ASSUME NEW m \in DownMessage, m.type = "FocusChanged"
  PROVE  /\ m \in FocusMessages
         /\ [epoch |-> m.epoch, target |-> m.target, entry |-> m.entry] \in FocusStates
BY DEF DownMessage, Messages, FocusMessages, InputMessages, Disconnected, FocusStates,
       Positions

LEMMA EmptyActions ==
  /\ <<>> \in Seq(Action)
  /\ ReleaseAllInput \in Action
  /\ \A through \in Nat : SendAck(through) \in Action
  /\ \A batch \in Batch : ApplyInput(batch) \in Action
  /\ FocusEntered \in Action
  /\ NoBatch \in Batch
  /\ NoFocus \in FocusStates
BY NodesAssumption
   DEF Action, SendAck, ApplyInput, NoBatch, NoFocus, Batch, FocusStates,
       Positions, None

(* A call that fails leaves the agent's session as it was.                 *)
Failed(a) ==
  /\ \E reason : reason # "none" /\ agent_error' = [agent_error EXCEPT ![a] = reason]
  /\ UNCHANGED <<display_size, highest_focus_epoch, active_focus_epoch, last_focus,
                 last_applied_sequence, pending_batch, closed, actions>>

LEMMA CallErrors ==
  ASSUME NEW a \in Agents
  PROVE  /\ \A focused : FocusError(a, focused) => Failed(a)
         /\ \A batch : InputError(a, batch) => Failed(a)
         /\ \A sequence : ConfirmError(a, sequence) => Failed(a)
         /\ AgentSessionFails(a, "Transport") => Failed(a)
<1>1. \A reason : reason # "none" /\ AgentSessionFails(a, reason) => Failed(a)
  BY DEF AgentSessionFails, focusVars, deliveryVars, Failed
<1>2. ASSUME NEW focused, FocusError(a, focused) PROVE Failed(a)
  BY <1>1, <1>2 DEF FocusError
<1>3. ASSUME NEW batch, InputError(a, batch) PROVE Failed(a)
  BY <1>1, <1>3 DEF InputError
<1>4. ASSUME NEW sequence, ConfirmError(a, sequence) PROVE Failed(a)
  BY <1>1, <1>4 DEF ConfirmError
<1>5. AgentSessionFails(a, "Transport") => Failed(a)
  BY <1>1
<1> QED
  BY <1>2, <1>3, <1>4, <1>5

LEMMA AgentFails ==
  ASSUME AgentType, ActionsNeedConnection, NEW a \in Agents, Failed(a),
         UNCHANGED <<connection, application_pending>>,
         reporting' \in [Agents -> BOOLEAN],
         \A b \in Agents : reporting'[b] => reporting[b]
  PROVE  AgentType' /\ ActionsNeedConnection'
BY DEF AgentType, ActionsNeedConnection, Failed

LEMMA ReceiveFocusTyped ==
  ASSUME AgentType, ActionsNeedConnection, ConnectionType, NEW a \in Agents, ReceiveFocus(a)
  PROVE  AgentType' /\ ActionsNeedConnection'
<1> DEFINE message == Head(down[connection[a]])
           focused == [epoch |-> message.epoch, target |-> message.target,
                       entry |-> message.entry]
<1>1. /\ connection[a] \in Sessions /\ message \in DownMessage
      /\ message.type = "FocusChanged" /\ connection[a] # NoSession
  <2>1. connection[a] \in Sessions /\ connection[a] # NoSession
        /\ down[connection[a]] # <<>> /\ message.type = "FocusChanged"
    BY DEF ReceiveFocus, TakeMessage, Running, IsNextIn, AgentType
  <2> QED
    BY <2>1 DEF ConnectionType
<1>2. focused \in FocusStates /\ focused.epoch \in Nat
  BY <1>1, FocusIsTyped DEF FocusMessages
<1>3. FollowFocus(a, focused) /\ UNCHANGED <<connection, application_pending, reporting>>
  BY DEF ReceiveFocus
<1> HIDE DEF focused, message
<1>4. CASE FocusError(a, focused)
  <2>1. Failed(a)
    BY <1>4, CallErrors
  <2> QED
    BY <1>3, <2>1, AgentFails DEF AgentType
<1>5. CASE UNCHANGED agentSessions
  BY <1>3, <1>5 DEF AgentType, ActionsNeedConnection, agentSessions, focusVars, deliveryVars
<1>6. CASE /\ highest_focus_epoch' = [highest_focus_epoch EXCEPT ![a] = focused.epoch]
           /\ last_focus' = [last_focus EXCEPT ![a] = focused]
           /\ active_focus_epoch' = [active_focus_epoch EXCEPT ![a] = OwnEpoch(a, focused)]
           /\ Return(a, ReleaseIfActive(a) \o
                     (IF focused.target = a THEN <<FocusEntered>> ELSE <<>>))
           /\ UNCHANGED <<display_size, deliveryVars, closed, agent_error>>
  <2>1. OwnEpoch(a, focused) \in Nat \cup {None}
    BY <1>2 DEF OwnEpoch
  <2>2. ReleaseIfActive(a) \o (IF focused.target = a THEN <<FocusEntered>> ELSE <<>>)
          \in Seq(Action)
    <3>1. ReleaseIfActive(a) \in Seq(Action)
      BY EmptyActions DEF ReleaseIfActive
    <3>2. (IF focused.target = a THEN <<FocusEntered>> ELSE <<>>) \in Seq(Action)
      BY EmptyActions
    <3> QED
      BY <3>1, <3>2
  <2>3. actions' \in [Agents -> Seq(Action)]
    BY <1>6, <2>2 DEF Return, AgentType
  <2>4. ActionsNeedConnection'
    BY <1>1, <1>3, <1>6 DEF Return, AgentType, ActionsNeedConnection
  <2> QED
    BY <1>2, <1>3, <1>6, <2>1, <2>3, <2>4 DEF AgentType, deliveryVars
<1> QED
  BY <1>3, <1>4, <1>5, <1>6 DEF FollowFocus

LEMMA RunningAgent ==
  ASSUME AgentType, NEW a \in Agents, Running(a)
  PROVE  /\ connection[a] \in Sessions /\ connection[a] # NoSession
         /\ actions[a] = <<>> /\ agent_error[a] = "none" /\ ~reporting[a]
BY DEF Running, AgentIdle, AgentType

LEMMA TakenMessage ==
  ASSUME AgentType, ConnectionType, NEW a \in Agents, NEW type, TakeMessage(a, type)
  PROVE  /\ connection[a] \in Sessions /\ connection[a] # NoSession
         /\ down[connection[a]] # <<>>
         /\ Head(down[connection[a]]) \in DownMessage
         /\ Head(down[connection[a]]).type = type
         /\ down' = Pop(down, connection[a])
         /\ Running(a) /\ ~application_pending[a]
<1>1. Running(a) /\ ~application_pending[a] /\ IsNextIn(down, connection[a], type)
      /\ down' = Pop(down, connection[a])
  BY DEF TakeMessage
<1> QED
  BY <1>1, RunningAgent DEF IsNextIn, ConnectionType

LEMMA ReceiveInputTyped ==
  ASSUME AgentType, ActionsNeedConnection, ConnectionType, NEW a \in Agents, ReceiveInput(a)
  PROVE  AgentType' /\ ActionsNeedConnection'
<1> DEFINE message == Head(down[connection[a]])
           batch == [epoch |-> message.epoch, sequence |-> message.sequence,
                     events |-> message.events]
<1>1. /\ connection[a] # NoSession /\ batch \in Batch
  BY TakenMessage, BatchIsTyped DEF ReceiveInput
<1>2. /\ ReceiveBatch(a, batch) /\ UNCHANGED <<connection, reporting>>
      /\ application_pending' \in [Agents -> BOOLEAN]
  BY DEF ReceiveInput, AgentType
<1> HIDE DEF batch, message
<1>3. CASE InputError(a, batch)
  <2>1. Failed(a)
    BY <1>3, CallErrors
  <2> QED
    BY <1>2, <2>1 DEF AgentType, ActionsNeedConnection, Failed
<1>4. CASE /\ Return(a, <<SendAck(last_applied_sequence[a])>>)
           /\ UNCHANGED <<display_size, focusVars, deliveryVars, closed, agent_error>>
  <2>1. <<SendAck(last_applied_sequence[a])>> \in Seq(Action)
    BY EmptyActions DEF AgentType
  <2> QED
    BY <1>1, <1>2, <1>4, <2>1
       DEF AgentType, ActionsNeedConnection, Return, focusVars, deliveryVars
<1>5. CASE /\ pending_batch' = [pending_batch EXCEPT ![a] = batch]
           /\ Return(a, <<ApplyInput(batch)>>)
           /\ UNCHANGED <<display_size, focusVars, last_applied_sequence, closed, agent_error>>
  <2>1. <<ApplyInput(batch)>> \in Seq(Action)
    BY <1>1, EmptyActions
  <2> QED
    BY <1>1, <1>2, <1>5, <2>1 DEF AgentType, ActionsNeedConnection, Return, focusVars
<1> QED
  BY <1>2, <1>3, <1>4, <1>5 DEF ReceiveBatch

LEMMA ReceiveDisconnectedTyped ==
  ASSUME AgentType, ActionsNeedConnection, NEW a \in Agents, ReceiveDisconnected(a)
  PROVE  AgentType' /\ ActionsNeedConnection'
<1>1. Running(a) /\ connection' = [connection EXCEPT ![a] = NoSession]
      /\ UNCHANGED <<agentSessions, application_pending, reporting>>
  BY DEF ReceiveDisconnected, TakeMessage
<1> QED
  BY <1>1 DEF AgentType, ActionsNeedConnection, agentSessions, focusVars, deliveryVars, Running, AgentIdle

LEMMA ApplyAgentActionTyped ==
  ASSUME AgentType, ActionsNeedConnection, NEW a \in Agents, ApplyAgentAction(a)
  PROVE  AgentType' /\ ActionsNeedConnection'
<1>1. actions[a] # <<>> /\ UNCHANGED <<connection, application_pending, reporting>>
  BY DEF ApplyAgentAction
<1>2. CASE Failed(a)
  BY <1>1, <1>2, AgentFails DEF AgentType
<1>3. CASE TakeAction(a)
  <2>1. actions' = [actions EXCEPT ![a] = Tail(actions[a])]
        /\ UNCHANGED <<display_size, highest_focus_epoch, active_focus_epoch, last_focus,
                       last_applied_sequence, pending_batch, closed, agent_error>>
    BY <1>3 DEF TakeAction, Return, focusVars, deliveryVars
  <2>2. Tail(actions[a]) \in Seq(Action)
    BY <1>1, TailQueue DEF AgentType
  <2> QED
    BY <1>1, <2>1, <2>2 DEF AgentType, ActionsNeedConnection
<1> QED
  BY <1>2, <1>3, CallErrors DEF ApplyAgentAction, SendFails

LEMMA ReceiveAppliedTyped ==
  ASSUME AgentType, ActionsNeedConnection, NativeType, NEW a \in Agents, ReceiveApplied(a)
  PROVE  AgentType' /\ ActionsNeedConnection'
<1>1. UNCHANGED <<connection, reporting>> /\ connection[a] # NoSession
  BY RunningAgent DEF ReceiveApplied
<1>2. CASE UNCHANGED <<application_pending, agentSessions>>
  BY <1>1, <1>2 DEF AgentType, ActionsNeedConnection, agentSessions, focusVars, deliveryVars
<1>3. CASE /\ application_pending' = [application_pending EXCEPT ![a] = FALSE]
           /\ ConfirmApplied(a, Head(native_events[a]).sequence)
  <2>1. Head(native_events[a]) \in NativeEvent /\ Head(native_events[a]).type = "Applied"
    BY DEF ReceiveApplied, IsNextIn, NativeType
  <2>2. Head(native_events[a]).sequence \in Nat
    BY <2>1 DEF NativeEvent
  <2> DEFINE sequence == Head(native_events[a]).sequence
  <2>3. CASE ConfirmError(a, sequence)
    <3>1. Failed(a)
      BY <2>3, CallErrors
    <3> QED
      BY <1>1, <1>3, <3>1 DEF AgentType, ActionsNeedConnection, Failed
  <2>4. CASE /\ last_applied_sequence' = [last_applied_sequence EXCEPT ![a] = sequence]
             /\ pending_batch' = [pending_batch EXCEPT ![a] = NoBatch]
             /\ Return(a, <<SendAck(sequence)>>)
             /\ UNCHANGED <<display_size, focusVars, closed, agent_error>>
    <3>1. <<SendAck(sequence)>> \in Seq(Action) /\ NoBatch \in Batch
      BY <2>2, EmptyActions
    <3> QED
      BY <1>1, <1>3, <2>2, <2>4, <3>1
         DEF AgentType, ActionsNeedConnection, Return, focusVars
  <2> QED
    BY <1>3, <2>3, <2>4 DEF ConfirmApplied
<1> QED
  BY <1>2, <1>3 DEF ReceiveApplied

LEMMA ReceiveDesktopChangedTyped ==
  ASSUME AgentType, ActionsNeedConnection, NativeType, NEW a \in Agents,
         ReceiveDesktopChanged(a)
  PROVE  AgentType' /\ ActionsNeedConnection'
<1>1. UNCHANGED connection /\ connection[a] # NoSession
      /\ reporting' = [reporting EXCEPT ![a] = TRUE]
      /\ application_pending' = [application_pending EXCEPT ![a] = FALSE]
  BY RunningAgent DEF ReceiveDesktopChanged
<1>2. Head(native_events[a]) \in NativeEvent /\ Head(native_events[a]).type = "DesktopChanged"
  BY DEF ReceiveDesktopChanged, IsNextIn, NativeType
<1>3. Head(native_events[a]).size \in Sizes
  BY <1>2 DEF NativeEvent
<1>4. <<ReleaseAllInput>> \in Seq(Action) /\ NoBatch \in Batch
  BY EmptyActions
<1>5. /\ display_size' = [display_size EXCEPT ![a] = Head(native_events[a]).size]
      /\ active_focus_epoch' = [active_focus_epoch EXCEPT ![a] = None]
      /\ pending_batch' = [pending_batch EXCEPT ![a] = NoBatch]
      /\ actions' = [actions EXCEPT ![a] = <<ReleaseAllInput>>]
      /\ UNCHANGED <<highest_focus_epoch, last_focus, last_applied_sequence, closed, agent_error>>
  BY DEF ReceiveDesktopChanged, ReconcileDisplay, Return
<1> QED
  BY <1>1, <1>3, <1>4, <1>5 DEF AgentType, ActionsNeedConnection

LEMMA ReportDisplayTyped ==
  ASSUME AgentType, ActionsNeedConnection, NEW a \in Agents, ReportDisplay(a)
  PROVE  AgentType' /\ ActionsNeedConnection'
<1>1. UNCHANGED <<connection, application_pending>>
      /\ reporting' = [reporting EXCEPT ![a] = FALSE]
  BY DEF ReportDisplay
<1>2. CASE Failed(a)
  BY <1>1, <1>2, AgentFails DEF AgentType
<1>3. CASE UNCHANGED agentSessions
  BY <1>1, <1>3 DEF AgentType, ActionsNeedConnection, agentSessions, focusVars, deliveryVars
<1> QED
  BY <1>2, <1>3, CallErrors DEF ReportDisplay, SendFails

LEMMA ConnectTyped ==
  ASSUME AgentType, ActionsNeedConnection, ConnectionType, NEW a \in Agents, Connect(a)
  PROVE  AgentType' /\ ActionsNeedConnection'
<1>1. /\ connection' = [connection EXCEPT ![a] = opened + 1]
      /\ opened + 1 \in Sessions /\ opened + 1 # NoSession
      /\ application_pending' = [application_pending EXCEPT ![a] = FALSE]
      /\ UNCHANGED reporting
  BY InputPathBounds DEF Connect, ConnectionType, Sessions, NoSession
<1>2. PICK size \in Sizes : Start(a, size)
  BY DEF Connect
<1>3. /\ <<>> \in Seq(Action) /\ NoBatch \in Batch /\ NoFocus \in FocusStates
  BY EmptyActions
<1> QED
  BY <1>1, <1>2, <1>3 DEF AgentType, ActionsNeedConnection, Start

LEMMA CommandTypes ==
  ASSUME NEW s \in Sessions
  PROVE  /\ BeginSession(s) \in Command /\ ReleaseAll(s) \in Command
         /\ \A batch \in Batch : ApplyBatch(s, batch) \in Command
         /\ \A sequence \in Nat : Applied(s, sequence) \in NativeEvent
         /\ \A size \in Sizes : DesktopChanged(size) \in NativeEvent
BY DEF BeginSession, ReleaseAll, ApplyBatch, Applied, DesktopChanged, Command, NativeEvent

LEMMA CommandFacts ==
  ASSUME NEW command \in Command
  PROVE  /\ command.generation \in Sessions
         /\ command.type \in {"BeginSession", "ApplyBatch", "ReleaseAll"}
         /\ command.type = "ApplyBatch" =>
              /\ command.batch \in Batch
              /\ command.batch.events \in Seq(InputEvents)
              /\ command.batch.sequence \in Nat /\ command.batch.epoch \in Nat
BY DEF Command, Batch

LEMMA ActionFacts ==
  ASSUME NEW action \in Action
  PROVE  /\ action.type = "ApplyInput" => action.batch \in Batch
         /\ action.type = "Send" => action.through \in Nat
         /\ action.type \in {"ReleaseAllInput", "FocusEntered", "ApplyInput", "Send"}
         /\ action.type = "ReleaseAllInput" => action = ReleaseAllInput
BY DEF Action, ReleaseAllInput, FocusEntered

(* The first action of a list that waits.                                  *)
LEMMA TakenAction ==
  ASSUME AgentType, ActionsNeedConnection, NEW a \in Agents, actions[a] # <<>>
  PROVE  /\ connection[a] \in Sessions /\ connection[a] # NoSession
         /\ Head(actions[a]) \in Action
BY DEF AgentType, ActionsNeedConnection

(* The command at the head of the service's queue.                         *)
LEMMA TakenCommand ==
  ASSUME NativeType, NEW a \in Agents, Inject(a)
  PROVE  /\ commands[a] # <<>> /\ Head(commands[a]) \in Command
         /\ commands' = Pop(commands, a) /\ commands' \in [Agents -> Seq(Command)]
BY PopQueue DEF Inject, NativeType

LEMMA InjectTyped == ASSUME NativeType, NEW a \in Agents, Inject(a) PROVE NativeType'
<1> DEFINE command == Head(commands[a])
<1>1. command \in Command /\ commands' \in [Agents -> Seq(Command)]
  BY TakenCommand
<1>2. CASE BeginInjection(a, command.generation) /\ UNCHANGED <<native_events, historyVars>>
  <2>1. command.generation \in Sessions
    BY <1>1, CommandFacts
  <2> QED
    BY <1>1, <1>2, <2>1 DEF NativeType, BeginInjection, ReleaseHeld, historyVars
<1>3. CASE /\ command.type = "ApplyBatch"
           /\ InjectBatch(a, command.generation, command.batch)
           /\ UNCHANGED active_generation
  <2>1. /\ command.generation \in Sessions /\ command.batch.events \in Seq(InputEvents)
        /\ command.batch.sequence \in Nat /\ command.batch.epoch \in Nat
    BY <1>1, <1>3, CommandFacts
  <2> DEFINE batch == command.batch
             new == {[key |-> event.key, epoch |-> batch.epoch] : event \in KeysIn(batch.events)}
  <2>2. new \subseteq InputEvents
    <3>1. KeysIn(batch.events) \subseteq InputEvents
      BY <2>1 DEF KeysIn, Entries
    <3> QED
      BY <2>1, <3>1 DEF InputEvents
  <2>3. Applied(command.generation, batch.sequence) \in NativeEvent
    BY <2>1, CommandTypes
  <2>4. /\ injected' = [injected EXCEPT ![a] = @ \o batch.events]
        /\ held' = [held EXCEPT ![a] = @ \cup new]
        /\ applied' = [applied EXCEPT ![command.generation] = batch.sequence]
        /\ native_events' = Put(native_events, a, Applied(command.generation, batch.sequence))
    BY <1>3 DEF InjectBatch
  <2> HIDE DEF new, batch
  <2>5. injected' \in [Agents -> Seq(InputEvents)] /\ held' \in [Agents -> SUBSET InputEvents]
    BY <2>1, <2>2, <2>4 DEF NativeType, batch
  <2>6. native_events' \in [Agents -> Seq(NativeEvent)]
    BY <2>3, <2>4, PutQueue DEF NativeType
  <2>7. applied' \in [Sessions -> Nat]
    BY <2>1, <2>4 DEF NativeType, batch
  <2> QED
    BY <1>1, <1>3, <2>5, <2>6, <2>7 DEF NativeType
<1>4. CASE ReleaseHeld(a) /\ UNCHANGED <<native_events, active_generation, historyVars>>
  BY <1>1, <1>4 DEF NativeType, ReleaseHeld, historyVars
<1>5. CASE UNCHANGED <<native_events, active_generation, held, historyVars>>
  BY <1>1, <1>5 DEF NativeType, historyVars
<1> QED
  BY <1>2, <1>3, <1>4, <1>5 DEF Inject

LEMMA NativeTyped ==
  ASSUME AgentType, ActionsNeedConnection, NativeType, ConnectionType, NEW a \in Agents,
         AgentNext(a) \/ Connect(a) \/ DisplayTick(a)
  PROVE  NativeType'
<1>1. CASE ReceiveFocus(a) \/ ReceiveInput(a) \/ ReportDisplay(a)
  <2>1. UNCHANGED nativeVars /\ UNCHANGED <<injected, applied>>
    BY <1>1 DEF ReceiveFocus, ReceiveInput, ReportDisplay, SendFails, nativeVars, historyVars
  <2> QED
    BY <2>1, NativeFrame
<1>2. CASE ReceiveDisconnected(a)
  <2>1. /\ commands' = Put(commands, a, ReleaseAll(connection[a]))
        /\ UNCHANGED <<native_events, active_generation, held, injected, applied>>
    BY <1>2 DEF ReceiveDisconnected, historyVars
  <2>2. ReleaseAll(connection[a]) \in Command
    BY <1>2, TakenMessage, CommandTypes DEF ReceiveDisconnected
  <2> QED
    BY <2>1, <2>2, PutQueue DEF NativeType
<1>3. CASE ApplyAgentAction(a)
  <2>1. UNCHANGED <<native_events, active_generation, held, injected, applied>>
    BY <1>3 DEF ApplyAgentAction, historyVars
  <2>2. \/ UNCHANGED commands
        \/ commands' = Put(commands, a, ReleaseAll(connection[a]))
        \/ /\ Head(actions[a]).type = "ApplyInput"
           /\ commands' = Put(commands, a, ApplyBatch(connection[a], Head(actions[a]).batch))
    BY <1>3 DEF ApplyAgentAction, SendFails
  <2>3. connection[a] \in Sessions /\ Head(actions[a]) \in Action
    BY <1>3, TakenAction DEF ApplyAgentAction
  <2>4. /\ ReleaseAll(connection[a]) \in Command
        /\ Head(actions[a]).type = "ApplyInput" =>
             ApplyBatch(connection[a], Head(actions[a]).batch) \in Command
    BY <2>3, ActionFacts, CommandTypes
  <2>5. commands' \in [Agents -> Seq(Command)]
    <3>1. \A m \in Command : Put(commands, a, m) \in [Agents -> Seq(Command)]
      BY PutQueue DEF NativeType
    <3> QED
      BY <2>2, <2>4, <3>1 DEF NativeType
  <2> QED
    BY <2>1, <2>5 DEF NativeType
<1>4. CASE ReceiveApplied(a) \/ ReceiveDesktopChanged(a)
  <2>1. /\ native_events[a] # <<>> /\ native_events' = Pop(native_events, a)
        /\ UNCHANGED <<commands, active_generation, held, injected, applied>>
    BY <1>4 DEF ReceiveApplied, ReceiveDesktopChanged, IsNextIn, historyVars
  <2> QED
    BY <2>1, PopQueue DEF NativeType
<1>5. CASE Inject(a)
  BY <1>5, InjectTyped
<1>6. CASE Connect(a)
  <2>1. /\ commands' = Put(commands, a, BeginSession(opened + 1))
        /\ native_events' = [native_events EXCEPT ![a] = <<>>]
        /\ UNCHANGED <<active_generation, held, injected, applied>>
    BY <1>6 DEF Connect, historyVars
  <2>2. BeginSession(opened + 1) \in Command
    BY <1>6, CommandTypes, InputPathBounds DEF Connect, ConnectionType, Sessions
  <2>3. commands' \in [Agents -> Seq(Command)]
    BY <2>1, <2>2, PutQueue DEF NativeType
  <2> QED
    BY <2>1, <2>3 DEF NativeType
<1>7. CASE DisplayTick(a)
  <2>1. PICK size \in Sizes : native_events' = Put(native_events, a, DesktopChanged(size))
    BY <1>7 DEF DisplayTick
  <2>2. DesktopChanged(size) \in NativeEvent
    BY DEF DesktopChanged, NativeEvent
  <2>3. UNCHANGED <<commands, active_generation, held, injected, applied>>
    BY <1>7 DEF DisplayTick, historyVars
  <2> QED
    BY <2>1, <2>2, <2>3, PutQueue DEF NativeType
<1> QED
  BY <1>1, <1>2, <1>3, <1>4, <1>5, <1>6, <1>7 DEF AgentNext

LEMMA UpTypes ==
  /\ \A through \in Nat : InputAcknowledged(through) \in UpMessage
  /\ \A size \in Sizes : DisplayChanged(size) \in UpMessage
  /\ Disconnected \in UpMessage /\ Disconnected \in DownMessage
BY DEF InputAcknowledged, DisplayChanged, UpMessage, DownMessage

LEMMA UpQueues ==
  ASSUME ConnectionType, NEW s \in Sessions
  PROVE  /\ \A m \in UpMessage :
              /\ Put(up, s, m) \in [Sessions -> Seq(UpMessage)]
              /\ Put(up, s, m)[s] = Append(up[s], m)
              /\ \A other \in Sessions : other # s => Put(up, s, m)[other] = up[other]
         /\ up[s] # <<>> =>
              /\ Pop(up, s) \in [Sessions -> Seq(UpMessage)]
              /\ Pop(up, s)[s] = Tail(up[s])
              /\ \A other \in Sessions : other # s => Pop(up, s)[other] = up[other]
              /\ Head(up[s]) \in UpMessage
<1>1. up \in [Sessions -> Seq(UpMessage)]
  BY DEF ConnectionType
<1>2. ASSUME NEW m \in UpMessage
      PROVE  /\ Put(up, s, m) \in [Sessions -> Seq(UpMessage)]
             /\ Put(up, s, m)[s] = Append(up[s], m)
             /\ \A other \in Sessions : other # s => Put(up, s, m)[other] = up[other]
  BY <1>1, PutQueue
<1>3. ASSUME up[s] # <<>>
      PROVE  /\ Pop(up, s) \in [Sessions -> Seq(UpMessage)]
             /\ Pop(up, s)[s] = Tail(up[s])
             /\ \A other \in Sessions : other # s => Pop(up, s)[other] = up[other]
             /\ Head(up[s]) \in UpMessage
  BY <1>1, <1>3, PopQueue
<1> QED
  BY <1>2, <1>3

LEMMA DownQueues ==
  ASSUME ConnectionType, NEW s \in Sessions
  PROVE  /\ \A m \in DownMessage :
              /\ Put(down, s, m) \in [Sessions -> Seq(DownMessage)]
              /\ Put(down, s, m)[s] = Append(down[s], m)
              /\ \A other \in Sessions : other # s => Put(down, s, m)[other] = down[other]
         /\ down[s] # <<>> =>
              /\ Pop(down, s) \in [Sessions -> Seq(DownMessage)]
              /\ Pop(down, s)[s] = Tail(down[s])
              /\ \A other \in Sessions : other # s => Pop(down, s)[other] = down[other]
              /\ Head(down[s]) \in DownMessage
<1>1. down \in [Sessions -> Seq(DownMessage)]
  BY DEF ConnectionType
<1>2. ASSUME NEW m \in DownMessage
      PROVE  /\ Put(down, s, m) \in [Sessions -> Seq(DownMessage)]
             /\ Put(down, s, m)[s] = Append(down[s], m)
             /\ \A other \in Sessions : other # s => Put(down, s, m)[other] = down[other]
  BY <1>1, PutQueue
<1>3. ASSUME down[s] # <<>>
      PROVE  /\ Pop(down, s) \in [Sessions -> Seq(DownMessage)]
             /\ Pop(down, s)[s] = Tail(down[s])
             /\ \A other \in Sessions : other # s => Pop(down, s)[other] = down[other]
             /\ Head(down[s]) \in DownMessage
  BY <1>1, <1>3, PopQueue
<1> QED
  BY <1>2, <1>3

LEMMA CommandQueues ==
  ASSUME NativeType, NEW a \in Agents
  PROVE  /\ \A m \in Command :
              /\ Put(commands, a, m) \in [Agents -> Seq(Command)]
              /\ Put(commands, a, m)[a] = Append(commands[a], m)
              /\ \A other \in Agents : other # a => Put(commands, a, m)[other] = commands[other]
         /\ commands[a] # <<>> =>
              /\ Pop(commands, a) \in [Agents -> Seq(Command)]
              /\ Pop(commands, a)[a] = Tail(commands[a])
              /\ \A other \in Agents : other # a => Pop(commands, a)[other] = commands[other]
              /\ Head(commands[a]) \in Command
<1>1. commands \in [Agents -> Seq(Command)]
  BY DEF NativeType
<1>2. ASSUME NEW m \in Command
      PROVE  /\ Put(commands, a, m) \in [Agents -> Seq(Command)]
             /\ Put(commands, a, m)[a] = Append(commands[a], m)
             /\ \A other \in Agents : other # a => Put(commands, a, m)[other] = commands[other]
  BY <1>1, PutQueue
<1>3. ASSUME commands[a] # <<>>
      PROVE  /\ Pop(commands, a) \in [Agents -> Seq(Command)]
             /\ Pop(commands, a)[a] = Tail(commands[a])
             /\ \A other \in Agents : other # a => Pop(commands, a)[other] = commands[other]
             /\ Head(commands[a]) \in Command
  BY <1>1, <1>3, PopQueue
<1> QED
  BY <1>2, <1>3

LEMMA NativeQueues ==
  ASSUME NativeType, NEW a \in Agents
  PROVE  /\ \A m \in NativeEvent :
              /\ Put(native_events, a, m) \in [Agents -> Seq(NativeEvent)]
              /\ Put(native_events, a, m)[a] = Append(native_events[a], m)
              /\ \A other \in Agents : other # a => Put(native_events, a, m)[other] = native_events[other]
         /\ native_events[a] # <<>> =>
              /\ Pop(native_events, a) \in [Agents -> Seq(NativeEvent)]
              /\ Pop(native_events, a)[a] = Tail(native_events[a])
              /\ \A other \in Agents : other # a => Pop(native_events, a)[other] = native_events[other]
              /\ Head(native_events[a]) \in NativeEvent
<1>1. native_events \in [Agents -> Seq(NativeEvent)]
  BY DEF NativeType
<1>2. ASSUME NEW m \in NativeEvent
      PROVE  /\ Put(native_events, a, m) \in [Agents -> Seq(NativeEvent)]
             /\ Put(native_events, a, m)[a] = Append(native_events[a], m)
             /\ \A other \in Agents : other # a => Put(native_events, a, m)[other] = native_events[other]
  BY <1>1, PutQueue
<1>3. ASSUME native_events[a] # <<>>
      PROVE  /\ Pop(native_events, a) \in [Agents -> Seq(NativeEvent)]
             /\ Pop(native_events, a)[a] = Tail(native_events[a])
             /\ \A other \in Agents : other # a => Pop(native_events, a)[other] = native_events[other]
             /\ Head(native_events[a]) \in NativeEvent
  BY <1>1, <1>3, PopQueue
<1> QED
  BY <1>2, <1>3

LEMMA DeliveredTyped ==
  ASSUME SessionType, ConnectionType, OpenedByAgents, ApplyControllerActions
  PROVE  ConnectionType' /\ OpenedByAgents'
<1>1. UNCHANGED <<peers, opened, owner, alive, worker, up>>
  BY DEF ApplyControllerActions, runtimeVars
<1>2. CASE UNCHANGED down
  BY <1>1, <1>2 DEF ConnectionType, OpenedByAgents
<1>3. CASE down' = [s \in Sessions |->
               IF alive[s] /\ peers[owner[s]] = s THEN down[s] \o outbox[owner[s]] ELSE down[s]]
  <2>1. ASSUME NEW s \in Sessions, alive[s] PROVE down[s] \o outbox[owner[s]] \in Seq(DownMessage)
    <3>1. owner[s] \in Agents
      BY <2>1 DEF OpenedByAgents, ConnectionType, Sessions
    <3>2. outbox[owner[s]] \in Seq(DownMessage)
      BY <3>1 DEF SessionType, DownMessage
    <3> QED
      BY <3>2 DEF ConnectionType
  <2> QED
    BY <1>1, <1>3, <2>1 DEF ConnectionType, OpenedByAgents
<1> QED
  BY <1>2, <1>3 DEF ApplyControllerActions

LEMMA NetworkTyped ==
  ASSUME SessionType, ConnectionType, OpenedByAgents, NEW s \in Sessions,
         \/ AcceptControllerPeer(s) \/ IgnoreNetworkEvent(s) \/ DisplayReported(s)
         \/ Acknowledged(s) \/ DisconnectControllerPeer(s) \/ Lose(s) \/ ConnectionWorkerEnds(s)
  PROVE  ConnectionType' /\ OpenedByAgents'
<1>1. CASE AcceptControllerPeer(s)
  <2>1. /\ s <= opened
        /\ peers' = [peers EXCEPT ![owner[s]] = s]
        /\ worker' = [worker EXCEPT ![s] = "running"]
        /\ UNCHANGED <<opened, owner, alive, down, up>>
    BY <1>1 DEF AcceptControllerPeer, ReplaceConnection
  <2> QED
    BY <2>1 DEF ConnectionType, OpenedByAgents, Sessions
<1>2. ASSUME up[s] # <<>>, up' = Pop(up, s), UNCHANGED <<opened, owner, alive, worker>>,
             peers' \in [Agents -> Sessions \cup {NoSession}],
             down' \in [Sessions -> Seq(DownMessage)]
      PROVE  ConnectionType' /\ OpenedByAgents'
  <2>1. up' \in [Sessions -> Seq(UpMessage)]
        /\ \A t \in Sessions : up[t] = <<>> => up'[t] = <<>>
    <3>1. \A t \in Sessions : up'[t] = IF t = s THEN Tail(up[s]) ELSE up[t]
      BY <1>2, UpQueues
    <3> QED
      BY <1>2, <3>1, UpQueues
  <2> QED
    BY <1>2, <2>1 DEF ConnectionType, OpenedByAgents
<1>3. CASE IgnoreNetworkEvent(s)
  BY <1>2, <1>3 DEF IgnoreNetworkEvent, controllerVars, runtimeVars, ConnectionType
<1>4. CASE DisplayReported(s)
  <2>1. /\ up[s] # <<>> /\ up' = Pop(up, s)
    BY <1>4, TakenEvent DEF DisplayReported
  <2>2. FocusChanged(focus_epoch, focus, position) \in DownMessage
    BY DEF SessionType, FocusChanged, DownMessage, Messages, FocusMessages
  <2>3. \/ UNCHANGED down
        \/ down' = Put(down, s, FocusChanged(focus_epoch, focus, position))
    BY <1>4 DEF DisplayReported
  <2>4. down' \in [Sessions -> Seq(DownMessage)]
    BY <2>2, <2>3, DownQueues DEF ConnectionType
  <2>5. UNCHANGED <<peers, opened, owner, alive, worker>>
    BY <1>4 DEF DisplayReported, runtimeVars
  <2> QED
    BY <1>2, <2>1, <2>4, <2>5 DEF ConnectionType
<1>5. CASE Acknowledged(s)
  <2>1. /\ up[s] # <<>> /\ up' = Pop(up, s)
    BY <1>5, TakenEvent DEF Acknowledged
  <2>2. UNCHANGED <<peers, opened, owner, alive, worker, down>>
    BY <1>5 DEF Acknowledged, runtimeVars
  <2> QED
    BY <1>2, <2>1, <2>2 DEF ConnectionType
<1>6. CASE DisconnectControllerPeer(s)
  <2>1. /\ up[s] # <<>> /\ up' = Pop(up, s)
    BY <1>6, TakenEvent DEF DisconnectControllerPeer
  <2>2. /\ peers' = [peers EXCEPT ![owner[s]] = NoSession]
        /\ UNCHANGED <<opened, owner, alive, worker, down>>
    BY <1>6 DEF DisconnectControllerPeer
  <2>3. peers' \in [Agents -> Sessions \cup {NoSession}]
    BY <2>2 DEF ConnectionType
  <2> QED
    BY <1>2, <2>1, <2>2, <2>3 DEF ConnectionType
<1>7. CASE Lose(s)
  <2>1. /\ alive[s] /\ alive' = [alive EXCEPT ![s] = FALSE]
        /\ UNCHANGED <<peers, opened, owner, worker>>
    BY <1>7 DEF Lose, controllerVars, runtimeVars
  <2>2. PICK kept \in Prefixes(down[s]) : down' = [down EXCEPT ![s] = Append(kept, Disconnected)]
    BY <1>7 DEF Lose
  <2>3. PICK left \in Prefixes(up[s]) : up' = [up EXCEPT ![s] = left]
    BY <1>7 DEF Lose
  <2>4. Append(kept, Disconnected) \in Seq(DownMessage) /\ left \in Seq(UpMessage)
    BY PrefixQueue, UpTypes DEF ConnectionType
  <2>5. s <= opened
    BY <2>1 DEF OpenedByAgents, ConnectionType, Sessions
  <2> QED
    BY <2>1, <2>2, <2>3, <2>4, <2>5 DEF ConnectionType, OpenedByAgents, Sessions
<1>8. CASE ConnectionWorkerEnds(s)
  <2>1. /\ worker[s] = "running" /\ worker' = [worker EXCEPT ![s] = "ended"]
        /\ up' = Put(up, s, Disconnected)
        /\ UNCHANGED <<peers, opened, owner, alive, down>>
    BY <1>8 DEF ConnectionWorkerEnds, controllerVars, runtimeVars
  <2>2. up' \in [Sessions -> Seq(UpMessage)] /\ \A t \in Sessions : t # s => up'[t] = up[t]
    BY <2>1, UpQueues, UpTypes
  <2>3. s <= opened
    BY <2>1 DEF OpenedByAgents, ConnectionType, Sessions
  <2> QED
    BY <2>1, <2>2, <2>3 DEF ConnectionType, OpenedByAgents, Sessions
<1> QED
  BY <1>1, <1>3, <1>4, <1>5, <1>6, <1>7, <1>8

(* What an agent puts on its connection.                                   *)
LEMMA SentTyped ==
  ASSUME ConnectionType, OpenedByAgents, NEW s \in Sessions, NEW message \in UpMessage,
         up' = IF alive[s] THEN Put(up, s, message) ELSE up,
         UNCHANGED <<peers, opened, owner, alive, worker, down>>
  PROVE  ConnectionType' /\ OpenedByAgents'
<1>1. CASE alive[s]
  <2>1. /\ up' \in [Sessions -> Seq(UpMessage)] /\ \A t \in Sessions : t # s => up'[t] = up[t]
    BY <1>1, UpQueues
  <2>2. s <= opened
    BY <1>1 DEF OpenedByAgents, ConnectionType, Sessions
  <2> QED
    BY <2>1, <2>2 DEF ConnectionType, OpenedByAgents
<1>2. CASE ~alive[s]
  BY <1>2 DEF ConnectionType, OpenedByAgents
<1> QED
  BY <1>1, <1>2

LEMMA AgentConnectionTyped ==
  ASSUME AgentType, ActionsNeedConnection, ConnectionType, OpenedByAgents, NEW a \in Agents,
         AgentNext(a) \/ Connect(a) \/ DisplayTick(a)
  PROVE  ConnectionType' /\ OpenedByAgents'
<1>1. CASE ReceiveFocus(a) \/ ReceiveInput(a) \/ ReceiveDisconnected(a)
  <2>1. /\ connection[a] \in Sessions /\ down[connection[a]] # <<>>
        /\ down' = Pop(down, connection[a])
        /\ UNCHANGED <<peers, opened, owner, alive, worker, up>>
    BY <1>1, TakenMessage DEF ReceiveFocus, ReceiveInput, ReceiveDisconnected, controllerVars,
                              runtimeVars
  <2>2. down' \in [Sessions -> Seq(DownMessage)]
    BY <2>1, DownQueues
  <2> QED
    BY <2>1, <2>2 DEF ConnectionType, OpenedByAgents
<1>2. CASE ApplyAgentAction(a)
  <2>1. UNCHANGED <<peers, opened, owner, alive, worker, down>>
    BY <1>2 DEF ApplyAgentAction, controllerVars, runtimeVars
  <2>2. connection[a] \in Sessions /\ Head(actions[a]) \in Action
    BY <1>2, TakenAction DEF ApplyAgentAction
  <2>3. CASE UNCHANGED up
    BY <2>1, <2>3 DEF ConnectionType, OpenedByAgents
  <2>4. CASE Head(actions[a]).type = "Send" /\ Sent(a, InputAcknowledged(Head(actions[a]).through))
    <3>1. InputAcknowledged(Head(actions[a]).through) \in UpMessage
      BY <2>2, <2>4, ActionFacts, UpTypes
    <3> QED
      BY <2>1, <2>2, <2>4, <3>1, SentTyped DEF Sent
  <2> QED
    BY <1>2, <2>3, <2>4 DEF ApplyAgentAction, SendFails
<1>3. CASE ReportDisplay(a)
  <2>1. UNCHANGED <<peers, opened, owner, alive, worker, down>>
    BY <1>3 DEF ReportDisplay, controllerVars, runtimeVars
  <2>2. CASE UNCHANGED up
    BY <2>1, <2>2 DEF ConnectionType, OpenedByAgents
  <2>3. CASE Sent(a, DisplayChanged(display_size[a]))
    <3>1. /\ DisplayChanged(display_size[a]) \in UpMessage /\ connection[a] \in Sessions
      BY <1>3, UpTypes DEF AgentType, ReportDisplay, ActionsNeedConnection
    <3> QED
      BY <2>1, <2>3, <3>1, SentTyped DEF Sent
  <2> QED
    BY <1>3, <2>2, <2>3 DEF ReportDisplay, SendFails
<1>4. CASE ReceiveApplied(a) \/ ReceiveDesktopChanged(a) \/ Inject(a) \/ DisplayTick(a)
  <2>1. UNCHANGED <<peers, connectionVars>>
    BY <1>4 DEF ReceiveApplied, ReceiveDesktopChanged, Inject, DisplayTick, controllerVars,
                runtimeVars
  <2> QED
    BY <2>1, ConnectionFrame
<1>5. CASE Connect(a)
  <2> DEFINE s == opened + 1
  <2>1. /\ s \in Sessions /\ opened' = s /\ opened' \in 0 .. MaxSessions
        /\ owner' = [owner EXCEPT ![s] = a]
        /\ alive' = [alive EXCEPT ![s] = TRUE]
        /\ UNCHANGED <<peers, worker, down>>
    BY <1>5, InputPathBounds
       DEF Connect, ConnectionType, Sessions, controllerVars, runtimeVars
  <2>2. PICK size \in Sizes : up' = Put(up, s, DisplayChanged(size))
    BY <1>5 DEF Connect
  <2>3. DisplayChanged(size) \in UpMessage
    BY UpTypes
  <2>4. up' \in [Sessions -> Seq(UpMessage)] /\ \A t \in Sessions : t # s => up'[t] = up[t]
    BY <2>1, <2>2, <2>3, UpQueues
  <2>5. a \in Nodes
    BY DEF Agents
  <2>6. ConnectionType'
    BY <2>1, <2>4, <2>5 DEF ConnectionType
  <2>7. OpenedByAgents'
    BY <2>1, <2>4 DEF OpenedByAgents, ConnectionType, Sessions
  <2> QED
    BY <2>6, <2>7
<1> QED
  BY <1>1, <1>2, <1>3, <1>4, <1>5 DEF AgentNext

LEMMA ControllerFrames ==
  ASSUME [PathNext]_pathVars
  PROVE  \/ UNCHANGED <<agentVars, nativeVars, injected, applied>>
         \/ \E a \in Agents : AgentNext(a) \/ Connect(a) \/ DisplayTick(a)
<1>1. CASE ApplyControllerActions \/ Captured \/ EndTick \/ ReturnLocal
  BY <1>1 DEF ApplyControllerActions, Captured, EndTick, ReturnLocal, historyVars
<1>2. ASSUME NEW s \in Sessions,
             \/ AcceptControllerPeer(s) \/ IgnoreNetworkEvent(s) \/ DisplayReported(s)
             \/ Acknowledged(s) \/ DisconnectControllerPeer(s) \/ Lose(s)
             \/ ConnectionWorkerEnds(s)
      PROVE  UNCHANGED <<agentVars, nativeVars, injected, applied>>
  BY <1>2 DEF AcceptControllerPeer, IgnoreNetworkEvent, DisplayReported, Acknowledged,
              DisconnectControllerPeer, Lose, ConnectionWorkerEnds, historyVars
<1>3. CASE UNCHANGED pathVars
  BY <1>3 DEF pathVars, historyVars
<1> QED
  BY <1>1, <1>2, <1>3 DEF PathNext, SteadyNext, ControllerNext

LEMMA PathTypeStep == ASSUME PathType, [PathNext]_pathVars PROVE PathType'
<1>1. SessionType' /\ FocusType'
  BY PathStep, SessionStepType, FocusTyped DEF PathType
<1>2. AgentType' /\ ActionsNeedConnection'
  <2>1. CASE UNCHANGED agentVars
    BY <2>1, AgentFrame DEF PathType
  <2>2. ASSUME NEW a \in Agents, Inject(a) \/ DisplayTick(a) PROVE UNCHANGED agentVars
    BY <2>2 DEF Inject, DisplayTick
  <2>3. ASSUME NEW a \in Agents, AgentNext(a) \/ Connect(a) \/ DisplayTick(a)
        PROVE  AgentType' /\ ActionsNeedConnection'
    BY <2>1, <2>2, <2>3, ReceiveFocusTyped, ReceiveInputTyped, ReceiveDisconnectedTyped,
       ApplyAgentActionTyped, ReceiveAppliedTyped, ReceiveDesktopChangedTyped,
       ReportDisplayTyped, ConnectTyped DEF AgentNext, PathType
  <2> QED
    BY <2>1, <2>3, ControllerFrames
<1>3. NativeType'
  BY ControllerFrames, NativeFrame, NativeTyped DEF PathType
<1>4. ConnectionType' /\ OpenedByAgents'
  <2>1. CASE UNCHANGED <<peers, connectionVars>>
    BY <2>1, ConnectionFrame DEF PathType
  <2>2. CASE Captured \/ EndTick \/ ReturnLocal \/ UNCHANGED pathVars
    BY <2>1, <2>2 DEF Captured, EndTick, ReturnLocal, runtimeVars, pathVars, controllerVars
  <2> QED
    BY <2>1, <2>2, DeliveredTyped, NetworkTyped, AgentConnectionTyped
       DEF PathType, PathNext, SteadyNext, ControllerNext
<1> QED
  BY <1>1, <1>2, <1>3, <1>4 DEF PathType

LEMMA SessionInitType == ASSUME Init, DOMAIN screens = Nodes PROVE SessionType
<1>1. TypeOK
  BY InitType
<1> QED
  BY <1>1, TopologyType DEF TypeOK, SessionType, Messages

LEMMA PathInitType == PathInit => PathType
<1> SUFFICES ASSUME PathInit PROVE PathType
  OBVIOUS
<1>1. SessionType
  BY SessionInitType DEF PathInit
<1>2. AgentType /\ ActionsNeedConnection
  BY EmptyActions
     DEF PathInit, AgentSessionInit, AgentType, ActionsNeedConnection, Agents, None
<1>3. NativeType
  BY DEF PathInit, NativeType
<1>4. ConnectionType /\ OpenedByAgents
  BY NodesAssumption, InputPathBounds
     DEF PathInit, ConnectionType, OpenedByAgents, Sessions, Agents
<1>5. FocusType
  BY NodesAssumption DEF PathInit, FocusType
<1> QED
  BY <1>1, <1>2, <1>3, <1>4, <1>5 DEF PathType

LEMMA EstablishedPeers ==
  ASSUME EstablishedInit, NEW a \in Agents
  PROVE  peers[a] \in Sessions /\ owner[peers[a]] = a
<1>1. peers[a] = CHOOSE s \in Sessions : owner[s] = a
  BY DEF EstablishedInit
<1>2. \E s \in Sessions : owner[s] = a
  BY DEF EstablishedInit
<1> QED
  BY <1>1, <1>2

LEMMA EstablishedInitType == EstablishedInit => PathType
<1> SUFFICES ASSUME EstablishedInit PROVE PathType
  OBVIOUS
<1>1. SessionType
  BY SessionInitType DEF EstablishedInit
<1>2. AgentType /\ ActionsNeedConnection
  <2>1. /\ display_size \in [Agents -> Sizes]
        /\ position \in Nat
    <3>1. screens \in [Nodes -> Sizes] /\ position \in Nat
      BY <1>1 DEF SessionType, Topologies, Positions
    <3>2. display_size = [a \in Agents |-> screens[a]] /\ Agents \subseteq Nodes
      BY DEF EstablishedInit, Agents
    <3> QED
      BY <3>1, <3>2
  <2>2. [epoch |-> 1, target |-> Local, entry |-> position] \in FocusStates
    BY <2>1, NodesAssumption DEF FocusStates, Positions
  <2>3. connection \in [Agents -> Sessions \cup {NoSession}]
    <3>1. connection = peers /\ peers = [a \in Agents |-> peers[a]]
      BY DEF EstablishedInit
    <3> QED
      BY <3>1, EstablishedPeers
  <2>4. last_focus \in [Agents -> FocusStates]
    BY <2>2 DEF EstablishedInit
  <2> QED
    BY <2>1, <2>3, <2>4, EmptyActions
       DEF EstablishedInit, AgentType, ActionsNeedConnection, None
<1>3. peers \in [Agents -> Sessions \cup {NoSession}] /\ active_generation = peers
  <2>1. peers = [a \in Agents |-> peers[a]] /\ active_generation = peers
    BY DEF EstablishedInit
  <2> QED
    BY <2>1, EstablishedPeers
<1>4. NativeType
  BY <1>3 DEF EstablishedInit, NativeType
<1>5. ConnectionType /\ OpenedByAgents
  <2>1. owner \in [Sessions -> Agents] /\ opened = MaxSessions
    BY DEF EstablishedInit
  <2>2. owner \in [Sessions -> Nodes] /\ \A s \in Sessions : owner[s] \in Agents /\ s <= opened
    BY <2>1, InputPathBounds DEF Agents, Sessions
  <2>3. ConnectionType
    BY <1>3, <2>1, <2>2, InputPathBounds DEF EstablishedInit, ConnectionType
  <2>4. OpenedByAgents
    BY <2>2, InputPathBounds, <2>1 DEF OpenedByAgents, Sessions
  <2> QED
    BY <2>3, <2>4
<1>6. FocusType
  BY NodesAssumption DEF EstablishedInit, FocusType
<1> QED
  BY <1>1, <1>2, <1>4, <1>5, <1>6 DEF PathType

LEMMA PathTypeHolds == PathSpec => []PathType
<1> QED
  BY PathInitType, PathTypeStep, PTL DEF PathSpec

-----------------------------------------------------------------------------
(* Connections.                                                            *)

(* The controller's connection to an agent is the agent's own and the      *)
(* newest that it has taken.                                               *)
PeersAreNewest ==
  \A a \in Agents : peers[a] # NoSession =>
    /\ owner[peers[a]] = a
    /\ worker[peers[a]] # "none"
    /\ \A s \in Sessions : owner[s] = a /\ s > peers[a] => worker[s] = "none"

LEMMA ControllerPeers ==
  ASSUME ConnectionType, OpenedByAgents, PeersAreNewest, NEW s \in Sessions,
         AcceptControllerPeer(s) \/ DisconnectControllerPeer(s) \/ ConnectionWorkerEnds(s)
  PROVE  PeersAreNewest'
<1>1. CASE AcceptControllerPeer(s)
  <2>1. /\ s <= opened
        /\ \A t \in s + 1 .. opened : owner[t] = owner[s] => worker[t] = "none"
        /\ peers' = [peers EXCEPT ![owner[s]] = s]
        /\ worker' = [worker EXCEPT ![s] = "running"]
        /\ UNCHANGED owner
    BY <1>1 DEF AcceptControllerPeer, ReplaceConnection
  <2>2. \A t \in Sessions : owner[t] = owner[s] /\ t > s => worker[t] = "none"
    BY <2>1 DEF OpenedByAgents, Sessions, ConnectionType
  <2>3. worker[s] = "none"
    BY <1>1 DEF AcceptControllerPeer
  <2>4. ASSUME NEW a \in Agents, a = owner[s]
        PROVE  /\ peers'[a] = s /\ worker'[s] # "none"
               /\ \A t \in Sessions : owner[t] = a /\ t > s => worker'[t] = "none"
    BY <2>1, <2>2, <2>4 DEF ConnectionType, Sessions
  <2>5. ASSUME NEW a \in Agents, a # owner[s]
        PROVE  /\ peers'[a] = peers[a]
               /\ \A t \in Sessions : owner[t] = a => worker'[t] = worker[t]
    BY <2>1, <2>5 DEF ConnectionType, Sessions
  <2> QED
    BY <2>1, <2>4, <2>5 DEF PeersAreNewest, ConnectionType
<1>2. CASE DisconnectControllerPeer(s)
  BY <1>2 DEF DisconnectControllerPeer, PeersAreNewest, ConnectionType
<1>3. CASE ConnectionWorkerEnds(s)
  BY <1>3 DEF ConnectionWorkerEnds, PeersAreNewest, ConnectionType, controllerVars, runtimeVars
<1> QED
  BY <1>1, <1>2, <1>3

LEMMA PeersStep ==
  ASSUME PathType, PeersAreNewest, [PathNext]_pathVars
  PROVE  PeersAreNewest'
<1>1. CASE UNCHANGED <<peers, owner, worker>>
  BY <1>1 DEF PeersAreNewest
<1>2. CASE ApplyControllerActions \/ Captured \/ EndTick \/ ReturnLocal \/ UNCHANGED pathVars
  BY <1>1, <1>2 DEF ApplyControllerActions, Captured, EndTick, ReturnLocal, runtimeVars,
                    connectionVars, pathVars, controllerVars
<1>3. ASSUME NEW s \in Sessions,
             \/ IgnoreNetworkEvent(s) \/ DisplayReported(s) \/ Acknowledged(s) \/ Lose(s)
      PROVE  PeersAreNewest'
  BY <1>1, <1>3 DEF IgnoreNetworkEvent, DisplayReported, Acknowledged, Lose, runtimeVars,
                    controllerVars
<1>4. ASSUME NEW a \in Agents, AgentNext(a) \/ DisplayTick(a) PROVE PeersAreNewest'
  BY <1>1, <1>4 DEF AgentNext, ReceiveFocus, ReceiveInput, ReceiveDisconnected,
     ApplyAgentAction, ReceiveApplied, ReceiveDesktopChanged, ReportDisplay, Inject,
     DisplayTick, controllerVars, runtimeVars, connectionVars
<1>5. ASSUME NEW a \in Agents, Connect(a) PROVE PeersAreNewest'
  <2>1. /\ opened + 1 \in Sessions /\ owner' = [owner EXCEPT ![opened + 1] = a]
        /\ UNCHANGED <<peers, worker>>
    BY <1>5, InputPathBounds
       DEF Connect, ConnectionType, PathType, Sessions, controllerVars, runtimeVars
  <2>2. worker[opened + 1] = "none"
    BY <2>1 DEF PathType, OpenedByAgents, ConnectionType
  <2> QED
    BY <2>1, <2>2 DEF PeersAreNewest, PathType, ConnectionType
<1> QED
  BY <1>2, <1>3, <1>4, <1>5, ControllerPeers
     DEF PathType, PathNext, SteadyNext, ControllerNext

(* An agent's new connection takes the place of the one before it, however *)
(* many were opened and whatever becomes of them (accept_controller_peer   *)
(* and active_session in runtime.rs).                                      *)
THEOREM NewestConnection == PathSpec => []NewestConnectionInUse
<1>1. PathInit => PeersAreNewest
  BY DEF PathInit, PeersAreNewest
<1>2. PathType /\ PeersAreNewest => NewestConnectionInUse
  <2> SUFFICES ASSUME PathType, PeersAreNewest, NEW s \in Sessions, NEW t \in Sessions,
                      owner[s] = owner[t], s < t, worker[t] # "none",
                      NEW a \in Agents, peers[a] = s
               PROVE  FALSE
    BY DEF NewestConnectionInUse
  <2> QED
    BY DEF PeersAreNewest, Sessions, NoSession
<1> QED
  BY <1>1, <1>2, PathTypeHolds, PeersStep, PTL DEF PathSpec

-----------------------------------------------------------------------------
(* What a call of the controller's session leaves in its outbox and its    *)
(* buffer.                                                                 *)

Sending(p, events) ==
  IF events # <<>> /\ p = focus THEN <<InputBatch(focus_epoch, last_sent[p] + 1, events)>>
  ELSE <<>>

News(p) ==
  IF focus_epoch' # focus_epoch THEN <<FocusChanged(focus_epoch', focus', position')>>
  ELSE <<>>

(* A captured event: motion, or the next key.                              *)
NewEvent(event) ==
  /\ event \in InputEvents /\ event.epoch = focus_epoch
  /\ \/ event.key = Motion /\ captured' = captured
     \/ event.key = captured + 1 /\ captured' = captured + 1

Fits(events) == Len(buffer) <= MaxBatch => Len(events) <= MaxBatch

(* The call sends `events`: with those left to wait they are the ones that *)
(* waited, and perhaps one just captured.                                  *)
Sends(events) ==
  /\ outbox = NoMessages
  /\ \A p \in Agents : outbox'[p] = Sending(p, events) \o News(p)
  /\ \A p \in Agents : last_sent'[p] =
       IF events # <<>> /\ p = focus THEN last_sent[p] + 1 ELSE last_sent[p]
  /\ UNCHANGED last_acknowledged
  /\ events # <<>> => focus # Local /\ ~InFlight(focus)
  /\ focus_epoch' # focus_epoch => focus_epoch' = focus_epoch + 1 /\ focus_epoch' <= MaxEpoch
  /\ focus_epoch' = focus_epoch => focus' = focus
  /\ \/ events = <<>> /\ buffer' = <<>> /\ captured' = captured
     \/ events = <<>> /\ buffer' = buffer /\ captured' = captured
     \/ events = buffer /\ buffer' = <<>> /\ captured' = captured
     \/ \E event \in InputEvents :
          /\ NewEvent(event)
          /\ \/ events = <<>> /\ buffer' = Push(event) /\ Fits(Push(event))
             \/ events = buffer /\ buffer' = <<event>>
             \/ events = Push(event) /\ buffer' = <<>> /\ Fits(Push(event))

NothingSent ==
  /\ UNCHANGED <<focus, focus_epoch, position, buffer, captured>>
  /\ outbox' = outbox \/ outbox' = NoMessages

LEMMA SendingType ==
  ASSUME SessionType, NEW p \in Agents, NEW events \in Seq(InputEvents)
  PROVE  /\ Sending(p, events) \in Seq(Messages)
         /\ events # <<>> => Sending(p, events) = BatchFor(p, events)
<1>1. InputBatch(focus_epoch, last_sent[p] + 1, events) \in Messages
  BY DEF SessionType, InputBatch, Messages, InputMessages
<1> QED
  BY <1>1 DEF Sending, BatchFor

LEMMA JoinEmpty == ASSUME NEW S, NEW q \in Seq(S) PROVE q \o <<>> = q /\ <<>> \o q = q
OBVIOUS

(* An announcement after the events flushed with it.                       *)
LEMMA AnnounceSends ==
  ASSUME SessionType, NEW events \in Seq(InputEvents),
         Announce(Agents, focus', position', events)
  PROVE  /\ \A p \in Agents : outbox'[p] = Sending(p, events) \o News(p)
         /\ focus_epoch' = focus_epoch + 1 /\ focus_epoch' <= MaxEpoch
         /\ focus_epoch' # focus_epoch
<1>1. focus_epoch' = focus_epoch + 1 /\ focus_epoch' <= MaxEpoch /\ focus_epoch' # focus_epoch
  BY ControllerBounds DEF Announce, SessionType
<1>2. ASSUME NEW p \in Agents PROVE outbox'[p] = Sending(p, events) \o News(p)
  BY <1>1 DEF Announce, BatchFirst, Sending, News, BatchFor
<1> QED
  BY <1>1, <1>2

LEMMA ChangeFocusSends ==
  ASSUME SessionType, outbox = NoMessages, NEW target \in Nodes, NEW entry,
         ChangeFocus(target, entry), UNCHANGED captured
  PROVE  \/ NothingSent /\ UNCHANGED <<focusState, buffer, deliveries, outbox, release>>
         \/ Sends(buffer) /\ buffer' = <<>> /\ buffer \in Seq(InputEvents)
<1>1. CASE UNCHANGED <<focusState, buffer, deliveries, outbox, release>>
  BY <1>1 DEF NothingSent, focusState
<1>2. CASE ~ UNCHANGED <<focusState, buffer, deliveries, outbox, release>>
  <2> DEFINE events == IF CanSend THEN buffer ELSE <<>>
  <2>1. /\ ~MustWait
        /\ IF CanSend THEN CountBatch ELSE UNCHANGED <<last_sent, pending>>
        /\ buffer' = IF CanSend THEN Taken ELSE buffer
        /\ focus' = target
        /\ Announce(Peers, target, position', events)
        /\ UNCHANGED last_acknowledged
    BY <1>2 DEF ChangeFocus
  <2>2. events \in Seq(InputEvents) /\ (events # <<>> <=> CanSend)
    BY DEF SessionType, CanSend
  <2>3. /\ \A p \in Agents : outbox'[p] = Sending(p, events) \o News(p)
        /\ focus_epoch' = focus_epoch + 1 /\ focus_epoch' <= MaxEpoch
        /\ focus_epoch' # focus_epoch
    BY <2>1, <2>2, AnnounceSends, PeersAreAgents
  <2>4. \A p \in Agents : last_sent'[p] =
          IF events # <<>> /\ p = focus THEN last_sent[p] + 1 ELSE last_sent[p]
    BY <2>1, <2>2 DEF CountBatch, SessionType
  <2>5. /\ events # <<>> => focus # Local /\ ~InFlight(focus)
        /\ events = buffer /\ buffer' = <<>>
    BY <2>1 DEF CanSend, MustWait, Taken
  <2> HIDE DEF events
  <2>6. Sends(events)
    BY <2>1, <2>3, <2>4, <2>5 DEF Sends
  <2> QED
    BY <2>2, <2>5, <2>6
<1> QED
  BY <1>1, <1>2

(* A call that takes `event` sends `events` and leaves the rest to wait.    *)
Leaves(event, events) ==
  /\ \/ events = <<>> /\ buffer' = Push(event)
     \/ events = buffer /\ buffer' = <<event>>
     \/ events = Push(event) /\ buffer' = <<>>
  /\ focus' = focus

LEMMA RouteEventSends ==
  ASSUME SessionType, NEW event \in InputEvents, NEW to, RouteEvent(event, to), NewEvent(event),
         error' = error
  PROVE  \E events \in Seq(InputEvents) : Sends(events) /\ Leaves(event, events)
<1>1. Push(event) \in Seq(InputEvents) /\ buffer \in Seq(InputEvents)
  BY DEF SessionType, Push
<1>2. /\ outbox = NoMessages /\ focus # Local
      /\ UNCHANGED <<focus, focus_epoch>>
      /\ \A p \in Agents : News(p) = <<>>
  BY DEF RouteEvent, Idle, News
<1>7. ~(Len(buffer) >= MaxBatch /\ ~CanCoalesce(event)) => Fits(Push(event))
  <2>1. CASE CanCoalesce(event)
    BY <2>1 DEF Push, Fits
  <2>2. CASE ~CanCoalesce(event) /\ ~(Len(buffer) >= MaxBatch)
    <3>1. Len(Append(buffer, event)) = Len(buffer) + 1 /\ Len(buffer) \in Nat
      BY <1>1, AppendQueue
    <3> QED
      BY <2>2, <3>1, BatchAssumption DEF Push, Fits
  <2> QED
    BY <2>1, <2>2
<1>3. CASE /\ UNCHANGED outbox /\ buffer' = Push(event) /\ UNCHANGED deliveries
           /\ Fits(Push(event))
  <2>1. \A p \in Agents : outbox'[p] = Sending(p, <<>>) \o News(p)
    BY <1>2, <1>3, JoinEmpty DEF Sending, NoMessages
  <2>2. Sends(<<>>) /\ Leaves(event, <<>>)
    BY <1>2, <1>3, <2>1 DEF Sends, Leaves, deliveries
  <2>3. <<>> \in Seq(InputEvents)
    OBVIOUS
  <2> QED
    BY <2>2, <2>3
<1>4. ASSUME NEW events \in Seq(InputEvents), outbox' = [p \in Agents |-> BatchFor(p, events)],
             CountBatch, UNCHANGED last_acknowledged, ~InFlight(focus), events # <<>>,
             \/ events = buffer /\ buffer' = <<event>>
             \/ events = Push(event) /\ buffer' = <<>> /\ Fits(Push(event))
      PROVE  Sends(events) /\ Leaves(event, events)
  <2>1. \A p \in Agents : outbox'[p] = Sending(p, events) \o News(p)
    BY <1>2, <1>4, JoinEmpty, SendingType
  <2>2. \A p \in Agents : last_sent'[p] = IF p = focus THEN last_sent[p] + 1 ELSE last_sent[p]
    BY <1>4 DEF CountBatch, SessionType
  <2> QED
    BY <1>2, <1>4, <2>1, <2>2 DEF Sends, Leaves
<1>5. Push(event) # <<>> /\ (Len(buffer) >= MaxBatch => buffer # <<>>)
  <2>1. Append(buffer, event) # <<>>
    BY AppendQueue, <1>1
  <2> QED
    BY <2>1, BatchAssumption DEF Push, CanCoalesce
<1>6. error' # "Backpressure"
  BY DEF RouteEvent, Idle
<1> QED
  BY <1>1, <1>3, <1>4, <1>5, <1>6, <1>7 DEF RouteEvent
LEMMA Stands ==
  ASSUME UNCHANGED vars \/ (\E reason : Fail(reason)) \/ TakeActions
  PROVE  NothingSent
BY DEF vars, Fail, TakeActions, NothingSent, focusState

LEMMA StrandedSends == ASSUME SessionType, FailStranded, outbox = NoMessages PROVE Sends(<<>>)
<1>1. \A p \in Agents : News(p) = <<>> /\ outbox[p] = <<>>
  BY DEF FailStranded, focusState, News, NoMessages
<1>2. \A p \in Agents : outbox'[p] = Sending(p, <<>>) \o News(p)
  BY <1>1, JoinEmpty DEF FailStranded, Sending
<1> QED
  BY <1>2 DEF FailStranded, Sends, focusState, deliveries

LEMMA ReconcileSends ==
  ASSUME SessionType, NEW next \in Topologies, DOMAIN next = Nodes, ReconcileTopology(next)
  PROVE  \E events \in Seq(InputEvents) : Sends(events)
<1>1. outbox = NoMessages /\ <<>> \in Seq(InputEvents)
  BY DEF ReconcileTopology, Idle
<1>2. CASE FailStranded
  BY <1>1, <1>2, StrandedSends
<1>3. CASE ~FailStranded
  <2> DEFINE events == IF CanSend THEN buffer ELSE <<>>
  <2>1. /\ buffer' = IF CanSend THEN Taken ELSE buffer
        /\ RetainDeliveries(next)
        /\ Announce(Recipients(next), focus', position', events)
        /\ UNCHANGED captured
    BY <1>3 DEF ReconcileTopology
  <2>2. events \in Seq(InputEvents) /\ (events # <<>> <=> CanSend)
    BY DEF SessionType, CanSend
  <2>3. Recipients(next) = Agents /\ PeersOf(next) = Agents
    BY PeersAreAgents DEF Recipients, PeersOf, Agents
  <2>4. /\ \A p \in Agents : outbox'[p] = Sending(p, events) \o News(p)
        /\ focus_epoch' = focus_epoch + 1 /\ focus_epoch' <= MaxEpoch
        /\ focus_epoch' # focus_epoch
    BY <2>1, <2>2, <2>3, AnnounceSends
  <2>5. /\ \A p \in Agents : last_sent'[p] =
             IF events # <<>> /\ p = focus THEN last_sent[p] + 1 ELSE last_sent[p]
        /\ UNCHANGED last_acknowledged
    BY <2>1, <2>2, <2>3 DEF RetainDeliveries, SessionType
  <2>6. /\ events # <<>> => focus # Local /\ ~InFlight(focus)
        /\ \/ events = buffer /\ buffer' = <<>>
           \/ events = <<>> /\ buffer' = buffer
    BY <2>1 DEF CanSend, Taken
  <2> HIDE DEF events
  <2>7. Sends(events)
    BY <1>1, <2>1, <2>4, <2>5, <2>6 DEF Sends
  <2> QED
    BY <2>2, <2>7
<1> QED
  BY <1>2, <1>3

LEMMA FlushSends ==
  ASSUME SessionType, Flush
  PROVE  /\ \E events \in Seq(InputEvents) : Sends(events)
         /\ ~FailStranded => Sends(buffer) /\ buffer' = <<>>
<1>1. outbox = NoMessages /\ <<>> \in Seq(InputEvents) /\ buffer \in Seq(InputEvents)
  BY DEF Flush, Idle, SessionType
<1>2. CASE FailStranded
  BY <1>1, <1>2, StrandedSends
<1>3. CASE ~FailStranded
  <2>1. /\ CanSend /\ CountBatch /\ buffer' = <<>>
        /\ outbox' = [p \in Agents |-> BatchFor(p, buffer)]
        /\ UNCHANGED <<focus, focus_epoch, last_acknowledged, captured>>
    BY <1>3 DEF Flush, Taken, focusState
  <2>2. buffer # <<>> /\ focus # Local /\ ~InFlight(focus) /\ \A p \in Agents : News(p) = <<>>
    BY <2>1 DEF CanSend, News
  <2>3. \A p \in Agents : outbox'[p] = Sending(p, buffer) \o News(p)
    BY <1>1, <2>1, <2>2, JoinEmpty, SendingType
  <2>4. \A p \in Agents : last_sent'[p] = IF p = focus THEN last_sent[p] + 1 ELSE last_sent[p]
    BY <2>1 DEF CountBatch, SessionType
  <2>5. Sends(buffer)
    BY <1>1, <2>1, <2>2, <2>3, <2>4 DEF Sends
  <2> QED
    BY <1>1, <2>1, <2>5
<1> QED
  BY <1>2, <1>3

LEMMA ReturnToLocalSends ==
  ASSUME SessionType, ReturnToLocal
  PROVE  Sends(<<>>)
<1>1. /\ outbox = NoMessages /\ buffer' = <<>> /\ focus' = Local
      /\ Announce(Agents, focus', position', <<>>)
      /\ UNCHANGED <<captured, deliveries>> /\ <<>> \in Seq(InputEvents)
  BY PeersAreAgents DEF ReturnToLocal, Idle
<1>2. /\ \A p \in Agents : outbox'[p] = Sending(p, <<>>) \o News(p)
      /\ focus_epoch' = focus_epoch + 1 /\ focus_epoch' <= MaxEpoch
      /\ focus_epoch' # focus_epoch
  BY <1>1, AnnounceSends
<1> QED
  BY <1>1, <1>2 DEF Sends, deliveries

(* A step of the path sends nothing, or sends events of the buffer.        *)
LEMMA SessionSends ==
  ASSUME SessionType, SessionStep
  PROVE  NothingSent \/ \E events \in Seq(InputEvents) : Sends(events)
<1> DEFINE Goal == NothingSent \/ \E events \in Seq(InputEvents) : Sends(events)
<1>1. ASSUME NEW sequence \in Nat, CallsUpTo(sequence) PROVE Goal
  <2>1. CASE Flush
    BY <2>1, FlushSends
  <2>2. CASE ReturnToLocal
    <3>1. <<>> \in Seq(InputEvents)
      OBVIOUS
    <3> QED
      BY <2>2, <3>1, ReturnToLocalSends
  <2>3. CASE ActivateRefused \/ RouteWhileLocal \/ TakeActions
    BY <2>3, Stands DEF ActivateRefused, RouteWhileLocal
  <2>4. ASSUME NEW event \in InputEvents, NEW to, RouteEvent(event, to),
               error' # error, UNCHANGED captured
        PROVE  Goal
    BY <2>4 DEF RouteEvent, NothingSent
  <2>5. CASE RouteKey
    <3> DEFINE event == KeyEvent(captured + 1, focus_epoch)
    <3>1. event \in InputEvents /\ event.epoch = focus_epoch /\ event.key = captured + 1
      BY KeyType DEF SessionType, KeyEvent
    <3>2. RouteEvent(event, position)
          /\ captured' = IF error' = error THEN captured + 1 ELSE captured
      BY <2>5 DEF RouteKey
    <3> HIDE DEF event
    <3>3. CASE error' = error
      <4>1. NewEvent(event)
        BY <3>1, <3>2, <3>3 DEF NewEvent
      <4> QED
        BY <3>1, <3>2, <3>3, <4>1, RouteEventSends
    <3> QED
      BY <2>4, <3>1, <3>2, <3>3
  <2>6. ASSUME NEW to \in 0 .. screens[focus] - 1, RouteMotion(to) PROVE Goal
    <3> DEFINE event == MotionEvent(focus_epoch)
    <3>1. event \in InputEvents /\ NewEvent(event)
      BY <2>6, MotionType DEF SessionType, MotionEvent, NewEvent, RouteMotion
    <3>2. RouteEvent(event, to) /\ UNCHANGED captured
      BY <2>6 DEF RouteMotion
    <3> HIDE DEF event
    <3> QED
      BY <2>4, <3>1, <3>2, RouteEventSends
  <2>7. ASSUME NEW target \in Peers, NEW entry, Activate(target, entry) PROVE Goal
    <3>1. outbox = NoMessages /\ target \in Nodes
      BY <2>7, PeersAreAgents DEF Activate, Idle, Agents
    <3>2. CASE FailStranded
      <4>1. <<>> \in Seq(InputEvents)
        OBVIOUS
      <4> QED
        BY <3>1, <3>2, <4>1, StrandedSends
    <3> QED
      BY <2>7, <3>1, <3>2, ChangeFocusSends DEF Activate
  <2>8. ASSUME NEW target \in DOMAIN screens, NEW entry, RouteCrossing(target, entry) PROVE Goal
    BY <2>8, ChangeFocusSends DEF RouteCrossing, Idle, SessionType
  <2>9. ASSUME NEW p \in Agents, NEW through, ResetPeer(p) \/ Acknowledge(p, through) PROVE Goal
    BY <2>9 DEF ResetPeer, Acknowledge, Fail, vars, focusState, NothingSent
  <2> QED
    BY <1>1, <2>1, <2>2, <2>3, <2>5, <2>6, <2>7, <2>8, <2>9 DEF CallsUpTo
<1> QED
  BY <1>1, ReconcileSends, Stands DEF SessionStep

-----------------------------------------------------------------------------
(* Focus.                                                                  *)

Known(epoch, target) == epoch \in 0 .. focus_epoch /\ focused_in[epoch] = target

KnownNews(message) ==
  message.type = "FocusChanged" => Known(message.epoch, message.target)

(* Every focus message on its way, and every agent that takes itself to be *)
(* controlled, names the node that had focus in its epoch.                 *)
FocusInv ==
  /\ focus_epoch <= MaxEpoch /\ focused_in[focus_epoch] = focus
  /\ \A p \in Agents : \A message \in Entries(outbox[p]) : KnownNews(message)
  /\ \A s \in Sessions : \A message \in Entries(down[s]) : KnownNews(message)
  /\ \A a \in Agents : active_focus_epoch[a] # None => Known(active_focus_epoch[a], a)

KnownNow(epoch, target) == epoch \in 0 .. focus_epoch' /\ focused_in'[epoch] = target

LEMMA FocusIsRecorded ==
  ASSUME PathType, FocusInv, [PathNext]_pathVars
  PROVE  /\ \A epoch, target : Known(epoch, target) => KnownNow(epoch, target)
         /\ KnownNow(focus_epoch', focus')
         /\ focus_epoch' <= MaxEpoch
         /\ focus_epoch \in Nat /\ focus_epoch' \in Nat
<1>1. SessionType /\ SessionStep /\ RecordFocus /\ FocusType /\ SessionType'
  BY PathStep, SessionStepType DEF PathType
<1>2. focus_epoch \in Nat /\ focus_epoch' \in Nat
  BY <1>1 DEF SessionType
<1>3. /\ focus_epoch' = focus_epoch => focus' = focus
      /\ focus_epoch' # focus_epoch => focus_epoch' = focus_epoch + 1 /\ focus_epoch' <= MaxEpoch
  BY <1>1, SessionSends DEF Sends, NothingSent
<1>4. CASE focus_epoch' = focus_epoch
  BY <1>1, <1>2, <1>3, <1>4 DEF RecordFocus, Known, KnownNow, FocusInv
<1>5. CASE focus_epoch' # focus_epoch
  <2>1. focused_in' = [focused_in EXCEPT ![focus_epoch'] = focus']
    BY <1>1, <1>5 DEF RecordFocus
  <2>2. focus_epoch' = focus_epoch + 1 /\ focus_epoch' \in 0 .. MaxEpoch
    BY <1>2, <1>3, <1>5, ControllerBounds
  <2> QED
    BY <1>1, <1>2, <2>1, <2>2 DEF Known, KnownNow, FocusType
<1> QED
  BY <1>2, <1>4, <1>5

LEMMA OutboxNews ==
  ASSUME PathType, FocusInv, [PathNext]_pathVars,
         NEW p \in Agents, NEW message \in Entries(outbox'[p]), message.type = "FocusChanged"
  PROVE  KnownNow(message.epoch, message.target)
<1>1. SessionType /\ SessionStep /\ SessionType'
  BY PathStep, SessionStepType DEF PathType
<1>2. CASE NothingSent
  <2>1. message \in Entries(outbox[p])
    BY <1>2 DEF NothingSent, NoMessages, Entries
  <2> QED
    BY <2>1, FocusIsRecorded DEF FocusInv, KnownNews
<1>3. ASSUME NEW events \in Seq(InputEvents), Sends(events)
      PROVE  KnownNow(message.epoch, message.target)
  <2>1. outbox'[p] = Sending(p, events) \o News(p)
    BY <1>3 DEF Sends
  <2>2. Sending(p, events) \in Seq(Messages)
    BY <1>1, SendingType
  <2>3. News(p) \in Seq(Messages)
    <3>1. FocusChanged(focus_epoch', focus', position') \in Messages
      BY <1>1 DEF FocusChanged, Messages, FocusMessages, SessionType
    <3> QED
      BY <3>1 DEF News
  <2>4. message \in Entries(Sending(p, events)) \cup Entries(News(p))
    BY <2>1, <2>2, <2>3, JoinQueues
  <2>5. \A m \in Entries(Sending(p, events)) : m.type = "Input"
    BY DEF Sending, Entries, InputBatch
  <2>6. message = FocusChanged(focus_epoch', focus', position')
    BY <2>4, <2>5 DEF News, Entries
  <2> QED
    BY <2>6, FocusIsRecorded DEF FocusChanged
<1> QED
  BY <1>1, <1>2, <1>3, SessionSends

(* Where the messages of a connection come from.                           *)
LEMMA DownSources ==
  ASSUME PathType, [PathNext]_pathVars, NEW s \in Sessions, NEW message \in Entries(down'[s])
  PROVE  \/ message \in Entries(down[s])
         \/ owner[s] \in Agents /\ message \in Entries(outbox[owner[s]])
         \/ message = FocusChanged(focus_epoch, focus, position)
         \/ message = Disconnected
<1> DEFINE Goal == \/ message \in Entries(down[s])
                   \/ owner[s] \in Agents /\ message \in Entries(outbox[owner[s]])
                   \/ message = FocusChanged(focus_epoch, focus, position)
                   \/ message = Disconnected
<1>1. CASE UNCHANGED down
  BY <1>1
<1>2. CASE ApplyControllerActions
  <2>1. CASE down'[s] = down[s] \o outbox[owner[s]] /\ alive[s]
    <3>1. owner[s] \in Agents
      BY <2>1 DEF PathType, OpenedByAgents, ConnectionType, Sessions
    <3>2. outbox[owner[s]] \in Seq(DownMessage) /\ down[s] \in Seq(DownMessage)
      BY <3>1 DEF PathType, SessionType, ConnectionType, DownMessage
    <3> QED
      BY <2>1, <3>1, <3>2, JoinQueues
  <2> QED
    BY <1>1, <1>2, <2>1 DEF ApplyControllerActions
<1>3. CASE Captured \/ EndTick \/ ReturnLocal \/ UNCHANGED pathVars
  BY <1>1, <1>3 DEF Captured, EndTick, ReturnLocal, pathVars, connectionVars
<1>4. ASSUME NEW t \in Sessions,
             \/ AcceptControllerPeer(t) \/ IgnoreNetworkEvent(t) \/ Acknowledged(t)
             \/ DisconnectControllerPeer(t) \/ ConnectionWorkerEnds(t)
      PROVE  Goal
  BY <1>1, <1>4 DEF AcceptControllerPeer, IgnoreNetworkEvent, Acknowledged,
                    DisconnectControllerPeer, ConnectionWorkerEnds
<1>5. ASSUME NEW t \in Sessions, DisplayReported(t) PROVE Goal
  <2>1. CASE down' = Put(down, t, FocusChanged(focus_epoch, focus, position))
    <3>1. FocusChanged(focus_epoch, focus, position) \in DownMessage
      BY DEF PathType, SessionType, FocusChanged, DownMessage, Messages, FocusMessages
    <3>2. down'[t] = Append(down[t], FocusChanged(focus_epoch, focus, position))
          /\ (s # t => down'[s] = down[s])
      BY <2>1, <3>1, DownQueues DEF PathType
    <3>3. down[t] \in Seq(DownMessage)
      BY DEF PathType, ConnectionType
    <3>4. Entries(Append(down[t], FocusChanged(focus_epoch, focus, position)))
            = Entries(down[t]) \cup {FocusChanged(focus_epoch, focus, position)}
      BY <3>1, <3>3, AppendQueue
    <3>5. CASE s = t
      <4>1. message \in Entries(down[s]) \cup {FocusChanged(focus_epoch, focus, position)}
        BY <3>2, <3>4, <3>5
      <4> QED
        BY <4>1
    <3>6. CASE s # t
      <4>1. message \in Entries(down[s])
        BY <3>2, <3>6
      <4> QED
        BY <4>1
    <3> QED
      BY <3>5, <3>6
  <2> QED
    BY <1>1, <1>5, <2>1 DEF DisplayReported
<1>6. ASSUME NEW t \in Sessions, Lose(t) PROVE Goal
  <2>1. PICK kept \in Prefixes(down[t]) : down' = [down EXCEPT ![t] = Append(kept, Disconnected)]
    BY <1>6 DEF Lose
  <2>2. down[t] \in Seq(DownMessage) /\ Disconnected \in DownMessage
    BY UpTypes DEF PathType, ConnectionType
  <2>3. kept \in Seq(DownMessage) /\ Entries(kept) \subseteq Entries(down[t])
    BY <2>2, PrefixQueue
  <2>4. Entries(Append(kept, Disconnected)) = Entries(kept) \cup {Disconnected}
    BY <2>2, <2>3, AppendQueue
  <2> QED
    BY <2>1, <2>3, <2>4 DEF PathType, ConnectionType
<1>7. ASSUME NEW a \in Agents, ReceiveFocus(a) \/ ReceiveInput(a) \/ ReceiveDisconnected(a)
      PROVE  Goal
  <2>1. connection[a] \in Sessions /\ down[connection[a]] # <<>>
        /\ down' = Pop(down, connection[a])
    BY <1>7, TakenMessage DEF ReceiveFocus, ReceiveInput, ReceiveDisconnected, PathType
  <2>2. down'[s] = down[s] \/ (down[s] # <<>> /\ down'[s] = Tail(down[s]))
    BY <2>1, DownQueues DEF PathType
  <2>3. down[s] \in Seq(DownMessage)
    BY DEF PathType, ConnectionType
  <2> QED
    BY <2>2, <2>3, TailQueue
<1>8. ASSUME NEW a \in Agents,
             \/ ApplyAgentAction(a) \/ ReceiveApplied(a) \/ ReceiveDesktopChanged(a)
             \/ ReportDisplay(a) \/ Inject(a) \/ Connect(a) \/ DisplayTick(a)
      PROVE  Goal
  BY <1>1, <1>8 DEF ApplyAgentAction, ReceiveApplied, ReceiveDesktopChanged, ReportDisplay,
                    Inject, Connect, DisplayTick, connectionVars
<1> QED
  BY <1>2, <1>3, <1>4, <1>5, <1>6, <1>7, <1>8
     DEF PathNext, SteadyNext, ControllerNext, AgentNext

(* An agent becomes controlled only by a focus message that names it.      *)
LEMMA ActiveSources ==
  ASSUME PathType, [PathNext]_pathVars, NEW a \in Agents
  PROVE  \/ active_focus_epoch'[a] = active_focus_epoch[a]
         \/ active_focus_epoch'[a] = None
         \/ \E s \in Sessions : \E message \in Entries(down[s]) :
              message.type = "FocusChanged" /\ message.target = a
              /\ active_focus_epoch'[a] = message.epoch
<1> DEFINE Goal == \/ active_focus_epoch'[a] = active_focus_epoch[a]
                   \/ active_focus_epoch'[a] = None
                   \/ \E s \in Sessions : \E message \in Entries(down[s]) :
                        message.type = "FocusChanged" /\ message.target = a
                        /\ active_focus_epoch'[a] = message.epoch
<1>1. CASE UNCHANGED active_focus_epoch
  BY <1>1
<1>2. ASSUME NEW b \in Agents, ReceiveFocus(b) PROVE Goal
  <2> DEFINE message == Head(down[connection[b]])
             focused == [epoch |-> message.epoch, target |-> message.target,
                         entry |-> message.entry]
  <2>1. /\ connection[b] \in Sessions /\ message \in Entries(down[connection[b]])
        /\ message.type = "FocusChanged"
    <3>1. /\ connection[b] \in Sessions /\ down[connection[b]] # <<>>
          /\ message.type = "FocusChanged"
      BY <1>2, TakenMessage DEF ReceiveFocus, PathType
    <3>2. down[connection[b]] \in Seq(DownMessage)
      BY <3>1 DEF PathType, ConnectionType
    <3> QED
      BY <3>1, <3>2, TailQueue
  <2>2. \/ UNCHANGED active_focus_epoch
        \/ active_focus_epoch' = [active_focus_epoch EXCEPT ![b] = OwnEpoch(b, focused)]
    <3>1. FocusError(b, focused) => UNCHANGED active_focus_epoch
      BY CallErrors DEF Failed
    <3> QED
      BY <1>2, <3>1 DEF ReceiveFocus, FollowFocus, agentSessions, focusVars, deliveryVars
  <2>3. OwnEpoch(b, focused) = IF message.target = b THEN message.epoch ELSE None
    BY DEF OwnEpoch
  <2> HIDE DEF message, focused
  <2> QED
    BY <2>1, <2>2, <2>3 DEF PathType, AgentType
<1>3. ASSUME NEW b \in Agents, ReceiveInput(b) PROVE Goal
  <2>1. UNCHANGED active_focus_epoch
    BY <1>3, CallErrors DEF ReceiveInput, ReceiveBatch, Failed, focusVars
  <2> QED
    BY <2>1
<1>4. ASSUME NEW b \in Agents, ApplyAgentAction(b) \/ ReportDisplay(b) PROVE Goal
  <2>1. UNCHANGED active_focus_epoch
    BY <1>4, CallErrors DEF ApplyAgentAction, ReportDisplay, SendFails, TakeAction, Failed,
                            focusVars, agentSessions, deliveryVars
  <2> QED
    BY <2>1
<1>5. ASSUME NEW b \in Agents, ReceiveApplied(b) PROVE Goal
  <2>1. UNCHANGED active_focus_epoch
    BY <1>5, CallErrors DEF ReceiveApplied, ConfirmApplied, Failed, focusVars, agentSessions, deliveryVars
  <2> QED
    BY <2>1
<1>6. ASSUME NEW b \in Agents, ReceiveDesktopChanged(b) \/ Connect(b) PROVE Goal
  BY <1>6 DEF ReceiveDesktopChanged, ReconcileDisplay, Connect, Start, PathType, AgentType
<1>7. ASSUME NEW b \in Agents, ReceiveDisconnected(b) \/ Inject(b) \/ DisplayTick(b) PROVE Goal
  BY <1>7 DEF ReceiveDisconnected, Inject, DisplayTick, agentVars, agentSessions, focusVars, deliveryVars
<1>8. CASE UNCHANGED agentVars
  BY <1>8 DEF agentVars, agentSessions, focusVars, deliveryVars
<1> QED
  BY <1>2, <1>3, <1>4, <1>5, <1>6, <1>7, <1>8, ControllerFrames DEF AgentNext

LEMMA FocusInvStep == ASSUME PathType, FocusInv, [PathNext]_pathVars PROVE FocusInv'
<1>1. focus_epoch' <= MaxEpoch /\ focused_in'[focus_epoch'] = focus'
  BY FocusIsRecorded DEF KnownNow
<1>2. ASSUME NEW p \in Agents, NEW message \in Entries(outbox'[p])
      PROVE  KnownNews(message)'
  BY <1>2, OutboxNews DEF KnownNews, Known, KnownNow
<1>3. ASSUME NEW s \in Sessions, NEW message \in Entries(down'[s]), message.type = "FocusChanged"
      PROVE  KnownNow(message.epoch, message.target)
  <2>1. CASE message = FocusChanged(focus_epoch, focus, position)
    <3>1. Known(focus_epoch, focus)
      BY FocusIsRecorded DEF FocusInv, Known
    <3> QED
      BY <2>1, <3>1, FocusIsRecorded DEF FocusChanged
  <2>2. message # Disconnected
    BY <1>3 DEF Disconnected
  <2>3. KnownNews(message) => KnownNow(message.epoch, message.target)
    BY <1>3, FocusIsRecorded DEF KnownNews
  <2> QED
    BY <1>3, <2>1, <2>2, <2>3, DownSources DEF FocusInv
<1>4. ASSUME NEW a \in Agents, active_focus_epoch'[a] # None
      PROVE  KnownNow(active_focus_epoch'[a], a)
  <2>1. CASE active_focus_epoch'[a] = active_focus_epoch[a]
    BY <1>4, <2>1, FocusIsRecorded DEF FocusInv
  <2>2. ASSUME NEW s \in Sessions, NEW message \in Entries(down[s]),
               message.type = "FocusChanged", message.target = a,
               active_focus_epoch'[a] = message.epoch
        PROVE  KnownNow(active_focus_epoch'[a], a)
    BY <2>2, FocusIsRecorded DEF FocusInv, KnownNews
  <2> QED
    BY <1>4, <2>1, <2>2, ActiveSources
<1> QED
  BY <1>1, <1>2, <1>3, <1>4 DEF FocusInv, KnownNews, Known, KnownNow

LEMMA FocusInvInit == PathInit \/ EstablishedInit => FocusInv
<1> SUFFICES ASSUME PathInit \/ EstablishedInit PROVE FocusInv
  OBVIOUS
<1>1. /\ focus_epoch = 1 /\ focus = Local /\ outbox = NoMessages
      /\ focused_in = [e \in 0 .. MaxEpoch |-> Local]
      /\ down = [s \in Sessions |-> <<>>]
  BY DEF PathInit, EstablishedInit, Init
<1>2. \A a \in Agents : active_focus_epoch[a] = None
  <2>1. CASE PathInit
    BY <2>1 DEF PathInit, AgentSessionInit, Agents
  <2>2. CASE EstablishedInit
    BY <2>2 DEF EstablishedInit
  <2> QED
    BY <2>1, <2>2
<1> QED
  BY <1>1, <1>2, InputPathBounds, ControllerBounds DEF FocusInv, NoMessages, Entries

LEMMA FocusInvHolds == PathSpec => [](PathType /\ FocusInv)
BY FocusInvInit, FocusInvStep, PathInitType, PathTypeStep, PTL DEF PathSpec

(* An agent takes itself to be controlled only in an epoch that gave it    *)
(* focus, so that no two agents are controlled in one epoch, however focus *)
(* moves and connections come and go (advance_epoch_and_broadcast in       *)
(* controller.rs, change_focus in agent.rs).                               *)
THEOREM ControlledOnlyInOwnEpoch == PathSpec => []ControlledOnlyWhenFocused
<1>1. FocusInv => ControlledOnlyWhenFocused
  BY DEF FocusInv, Known, ControlledOnlyWhenFocused
<1> QED
  BY <1>1, FocusInvHolds, PTL

-----------------------------------------------------------------------------
(* Every agent keeps to its own connections.                               *)

Owned(a, s) == s \in 1 .. opened /\ owner[s] = a

OwnedInv ==
  /\ \A a \in Agents : connection[a] # NoSession => Owned(a, connection[a])
  /\ \A a \in Agents : active_generation[a] # NoSession => Owned(a, active_generation[a])
  /\ \A a \in Agents : \A command \in Entries(commands[a]) : Owned(a, command.generation)
  /\ \A a \in Agents : \A event \in Entries(native_events[a]) :
       event.type = "Applied" => Owned(a, event.generation)
  /\ \A s \in Sessions : s > opened => down[s] = <<>> /\ applied[s] = 0

-----------------------------------------------------------------------------
(* A step of one agent leaves the others alone.                            *)

SessionOf(a) ==
  <<display_size[a], highest_focus_epoch[a], active_focus_epoch[a], last_focus[a],
    last_applied_sequence[a], pending_batch[a], closed[a], actions[a], agent_error[a]>>
RuntimeOf(a) == <<connection[a], application_pending[a], reporting[a]>>
ServiceOf(a) ==
  <<commands[a], native_events[a], active_generation[a], held[a], injected[a]>>
LocalTo(a) == <<SessionOf(a), RuntimeOf(a), ServiceOf(a)>>

(* What a call on b's session may change.                                  *)
SessionCall(b) ==
  \/ \E focused : FollowFocus(b, focused)
  \/ \E batch : ReceiveBatch(b, batch)
  \/ \E sequence : ConfirmApplied(b, sequence)
  \/ \E size : ReconcileDisplay(b, size) \/ Start(b, size)
  \/ TakeAction(b)
  \/ AgentSessionFails(b, "Transport")
  \/ UNCHANGED agentSessions

LEMMA OtherSessions ==
  ASSUME AgentType, NEW a \in Agents, NEW b \in Agents, a # b, SessionCall(b)
  PROVE  UNCHANGED SessionOf(a)
<1>1. Failed(b) => UNCHANGED SessionOf(a)
  BY DEF Failed, SessionOf, AgentType
<1>2. ASSUME NEW focused, FollowFocus(b, focused) PROVE UNCHANGED SessionOf(a)
  <2>1. CASE ~FocusError(b, focused)
    BY <1>2, <2>1 DEF FollowFocus, Return, agentSessions, focusVars, deliveryVars, SessionOf,
                      AgentType
  <2> QED
    BY <1>1, <2>1, CallErrors
<1>3. ASSUME NEW batch, ReceiveBatch(b, batch) PROVE UNCHANGED SessionOf(a)
  <2>1. CASE ~InputError(b, batch)
    BY <1>3, <2>1 DEF ReceiveBatch, Return, focusVars, deliveryVars, SessionOf, AgentType
  <2> QED
    BY <1>1, <2>1, CallErrors
<1>4. ASSUME NEW sequence, ConfirmApplied(b, sequence) PROVE UNCHANGED SessionOf(a)
  <2>1. CASE ~ConfirmError(b, sequence)
    BY <1>4, <2>1 DEF ConfirmApplied, Return, focusVars, SessionOf, AgentType
  <2> QED
    BY <1>1, <2>1, CallErrors
<1>5. ASSUME NEW size, ReconcileDisplay(b, size) \/ Start(b, size)
      PROVE  UNCHANGED SessionOf(a)
  BY <1>5 DEF ReconcileDisplay, Start, Return, SessionOf, AgentType
<1>6. CASE TakeAction(b)
  BY <1>6 DEF TakeAction, Return, focusVars, deliveryVars, SessionOf, AgentType
<1>7. CASE UNCHANGED agentSessions
  BY <1>7 DEF agentSessions, focusVars, deliveryVars, SessionOf
<1> QED
  BY <1>1, <1>2, <1>3, <1>4, <1>5, <1>6, <1>7, CallErrors DEF SessionCall

LEMMA AgentCalls ==
  ASSUME NEW b \in Agents, AgentNext(b) \/ Connect(b) \/ DisplayTick(b)
  PROVE  SessionCall(b)
BY DEF AgentNext, ReceiveFocus, ReceiveInput, ReceiveDisconnected, ApplyAgentAction,
       ReceiveApplied, ReceiveDesktopChanged, ReportDisplay, SendFails, Inject, Connect,
       DisplayTick, agentVars, agentSessions, focusVars, deliveryVars, SessionCall

LEMMA OtherAgents ==
  ASSUME PathType, NEW a \in Agents, NEW b \in Agents, a # b,
         AgentNext(b) \/ Connect(b) \/ DisplayTick(b)
  PROVE  UNCHANGED LocalTo(a)
<1>1. UNCHANGED SessionOf(a)
  BY AgentCalls, OtherSessions DEF PathType
<1>2. UNCHANGED RuntimeOf(a)
  BY DEF PathType, AgentType, RuntimeOf, AgentNext, ReceiveFocus, ReceiveInput,
         ReceiveDisconnected, ApplyAgentAction, ReceiveApplied, ReceiveDesktopChanged,
         ReportDisplay, Inject, Connect, DisplayTick, agentVars
<1>3. UNCHANGED ServiceOf(a)
  <2>1. CASE ReceiveFocus(b) \/ ReceiveInput(b) \/ ReportDisplay(b)
    BY <2>1 DEF ReceiveFocus, ReceiveInput, ReportDisplay, SendFails, nativeVars, historyVars,
                ServiceOf
  <2>2. CASE ReceiveDisconnected(b) \/ Connect(b) \/ DisplayTick(b)
    BY <2>2 DEF ReceiveDisconnected, Connect, DisplayTick, Put, historyVars, ServiceOf,
                PathType, NativeType
  <2>3. CASE ApplyAgentAction(b)
    BY <2>3 DEF ApplyAgentAction, SendFails, Put, historyVars, ServiceOf, PathType, NativeType
  <2>4. CASE ReceiveApplied(b) \/ ReceiveDesktopChanged(b)
    BY <2>4 DEF ReceiveApplied, ReceiveDesktopChanged, Pop, historyVars, ServiceOf,
                PathType, NativeType
  <2>5. CASE Inject(b)
    BY <2>5 DEF Inject, BeginInjection, ReleaseHeld, InjectBatch, Pop, Put, historyVars,
                ServiceOf, PathType, NativeType
  <2> QED
    BY <2>1, <2>2, <2>3, <2>4, <2>5 DEF AgentNext
<1> QED
  BY <1>1, <1>2, <1>3 DEF LocalTo

LEMMA CommandStep ==
  ASSUME PathType, NEW a \in Agents, AgentNext(a) \/ Connect(a) \/ DisplayTick(a)
  PROVE  \/ commands'[a] = commands[a] /\ ~Inject(a)
         \/ Inject(a) /\ commands[a] # <<>> /\ commands'[a] = Tail(commands[a])
         \/ /\ ReceiveDisconnected(a) \/ ApplyAgentAction(a)
            /\ connection[a] \in Sessions /\ connection[a] # NoSession
            /\ commands'[a] = Append(commands[a], ReleaseAll(connection[a]))
         \/ /\ ApplyAgentAction(a) /\ TakeAction(a)
            /\ connection[a] \in Sessions /\ connection[a] # NoSession
            /\ Head(actions[a]).type = "ApplyInput" /\ Head(actions[a]).batch \in Batch
            /\ commands'[a] = Append(commands[a], ApplyBatch(connection[a], Head(actions[a]).batch))
         \/ Connect(a) /\ opened + 1 \in Sessions
            /\ commands'[a] = Append(commands[a], BeginSession(opened + 1))
<1>1. CASE Inject(a)
  <2>1. commands[a] # <<>> /\ commands' = Pop(commands, a)
    BY <1>1, TakenCommand DEF PathType
  <2> QED
    BY <1>1, <2>1, CommandQueues DEF PathType
<1>2. CASE UNCHANGED commands /\ ~Inject(a)
  BY <1>2
<1>3. UNCHANGED commands /\ commands[a] # <<>> => ~Inject(a)
  <2> SUFFICES ASSUME Inject(a), UNCHANGED commands PROVE FALSE
    OBVIOUS
  <2>1. commands[a] # <<>> /\ commands[a] = Tail(commands[a]) /\ commands[a] \in Seq(Command)
    BY TakenCommand, CommandQueues DEF PathType, NativeType
  <2>2. Len(commands[a]) \in Nat /\ Len(Tail(commands[a])) = Len(commands[a]) - 1
    BY <2>1, TailQueue
  <2>3. Len(commands[a]) = Len(commands[a]) - 1
    BY <2>1, <2>2, Zenon
  <2>4. Len(commands[a]) \in Nat
    BY <2>2
  <2> HIDE <2>2, <2>1
  <2> QED
    BY <2>3, <2>4
<1>4. CASE ReceiveFocus(a) \/ ReceiveInput(a) \/ ReportDisplay(a) \/ ReceiveApplied(a)
           \/ ReceiveDesktopChanged(a) \/ DisplayTick(a)
  <2>1. UNCHANGED commands
    BY <1>4 DEF ReceiveFocus, ReceiveInput, ReportDisplay, SendFails, ReceiveApplied,
                ReceiveDesktopChanged, DisplayTick, nativeVars
  <2>2. Inject(a) => commands[a] # <<>>
    BY DEF Inject
  <2> QED
    BY <1>2, <1>3, <2>1, <2>2
<1>5. CASE ReceiveDisconnected(a)
  <2>1. /\ connection[a] \in Sessions /\ connection[a] # NoSession
        /\ commands' = Put(commands, a, ReleaseAll(connection[a]))
    BY <1>5, TakenMessage DEF ReceiveDisconnected, PathType
  <2> QED
    BY <1>5, <2>1, CommandTypes, CommandQueues DEF PathType
<1>6. CASE ApplyAgentAction(a)
  <2>1. connection[a] \in Sessions /\ connection[a] # NoSession /\ Head(actions[a]) \in Action
    BY <1>6, TakenAction DEF ApplyAgentAction, PathType
  <2>2. CASE UNCHANGED commands
    <3>1. Inject(a) => commands[a] # <<>>
      BY DEF Inject
    <3> QED
      BY <1>2, <1>3, <2>2, <3>1
  <2>3. CASE commands' = Put(commands, a, ReleaseAll(connection[a]))
    BY <1>6, <2>1, <2>3, CommandTypes, CommandQueues DEF PathType
  <2>4. CASE /\ Head(actions[a]).type = "ApplyInput" /\ TakeAction(a)
             /\ commands' = Put(commands, a, ApplyBatch(connection[a], Head(actions[a]).batch))
    <3>1. Head(actions[a]).batch \in Batch
      BY <2>1, <2>4, ActionFacts
    <3>2. ApplyBatch(connection[a], Head(actions[a]).batch) \in Command
      BY <2>1, <3>1, CommandTypes
    <3> QED
      BY <1>6, <2>1, <2>4, <3>1, <3>2, CommandQueues DEF PathType
  <2> QED
    BY <1>6, <2>2, <2>3, <2>4 DEF ApplyAgentAction, SendFails
<1>7. CASE Connect(a)
  <2>1. /\ opened + 1 \in Sessions
        /\ commands' = Put(commands, a, BeginSession(opened + 1))
    BY <1>7, InputPathBounds DEF Connect, ConnectionType, PathType, Sessions
  <2>2. BeginSession(opened + 1) \in Command
    BY <2>1, CommandTypes
  <2> QED
    BY <1>7, <2>1, <2>2, CommandQueues DEF PathType
<1> QED
  BY <1>1, <1>4, <1>5, <1>6, <1>7 DEF AgentNext

(* What is owned stays owned.                                              *)
OwnedNow(a, s) == s \in 1 .. opened' /\ owner'[s] = a

LEMMA OpenedGrows ==
  ASSUME PathType, [PathNext]_pathVars
  PROVE  \/ UNCHANGED <<opened, owner>>
         \/ \E a \in Agents : Connect(a) /\ opened' = opened + 1 /\ opened + 1 \in Sessions
                              /\ owner' = [owner EXCEPT ![opened + 1] = a]
<1>1. \/ UNCHANGED <<opened, owner>>
      \/ \E a \in Agents : Connect(a)
  <2>1. CASE ApplyControllerActions \/ Captured \/ EndTick \/ ReturnLocal \/ UNCHANGED pathVars
    BY <2>1 DEF ApplyControllerActions, Captured, EndTick, ReturnLocal, connectionVars, pathVars
  <2>2. ASSUME NEW s \in Sessions,
               \/ AcceptControllerPeer(s) \/ IgnoreNetworkEvent(s) \/ DisplayReported(s)
               \/ Acknowledged(s) \/ DisconnectControllerPeer(s) \/ Lose(s)
               \/ ConnectionWorkerEnds(s)
        PROVE  UNCHANGED <<opened, owner>>
    BY <2>2 DEF AcceptControllerPeer, IgnoreNetworkEvent, DisplayReported, Acknowledged,
                DisconnectControllerPeer, Lose, ConnectionWorkerEnds
  <2>3. ASSUME NEW a \in Agents, AgentNext(a) \/ DisplayTick(a) PROVE UNCHANGED <<opened, owner>>
    BY <2>3 DEF AgentNext, ReceiveFocus, ReceiveInput, ReceiveDisconnected, ApplyAgentAction,
       ReceiveApplied, ReceiveDesktopChanged, ReportDisplay, Inject, DisplayTick, connectionVars
  <2> QED
    BY <2>1, <2>2, <2>3 DEF PathNext, SteadyNext, ControllerNext
<1>2. ASSUME NEW a \in Agents, Connect(a)
      PROVE  opened' = opened + 1 /\ opened + 1 \in Sessions
             /\ owner' = [owner EXCEPT ![opened + 1] = a]
  BY <1>2, InputPathBounds DEF Connect, PathType, ConnectionType, Sessions
<1> QED
  BY <1>1, <1>2

LEMMA OwnedStays ==
  ASSUME PathType, [PathNext]_pathVars
  PROVE  \A a, s : Owned(a, s) => OwnedNow(a, s)
<1> SUFFICES ASSUME NEW a, NEW s, Owned(a, s) PROVE OwnedNow(a, s)
  OBVIOUS
<1>1. s \in 1 .. opened /\ owner[s] = a /\ opened \in Nat /\ s \in Sessions
  BY InputPathBounds DEF Owned, PathType, ConnectionType, Sessions
<1>2. CASE UNCHANGED <<opened, owner>>
  BY <1>1, <1>2 DEF OwnedNow
<1>3. ASSUME NEW b, opened' = opened + 1, owner' = [owner EXCEPT ![opened + 1] = b]
      PROVE  OwnedNow(a, s)
  BY <1>1, <1>3 DEF OwnedNow, PathType, ConnectionType
<1> QED
  BY <1>2, <1>3, OpenedGrows

LEMMA OwnedWhenOpened ==
  ASSUME PathType, NEW a \in Agents, Connect(a) PROVE OwnedNow(a, opened + 1)
<1>1. opened' = opened + 1 /\ opened + 1 \in Sessions /\ owner' = [owner EXCEPT ![opened + 1] = a]
  BY InputPathBounds DEF Connect, PathType, ConnectionType, Sessions
<1> QED
  BY <1>1 DEF OwnedNow, PathType, ConnectionType, Sessions

OwnedBy(a) ==
  /\ connection[a] # NoSession => Owned(a, connection[a])
  /\ active_generation[a] # NoSession => Owned(a, active_generation[a])
  /\ \A command \in Entries(commands[a]) : Owned(a, command.generation)
  /\ \A event \in Entries(native_events[a]) :
       event.type = "Applied" => Owned(a, event.generation)

LEMMA OwnedByStep ==
  ASSUME PathType, OwnedInv, [PathNext]_pathVars, NEW a \in Agents
  PROVE  OwnedBy(a)'
<1>1. /\ OwnedBy(a) /\ \A s : Owned(a, s) => OwnedNow(a, s)
      /\ commands[a] \in Seq(Command) /\ native_events[a] \in Seq(NativeEvent)
  BY OwnedStays DEF OwnedInv, OwnedBy, PathType, NativeType
<1> SUFFICES /\ connection'[a] # NoSession => OwnedNow(a, connection'[a])
             /\ active_generation'[a] # NoSession => OwnedNow(a, active_generation'[a])
             /\ \A command \in Entries(commands'[a]) : OwnedNow(a, command.generation)
             /\ \A event \in Entries(native_events'[a]) :
                  event.type = "Applied" => OwnedNow(a, event.generation)
  BY DEF OwnedBy, Owned, OwnedNow
<1>2. ASSUME NEW b \in Agents, AgentNext(b) \/ Connect(b) \/ DisplayTick(b), b # a
      PROVE  UNCHANGED <<connection[a], active_generation[a], commands[a], native_events[a]>>
  BY <1>2, OtherAgents DEF LocalTo, RuntimeOf, ServiceOf
<1>3. CASE UNCHANGED <<agentVars, nativeVars, injected, applied>>
  BY <1>1, <1>3 DEF agentVars, nativeVars, OwnedBy
<1>4. ASSUME AgentNext(a) \/ Connect(a) \/ DisplayTick(a)
      PROVE  connection'[a] # NoSession => OwnedNow(a, connection'[a])
  <2>1. CASE Connect(a)
    <3>1. connection'[a] = opened + 1
      BY <2>1 DEF Connect, PathType, AgentType
    <3> QED
      BY <2>1, <3>1, OwnedWhenOpened
  <2>2. CASE ~Connect(a)
    <3>1. connection'[a] = connection[a] \/ connection'[a] = NoSession
      BY <1>4, <2>2 DEF AgentNext, ReceiveFocus, ReceiveInput, ReceiveDisconnected,
         ApplyAgentAction, ReceiveApplied, ReceiveDesktopChanged, ReportDisplay, Inject,
         DisplayTick, agentVars, PathType, AgentType
    <3> QED
      BY <1>1, <3>1 DEF OwnedBy
  <2> QED
    BY <2>1, <2>2
<1>5. ASSUME AgentNext(a) \/ Connect(a) \/ DisplayTick(a)
      PROVE  \A command \in Entries(commands'[a]) : OwnedNow(a, command.generation)
  <2>1. CASE commands'[a] = commands[a] \/ (commands[a] # <<>> /\ commands'[a] = Tail(commands[a]))
    <3>1. Entries(commands'[a]) \subseteq Entries(commands[a])
      BY <1>1, <2>1, TailQueue
    <3> QED
      BY <1>1, <3>1 DEF OwnedBy
  <2>2. ASSUME NEW command \in Command, commands'[a] = Append(commands[a], command),
               OwnedNow(a, command.generation)
        PROVE  \A other \in Entries(commands'[a]) : OwnedNow(a, other.generation)
    <3>1. Entries(commands'[a]) = Entries(commands[a]) \cup {command}
      BY <1>1, <2>2, AppendQueue
    <3> QED
      BY <1>1, <2>2, <3>1 DEF OwnedBy
  <2>3. ASSUME connection[a] \in Sessions, connection[a] # NoSession
        PROVE  /\ ReleaseAll(connection[a]) \in Command
               /\ OwnedNow(a, ReleaseAll(connection[a]).generation)
               /\ \A batch \in Batch :
                    /\ ApplyBatch(connection[a], batch) \in Command
                    /\ OwnedNow(a, ApplyBatch(connection[a], batch).generation)
    BY <1>1, <2>3, CommandTypes DEF OwnedBy, ReleaseAll, ApplyBatch
  <2>4. ASSUME Connect(a), opened + 1 \in Sessions
        PROVE  /\ BeginSession(opened + 1) \in Command
               /\ OwnedNow(a, BeginSession(opened + 1).generation)
    BY <2>4, CommandTypes, OwnedWhenOpened DEF BeginSession
  <2> QED
    BY <1>5, <2>1, <2>2, <2>3, <2>4, CommandStep
<1>6. ASSUME AgentNext(a) \/ Connect(a) \/ DisplayTick(a)
      PROVE  active_generation'[a] # NoSession => OwnedNow(a, active_generation'[a])
  <2>1. CASE Inject(a)
    <3>1. Head(commands[a]) \in Entries(commands[a])
      BY <1>1, <2>1, TakenCommand, TailQueue DEF PathType
    <3>2. \/ active_generation'[a] = active_generation[a]
          \/ active_generation'[a] = Head(commands[a]).generation
      BY <2>1 DEF Inject, BeginInjection, PathType, NativeType
    <3> QED
      BY <1>1, <3>1, <3>2 DEF OwnedBy
  <2>2. CASE ~Inject(a)
    <3>1. UNCHANGED active_generation
      BY <1>6, <2>2 DEF AgentNext, ReceiveFocus, ReceiveInput, ReceiveDisconnected,
         ApplyAgentAction, ReceiveApplied, ReceiveDesktopChanged, ReportDisplay,
         Connect, DisplayTick, nativeVars
    <3> QED
      BY <1>1, <3>1 DEF OwnedBy
  <2> QED
    BY <2>1, <2>2
<1>7. ASSUME AgentNext(a) \/ Connect(a) \/ DisplayTick(a)
      PROVE  \A event \in Entries(native_events'[a]) :
               event.type = "Applied" => OwnedNow(a, event.generation)
  <2>1. CASE Inject(a)
    <3>1. Head(commands[a]) \in Entries(commands[a]) /\ Head(commands[a]) \in Command
      BY <1>1, <2>1, TakenCommand, TailQueue DEF PathType
    <3>2. CASE UNCHANGED native_events
      BY <1>1, <3>2 DEF OwnedBy
    <3>3. CASE InjectBatch(a, Head(commands[a]).generation, Head(commands[a]).batch)
               /\ Head(commands[a]).type = "ApplyBatch"
      <4> DEFINE event == Applied(Head(commands[a]).generation, Head(commands[a]).batch.sequence)
      <4>1. event \in NativeEvent /\ event.generation = Head(commands[a]).generation
        BY <3>1, <3>3, CommandFacts, CommandTypes DEF Applied
      <4>2. native_events'[a] = Append(native_events[a], event)
        BY <3>3, <4>1, NativeQueues DEF InjectBatch, PathType
      <4>3. Entries(native_events'[a]) = Entries(native_events[a]) \cup {event}
        BY <1>1, <4>1, <4>2, AppendQueue
      <4> QED
        BY <1>1, <3>1, <4>1, <4>3 DEF OwnedBy
    <3> QED
      BY <2>1, <3>2, <3>3 DEF Inject
  <2>2. CASE ReceiveApplied(a) \/ ReceiveDesktopChanged(a)
    <3>1. native_events[a] # <<>> /\ native_events' = Pop(native_events, a)
      BY <2>2 DEF ReceiveApplied, ReceiveDesktopChanged, IsNextIn
    <3>2. native_events'[a] = Tail(native_events[a])
      BY <3>1, NativeQueues DEF PathType
    <3>3. Entries(native_events'[a]) \subseteq Entries(native_events[a])
      BY <1>1, <3>1, <3>2, TailQueue
    <3> QED
      BY <1>1, <3>3 DEF OwnedBy
  <2>3. CASE DisplayTick(a)
    <3>1. PICK size \in Sizes : native_events' = Put(native_events, a, DesktopChanged(size))
      BY <2>3 DEF DisplayTick
    <3>2. DesktopChanged(size) \in NativeEvent /\ DesktopChanged(size).type # "Applied"
      BY DEF DesktopChanged, NativeEvent
    <3>3. native_events'[a] = Append(native_events[a], DesktopChanged(size))
      BY <3>1, <3>2, NativeQueues DEF PathType
    <3>4. Entries(native_events'[a]) = Entries(native_events[a]) \cup {DesktopChanged(size)}
      BY <1>1, <3>2, <3>3, AppendQueue
    <3> QED
      BY <1>1, <3>2, <3>4 DEF OwnedBy
  <2>4. CASE Connect(a)
    BY <2>4 DEF Connect, PathType, NativeType, Entries
  <2>5. CASE ReceiveFocus(a) \/ ReceiveInput(a) \/ ReceiveDisconnected(a) \/ ApplyAgentAction(a)
             \/ ReportDisplay(a)
    BY <1>1, <2>5 DEF ReceiveFocus, ReceiveInput, ReceiveDisconnected, ApplyAgentAction,
                      ReportDisplay, nativeVars, OwnedBy
  <2> QED
    BY <1>7, <2>1, <2>2, <2>3, <2>4, <2>5 DEF AgentNext
<1>8. ASSUME NEW b \in Agents, AgentNext(b) \/ Connect(b) \/ DisplayTick(b), b # a
      PROVE  /\ connection'[a] # NoSession => OwnedNow(a, connection'[a])
             /\ active_generation'[a] # NoSession => OwnedNow(a, active_generation'[a])
             /\ \A command \in Entries(commands'[a]) : OwnedNow(a, command.generation)
             /\ \A event \in Entries(native_events'[a]) :
                  event.type = "Applied" => OwnedNow(a, event.generation)
  BY <1>1, <1>2, <1>8 DEF OwnedBy
<1> QED
  BY <1>3, <1>4, <1>5, <1>6, <1>7, <1>8, ControllerFrames

(* Nothing has gone over a connection that was not opened yet.             *)
LEMMA UnopenedIsUnused ==
  ASSUME PathType, OwnedInv, [PathNext]_pathVars, NEW s \in Sessions, s > opened'
  PROVE  down'[s] = <<>> /\ applied'[s] = 0
<1>1. /\ s > opened /\ down[s] = <<>> /\ applied[s] = 0 /\ ~alive[s] /\ up[s] = <<>>
      /\ s \notin 1 .. opened
  <2>1. opened \in Nat /\ opened' \in Nat /\ s \in Nat /\ opened <= opened'
    BY OpenedGrows DEF PathType, ConnectionType, Sessions
  <2>2. s > opened
    BY <2>1
  <2> QED
    BY <2>1, <2>2 DEF OwnedInv, PathType, OpenedByAgents
<1>2. down'[s] = down[s]
  <2>1. CASE UNCHANGED down
    BY <2>1
  <2>2. CASE ApplyControllerActions
    BY <1>1, <2>2 DEF ApplyControllerActions
  <2>3. CASE Captured \/ EndTick \/ ReturnLocal \/ UNCHANGED pathVars
    BY <2>3 DEF Captured, EndTick, ReturnLocal, pathVars, connectionVars
  <2>4. ASSUME NEW t \in Sessions,
               \/ AcceptControllerPeer(t) \/ IgnoreNetworkEvent(t) \/ Acknowledged(t)
               \/ DisconnectControllerPeer(t) \/ ConnectionWorkerEnds(t)
        PROVE  down'[s] = down[s]
    BY <2>4 DEF AcceptControllerPeer, IgnoreNetworkEvent, Acknowledged,
                DisconnectControllerPeer, ConnectionWorkerEnds
  <2>5. ASSUME NEW t \in Sessions, DisplayReported(t) PROVE down'[s] = down[s]
    <3>1. t # s
      BY <1>1, <2>5, TakenEvent DEF DisplayReported, PathType
    <3> QED
      BY <2>5, <3>1 DEF DisplayReported, Put, PathType, ConnectionType
  <2>6. ASSUME NEW t \in Sessions, Lose(t) PROVE down'[s] = down[s]
    BY <1>1, <2>6 DEF Lose
  <2>7. ASSUME NEW a \in Agents, ReceiveFocus(a) \/ ReceiveInput(a) \/ ReceiveDisconnected(a)
        PROVE  down'[s] = down[s]
    <3>1. down[connection[a]] # <<>> /\ down' = Pop(down, connection[a])
      BY <2>7, TakenMessage DEF ReceiveFocus, ReceiveInput, ReceiveDisconnected, PathType
    <3> QED
      BY <1>1, <3>1 DEF Pop
  <2>8. ASSUME NEW a \in Agents,
               \/ ApplyAgentAction(a) \/ ReceiveApplied(a) \/ ReceiveDesktopChanged(a)
               \/ ReportDisplay(a) \/ Inject(a) \/ Connect(a) \/ DisplayTick(a)
        PROVE  down'[s] = down[s]
    BY <2>8 DEF ApplyAgentAction, ReceiveApplied, ReceiveDesktopChanged, ReportDisplay,
                Inject, Connect, DisplayTick, connectionVars
  <2> QED
    BY <2>2, <2>3, <2>4, <2>5, <2>6, <2>7, <2>8
       DEF PathNext, SteadyNext, ControllerNext, AgentNext
<1>3. applied'[s] = applied[s]
  <2>1. CASE UNCHANGED applied
    BY <2>1
  <2>2. ASSUME NEW a \in Agents, Inject(a) PROVE applied'[s] = applied[s]
    <3>1. Head(commands[a]) \in Entries(commands[a])
      BY <2>2, TakenCommand, TailQueue DEF PathType, NativeType
    <3>2. Head(commands[a]).generation # s
      BY <1>1, <3>1 DEF OwnedInv, Owned
    <3> QED
      BY <2>2, <3>2 DEF Inject, InjectBatch, historyVars, PathType, NativeType
  <2>3. ASSUME NEW a \in Agents, AgentNext(a) \/ Connect(a) \/ DisplayTick(a), ~Inject(a)
        PROVE  UNCHANGED applied
    BY <2>3 DEF AgentNext, ReceiveFocus, ReceiveInput, ReceiveDisconnected, ApplyAgentAction,
       ReceiveApplied, ReceiveDesktopChanged, ReportDisplay, Connect, DisplayTick, historyVars
  <2> QED
    BY <2>1, <2>2, <2>3, ControllerFrames
<1> QED
  BY <1>1, <1>2, <1>3

LEMMA OwnedInvStep == ASSUME PathType, OwnedInv, [PathNext]_pathVars PROVE OwnedInv'
<1>1. \A a \in Agents : OwnedBy(a)'
  BY OwnedByStep
<1>2. \A s \in Sessions : s > opened' => down'[s] = <<>> /\ applied'[s] = 0
  BY UnopenedIsUnused
<1> QED
  BY <1>1, <1>2 DEF OwnedBy, OwnedInv

LEMMA OwnedInvInit == PathInit \/ EstablishedInit => OwnedInv
<1> SUFFICES ASSUME PathInit \/ EstablishedInit PROVE OwnedInv
  OBVIOUS
<1>1. /\ commands = [a \in Agents |-> <<>>] /\ native_events = [a \in Agents |-> <<>>]
      /\ down = [s \in Sessions |-> <<>>] /\ applied = [s \in Sessions |-> 0]
  BY DEF PathInit, EstablishedInit
<1>2. \A a \in Agents : /\ connection[a] # NoSession => Owned(a, connection[a])
                        /\ active_generation[a] # NoSession => Owned(a, active_generation[a])
  <2>1. CASE PathInit
    BY <2>1 DEF PathInit
  <2>2. CASE EstablishedInit
    BY <2>2, EstablishedPeers DEF EstablishedInit, Owned, Sessions
  <2> QED
    BY <2>1, <2>2
<1> QED
  BY <1>1, <1>2 DEF OwnedInv, Entries

LEMMA OwnedInvHolds == PathSpec => [](PathType /\ OwnedInv)
BY OwnedInvInit, OwnedInvStep, PathInitType, PathTypeStep, PTL DEF PathSpec

-----------------------------------------------------------------------------
(* Acknowledgements.                                                       *)

IsBatch(command, generation) == command.type = "ApplyBatch" /\ command.generation = generation

(* Batches of one generation, among other commands, by their sequence.     *)
BatchesInOrder(list) ==
  \A i, j \in 1 .. Len(list) :
    i < j /\ list[i].type = "ApplyBatch" /\ IsBatch(list[j], list[i].generation) =>
      list[i].batch.sequence <= list[j].batch.sequence

(* The session of a is at most one batch behind its injection service.     *)
SessionSequence(a) ==
  connection[a] # NoSession =>
    /\ last_applied_sequence[a] <= applied[connection[a]]
    /\ applied[connection[a]] <= last_applied_sequence[a] + 1
    /\ IsPending(a) => pending_batch[a].sequence = last_applied_sequence[a] + 1
    /\ \A action \in Entries(actions[a]) :
         /\ action.type = "Send" => action.through <= applied[connection[a]]
         /\ action.type = "ApplyInput" => action.batch.sequence = last_applied_sequence[a] + 1
    /\ \A command \in Entries(commands[a]) :
         IsBatch(command, connection[a]) =>
           command.batch.sequence <= last_applied_sequence[a] + 1

ServiceSequence(a) ==
  /\ \A event \in Entries(native_events[a]) :
       event.type = "Applied" => event.sequence <= applied[event.generation]
  /\ \A command \in Entries(commands[a]) :
       command.type = "ApplyBatch" => command.batch.sequence >= applied[command.generation]
  /\ BatchesInOrder(commands[a])

AcksAreApplied ==
  \A s \in Sessions : \A message \in Entries(up[s]) :
    message.type = "InputAcknowledged" => message.through <= applied[s]

AckInv ==
  /\ AcknowledgedAfterApplication
  /\ AcksAreApplied
  /\ \A a \in Agents : SessionSequence(a) /\ ServiceSequence(a)

LEMMA AppendInOrder ==
  ASSUME NEW list \in Seq(Command), NEW command \in Command, BatchesInOrder(list),
         \A other \in Entries(list) :
           other.type = "ApplyBatch" /\ IsBatch(command, other.generation) =>
             other.batch.sequence <= command.batch.sequence
  PROVE  BatchesInOrder(Append(list, command))
<1> DEFINE new == Append(list, command)
<1>1. /\ Len(new) = Len(list) + 1 /\ Len(list) \in Nat
      /\ \A i \in 1 .. Len(list) : new[i] = list[i]
      /\ new[Len(list) + 1] = command
  BY AppendQueue
<1> HIDE DEF new
<1> SUFFICES ASSUME NEW i \in 1 .. Len(new), NEW j \in 1 .. Len(new), i < j,
                    new[i].type = "ApplyBatch", IsBatch(new[j], new[i].generation)
             PROVE  new[i].batch.sequence <= new[j].batch.sequence
  BY DEF BatchesInOrder, new
<1>2. i \in 1 .. Len(list) /\ new[i] = list[i]
  BY <1>1
<1>3. CASE j \in 1 .. Len(list)
  BY <1>1, <1>2, <1>3 DEF BatchesInOrder
<1>4. CASE j = Len(list) + 1
  <2>1. list[i] \in Entries(list)
    BY <1>2 DEF Entries
  <2> QED
    BY <1>1, <1>2, <1>4, <2>1
<1> QED
  BY <1>1, <1>3, <1>4

LEMMA TailInOrder ==
  ASSUME NEW list \in Seq(Command), list # <<>>, BatchesInOrder(list)
  PROVE  /\ BatchesInOrder(Tail(list))
         /\ \A other \in Entries(Tail(list)) :
              Head(list).type = "ApplyBatch" /\ IsBatch(other, Head(list).generation) =>
                Head(list).batch.sequence <= other.batch.sequence
<1>1. /\ Len(Tail(list)) = Len(list) - 1 /\ Len(list) \in Nat /\ Len(list) >= 1
      /\ Head(list) = list[1]
      /\ \A i \in 1 .. Len(list) - 1 : Tail(list)[i] = list[i + 1]
  BY TailQueue
<1>2. BatchesInOrder(Tail(list))
  <2> SUFFICES ASSUME NEW i \in 1 .. Len(list) - 1, NEW j \in 1 .. Len(list) - 1, i < j,
                      Tail(list)[i].type = "ApplyBatch",
                      IsBatch(Tail(list)[j], Tail(list)[i].generation)
               PROVE  Tail(list)[i].batch.sequence <= Tail(list)[j].batch.sequence
    BY <1>1 DEF BatchesInOrder
  <2>1. /\ i + 1 \in 1 .. Len(list) /\ j + 1 \in 1 .. Len(list) /\ i + 1 < j + 1
        /\ Tail(list)[i] = list[i + 1] /\ Tail(list)[j] = list[j + 1]
    BY <1>1
  <2> QED
    BY <2>1 DEF BatchesInOrder
<1>3. ASSUME NEW i \in 1 .. Len(list) - 1, Head(list).type = "ApplyBatch",
             IsBatch(Tail(list)[i], Head(list).generation)
      PROVE  Head(list).batch.sequence <= Tail(list)[i].batch.sequence
  <2>1. /\ 1 \in 1 .. Len(list) /\ i + 1 \in 1 .. Len(list) /\ 1 < i + 1
        /\ Tail(list)[i] = list[i + 1] /\ Head(list) = list[1]
    BY <1>1, <1>3
  <2> QED
    BY <1>3, <2>1 DEF BatchesInOrder
<1> QED
  BY <1>1, <1>2, <1>3 DEF Entries


(* What is applied on a connection grows, by the service of its agent.     *)
LEMMA AppliedSources ==
  ASSUME PathType, OwnedInv, \A a \in Agents : ServiceSequence(a), [PathNext]_pathVars,
         NEW s \in Sessions
  PROVE  /\ applied'[s] \in Nat /\ applied[s] <= applied'[s]
         /\ \A a \in Agents : Owned(a, s) /\ applied'[s] # applied[s] => Inject(a)
<1>1. applied[s] \in Nat /\ applied'[s] \in Nat
  BY PathTypeStep DEF PathType, NativeType
<1>2. CASE UNCHANGED applied
  BY <1>1, <1>2
<1>3. ASSUME NEW a \in Agents, Inject(a)
      PROVE  /\ applied[s] <= applied'[s]
             /\ applied'[s] # applied[s] => owner[s] = a
  <2> DEFINE command == Head(commands[a])
  <2>1. command \in Entries(commands[a]) /\ command \in Command
    BY <1>3, TakenCommand, TailQueue DEF PathType, NativeType
  <2>2. CASE UNCHANGED applied
    BY <1>1, <2>2
  <2>3. CASE /\ command.type = "ApplyBatch"
             /\ applied' = [applied EXCEPT ![command.generation] = command.batch.sequence]
    <3>1. /\ command.batch.sequence >= applied[command.generation]
          /\ owner[command.generation] = a
      BY <2>1, <2>3 DEF ServiceSequence, OwnedInv, Owned
    <3> QED
      BY <1>1, <2>3, <3>1 DEF PathType, NativeType
  <2> QED
    BY <1>3, <2>2, <2>3 DEF Inject, InjectBatch, historyVars
<1>4. ASSUME NEW a \in Agents, AgentNext(a) \/ Connect(a) \/ DisplayTick(a), ~Inject(a)
      PROVE  UNCHANGED applied
  BY <1>4 DEF AgentNext, ReceiveFocus, ReceiveInput, ReceiveDisconnected, ApplyAgentAction,
     ReceiveApplied, ReceiveDesktopChanged, ReportDisplay, Connect, DisplayTick, historyVars
<1> QED
  BY <1>1, <1>2, <1>3, <1>4, ControllerFrames DEF Owned

(* Where the messages to the controller come from.                         *)
LEMMA UpSources ==
  ASSUME PathType, [PathNext]_pathVars, NEW s \in Sessions, NEW message \in Entries(up'[s])
  PROVE  \/ message \in Entries(up[s])
         \/ message.type # "InputAcknowledged"
         \/ \E a \in Agents :
              /\ connection[a] = s /\ s # NoSession /\ actions[a] # <<>>
              /\ Head(actions[a]).type = "Send"
              /\ message.through = Head(actions[a]).through
<1> DEFINE Goal == \/ message \in Entries(up[s])
                   \/ message.type # "InputAcknowledged"
                   \/ \E a \in Agents :
                        /\ connection[a] = s /\ s # NoSession /\ actions[a] # <<>>
                        /\ Head(actions[a]).type = "Send"
                        /\ message.through = Head(actions[a]).through
<1>0. up[s] \in Seq(UpMessage)
  BY DEF PathType, ConnectionType
<1>1. CASE UNCHANGED up
  BY <1>1
<1>2. ASSUME NEW t \in Sessions, NEW new \in UpMessage, up' = Put(up, t, new)
      PROVE  message \in Entries(up[s]) \/ (message = new /\ s = t)
  <2>1. up'[t] = Append(up[t], new) /\ (s # t => up'[s] = up[s])
    BY <1>2, UpQueues DEF PathType
  <2>2. CASE s = t
    <3>1. Entries(Append(up[s], new)) = Entries(up[s]) \cup {new}
      BY <1>0, <1>2, AppendQueue
    <3>2. message \in Entries(up[s]) \cup {new}
      BY <2>1, <2>2, <3>1
    <3> QED
      BY <2>2, <3>2
  <2>3. CASE s # t
    BY <2>1, <2>3
  <2> QED
    BY <2>2, <2>3
<1>3. ASSUME NEW t \in Sessions, up[t] # <<>>, up' = Pop(up, t) PROVE Goal
  <2>1. up'[s] = up[s] \/ (up[s] # <<>> /\ up'[s] = Tail(up[s]))
    BY <1>3, UpQueues DEF PathType
  <2> QED
    BY <1>0, <2>1, TailQueue
<1>4. CASE ApplyControllerActions \/ Captured \/ EndTick \/ ReturnLocal \/ UNCHANGED pathVars
  BY <1>1, <1>4 DEF ApplyControllerActions, Captured, EndTick, ReturnLocal, pathVars,
                    connectionVars
<1>5. ASSUME NEW t \in Sessions, AcceptControllerPeer(t) PROVE Goal
  BY <1>1, <1>5 DEF AcceptControllerPeer
<1>6. ASSUME NEW t \in Sessions,
             \/ IgnoreNetworkEvent(t) \/ DisplayReported(t) \/ Acknowledged(t)
             \/ DisconnectControllerPeer(t)
      PROVE  Goal
  BY <1>3, <1>6 DEF IgnoreNetworkEvent, DisplayReported, Acknowledged,
                    DisconnectControllerPeer, TakeNetworkEvent, IsNextIn
<1>7. ASSUME NEW t \in Sessions, Lose(t) PROVE Goal
  <2>1. PICK kept \in Prefixes(up[t]) : up' = [up EXCEPT ![t] = kept]
    BY <1>7 DEF Lose
  <2>2. up[t] \in Seq(UpMessage)
    BY DEF PathType, ConnectionType
  <2>3. Entries(kept) \subseteq Entries(up[t])
    BY <2>2, PrefixQueue
  <2> QED
    BY <2>1, <2>3 DEF PathType, ConnectionType
<1>8. ASSUME NEW t \in Sessions, ConnectionWorkerEnds(t) PROVE Goal
  <2>1. up' = Put(up, t, Disconnected)
    BY <1>8 DEF ConnectionWorkerEnds
  <2> QED
    BY <1>2, <2>1, UpTypes DEF Disconnected
<1>9. ASSUME NEW a \in Agents, ApplyAgentAction(a) PROVE Goal
  <2>1. CASE Head(actions[a]).type = "Send" /\ Sent(a, InputAcknowledged(Head(actions[a]).through))
    <3> DEFINE new == InputAcknowledged(Head(actions[a]).through)
    <3>1. /\ connection[a] \in Sessions /\ connection[a] # NoSession /\ actions[a] # <<>>
          /\ new \in UpMessage /\ new.through = Head(actions[a]).through
      BY <1>9, <2>1, TakenAction, ActionFacts, UpTypes
         DEF ApplyAgentAction, PathType, InputAcknowledged
    <3>2. up' = Put(up, connection[a], new) \/ UNCHANGED up
      BY <2>1 DEF Sent
    <3> HIDE DEF new
    <3> QED
      BY <1>1, <1>2, <2>1, <3>1, <3>2
  <2> QED
    BY <1>1, <1>9, <2>1 DEF ApplyAgentAction, SendFails
<1>10. ASSUME NEW a \in Agents, ReportDisplay(a) PROVE Goal
  <2>1. DisplayChanged(display_size[a]) \in UpMessage /\ connection[a] \in Sessions
    BY <1>10, UpTypes DEF AgentType, PathType, ReportDisplay, ActionsNeedConnection
  <2>2. UNCHANGED up \/ up' = Put(up, connection[a], DisplayChanged(display_size[a]))
    BY <1>10 DEF ReportDisplay, SendFails, Sent
  <2> QED
    BY <1>1, <1>2, <2>1, <2>2 DEF DisplayChanged
<1>11. ASSUME NEW a \in Agents, Connect(a) PROVE Goal
  <2>1. PICK size \in Sizes : up' = Put(up, opened + 1, DisplayChanged(size))
    BY <1>11 DEF Connect
  <2>2. opened + 1 \in Sessions /\ DisplayChanged(size) \in UpMessage
    BY <1>11, UpTypes, InputPathBounds DEF Connect, PathType, ConnectionType, Sessions
  <2> QED
    BY <1>2, <2>1, <2>2 DEF DisplayChanged
<1>12. ASSUME NEW a \in Agents,
              \/ ReceiveFocus(a) \/ ReceiveInput(a) \/ ReceiveDisconnected(a)
              \/ ReceiveApplied(a) \/ ReceiveDesktopChanged(a) \/ Inject(a) \/ DisplayTick(a)
       PROVE  Goal
  BY <1>1, <1>12 DEF ReceiveFocus, ReceiveInput, ReceiveDisconnected, ReceiveApplied,
                     ReceiveDesktopChanged, Inject, DisplayTick, connectionVars
<1> QED
  BY <1>4, <1>5, <1>6, <1>7, <1>8, <1>9, <1>10, <1>11, <1>12
     DEF PathNext, SteadyNext, ControllerNext, AgentNext

LEMMA AcksAreAppliedStep ==
  ASSUME PathType, OwnedInv, AckInv, [PathNext]_pathVars PROVE AcksAreApplied'
<1> SUFFICES ASSUME NEW s \in Sessions, NEW message \in Entries(up'[s]),
                    message.type = "InputAcknowledged"
             PROVE  message.through <= applied'[s]
  BY DEF AcksAreApplied
<1>1. applied[s] \in Nat /\ applied'[s] \in Nat /\ applied[s] <= applied'[s]
  BY AppliedSources DEF AckInv, PathType, NativeType
<1>2. CASE message \in Entries(up[s])
  <2>1. message.through <= applied[s]
    BY <1>2 DEF AckInv, AcksAreApplied
  <2>2. message.through \in Nat
    <3>1. message \in UpMessage
      BY <1>2 DEF PathType, ConnectionType, Entries
    <3> QED
      BY <3>1, UpMessageType
  <2> QED
    BY <1>1, <2>1, <2>2
<1>3. ASSUME NEW a \in Agents, connection[a] = s, s # NoSession, actions[a] # <<>>,
             Head(actions[a]).type = "Send", message.through = Head(actions[a]).through
      PROVE  message.through <= applied'[s]
  <2>1. Head(actions[a]) \in Entries(actions[a]) /\ Head(actions[a]) \in Action
    BY <1>3, TailQueue DEF PathType, AgentType
  <2>2. message.through <= applied[s] /\ message.through \in Nat
    BY <1>3, <2>1, ActionFacts DEF AckInv, SessionSequence
  <2> QED
    BY <1>1, <2>2
<1> QED
  BY <1>2, <1>3, UpSources


(* What the controller takes for acknowledged, and on which connection.    *)
LEMMA AcknowledgedSources ==
  ASSUME PathType, [PathNext]_pathVars, NEW a \in Agents
  PROVE  \/ peers'[a] = NoSession
         \/ last_acknowledged'[a] = 0
         \/ peers'[a] = peers[a] /\ last_acknowledged'[a] = last_acknowledged[a]
         \/ /\ peers'[a] = peers[a] /\ peers[a] \in Sessions
            /\ \E message \in Entries(up[peers[a]]) :
                 message.type = "InputAcknowledged" /\ last_acknowledged'[a] = message.through
<1> DEFINE Goal == \/ peers'[a] = NoSession
                   \/ last_acknowledged'[a] = 0
                   \/ peers'[a] = peers[a] /\ last_acknowledged'[a] = last_acknowledged[a]
                   \/ /\ peers'[a] = peers[a] /\ peers[a] \in Sessions
                      /\ \E message \in Entries(up[peers[a]]) :
                           /\ message.type = "InputAcknowledged"
                           /\ last_acknowledged'[a] = message.through
<1>1. CASE UNCHANGED <<peers, last_acknowledged>>
  BY <1>1
<1>2. CASE ApplyControllerActions \/ EndTick \/ ReturnLocal \/ UNCHANGED pathVars
  BY <1>1, <1>2 DEF ApplyControllerActions, TakeActions, Fail, EndTick, Flush, FailStranded,
     ReturnLocal, ReturnToLocal, runtimeVars, deliveries, pathVars, controllerVars, vars
<1>3. CASE Captured
  <2>1. UNCHANGED <<peers, last_acknowledged>>
    BY <1>3 DEF Captured, Activated, Activate, FailStranded, RouteKey, RouteEvent, Moved,
                RouteMotion, RouteCrossing, ChangeFocus, deliveries
  <2> QED
    BY <1>1, <2>1
<1>4. ASSUME NEW s \in Sessions, AcceptControllerPeer(s) PROVE Goal
  <2>1. /\ peers' = [peers EXCEPT ![owner[s]] = s]
        /\ owner[s] \in Agents /\ Peers = Agents
    BY <1>4, PeersAreAgents
       DEF AcceptControllerPeer, ReplaceConnection, PathType, OpenedByAgents
  <2>2. last_acknowledged' = [last_acknowledged EXCEPT ![owner[s]] = 0]
    BY <1>4, <2>1 DEF AcceptControllerPeer, ResetPeer
  <2> QED
    BY <2>1, <2>2 DEF PathType, ConnectionType, SessionType
<1>5. ASSUME NEW s \in Sessions, DisplayReported(s) PROVE Goal
  <2>1. UNCHANGED peers
    BY <1>5 DEF DisplayReported, runtimeVars
  <2>2. last_acknowledged'[a] = last_acknowledged[a] \/ last_acknowledged'[a] = 0
    BY <1>5 DEF DisplayReported, ReconcileTopology, FailStranded, RetainDeliveries, Fail,
                deliveries, vars
  <2> QED
    BY <2>1, <2>2
<1>6. ASSUME NEW s \in Sessions, Acknowledged(s) PROVE Goal
  <2>1. /\ peers[owner[s]] = s /\ Head(up[s]).type = "InputAcknowledged"
        /\ Head(up[s]) \in Entries(up[s]) /\ UNCHANGED peers /\ owner[s] \in Agents
    BY <1>6, TakenEvent, TailQueue DEF Acknowledged, PathType, ConnectionType, runtimeVars
  <2>2. \/ UNCHANGED last_acknowledged
        \/ last_acknowledged' = [last_acknowledged EXCEPT ![owner[s]] = Head(up[s]).through]
    BY <1>6 DEF Acknowledged, Acknowledge, Fail, deliveries, vars
  <2> QED
    BY <2>1, <2>2, ZenonT(60) DEF PathType, SessionType
<1>7. ASSUME NEW s \in Sessions, DisconnectControllerPeer(s) PROVE Goal
  <2>1. UNCHANGED last_acknowledged /\ peers' = [peers EXCEPT ![owner[s]] = NoSession]
    BY <1>7 DEF DisconnectControllerPeer, ReturnToLocal, deliveries, vars
  <2> QED
    BY <2>1 DEF PathType, ConnectionType
<1>8. ASSUME NEW s \in Sessions, IgnoreNetworkEvent(s) \/ Lose(s) \/ ConnectionWorkerEnds(s)
      PROVE  Goal
  BY <1>1, <1>8 DEF IgnoreNetworkEvent, Lose, ConnectionWorkerEnds, controllerVars, vars,
                    deliveries, runtimeVars
<1>9. ASSUME NEW b \in Agents, AgentNext(b) \/ Connect(b) \/ DisplayTick(b) PROVE Goal
  <2>1. UNCHANGED controllerVars
    BY <1>9 DEF AgentNext, ReceiveFocus, ReceiveInput, ReceiveDisconnected, ApplyAgentAction,
                ReceiveApplied, ReceiveDesktopChanged, ReportDisplay, Inject, Connect,
                DisplayTick
  <2> QED
    BY <1>1, <2>1 DEF controllerVars, vars, deliveries, runtimeVars
<1> QED
  BY <1>2, <1>3, <1>4, <1>5, <1>6, <1>7, <1>8, <1>9 DEF PathNext, SteadyNext, ControllerNext

LEMMA AcknowledgedStep ==
  ASSUME PathType, OwnedInv, AckInv, [PathNext]_pathVars PROVE AcknowledgedAfterApplication'
<1> SUFFICES ASSUME NEW a \in Agents, peers'[a] # NoSession
             PROVE  last_acknowledged'[a] <= applied'[peers'[a]]
  BY DEF AcknowledgedAfterApplication
<1>1. \A s \in Sessions : applied[s] \in Nat /\ applied'[s] \in Nat /\ applied[s] <= applied'[s]
  BY AppliedSources DEF AckInv, PathType, NativeType
<1>2. peers'[a] \in Sessions /\ last_acknowledged'[a] \in Nat /\ last_acknowledged[a] \in Nat
  BY PathTypeStep DEF PathType, ConnectionType, SessionType
<1>3. CASE last_acknowledged'[a] = 0
  BY <1>1, <1>2, <1>3
<1>4. CASE peers'[a] = peers[a] /\ last_acknowledged'[a] = last_acknowledged[a]
  <2>1. last_acknowledged[a] <= applied[peers[a]]
    BY <1>4 DEF AckInv, AcknowledgedAfterApplication
  <2> QED
    BY <1>1, <1>2, <1>4, <2>1
<1>5. ASSUME NEW message \in Entries(up[peers[a]]), peers'[a] = peers[a],
             message.type = "InputAcknowledged", last_acknowledged'[a] = message.through
      PROVE  last_acknowledged'[a] <= applied'[peers'[a]]
  <2>1. message.through <= applied[peers[a]]
    BY <1>2, <1>5 DEF AckInv, AcksAreApplied
  <2> QED
    BY <1>1, <1>2, <1>5, <2>1
<1> QED
  BY <1>3, <1>4, <1>5, AcknowledgedSources


(* What a step leaves alone stays in order.                                *)
LEMMA SequenceFrame ==
  ASSUME PathType, OwnedInv, AckInv, [PathNext]_pathVars, NEW a \in Agents,
         UNCHANGED LocalTo(a), ~Inject(a)
  PROVE  SessionSequence(a)' /\ ServiceSequence(a)'
<1>1. \A s \in Sessions : Owned(a, s) => applied'[s] = applied[s]
  BY AppliedSources DEF AckInv
<1>2. UNCHANGED <<connection[a], last_applied_sequence[a], pending_batch[a], actions[a],
                  commands[a], native_events[a]>>
  BY DEF LocalTo, SessionOf, RuntimeOf, ServiceOf
<1>3. SessionSequence(a) /\ ServiceSequence(a)
  BY DEF AckInv
<1>4. \A s : Owned(a, s) => s \in Sessions
  BY InputPathBounds DEF Owned, PathType, ConnectionType, Sessions
<1>5. SessionSequence(a)'
  <2>1. connection[a] # NoSession => applied'[connection[a]] = applied[connection[a]]
    BY <1>1, <1>4 DEF OwnedInv
  <2> QED
    BY <1>2, <1>3, <2>1 DEF SessionSequence, IsPending
<1>6. ServiceSequence(a)'
  <2>1. \A event \in Entries(native_events[a]) :
          event.type = "Applied" => applied'[event.generation] = applied[event.generation]
    BY <1>1, <1>4 DEF OwnedInv
  <2>2. \A command \in Entries(commands[a]) :
          applied'[command.generation] = applied[command.generation]
    BY <1>1, <1>4 DEF OwnedInv
  <2> QED
    BY <1>2, <1>3, <2>1, <2>2 DEF ServiceSequence
<1> QED
  BY <1>5, <1>6

(* What the calls of a's session return, and what they leave pending.      *)
Returned(a) ==
  \/ UNCHANGED <<last_applied_sequence[a], pending_batch[a], actions[a]>>
  \/ /\ UNCHANGED <<last_applied_sequence[a], pending_batch[a]>>
     /\ Entries(actions'[a]) \subseteq Entries(actions[a])
  \/ /\ UNCHANGED last_applied_sequence[a]
     /\ pending_batch'[a] \in {pending_batch[a], NoBatch}
     /\ Entries(actions'[a]) \subseteq {ReleaseAllInput, FocusEntered}
  \/ /\ UNCHANGED <<last_applied_sequence[a], pending_batch[a]>>
     /\ actions'[a] = <<SendAck(last_applied_sequence[a])>>
  \/ \E batch \in Batch :
       /\ batch.sequence = last_applied_sequence[a] + 1
       /\ UNCHANGED last_applied_sequence[a]
       /\ pending_batch'[a] = batch
       /\ actions'[a] = <<ApplyInput(batch)>>
  \/ /\ IsPending(a) /\ native_events[a] # <<>>
     /\ Head(native_events[a]).type = "Applied"
     /\ Head(native_events[a]).generation = connection[a]
     /\ Head(native_events[a]).sequence = pending_batch[a].sequence
     /\ last_applied_sequence'[a] = pending_batch[a].sequence
     /\ pending_batch'[a] = NoBatch
     /\ actions'[a] = <<SendAck(pending_batch[a].sequence)>>

LEMMA SessionReturns ==
  ASSUME PathType, NEW a \in Agents, AgentNext(a) \/ DisplayTick(a)
  PROVE  Returned(a)
<1>1. Failed(a) => Returned(a)
  BY DEF Failed, Returned
<1>2. CASE ReceiveFocus(a)
  <2> DEFINE message == Head(down[connection[a]])
             focused == [epoch |-> message.epoch, target |-> message.target,
                         entry |-> message.entry]
  <2>1. FollowFocus(a, focused)
    BY <1>2 DEF ReceiveFocus
  <2> HIDE DEF focused
  <2>2. CASE FocusError(a, focused)
    BY <1>1, <2>2, CallErrors
  <2>3. CASE UNCHANGED agentSessions
    BY <2>3 DEF agentSessions, focusVars, deliveryVars, Returned
  <2>4. CASE /\ Return(a, ReleaseIfActive(a) \o
                     (IF focused.target = a THEN <<FocusEntered>> ELSE <<>>))
             /\ UNCHANGED deliveryVars
    <3> DEFINE S == {ReleaseAllInput, FocusEntered}
    <3>1. ReleaseIfActive(a) \in Seq(S)
      <4>1. <<>> \in Seq(S) /\ <<ReleaseAllInput>> \in Seq(S)
        OBVIOUS
      <4> QED
        BY <4>1 DEF ReleaseIfActive
    <3>2. (IF focused.target = a THEN <<FocusEntered>> ELSE <<>>) \in Seq(S)
      <4>1. <<>> \in Seq(S) /\ <<FocusEntered>> \in Seq(S)
        OBVIOUS
      <4> QED
        BY <4>1
    <3>3. actions'[a] \in Seq(S)
      <4>1. actions'[a] = ReleaseIfActive(a) \o
                     (IF focused.target = a THEN <<FocusEntered>> ELSE <<>>)
        BY <2>4 DEF Return, PathType, AgentType
      <4> QED
        BY <3>1, <3>2, <4>1, JoinQueues
    <3>4. Entries(actions'[a]) \subseteq S
      BY <3>3 DEF Entries
    <3> QED
      BY <2>4, <3>4 DEF deliveryVars, Returned
  <2> QED
    BY <2>1, <2>2, <2>3, <2>4 DEF FollowFocus
<1>3. CASE ReceiveInput(a)
  <2> DEFINE message == Head(down[connection[a]])
             batch == [epoch |-> message.epoch, sequence |-> message.sequence,
                       events |-> message.events]
  <2>1. batch \in Batch /\ ReceiveBatch(a, batch)
    BY <1>3, TakenMessage, BatchIsTyped DEF ReceiveInput, PathType
  <2> HIDE DEF batch
  <2>2. CASE InputError(a, batch)
    BY <1>1, <2>2, CallErrors
  <2>3. CASE /\ Return(a, <<SendAck(last_applied_sequence[a])>>)
             /\ UNCHANGED deliveryVars
    BY <2>3 DEF Return, deliveryVars, Returned, PathType, AgentType
  <2>4. CASE /\ IsNext(a, batch)
             /\ pending_batch' = [pending_batch EXCEPT ![a] = batch]
             /\ Return(a, <<ApplyInput(batch)>>)
             /\ UNCHANGED last_applied_sequence
    BY <2>1, <2>4 DEF Return, IsNext, Returned, PathType, AgentType
  <2> QED
    BY <2>1, <2>2, <2>3, <2>4 DEF ReceiveBatch
<1>4. CASE ReceiveDisconnected(a) \/ Inject(a) \/ DisplayTick(a)
  BY <1>4 DEF ReceiveDisconnected, Inject, DisplayTick, agentVars, agentSessions,
       focusVars, deliveryVars, Returned
<1>5. CASE ApplyAgentAction(a)
  <2>1. CASE TakeAction(a)
    <3>1. actions'[a] = Tail(actions[a]) /\ actions[a] # <<>>
          /\ UNCHANGED <<last_applied_sequence, pending_batch>>
      BY <2>1 DEF TakeAction, Return, deliveryVars, PathType, AgentType
    <3>2. Entries(actions'[a]) \subseteq Entries(actions[a])
      BY <3>1, TailQueue DEF PathType, AgentType
    <3> QED
      BY <3>1, <3>2 DEF Returned
  <2> QED
    BY <1>1, <1>5, <2>1, CallErrors DEF ApplyAgentAction, SendFails
<1>6. CASE ReceiveApplied(a)
  <2> DEFINE event == Head(native_events[a])
  <2>1. native_events[a] # <<>> /\ event.type = "Applied"
    BY <1>6 DEF ReceiveApplied, IsNextIn
  <2>2. CASE UNCHANGED agentSessions
    BY <2>2 DEF agentSessions, focusVars, deliveryVars, Returned
  <2>3. CASE event.generation = connection[a] /\ ConfirmApplied(a, event.sequence)
    <3>1. CASE ConfirmError(a, event.sequence)
      BY <1>1, <3>1, CallErrors
    <3>2. CASE ~ConfirmError(a, event.sequence)
      BY <2>1, <2>3, <3>2 DEF ConfirmApplied, Return, Returned, PathType, AgentType
    <3> QED
      BY <3>1, <3>2
  <2> QED
    BY <1>6, <2>2, <2>3 DEF ReceiveApplied
<1>7. CASE ReceiveDesktopChanged(a)
  <2>1. /\ UNCHANGED last_applied_sequence /\ pending_batch'[a] = NoBatch
        /\ actions'[a] = <<ReleaseAllInput>>
    BY <1>7 DEF ReceiveDesktopChanged, ReconcileDisplay, Return, PathType, AgentType
  <2>2. Entries(<<ReleaseAllInput>>) \subseteq {ReleaseAllInput}
    BY DEF Entries
  <2> QED
    BY <2>1, <2>2 DEF Returned
<1>8. CASE ReportDisplay(a)
  <2>1. Failed(a) \/ UNCHANGED agentSessions
    BY <1>8, CallErrors DEF ReportDisplay, SendFails
  <2> QED
    BY <1>1, <2>1 DEF agentSessions, focusVars, deliveryVars, Returned
<1> QED
  BY <1>2, <1>3, <1>4, <1>5, <1>6, <1>7, <1>8 DEF AgentNext


(* What the service does with the command it takes.                        *)
LEMMA InjectEffect ==
  ASSUME PathType, NEW a \in Agents, Inject(a)
  PROVE  /\ commands[a] # <<>> /\ commands'[a] = Tail(commands[a])
         /\ Head(commands[a]) \in Command /\ Head(commands[a]) \in Entries(commands[a])
         /\ \/ UNCHANGED <<applied, injected>> /\ native_events' = native_events
            \/ /\ IsBatch(Head(commands[a]), active_generation[a])
               /\ Head(commands[a]).batch.events \in Seq(InputEvents)
               /\ injected'[a] = injected[a] \o Head(commands[a]).batch.events
               /\ applied' = [applied EXCEPT ![Head(commands[a]).generation] =
                                Head(commands[a]).batch.sequence]
               /\ native_events'[a] =
                    Append(native_events[a], Applied(Head(commands[a]).generation,
                                                     Head(commands[a]).batch.sequence))
<1> DEFINE command == Head(commands[a])
<1>1. /\ commands[a] # <<>> /\ commands'[a] = Tail(commands[a]) /\ command \in Command
  BY TakenCommand, CommandQueues DEF PathType
<1>2. command \in Entries(commands[a])
  BY <1>1, TailQueue DEF PathType, NativeType
<1>3. CASE UNCHANGED <<applied, injected, native_events>>
  BY <1>1, <1>2, <1>3
<1>4. CASE /\ command.type = "ApplyBatch" /\ command.generation = active_generation[a]
           /\ InjectBatch(a, command.generation, command.batch)
  <2>1. /\ command.generation \in Sessions /\ command.batch.events \in Seq(InputEvents)
        /\ command.batch.sequence \in Nat
    BY <1>1, <1>4, CommandFacts
  <2>2. Applied(command.generation, command.batch.sequence) \in NativeEvent
    BY <2>1, CommandTypes
  <2>3. native_events'[a] =
          Append(native_events[a], Applied(command.generation, command.batch.sequence))
    BY <1>4, <2>2, NativeQueues DEF InjectBatch, PathType
  <2>4. injected'[a] = injected[a] \o command.batch.events
    BY <1>4 DEF InjectBatch, PathType, NativeType
  <2>5. applied' = [applied EXCEPT ![command.generation] = command.batch.sequence]
    BY <1>4 DEF InjectBatch
  <2> QED
    BY <1>1, <1>2, <1>4, <2>1, <2>3, <2>4, <2>5 DEF IsBatch
<1> QED
  BY <1>3, <1>4 DEF Inject, historyVars

LEMMA SessionSequenceStep ==
  ASSUME PathType, OwnedInv, AckInv, [PathNext]_pathVars, NEW a \in Agents,
         AgentNext(a) \/ DisplayTick(a)
  PROVE  SessionSequence(a)'
<1> DEFINE c == connection[a]
           last == last_applied_sequence[a]
           last2 == last_applied_sequence'[a]
<1> SUFFICES ASSUME connection'[a] # NoSession PROVE SessionSequence(a)'
  BY DEF SessionSequence
<1>1. connection'[a] = c /\ c # NoSession /\ c \in Sessions
  <2>1. connection'[a] \in {connection[a], NoSession}
    BY DEF AgentNext, ReceiveFocus, ReceiveInput, ReceiveDisconnected, ApplyAgentAction,
       ReceiveApplied, ReceiveDesktopChanged, ReportDisplay, Inject, DisplayTick, agentVars,
       PathType, AgentType
  <2> QED
    BY <2>1 DEF PathType, AgentType
<1>2. /\ SessionSequence(a) /\ ServiceSequence(a) /\ Owned(a, c)
      /\ commands[a] \in Seq(Command) /\ native_events[a] \in Seq(NativeEvent)
      /\ last \in Nat /\ applied[c] \in Nat /\ applied'[c] \in Nat
  BY <1>1, AppliedSources DEF AckInv, OwnedInv, PathType, AgentType, NativeType
<1>3. last <= applied[c] /\ applied[c] <= last + 1 /\ Returned(a)
  BY <1>1, <1>2, SessionReturns DEF SessionSequence
<1>4. applied[c] <= applied'[c] /\ applied'[c] <= last + 1
  <2>1. CASE applied'[c] = applied[c]
    BY <1>2, <1>3, <2>1
  <2>2. CASE applied'[c] # applied[c]
    <3>1. Inject(a)
      BY <1>1, <1>2, <2>2, AppliedSources DEF AckInv
    <3>2. /\ Head(commands[a]) \in Entries(commands[a])
          /\ IsBatch(Head(commands[a]), c)
          /\ applied'[c] = Head(commands[a]).batch.sequence
      BY <1>1, <2>2, <3>1, InjectEffect DEF PathType, NativeType, IsBatch
    <3>3. applied'[c] <= last + 1
      BY <1>1, <1>2, <3>2 DEF SessionSequence
    <3> QED
      BY <1>1, <1>2, <3>3, AppliedSources DEF AckInv
  <2> QED
    BY <2>1, <2>2
<1>5. /\ last2 = last \/ last2 = last + 1
      /\ last2 <= applied'[c]
  <2>1. CASE last2 = last
    BY <1>2, <1>3, <1>4, <2>1
  <2>2. CASE /\ IsPending(a) /\ native_events[a] # <<>>
             /\ Head(native_events[a]).type = "Applied"
             /\ Head(native_events[a]).generation = c
             /\ Head(native_events[a]).sequence = pending_batch[a].sequence
             /\ last2 = pending_batch[a].sequence
    <3>1. last2 = last + 1
      BY <1>1, <1>2, <2>2 DEF SessionSequence
    <3>2. Head(native_events[a]) \in Entries(native_events[a])
      BY <1>2, <2>2, TailQueue
    <3>3. last2 <= applied[c]
      BY <1>2, <2>2, <3>2 DEF ServiceSequence
    <3> QED
      BY <1>2, <1>4, <3>1, <3>3
  <2> QED
    BY <1>3, <2>1, <2>2 DEF Returned
<1>6. pending_batch'[a] # NoBatch => pending_batch'[a].sequence = last2 + 1
  <2>1. pending_batch[a] # NoBatch => pending_batch[a].sequence = last + 1
    BY <1>1, <1>2 DEF SessionSequence, IsPending
  <2> QED
    BY <1>3, <2>1 DEF Returned
<1>7. ASSUME NEW action \in Entries(actions'[a])
      PROVE  /\ action.type = "Send" => action.through <= applied'[c]
             /\ action.type = "ApplyInput" => action.batch.sequence = last2 + 1
  <2>1. CASE action \in Entries(actions[a]) /\ last2 = last
    <3>1. /\ action.type = "Send" => action.through <= applied[c] /\ action.through \in Nat
          /\ action.type = "ApplyInput" => action.batch.sequence = last + 1
      <4>1. action \in Action
        BY <2>1 DEF Entries, PathType, AgentType
      <4> QED
        BY <1>1, <1>2, <2>1, <4>1, ActionFacts DEF SessionSequence
    <3> QED
      BY <1>2, <1>4, <2>1, <3>1
  <2>2. CASE Entries(actions'[a]) \subseteq {ReleaseAllInput, FocusEntered}
    BY <2>2 DEF ReleaseAllInput, FocusEntered
  <2>3. CASE actions'[a] = <<SendAck(last)>>
    <3>1. action = SendAck(last)
      BY <2>3 DEF Entries
    <3> QED
      BY <1>2, <1>3, <1>4, <3>1 DEF SendAck
  <2>4. ASSUME NEW batch \in Batch, batch.sequence = last + 1, last2 = last,
               actions'[a] = <<ApplyInput(batch)>>
        PROVE  /\ action.type = "Send" => action.through <= applied'[c]
               /\ action.type = "ApplyInput" => action.batch.sequence = last2 + 1
    <3>1. action = ApplyInput(batch)
      BY <2>4 DEF Entries
    <3> QED
      BY <2>4, <3>1 DEF ApplyInput
  <2>5. CASE last2 = pending_batch[a].sequence /\ actions'[a] = <<SendAck(pending_batch[a].sequence)>>
    <3>1. action = SendAck(last2)
      BY <2>5 DEF Entries
    <3> QED
      BY <1>5, <3>1 DEF SendAck
  <2> QED
    BY <1>3, <2>1, <2>2, <2>3, <2>4, <2>5 DEF Returned
<1>8. ASSUME NEW command \in Entries(commands'[a]), IsBatch(command, c)
      PROVE  command.batch.sequence <= last2 + 1
  <2>1. command.batch.sequence <= last + 1 /\ command.batch.sequence \in Nat
    <3>1. CASE command \in Entries(commands[a])
      <4>1. command \in Command
        BY <1>2, <3>1 DEF Entries
      <4> QED
        BY <1>1, <1>2, <1>8, <3>1, <4>1, CommandFacts DEF SessionSequence, IsBatch
    <3>2. ASSUME NEW new \in Command, commands'[a] = Append(commands[a], new)
          PROVE  command \in Entries(commands[a]) \/ command = new
      <4>1. Entries(commands'[a]) = Entries(commands[a]) \cup {new}
        BY <1>2, <3>2, AppendQueue
      <4> QED
        BY <4>1
    <3>3. CASE commands'[a] = commands[a] \/ (commands[a] # <<>> /\ commands'[a] = Tail(commands[a]))
      BY <1>2, <3>1, <3>3, TailQueue
    <3>4. CASE commands'[a] = Append(commands[a], ReleaseAll(c))
      BY <1>1, <1>8, <3>1, <3>2, <3>4, CommandTypes DEF IsBatch, ReleaseAll
    <3>5. CASE /\ actions[a] # <<>> /\ Head(actions[a]).type = "ApplyInput"
               /\ Head(actions[a]).batch \in Batch
               /\ commands'[a] = Append(commands[a], ApplyBatch(c, Head(actions[a]).batch))
      <4>1. Head(actions[a]) \in Entries(actions[a])
        BY <3>5, TailQueue DEF PathType, AgentType
      <4>2. Head(actions[a]).batch.sequence = last + 1
        BY <1>1, <1>2, <3>5, <4>1 DEF SessionSequence
      <4>3. ApplyBatch(c, Head(actions[a]).batch) \in Command
            /\ ApplyBatch(c, Head(actions[a]).batch).batch = Head(actions[a]).batch
        BY <1>1, <3>5, CommandTypes DEF ApplyBatch
      <4> QED
        BY <1>2, <3>1, <3>2, <3>5, <4>2, <4>3, SMTT(60)
    <3> QED
      <4>1. ~Connect(a)
        BY <1>1 DEF Connect
      <4> QED
        BY <3>3, <3>4, <3>5, <4>1, CommandStep DEF ApplyAgentAction
  <2> QED
    BY <1>2, <1>5, <2>1
<1>9. applied'[c] <= last2 + 1
  BY <1>2, <1>4, <1>5
<1> QED
  BY <1>1, <1>5, <1>6, <1>7, <1>8, <1>9 DEF SessionSequence, IsPending


(* The confirmations of the service are of batches it applied.             *)
LEMMA ConfirmationSources ==
  ASSUME PathType, NEW a \in Agents, AgentNext(a) \/ Connect(a) \/ DisplayTick(a),
         NEW event \in Entries(native_events'[a]), event.type = "Applied"
  PROVE  \/ event \in Entries(native_events[a])
         \/ /\ Inject(a) /\ event.generation \in Sessions /\ event.sequence \in Nat
            /\ applied'[event.generation] = event.sequence
<1>1. native_events[a] \in Seq(NativeEvent)
  BY DEF PathType, NativeType
<1>2. CASE Inject(a)
  <2> DEFINE command == Head(commands[a])
             new == Applied(command.generation, command.batch.sequence)
  <2>1. CASE native_events' = native_events
    BY <2>1
  <2>2. CASE /\ command.type = "ApplyBatch"
             /\ applied' = [applied EXCEPT ![command.generation] = command.batch.sequence]
             /\ native_events'[a] = Append(native_events[a], new)
    <3>1. command.generation \in Sessions /\ command.batch.sequence \in Nat
      BY <1>2, <2>2, InjectEffect, CommandFacts
    <3>2. new \in NativeEvent /\ new.generation = command.generation
          /\ new.sequence = command.batch.sequence
      BY <3>1, CommandTypes DEF Applied
    <3>3. Entries(native_events'[a]) = Entries(native_events[a]) \cup {new}
      BY <1>1, <2>2, <3>2, AppendQueue, SMTT(60)
    <3>4. applied'[command.generation] = command.batch.sequence
      BY <2>2, <3>1 DEF PathType, NativeType
    <3> QED
      BY <1>2, <3>1, <3>2, <3>3, <3>4
  <2> QED
    BY <1>2, <2>1, <2>2, InjectEffect DEF IsBatch
<1>3. CASE ReceiveApplied(a) \/ ReceiveDesktopChanged(a)
  <2>1. native_events[a] # <<>> /\ native_events' = Pop(native_events, a)
    BY <1>3 DEF ReceiveApplied, ReceiveDesktopChanged, IsNextIn
  <2>2. native_events'[a] = Tail(native_events[a])
    BY <2>1, NativeQueues DEF PathType
  <2> QED
    BY <1>1, <2>1, <2>2, TailQueue
<1>4. CASE DisplayTick(a)
  <2>1. PICK size \in Sizes : native_events' = Put(native_events, a, DesktopChanged(size))
    BY <1>4 DEF DisplayTick
  <2>2. DesktopChanged(size) \in NativeEvent /\ DesktopChanged(size).type # "Applied"
    BY DEF DesktopChanged, NativeEvent
  <2>3. native_events'[a] = Append(native_events[a], DesktopChanged(size))
    BY <2>1, <2>2, NativeQueues DEF PathType
  <2>4. Entries(native_events'[a]) = Entries(native_events[a]) \cup {DesktopChanged(size)}
    BY <1>1, <2>2, <2>3, AppendQueue
  <2> QED
    BY <2>2, <2>4
<1>5. CASE Connect(a)
  BY <1>5 DEF Connect, PathType, NativeType, Entries
<1>6. CASE ReceiveFocus(a) \/ ReceiveInput(a) \/ ReceiveDisconnected(a) \/ ApplyAgentAction(a)
           \/ ReportDisplay(a)
  BY <1>6 DEF ReceiveFocus, ReceiveInput, ReceiveDisconnected, ApplyAgentAction,
              ReportDisplay, nativeVars
<1> QED
  BY <1>2, <1>3, <1>4, <1>5, <1>6 DEF AgentNext

LEMMA ServiceSequenceStep ==
  ASSUME PathType, OwnedInv, AckInv, [PathNext]_pathVars, NEW a \in Agents,
         AgentNext(a) \/ Connect(a) \/ DisplayTick(a)
  PROVE  ServiceSequence(a)'
<1>1. /\ ServiceSequence(a) /\ commands[a] \in Seq(Command)
      /\ native_events[a] \in Seq(NativeEvent)
  BY DEF AckInv, PathType, NativeType
<1>2. \A s \in Sessions : applied[s] \in Nat /\ applied'[s] \in Nat /\ applied[s] <= applied'[s]
  BY AppliedSources DEF AckInv, PathType, NativeType
<1>3. ASSUME NEW event \in Entries(native_events'[a]), event.type = "Applied"
      PROVE  event.sequence <= applied'[event.generation]
  <2>1. CASE event \in Entries(native_events[a])
    <3>1. event.sequence <= applied[event.generation]
      BY <1>1, <1>3, <2>1 DEF ServiceSequence
    <3>2. event \in NativeEvent
      BY <1>1, <2>1 DEF Entries
    <3>3. event.generation \in Sessions /\ event.sequence \in Nat
      BY <1>3, <3>2 DEF NativeEvent
    <3> QED
      BY <1>2, <3>1, <3>3
  <2> QED
    BY <1>2, <1>3, <2>1, ConfirmationSources
<1>4. CASE Inject(a)
  <2> DEFINE head == Head(commands[a])
  <2>1. /\ commands[a] # <<>> /\ commands'[a] = Tail(commands[a]) /\ head \in Command
        /\ Entries(commands'[a]) \subseteq Entries(commands[a])
    BY <1>1, <1>4, InjectEffect, TailQueue
  <2>2. /\ BatchesInOrder(commands'[a])
        /\ \A other \in Entries(commands'[a]) :
             head.type = "ApplyBatch" /\ IsBatch(other, head.generation) =>
               head.batch.sequence <= other.batch.sequence
    <3>1. BatchesInOrder(commands[a])
      BY <1>1 DEF ServiceSequence
    <3> QED
      BY <1>1, <2>1, <3>1, TailInOrder
  <2>3. ASSUME NEW command \in Entries(commands'[a]), command.type = "ApplyBatch"
        PROVE  command.batch.sequence >= applied'[command.generation]
    <3>1. /\ command.batch.sequence >= applied[command.generation]
          /\ command.generation \in Sessions /\ command.batch.sequence \in Nat
      <4>1. command \in Entries(commands[a]) /\ command \in Command
        BY <1>1, <2>1, <2>3 DEF Entries
      <4> QED
        BY <1>1, <2>3, <4>1, CommandFacts DEF ServiceSequence
    <3>2. CASE applied'[command.generation] = applied[command.generation]
      BY <3>1, <3>2
    <3>3. CASE /\ head.type = "ApplyBatch"
               /\ applied' = [applied EXCEPT ![head.generation] = head.batch.sequence]
      <4>1. CASE command.generation = head.generation
        <5>1. head.batch.sequence <= command.batch.sequence
          BY <2>2, <2>3, <3>3, <4>1 DEF IsBatch
        <5>2. applied'[command.generation] = head.batch.sequence
          BY <3>1, <3>3, <4>1 DEF PathType, NativeType
        <5>3. head.batch.sequence \in Nat
          BY <2>1, <3>3, CommandFacts
        <5> QED
          BY <3>1, <5>1, <5>2, <5>3
      <4>2. CASE command.generation # head.generation
        BY <3>1, <3>3, <4>2 DEF PathType, NativeType
      <4> QED
        BY <4>1, <4>2
    <3> QED
      BY <1>4, <3>2, <3>3, InjectEffect DEF IsBatch
  <2> QED
    BY <1>3, <2>2, <2>3 DEF ServiceSequence
<1>5. CASE ~Inject(a)
  <2>1. \A command \in Entries(commands[a]) :
          applied'[command.generation] = applied[command.generation]
    <3>1. \A command \in Entries(commands[a]) :
            Owned(a, command.generation) /\ command.generation \in Sessions
      <4>1. \A command \in Entries(commands[a]) : command \in Command
        BY <1>1 DEF Entries
      <4> QED
        BY <4>1, CommandFacts DEF OwnedInv
    <3> QED
      BY <1>5, <3>1, AppliedSources DEF AckInv
  <2>2. ASSUME NEW new \in Command, commands'[a] = Append(commands[a], new),
               new.type = "ApplyBatch" =>
                 /\ new.batch.sequence >= applied'[new.generation]
                 /\ \A other \in Entries(commands[a]) :
                      other.type = "ApplyBatch" /\ IsBatch(new, other.generation) =>
                        other.batch.sequence <= new.batch.sequence
        PROVE  ServiceSequence(a)'
    <3>1. Entries(commands'[a]) = Entries(commands[a]) \cup {new}
      BY <1>1, <2>2, AppendQueue
    <3>2. BatchesInOrder(commands'[a])
      BY <1>1, <2>2, AppendInOrder DEF ServiceSequence, IsBatch
    <3>3. \A command \in Entries(commands'[a]) :
            command.type = "ApplyBatch" => command.batch.sequence >= applied'[command.generation]
      BY <1>1, <2>1, <2>2, <3>1 DEF ServiceSequence
    <3> QED
      BY <1>3, <3>2, <3>3 DEF ServiceSequence
  <2>3. CASE commands'[a] = commands[a]
    BY <1>1, <1>3, <2>1, <2>3 DEF ServiceSequence
  <2>4. CASE \/ /\ connection[a] \in Sessions
                /\ commands'[a] = Append(commands[a], ReleaseAll(connection[a]))
             \/ /\ opened + 1 \in Sessions
                /\ commands'[a] = Append(commands[a], BeginSession(opened + 1))
    BY <2>2, <2>4, CommandTypes DEF ReleaseAll, BeginSession
  <2>5. CASE /\ ApplyAgentAction(a) /\ connection[a] \in Sessions /\ connection[a] # NoSession
             /\ Head(actions[a]).type = "ApplyInput" /\ Head(actions[a]).batch \in Batch
             /\ commands'[a] = Append(commands[a], ApplyBatch(connection[a], Head(actions[a]).batch))
    <3> DEFINE new == ApplyBatch(connection[a], Head(actions[a]).batch)
    <3>1. /\ new \in Command /\ new.generation = connection[a]
          /\ new.batch.sequence = Head(actions[a]).batch.sequence
      BY <2>5, CommandTypes DEF ApplyBatch
    <3>2. Head(actions[a]) \in Entries(actions[a])
      BY <2>5, TailQueue DEF ApplyAgentAction, PathType, AgentType
    <3>3. /\ Head(actions[a]).batch.sequence = last_applied_sequence[a] + 1
          /\ applied[connection[a]] <= last_applied_sequence[a] + 1
          /\ \A other \in Entries(commands[a]) :
               IsBatch(other, connection[a]) =>
                 other.batch.sequence <= last_applied_sequence[a] + 1
      BY <2>5, <3>2 DEF AckInv, SessionSequence
    <3>4. applied'[connection[a]] = applied[connection[a]]
      BY <1>5, <2>5, AppliedSources DEF AckInv, OwnedInv
    <3>5. /\ new.batch.sequence >= applied'[new.generation]
          /\ \A other \in Entries(commands[a]) :
               other.type = "ApplyBatch" /\ IsBatch(new, other.generation) =>
                 other.batch.sequence <= new.batch.sequence
      BY <1>2, <2>5, <3>1, <3>3, <3>4 DEF IsBatch, PathType, AgentType
    <3> QED
      BY <2>2, <2>5, <3>1, <3>5
  <2> QED
    BY <1>5, <2>3, <2>4, <2>5, CommandStep
<1> QED
  BY <1>4, <1>5

LEMMA ConnectSequence ==
  ASSUME PathType, OwnedInv, NEW a \in Agents, Connect(a)
  PROVE  SessionSequence(a)'
<1>1. /\ connection'[a] = opened + 1 /\ opened + 1 \in Sessions
      /\ last_applied_sequence'[a] = 0 /\ pending_batch'[a] = NoBatch /\ actions'[a] = <<>>
      /\ UNCHANGED applied
  BY InputPathBounds DEF Connect, Start, PathType, AgentType, ConnectionType, Sessions,
                         historyVars
<1>2. applied[opened + 1] = 0
  BY <1>1 DEF OwnedInv, Sessions, PathType, ConnectionType
<1>3. \A command \in Entries(commands'[a]) : ~IsBatch(command, opened + 1)
  <2>1. /\ commands'[a] = Append(commands[a], BeginSession(opened + 1))
        /\ BeginSession(opened + 1) \in Command /\ commands[a] \in Seq(Command)
    BY <1>1, CommandTypes DEF Connect, Put, PathType, NativeType
  <2>2. Entries(commands'[a]) = Entries(commands[a]) \cup {BeginSession(opened + 1)}
    BY <2>1, AppendQueue
  <2>3. \A command \in Entries(commands[a]) : command.generation # opened + 1
    BY DEF OwnedInv, Owned, PathType, ConnectionType
  <2> QED
    BY <2>2, <2>3 DEF IsBatch, BeginSession
<1> QED
  BY <1>1, <1>2, <1>3 DEF SessionSequence, IsPending, Entries

LEMMA AckInvStep ==
  ASSUME PathType, OwnedInv, AckInv, [PathNext]_pathVars PROVE AckInv'
<1>1. ASSUME NEW a \in Agents PROVE SessionSequence(a)' /\ ServiceSequence(a)'
  <2>1. CASE AgentNext(a) \/ Connect(a) \/ DisplayTick(a)
    BY <2>1, SessionSequenceStep, ServiceSequenceStep, ConnectSequence
  <2>2. CASE ~(AgentNext(a) \/ Connect(a) \/ DisplayTick(a))
    <3>1. UNCHANGED LocalTo(a)
      <4>1. CASE UNCHANGED <<agentVars, nativeVars, injected, applied>>
        BY <4>1 DEF LocalTo, SessionOf, RuntimeOf, ServiceOf, agentVars, agentSessions,
             focusVars, deliveryVars, nativeVars
      <4> QED
        BY <2>2, <4>1, ControllerFrames, OtherAgents
    <3> QED
      BY <2>2, <3>1, SequenceFrame DEF AgentNext
  <2> QED
    BY <2>1, <2>2
<1> QED
  BY <1>1, AcksAreAppliedStep, AcknowledgedStep DEF AckInv

LEMMA AckInvInit == PathInit \/ EstablishedInit => AckInv
<1> SUFFICES ASSUME PathInit \/ EstablishedInit PROVE AckInv
  OBVIOUS
<1>1. /\ commands = [a \in Agents |-> <<>>] /\ native_events = [a \in Agents |-> <<>>]
      /\ up = [s \in Sessions |-> <<>>] /\ applied = [s \in Sessions |-> 0]
      /\ last_acknowledged = [p \in Agents |-> 0]
      /\ peers \in [Agents -> Sessions \cup {NoSession}]
      /\ connection \in [Agents -> Sessions \cup {NoSession}]
  BY PathInitType, EstablishedInitType DEF PathInit, EstablishedInit, Init, PathType,
     ConnectionType, AgentType
<1>2. ASSUME NEW a \in Agents
      PROVE  last_applied_sequence[a] = 0 /\ pending_batch[a] = NoBatch /\ actions[a] = <<>>
  <2>1. CASE PathInit
    BY <2>1 DEF PathInit, AgentSessionInit, Agents
  <2>2. CASE EstablishedInit
    BY <2>2 DEF EstablishedInit
  <2> QED
    BY <2>1, <2>2
<1>3. AcknowledgedAfterApplication /\ AcksAreApplied
  BY <1>1 DEF AcknowledgedAfterApplication, AcksAreApplied, Entries
<1>4. ASSUME NEW a \in Agents PROVE SessionSequence(a) /\ ServiceSequence(a)
  BY <1>1, <1>2 DEF SessionSequence, ServiceSequence, IsPending, BatchesInOrder, Entries
<1> QED
  BY <1>3, <1>4 DEF AckInv

LEMMA AckInvHolds == PathSpec => [](PathType /\ OwnedInv /\ AckInv)
BY AckInvInit, AckInvStep, OwnedInvInit, OwnedInvStep, PathInitType, PathTypeStep, PTL
   DEF PathSpec

(* What the controller takes for acknowledged on a connection was injected *)
(* on that connection, whatever is lost, replaced and still under way      *)
(* (confirm_applied in agent.rs, ApplyBatch in service.rs).                *)
THEOREM AcknowledgedOnlyWhenApplied == PathSpec => []AcknowledgedAfterApplication
<1>1. AckInv => AcknowledgedAfterApplication
  BY DEF AckInv
<1> QED
  BY <1>1, AckInvHolds, PTL


-----------------------------------------------------------------------------
(* What an agent holds.                                                    *)

Latest(list) == list[Len(list)]

(* Every command finds its generation active: the one of the command       *)
(* before it, unless it begins a session.                                  *)
CommandsAreCurrent(a) ==
  /\ commands[a] # <<>> /\ commands[a][1].type # "BeginSession" =>
       commands[a][1].generation = active_generation[a]
  /\ \A i \in 1 .. Len(commands[a]) - 1 :
       commands[a][i + 1].type # "BeginSession" =>
         commands[a][i + 1].generation = commands[a][i].generation
  /\ connection[a] # NoSession =>
       connection[a] = IF commands[a] = <<>> THEN active_generation[a]
                       ELSE Latest(commands[a]).generation

(* Nothing comes between batches of two epochs but a release.              *)
BatchesShareEpoch(list) ==
  \A i \in 1 .. Len(list) - 1 :
    list[i].type = "ApplyBatch" /\ list[i + 1].type = "ApplyBatch" =>
      list[i].batch.epoch = list[i + 1].batch.epoch

HeldIn(a, epoch) == \A key \in held[a] : key.epoch = epoch

(* The session is about to release what is held.                           *)
Releasing(a) == actions[a] # <<>> /\ Head(actions[a]) = ReleaseAllInput

HeldInv(a) ==
  /\ \A k1, k2 \in held[a] : k1.epoch = k2.epoch
  /\ commands[a] # <<>> /\ commands[a][1].type = "ApplyBatch" =>
       HeldIn(a, commands[a][1].batch.epoch)
  /\ BatchesShareEpoch(commands[a])
  /\ connection[a] # NoSession /\ agent_error[a] = "none" /\ ~Releasing(a) =>
       /\ commands[a] = <<>> => HeldIn(a, active_focus_epoch[a])
       /\ commands[a] # <<>> /\ Latest(commands[a]).type = "ApplyBatch" =>
            Latest(commands[a]).batch.epoch = active_focus_epoch[a]
  /\ actions[a] # <<>> =>
       /\ Head(actions[a]).type = "ApplyInput" =>
            Head(actions[a]).batch.epoch = active_focus_epoch[a]
       /\ \A action \in Entries(Tail(actions[a])) : action = FocusEntered

HeldInvAll == \A a \in Agents : CommandsAreCurrent(a) /\ HeldInv(a)

LEMMA LatestOf ==
  ASSUME NEW S, NEW list \in Seq(S)
  PROVE  /\ \A m \in S : Latest(Append(list, m)) = m
         /\ list # <<>> =>
              /\ Tail(list) = <<>> => Len(list) = 1 /\ Latest(list) = Head(list)
              /\ Tail(list) # <<>> => Latest(Tail(list)) = Latest(list)
<1>1. \A m \in S : Latest(Append(list, m)) = m
  BY AppendQueue DEF Latest
<1>2. ASSUME list # <<>>
      PROVE  /\ Tail(list) = <<>> => Len(list) = 1 /\ Latest(list) = Head(list)
             /\ Tail(list) # <<>> => Latest(Tail(list)) = Latest(list)
  <2>1. /\ Len(Tail(list)) = Len(list) - 1 /\ Len(list) \in Nat /\ Len(list) >= 1
        /\ Head(list) = list[1]
        /\ \A i \in 1 .. Len(list) - 1 : Tail(list)[i] = list[i + 1]
        /\ Tail(list) \in Seq(S)
    BY <1>2, TailQueue
  <2>2. CASE Tail(list) = <<>>
    <3>1. Len(<<>>) = 0
      OBVIOUS
    <3>2. Len(list) - 1 = 0 /\ Len(list) \in Nat
      BY <2>1, <2>2, <3>1, Zenon
    <3>3. Len(list) = 1
      BY <3>2
    <3> QED
      BY <2>1, <2>2, <3>3 DEF Latest
  <2>3. CASE Tail(list) # <<>>
    <3>1. Len(Tail(list)) >= 1
      BY <2>1, <2>3, TailQueue
    <3> QED
      BY <2>1, <2>3, <3>1 DEF Latest
  <2> QED
    BY <2>2, <2>3
<1> QED
  BY <1>1, <1>2

LEMMA AppendShares ==
  ASSUME NEW list \in Seq(Command), NEW command \in Command, BatchesShareEpoch(list),
         list # <<>> /\ Latest(list).type = "ApplyBatch" /\ command.type = "ApplyBatch" =>
           Latest(list).batch.epoch = command.batch.epoch
  PROVE  BatchesShareEpoch(Append(list, command))
<1> DEFINE new == Append(list, command)
<1>1. /\ Len(new) = Len(list) + 1 /\ Len(list) \in Nat
      /\ \A i \in 1 .. Len(list) : new[i] = list[i]
      /\ new[Len(list) + 1] = command
  BY AppendQueue
<1> HIDE DEF new
<1> SUFFICES ASSUME NEW i \in 1 .. Len(list),
                    new[i].type = "ApplyBatch", new[i + 1].type = "ApplyBatch"
             PROVE  new[i].batch.epoch = new[i + 1].batch.epoch
  BY <1>1 DEF BatchesShareEpoch, new
<1>2. CASE i = Len(list)
  BY <1>1, <1>2 DEF Latest
<1>3. CASE i # Len(list)
  <2>1. i \in 1 .. Len(list) - 1 /\ new[i] = list[i] /\ new[i + 1] = list[i + 1]
    BY <1>1, <1>3
  <2> QED
    BY <2>1 DEF BatchesShareEpoch
<1> QED
  BY <1>2, <1>3

LEMMA TailShares ==
  ASSUME NEW list \in Seq(Command), list # <<>>, BatchesShareEpoch(list)
  PROVE  /\ BatchesShareEpoch(Tail(list))
         /\ Tail(list) # <<>> /\ Head(list).type = "ApplyBatch"
              /\ Tail(list)[1].type = "ApplyBatch" =>
              Tail(list)[1].batch.epoch = Head(list).batch.epoch
<1>1. /\ Len(Tail(list)) = Len(list) - 1 /\ Len(list) \in Nat /\ Len(list) >= 1
      /\ Head(list) = list[1] /\ Tail(list) \in Seq(Command)
      /\ \A i \in 1 .. Len(list) - 1 : Tail(list)[i] = list[i + 1]
  BY TailQueue
<1>2. BatchesShareEpoch(Tail(list))
  <2> SUFFICES ASSUME NEW i \in 1 .. Len(list) - 2,
                      Tail(list)[i].type = "ApplyBatch", Tail(list)[i + 1].type = "ApplyBatch"
               PROVE  Tail(list)[i].batch.epoch = Tail(list)[i + 1].batch.epoch
    BY <1>1 DEF BatchesShareEpoch
  <2>1. /\ i + 1 \in 1 .. Len(list) - 1 /\ Tail(list)[i] = list[i + 1]
        /\ Tail(list)[i + 1] = list[i + 1 + 1]
    BY <1>1
  <2> QED
    BY <2>1 DEF BatchesShareEpoch
<1>3. ASSUME Tail(list) # <<>>, Head(list).type = "ApplyBatch", Tail(list)[1].type = "ApplyBatch"
      PROVE  Tail(list)[1].batch.epoch = Head(list).batch.epoch
  <2>1. Len(Tail(list)) >= 1
    BY <1>1, <1>3, TailQueue
  <2>2. 1 \in 1 .. Len(list) - 1 /\ Tail(list)[1] = list[1 + 1]
    BY <1>1, <2>1
  <2> QED
    BY <1>1, <1>3, <2>2 DEF BatchesShareEpoch
<1> QED
  BY <1>2, <1>3


LEMMA CommandsAreCurrentStep ==
  ASSUME PathType, NEW a \in Agents, CommandsAreCurrent(a),
         AgentNext(a) \/ Connect(a) \/ DisplayTick(a)
  PROVE  CommandsAreCurrent(a)'
<1>1. commands[a] \in Seq(Command)
  BY DEF PathType, NativeType
<1>2. ASSUME ~Inject(a) PROVE UNCHANGED active_generation
  BY <1>2 DEF AgentNext, ReceiveFocus, ReceiveInput, ReceiveDisconnected, ApplyAgentAction,
     ReceiveApplied, ReceiveDesktopChanged, ReportDisplay, Connect, DisplayTick, nativeVars
<1>3. ASSUME ~Connect(a) PROVE connection'[a] \in {connection[a], NoSession}
  BY <1>3 DEF AgentNext, ReceiveFocus, ReceiveInput, ReceiveDisconnected, ApplyAgentAction,
     ReceiveApplied, ReceiveDesktopChanged, ReportDisplay, Inject, DisplayTick, agentVars,
     PathType, AgentType
<1>4. CASE Inject(a)
  <2> DEFINE head == Head(commands[a])
  <2>1. /\ commands[a] # <<>> /\ commands'[a] = Tail(commands[a]) /\ head = commands[a][1]
        /\ Len(commands'[a]) = Len(commands[a]) - 1
        /\ Len(commands[a]) \in Nat /\ Len(commands[a]) >= 1
        /\ \A i \in 1 .. Len(commands[a]) - 1 : commands'[a][i] = commands[a][i + 1]
    <3>1. commands[a] # <<>> /\ commands'[a] = Tail(commands[a])
      BY <1>4, InjectEffect
    <3> QED
      BY <1>1, <3>1, TailQueue
  <2>2. active_generation'[a] = head.generation
    <3>1. head.type # "BeginSession" => head.generation = active_generation[a]
      BY <2>1 DEF CommandsAreCurrent
    <3> QED
      BY <1>4, <3>1 DEF Inject, BeginInjection, PathType, NativeType
  <2>3. ASSUME commands'[a] # <<>>, commands'[a][1].type # "BeginSession"
        PROVE  commands'[a][1].generation = head.generation
    <3>1. commands'[a] \in Seq(Command)
      BY <1>1, <2>1, TailQueue
    <3>2. 1 \in 1 .. Len(commands[a]) - 1
      BY <2>1, <2>3, <3>1, TailQueue
    <3> QED
      BY <2>1, <2>3, <3>2 DEF CommandsAreCurrent
  <2>4. ASSUME NEW i \in 1 .. Len(commands'[a]) - 1, commands'[a][i + 1].type # "BeginSession"
        PROVE  commands'[a][i + 1].generation = commands'[a][i].generation
    <3>1. /\ i + 1 \in 1 .. Len(commands[a]) - 1 /\ i \in 1 .. Len(commands[a]) - 1
      BY <2>1
    <3> QED
      BY <2>1, <2>4, <3>1 DEF CommandsAreCurrent
  <2>5. ASSUME connection'[a] # NoSession
        PROVE  connection'[a] = IF commands'[a] = <<>> THEN active_generation'[a]
                                ELSE Latest(commands'[a]).generation
    <3>1. connection'[a] = Latest(commands[a]).generation
      BY <1>3, <1>4, <2>1, <2>5 DEF CommandsAreCurrent, Inject, Connect, agentVars
    <3> QED
      BY <1>1, <2>1, <2>2, <3>1, LatestOf
  <2> QED
    BY <2>2, <2>3, <2>4, <2>5 DEF CommandsAreCurrent
<1>5. ASSUME ~Inject(a), NEW new \in Command, commands'[a] = Append(commands[a], new),
             new.type # "BeginSession" => new.generation = connection[a] /\ connection[a] # NoSession,
             connection'[a] # NoSession => connection'[a] = new.generation
      PROVE  CommandsAreCurrent(a)'
  <2>1. /\ Len(commands'[a]) = Len(commands[a]) + 1 /\ Len(commands[a]) \in Nat
        /\ \A i \in 1 .. Len(commands[a]) : commands'[a][i] = commands[a][i]
        /\ commands'[a][Len(commands[a]) + 1] = new /\ commands'[a] # <<>>
        /\ Latest(commands'[a]) = new
    BY <1>1, <1>5, AppendQueue, LatestOf
  <2>2. commands[a] = <<>> \/ Len(commands[a]) >= 1
    BY <1>1, TailQueue
  <2>3. Len(commands[a]) >= 1 => commands[a] # <<>>
    OBVIOUS
  <2>4. ASSUME commands'[a][1].type # "BeginSession"
        PROVE  commands'[a][1].generation = active_generation[a]
    <3>1. CASE commands[a] = <<>>
      <4>1. Len(commands[a]) = 0
        BY <3>1
      <4>2. commands'[a][1] = new
        BY <2>1, <4>1
      <4> QED
        BY <1>5, <2>4, <3>1, <4>2 DEF CommandsAreCurrent
    <3>2. CASE Len(commands[a]) >= 1
      BY <2>1, <2>3, <2>4, <3>2 DEF CommandsAreCurrent
    <3> QED
      BY <2>2, <3>1, <3>2
  <2>5. ASSUME NEW i \in 1 .. Len(commands[a]), commands'[a][i + 1].type # "BeginSession"
        PROVE  commands'[a][i + 1].generation = commands'[a][i].generation
    <3>1. CASE i = Len(commands[a])
      <4>1. commands'[a][i + 1] = new /\ commands'[a][i] = Latest(commands[a])
            /\ commands[a] # <<>>
        BY <2>1, <2>3, <3>1 DEF Latest
      <4> QED
        BY <1>5, <2>5, <4>1 DEF CommandsAreCurrent
    <3>2. CASE i # Len(commands[a])
      <4>1. i \in 1 .. Len(commands[a]) - 1 /\ i + 1 \in 1 .. Len(commands[a])
        BY <2>1, <3>2
      <4> QED
        BY <2>1, <2>5, <4>1 DEF CommandsAreCurrent
    <3> QED
      BY <3>1, <3>2
  <2> QED
    BY <1>2, <1>5, <2>1, <2>4, <2>5, SMTT(60) DEF CommandsAreCurrent
<1>6. CASE commands'[a] = commands[a] /\ ~Inject(a) /\ ~Connect(a)
  BY <1>2, <1>3, <1>6 DEF CommandsAreCurrent
<1>7. CASE /\ connection[a] \in Sessions /\ connection[a] # NoSession /\ ~Connect(a)
           /\ commands'[a] = Append(commands[a], ReleaseAll(connection[a]))
           /\ ~Inject(a)
  BY <1>3, <1>5, <1>7, CommandTypes DEF ReleaseAll
<1>8. ASSUME connection[a] \in Sessions, connection[a] # NoSession, ~Connect(a), ~Inject(a),
             NEW batch \in Batch, commands'[a] = Append(commands[a], ApplyBatch(connection[a], batch))
      PROVE  CommandsAreCurrent(a)'
  BY <1>3, <1>5, <1>8, CommandTypes DEF ApplyBatch
<1>9. CASE /\ Connect(a) /\ opened + 1 \in Sessions /\ ~Inject(a)
           /\ commands'[a] = Append(commands[a], BeginSession(opened + 1))
  <2>1. connection'[a] = opened + 1
    BY <1>9 DEF Connect, PathType, AgentType
  <2> QED
    BY <1>5, <1>9, <2>1, CommandTypes DEF BeginSession
<1>10. Connect(a) => /\ opened + 1 \in Sessions
                     /\ commands'[a] = Append(commands[a], BeginSession(opened + 1))
  BY InputPathBounds DEF Connect, Put, PathType, ConnectionType, NativeType, Sessions
<1>11. /\ Connect(a) => ~Inject(a)
       /\ connection[a] # NoSession => ~Connect(a)
  BY DEF Connect, Inject, agentVars, PathType, ConnectionType, connectionVars
<1> QED
  BY <1>4, <1>6, <1>7, <1>8, <1>9, <1>10, <1>11, CommandStep


(* What a's session does to its epoch, and what it then has to do.         *)
EpochKept(a) ==
  \/ UNCHANGED <<active_focus_epoch[a], actions[a]>>
  \/ /\ actions[a] = <<>>
     /\ \/ actions'[a] \in {<<ReleaseAllInput>>, <<ReleaseAllInput, FocusEntered>>}
        \/ active_focus_epoch[a] = None /\ actions'[a] \in {<<>>, <<FocusEntered>>}
        \/ /\ UNCHANGED active_focus_epoch[a]
           /\ \E through \in Nat : actions'[a] = <<SendAck(through)>>
        \/ /\ UNCHANGED active_focus_epoch[a]
           /\ \E batch \in Batch : /\ batch.epoch = active_focus_epoch[a]
                                   /\ actions'[a] = <<ApplyInput(batch)>>

LEMMA JoinOne ==
  ASSUME NEW x, NEW y
  PROVE  <<x>> \o <<>> = <<x>> /\ <<x>> \o <<y>> = <<x, y>>
<1>1. <<x>> \o <<>> = <<x>>
  OBVIOUS
<1>2. <<x>> \o <<y>> = <<x, y>>
  <2> DEFINE joined == <<x>> \o <<y>>
  <2>1. /\ joined \in Seq({x, y}) /\ Len(joined) = 2
        /\ joined[1] = x /\ joined[2] = y
    OBVIOUS
  <2>2. joined = [i \in 1 .. 2 |-> joined[i]] /\ <<x, y>> = [i \in 1 .. 2 |-> <<x, y>>[i]]
    BY <2>1
  <2>3. \A i \in 1 .. 2 : joined[i] = <<x, y>>[i]
    BY <2>1
  <2> HIDE DEF joined
  <2>4. joined = <<x, y>>
    BY <2>2, <2>3
  <2> QED
    BY <2>4 DEF joined
<1> QED
  BY <1>1, <1>2

LEMMA SessionKeepsEpoch ==
  ASSUME PathType, NEW a \in Agents,
         \/ ReceiveFocus(a) \/ ReceiveInput(a) \/ ReceiveDisconnected(a) \/ ReceiveApplied(a)
         \/ ReceiveDesktopChanged(a) \/ ReportDisplay(a) \/ Inject(a) \/ DisplayTick(a)
  PROVE  /\ EpochKept(a)
         /\ agent_error'[a] = "none" => agent_error[a] = "none"
<1>0. agent_error = [b \in Agents |-> agent_error[b]]
  BY DEF PathType, AgentType
<1>1. Failed(a) => EpochKept(a) /\ (agent_error'[a] = "none" => agent_error[a] = "none")
  BY <1>0 DEF Failed, EpochKept
<1>2. CASE ReceiveFocus(a)
  <2> DEFINE message == Head(down[connection[a]])
             focused == [epoch |-> message.epoch, target |-> message.target,
                         entry |-> message.entry]
  <2>1. FollowFocus(a, focused) /\ actions[a] = <<>>
    BY <1>2 DEF ReceiveFocus, FollowFocus, AgentIdle
  <2> HIDE DEF focused
  <2>2. CASE FocusError(a, focused)
    BY <1>1, <2>2, CallErrors
  <2>3. CASE UNCHANGED agentSessions
    BY <2>3 DEF agentSessions, focusVars, deliveryVars, EpochKept
  <2>4. CASE /\ Return(a, ReleaseIfActive(a) \o
                     (IF focused.target = a THEN <<FocusEntered>> ELSE <<>>))
             /\ UNCHANGED agent_error
    <3> DEFINE entered == IF focused.target = a THEN <<FocusEntered>> ELSE <<>>
    <3>1. actions'[a] = ReleaseIfActive(a) \o entered
      BY <2>4 DEF Return, PathType, AgentType
    <3>2. CASE active_focus_epoch[a] = None
      <4>1. ReleaseIfActive(a) = <<>>
        BY <3>2 DEF ReleaseIfActive, IsActive
      <4>2. <<>> \o <<>> = <<>> /\ <<>> \o <<FocusEntered>> = <<FocusEntered>>
        OBVIOUS
      <4>3. actions'[a] \in {<<>>, <<FocusEntered>>}
        BY <3>1, <4>1, <4>2
      <4> QED
        BY <2>1, <2>4, <3>2, <4>3 DEF EpochKept
    <3>3. CASE active_focus_epoch[a] # None
      <4>1. ReleaseIfActive(a) = <<ReleaseAllInput>>
        BY <3>3 DEF ReleaseIfActive, IsActive
      <4>2. /\ <<ReleaseAllInput>> \o <<>> = <<ReleaseAllInput>>
            /\ <<ReleaseAllInput>> \o <<FocusEntered>> = <<ReleaseAllInput, FocusEntered>>
        BY JoinOne
      <4>3. actions'[a] \in {<<ReleaseAllInput>>, <<ReleaseAllInput, FocusEntered>>}
        BY <3>1, <4>1, <4>2
      <4> QED
        BY <2>1, <2>4, <4>3 DEF EpochKept
    <3> QED
      BY <3>2, <3>3
  <2> QED
    BY <2>1, <2>2, <2>3, <2>4 DEF FollowFocus
<1>3. CASE ReceiveInput(a)
  <2> DEFINE message == Head(down[connection[a]])
             batch == [epoch |-> message.epoch, sequence |-> message.sequence,
                       events |-> message.events]
  <2>1. batch \in Batch /\ ReceiveBatch(a, batch) /\ actions[a] = <<>>
    BY <1>3, TakenMessage, BatchIsTyped DEF ReceiveInput, PathType, ReceiveBatch, AgentIdle
  <2> HIDE DEF batch
  <2>2. CASE InputError(a, batch)
    BY <1>1, <2>2, CallErrors
  <2>3. CASE /\ Return(a, <<SendAck(last_applied_sequence[a])>>)
             /\ UNCHANGED <<focusVars, agent_error>>
    BY <2>1, <2>3 DEF Return, focusVars, EpochKept, PathType, AgentType
  <2>4. CASE /\ Acceptable(a, batch)
             /\ Return(a, <<ApplyInput(batch)>>)
             /\ UNCHANGED <<focusVars, agent_error>>
    BY <2>1, <2>4 DEF Return, Acceptable, focusVars, EpochKept, PathType, AgentType
  <2> QED
    BY <2>1, <2>2, <2>3, <2>4 DEF ReceiveBatch
<1>4. CASE ReceiveDisconnected(a) \/ Inject(a) \/ DisplayTick(a)
  BY <1>4 DEF ReceiveDisconnected, Inject, DisplayTick, agentVars, agentSessions,
       focusVars, deliveryVars, EpochKept
<1>5. CASE ReceiveApplied(a)
  <2> DEFINE event == Head(native_events[a])
  <2>1. CASE UNCHANGED agentSessions
    BY <2>1 DEF agentSessions, focusVars, deliveryVars, EpochKept
  <2>2. CASE ConfirmApplied(a, event.sequence)
    <3>1. CASE ConfirmError(a, event.sequence)
      BY <1>1, <3>1, CallErrors
    <3>2. CASE ~ConfirmError(a, event.sequence)
      <4>1. event.sequence \in Nat
        BY <1>5 DEF ReceiveApplied, IsNextIn, PathType, NativeType, NativeEvent
      <4> QED
        BY <2>2, <3>2, <4>1 DEF ConfirmApplied, Return, AgentIdle, focusVars, EpochKept,
                                PathType, AgentType
    <3> QED
      BY <3>1, <3>2
  <2> QED
    BY <1>5, <2>1, <2>2 DEF ReceiveApplied
<1>6. CASE ReceiveDesktopChanged(a)
  BY <1>6 DEF ReceiveDesktopChanged, ReconcileDisplay, Return, AgentIdle, EpochKept, PathType,
              AgentType
<1>7. CASE ReportDisplay(a)
  <2>1. Failed(a) \/ UNCHANGED agentSessions
    BY <1>7, CallErrors DEF ReportDisplay, SendFails
  <2> QED
    BY <1>1, <2>1 DEF agentSessions, focusVars, deliveryVars, EpochKept
<1> QED
  BY <1>2, <1>3, <1>4, <1>5, <1>6, <1>7


LEMMA HeldEffect ==
  ASSUME PathType, NEW a \in Agents, CommandsAreCurrent(a), Inject(a)
  PROVE  /\ Head(commands[a]).type # "ApplyBatch" => held'[a] = {}
         /\ Head(commands[a]).type = "ApplyBatch" =>
              \A key \in held'[a] : key \in held[a] \/ key.epoch = Head(commands[a]).batch.epoch
<1> DEFINE head == Head(commands[a])
<1>1. commands[a] # <<>> /\ head = commands[a][1]
  BY InjectEffect, TailQueue DEF PathType, NativeType
<1>2. head.type # "BeginSession" => head.generation = active_generation[a]
  BY <1>1 DEF CommandsAreCurrent
<1>3. CASE head.type # "ApplyBatch"
  BY <1>2, <1>3 DEF Inject, BeginInjection, ReleaseHeld, PathType, NativeType
<1>4. CASE head.type = "ApplyBatch"
  <2>1. held' = [held EXCEPT ![a] = @ \cup
          {[key |-> event.key, epoch |-> head.batch.epoch] : event \in KeysIn(head.batch.events)}]
    BY <1>2, <1>4 DEF Inject, InjectBatch
  <2> QED
    BY <1>4, <2>1 DEF PathType, NativeType
<1> QED
  BY <1>3, <1>4

LEMMA HeldInjectStep ==
  ASSUME PathType, NEW a \in Agents, CommandsAreCurrent(a), HeldInv(a), Inject(a)
  PROVE  HeldInv(a)'
<1> DEFINE head == Head(commands[a])
<1>1. /\ commands[a] # <<>> /\ commands'[a] = Tail(commands[a]) /\ head = commands[a][1]
      /\ commands[a] \in Seq(Command)
  BY InjectEffect, TailQueue DEF PathType, NativeType
<1>2. UNCHANGED <<connection, agent_error, actions, active_focus_epoch>>
  BY DEF Inject, agentVars, agentSessions, focusVars, deliveryVars
<1>3. head.type = "ApplyBatch" => HeldIn(a, head.batch.epoch)
  BY <1>1 DEF HeldInv
<1>4. head.type = "ApplyBatch" => \A key \in held'[a] : key.epoch = head.batch.epoch
  BY <1>3, HeldEffect DEF HeldIn
<1>5. head.type # "ApplyBatch" => held'[a] = {}
  BY HeldEffect
<1>6. /\ BatchesShareEpoch(Tail(commands[a]))
      /\ Tail(commands[a]) # <<>> /\ head.type = "ApplyBatch"
           /\ Tail(commands[a])[1].type = "ApplyBatch" =>
           Tail(commands[a])[1].batch.epoch = head.batch.epoch
  BY <1>1, TailShares DEF HeldInv
<1> HIDE DEF head
<1>7. \A k1, k2 \in held'[a] : k1.epoch = k2.epoch
  BY <1>4, <1>5
<1>8. ASSUME commands'[a] # <<>>, commands'[a][1].type = "ApplyBatch", NEW key \in held'[a]
      PROVE  key.epoch = commands'[a][1].batch.epoch
  BY <1>1, <1>4, <1>5, <1>6, <1>8
<1>9. ASSUME connection'[a] # NoSession, agent_error'[a] = "none", ~Releasing(a)'
      PROVE  /\ commands'[a] = <<>> => \A key \in held'[a] : key.epoch = active_focus_epoch'[a]
             /\ commands'[a] # <<>> /\ Latest(commands'[a]).type = "ApplyBatch" =>
                  Latest(commands'[a]).batch.epoch = active_focus_epoch'[a]
  <2>1. Latest(commands[a]).type = "ApplyBatch" =>
          Latest(commands[a]).batch.epoch = active_focus_epoch[a]
    BY <1>1, <1>2, <1>9 DEF HeldInv, Releasing
  <2>2. CASE commands'[a] = <<>>
    <3>1. Latest(commands[a]) = head
      BY <1>1, <2>2, LatestOf DEF head
    <3> QED
      BY <1>2, <1>4, <1>5, <2>1, <2>2, <3>1
  <2>3. CASE commands'[a] # <<>>
    <3>1. Latest(commands'[a]) = Latest(commands[a])
      BY <1>1, <2>3, LatestOf
    <3> QED
      BY <1>2, <2>1, <2>3, <3>1
  <2> QED
    BY <2>2, <2>3
<1>10. BatchesShareEpoch(commands'[a])
  BY <1>1, <1>6
<1> QED
  BY <1>2, <1>7, <1>8, <1>9, <1>10 DEF HeldInv, HeldIn

(* A command put behind the others.                                        *)
LEMMA HeldWhenPut ==
  ASSUME PathType, NEW a \in Agents, HeldInv(a), NEW new \in Command,
         commands'[a] = Append(commands[a], new), UNCHANGED held[a],
         new.type = "ApplyBatch" =>
           /\ connection[a] # NoSession /\ agent_error[a] = "none" /\ ~Releasing(a)
           /\ new.batch.epoch = active_focus_epoch[a]
           /\ active_focus_epoch'[a] = active_focus_epoch[a],
         actions'[a] # <<>> =>
           /\ Head(actions'[a]).type # "ApplyInput"
           /\ \A action \in Entries(Tail(actions'[a])) : action = FocusEntered
  PROVE  HeldInv(a)'
<1>1. /\ commands[a] \in Seq(Command) /\ commands'[a] # <<>> /\ Latest(commands'[a]) = new
      /\ commands[a] = <<>> => commands'[a][1] = new
      /\ commands[a] # <<>> => commands'[a][1] = commands[a][1]
  <2>1. commands[a] \in Seq(Command)
    BY DEF PathType, NativeType
  <2>2. commands[a] = <<>> => Append(commands[a], new)[1] = new
    OBVIOUS
  <2>3. commands[a] # <<>> => Append(commands[a], new)[1] = commands[a][1]
    BY <2>1
  <2>4. Append(commands[a], new) # <<>> /\ Latest(Append(commands[a], new)) = new
    BY <2>1, AppendQueue, LatestOf
  <2> QED
    BY <2>1, <2>2, <2>3, <2>4
<1>2. BatchesShareEpoch(commands'[a])
  BY <1>1, AppendShares DEF HeldInv
<1>3. commands'[a][1].type = "ApplyBatch" =>
        \A key \in held'[a] : key.epoch = commands'[a][1].batch.epoch
  BY <1>1 DEF HeldInv, HeldIn
<1> QED
  BY <1>1, <1>2, <1>3 DEF HeldInv, HeldIn

LEMMA HeldActionStep ==
  ASSUME PathType, NEW a \in Agents, HeldInv(a), ApplyAgentAction(a)
  PROVE  HeldInv(a)'
<1> DEFINE head == Head(actions[a])
<1>1. /\ actions[a] # <<>> /\ agent_error[a] = "none" /\ head \in Action
      /\ connection[a] \in Sessions /\ connection[a] # NoSession
      /\ UNCHANGED <<connection, held>>
  BY TakenAction DEF ApplyAgentAction, PathType
<1>2. CASE SendFails(a)
  <2>1. /\ agent_error'[a] # "none"
        /\ UNCHANGED <<commands, actions, active_focus_epoch>>
    BY <1>2, CallErrors DEF SendFails, Failed, PathType, AgentType
  <2> QED
    BY <1>1, <2>1 DEF HeldInv, HeldIn
<1>3. CASE TakeAction(a)
  <2>1. /\ actions'[a] = Tail(actions[a]) /\ UNCHANGED <<active_focus_epoch, agent_error>>
    BY <1>3 DEF TakeAction, Return, focusVars, PathType, AgentType
  <2>2. actions'[a] # <<>> =>
          /\ Head(actions'[a]) = FocusEntered
          /\ \A action \in Entries(Tail(actions'[a])) : action = FocusEntered
    <3>1. actions'[a] \in Seq(Action) /\ \A action \in Entries(actions'[a]) : action = FocusEntered
      BY <1>1, <2>1, TailQueue DEF HeldInv, PathType, AgentType
    <3> QED
      BY <3>1, TailQueue, ZenonT(60)
  <2>3. actions'[a] # <<>> =>
          Head(actions'[a]).type # "ApplyInput" /\ Head(actions'[a]) # ReleaseAllInput
    BY <2>2 DEF FocusEntered, ReleaseAllInput
  <2>4. CASE head.type = "ApplyInput"
    <3>1. commands' = Put(commands, a, ApplyBatch(connection[a], head.batch))
      BY <1>1, <1>3, <2>4 DEF ApplyAgentAction
    <3>2. head.batch \in Batch /\ head.batch.epoch = active_focus_epoch[a]
      BY <1>1, <2>4, ActionFacts DEF HeldInv
    <3> DEFINE new == ApplyBatch(connection[a], head.batch)
    <3>3. new \in Command /\ new.batch = head.batch
      BY <1>1, <3>2, CommandTypes DEF ApplyBatch
    <3>4. commands'[a] = Append(commands[a], new)
      BY <3>1, <3>3, CommandQueues DEF PathType
    <3>5. ~Releasing(a)
      BY <2>4 DEF Releasing, ReleaseAllInput
    <3> QED
      BY <1>1, <2>1, <2>2, <2>3, <3>2, <3>3, <3>4, <3>5, HeldWhenPut
  <2>5. CASE head.type = "ReleaseAllInput"
    <3>1. commands' = Put(commands, a, ReleaseAll(connection[a]))
      BY <1>1, <1>3, <2>5 DEF ApplyAgentAction
    <3>2. ReleaseAll(connection[a]) \in Command /\ ReleaseAll(connection[a]).type # "ApplyBatch"
      BY <1>1, CommandTypes DEF ReleaseAll
    <3>3. commands'[a] = Append(commands[a], ReleaseAll(connection[a]))
      BY <3>1, <3>2, CommandQueues DEF PathType
    <3> QED
      BY <1>1, <2>2, <2>3, <3>2, <3>3, HeldWhenPut
  <2>6. CASE head.type \notin {"ApplyInput", "ReleaseAllInput"}
    <3>1. UNCHANGED commands
      BY <1>3, <2>6 DEF ApplyAgentAction, SendFails
    <3>2. ~Releasing(a)
      BY <2>6 DEF Releasing, ReleaseAllInput
    <3> QED
      BY <1>1, <2>1, <2>2, <2>3, <3>1, <3>2 DEF HeldInv, HeldIn
  <2> QED
    BY <2>4, <2>5, <2>6
<1> QED
  BY <1>2, <1>3 DEF ApplyAgentAction

LEMMA HeldInvStep ==
  ASSUME PathType, NEW a \in Agents, CommandsAreCurrent(a), HeldInv(a),
         AgentNext(a) \/ Connect(a) \/ DisplayTick(a)
  PROVE  HeldInv(a)'
<1>1. CASE ReceiveDisconnected(a)
  <2>1. /\ connection[a] \in Sessions /\ actions[a] = <<>>
        /\ commands' = Put(commands, a, ReleaseAll(connection[a]))
        /\ UNCHANGED <<held, actions>>
    BY <1>1, TakenMessage, RunningAgent DEF ReceiveDisconnected, PathType, agentSessions, focusVars, deliveryVars
  <2>2. ReleaseAll(connection[a]) \in Command /\ ReleaseAll(connection[a]).type # "ApplyBatch"
    BY <2>1, CommandTypes DEF ReleaseAll
  <2>3. commands'[a] = Append(commands[a], ReleaseAll(connection[a]))
    BY <2>1, <2>2, CommandQueues DEF PathType
  <2> QED
    BY <2>1, <2>2, <2>3, HeldWhenPut
<1>2. CASE Connect(a)
  <2>1. /\ opened + 1 \in Sessions /\ UNCHANGED held
        /\ commands' = Put(commands, a, BeginSession(opened + 1))
        /\ actions'[a] = <<>>
    BY <1>2, InputPathBounds
       DEF Connect, Start, PathType, AgentType, ConnectionType, Sessions
  <2>2. BeginSession(opened + 1) \in Command /\ BeginSession(opened + 1).type # "ApplyBatch"
    BY <2>1, CommandTypes DEF BeginSession
  <2>3. commands'[a] = Append(commands[a], BeginSession(opened + 1))
    BY <2>1, <2>2, CommandQueues DEF PathType
  <2> QED
    BY <2>1, <2>2, <2>3, HeldWhenPut
<1>3. CASE \/ ReceiveFocus(a) \/ ReceiveInput(a) \/ ReceiveApplied(a)
           \/ ReceiveDesktopChanged(a) \/ ReportDisplay(a) \/ DisplayTick(a)
  <2>1. UNCHANGED <<commands, held, connection>>
    BY <1>3 DEF ReceiveFocus, ReceiveInput, ReceiveApplied, ReceiveDesktopChanged, ReportDisplay,
                DisplayTick, SendFails, nativeVars, agentVars
  <2>2. EpochKept(a) /\ (agent_error'[a] = "none" => agent_error[a] = "none")
    BY <1>3, SessionKeepsEpoch
  <2>3. CASE UNCHANGED <<active_focus_epoch[a], actions[a]>>
    BY <2>1, <2>2, <2>3 DEF HeldInv, HeldIn, Releasing
  <2>4. CASE /\ actions[a] = <<>>
             /\ actions'[a] \in {<<ReleaseAllInput>>, <<ReleaseAllInput, FocusEntered>>}
    <3>1. /\ Head(<<ReleaseAllInput>>) = ReleaseAllInput
          /\ Head(<<ReleaseAllInput, FocusEntered>>) = ReleaseAllInput
          /\ Tail(<<ReleaseAllInput>>) = <<>>
          /\ Tail(<<ReleaseAllInput, FocusEntered>>) = <<FocusEntered>>
          /\ <<ReleaseAllInput>> # <<>> /\ <<ReleaseAllInput, FocusEntered>> # <<>>
      OBVIOUS
    <3>2. /\ Releasing(a)' /\ Head(actions'[a]) = ReleaseAllInput
          /\ \A action \in Entries(Tail(actions'[a])) : action = FocusEntered
      <4>1. /\ actions'[a] # <<>> /\ Head(actions'[a]) = ReleaseAllInput
            /\ Tail(actions'[a]) \in {<<>>, <<FocusEntered>>}
        <5>1. CASE actions'[a] = <<ReleaseAllInput>>
          BY <3>1, <5>1, Zenon
        <5>2. CASE actions'[a] = <<ReleaseAllInput, FocusEntered>>
          BY <3>1, <5>2, Zenon
        <5> QED
          BY <2>4, <5>1, <5>2
      <4>2. \A list \in {<<>>, <<FocusEntered>>} :
              \A action \in Entries(list) : action = FocusEntered
        BY DEF Entries
      <4> QED
        BY <4>1, <4>2 DEF Releasing
    <3> QED
      BY <2>1, <3>2 DEF HeldInv, HeldIn, ReleaseAllInput
  <2>5. ASSUME actions[a] = <<>>,
               active_focus_epoch[a] = None \/ UNCHANGED active_focus_epoch[a],
               actions'[a] # <<>> =>
                 /\ Head(actions'[a]).type = "ApplyInput" =>
                      Head(actions'[a]).batch.epoch = active_focus_epoch'[a]
                 /\ \A action \in Entries(Tail(actions'[a])) : action = FocusEntered
        PROVE  HeldInv(a)'
    <3>1. ASSUME connection[a] # NoSession, agent_error[a] = "none"
          PROVE  /\ commands[a] = <<>> => HeldIn(a, active_focus_epoch[a])
                 /\ commands[a] # <<>> /\ Latest(commands[a]).type = "ApplyBatch" =>
                      Latest(commands[a]).batch.epoch = active_focus_epoch[a]
      BY <2>5, <3>1 DEF HeldInv, Releasing
    <3>2. ASSUME active_focus_epoch[a] = None, connection[a] # NoSession,
                 agent_error[a] = "none"
          PROVE  /\ commands[a] = <<>> => held[a] = {}
                 /\ commands[a] # <<>> => Latest(commands[a]).type # "ApplyBatch"
      <4>1. \A key \in held[a] : key.epoch # None
        BY DEF PathType, NativeType, InputEvents, None
      <4>2. commands[a] # <<>> /\ Latest(commands[a]).type = "ApplyBatch" =>
              Latest(commands[a]).batch.epoch # None
        <5>1. commands[a] # <<>> => Latest(commands[a]) \in Command
          BY TailQueue DEF Latest, PathType, NativeType
        <5> QED
          BY <5>1, CommandFacts DEF None
      <4> QED
        BY <3>1, <3>2, <4>1, <4>2 DEF HeldIn
    <3> QED
      BY <2>1, <2>2, <2>5, <3>1, <3>2 DEF HeldInv, HeldIn
  <2>6. CASE /\ actions[a] = <<>> /\ active_focus_epoch[a] = None
             /\ actions'[a] \in {<<>>, <<FocusEntered>>}
    <3>1. Head(<<FocusEntered>>) = FocusEntered /\ Tail(<<FocusEntered>>) = <<>>
      OBVIOUS
    <3>2. FocusEntered.type # "ApplyInput"
      BY DEF FocusEntered
    <3> QED
      BY <2>5, <2>6, <3>1, <3>2 DEF Entries
  <2>7. ASSUME actions[a] = <<>>, UNCHANGED active_focus_epoch[a],
               NEW action, actions'[a] = <<action>>,
               action.type = "ApplyInput" => action.batch.epoch = active_focus_epoch[a]
        PROVE  HeldInv(a)'
    <3>1. Head(<<action>>) = action /\ Tail(<<action>>) = <<>>
      OBVIOUS
    <3> QED
      BY <2>5, <2>7, <3>1 DEF Entries
  <2>8. /\ \A through : SendAck(through).type # "ApplyInput"
        /\ \A batch : ApplyInput(batch).batch = batch
    BY DEF SendAck, ApplyInput
  <2> QED
    BY <2>2, <2>3, <2>4, <2>6, <2>7, <2>8 DEF EpochKept
<1> QED
  BY <1>1, <1>2, <1>3, HeldInjectStep, HeldActionStep DEF AgentNext

LEMMA HeldInvAllStep == ASSUME PathType, HeldInvAll, [PathNext]_pathVars PROVE HeldInvAll'
<1> SUFFICES ASSUME NEW a \in Agents PROVE CommandsAreCurrent(a)' /\ HeldInv(a)'
  BY DEF HeldInvAll
<1>1. CommandsAreCurrent(a) /\ HeldInv(a)
  BY DEF HeldInvAll
<1>2. CASE AgentNext(a) \/ Connect(a) \/ DisplayTick(a)
  BY <1>1, <1>2, CommandsAreCurrentStep, HeldInvStep
<1>3. CASE UNCHANGED LocalTo(a)
  BY <1>1, <1>3 DEF LocalTo, SessionOf, RuntimeOf, ServiceOf, CommandsAreCurrent, HeldInv, HeldIn,
                    Releasing
<1>4. CASE UNCHANGED <<agentVars, nativeVars, injected, applied>>
  BY <1>3, <1>4 DEF LocalTo, SessionOf, RuntimeOf, ServiceOf, agentVars, agentSessions,
       focusVars, deliveryVars, nativeVars
<1> QED
  BY <1>2, <1>3, <1>4, ControllerFrames, OtherAgents

LEMMA HeldInvAllInit == PathInit \/ EstablishedInit => HeldInvAll
<1> SUFFICES ASSUME PathInit \/ EstablishedInit, NEW a \in Agents
             PROVE  CommandsAreCurrent(a) /\ HeldInv(a)
  BY DEF HeldInvAll
<1>1. commands[a] = <<>> /\ held[a] = {} /\ connection[a] = active_generation[a]
  BY DEF PathInit, EstablishedInit
<1>2. actions[a] = <<>>
  <2>1. CASE PathInit
    BY <2>1 DEF PathInit, AgentSessionInit, Agents
  <2>2. CASE EstablishedInit
    BY <2>2 DEF EstablishedInit
  <2> QED
    BY <2>1, <2>2
<1> QED
  BY <1>1, <1>2 DEF CommandsAreCurrent, HeldInv, HeldIn, BatchesShareEpoch

(* Whatever focus messages, display changes, lost and new connections come *)
(* between, the keys held on an agent come from one epoch (change_focus    *)
(* and reconcile_display in agent.rs, ReleaseAll and BeginSession in       *)
(* service.rs).                                                            *)
THEOREM HeldWithinOneEpoch == PathSpec => []HeldFromOneEpoch
<1>1. HeldInvAll => HeldFromOneEpoch
  BY DEF HeldInvAll, HeldInv, HeldFromOneEpoch
<1> QED
  BY <1>1, HeldInvAllInit, HeldInvAllStep, PathInitType, PathTypeStep, PTL DEF PathSpec


-----------------------------------------------------------------------------
(* Keys on their way.  The stages between the buffer and the native        *)
(* backend hold keys in the order they were captured, and each stage holds *)
(* older ones than the stages before it.                                   *)

KeyNumbers(events) == {event.key : event \in Entries(events)} \ {Motion}

KeysCarried(message) == KeyNumbers(EventsOf(message))
KeysOn(list) == UNION {KeysCarried(message) : message \in Entries(list)}

Before(early, late) == \A x \in early : \A y \in late : x < y

EventsInOrder(events) ==
  \A i, j \in 1 .. Len(events) :
    i < j /\ events[i].key # Motion /\ events[j].key # Motion =>
      events[i].key < events[j].key

InOrder(list) ==
  \A i \in 1 .. Len(list) :
    /\ EventsInOrder(EventsOf(list[i]))
    /\ \A j \in 1 .. Len(list) : i < j => Before(KeysCarried(list[i]), KeysCarried(list[j]))

LEMMA NoKeysOnEmpty == KeysOn(<<>>) = {} /\ InOrder(<<>>)
BY EmptyQueue DEF KeysOn, InOrder

LEMMA KeysAppended ==
  ASSUME NEW S, NEW list \in Seq(S), NEW message \in S
  PROVE  /\ KeysOn(Append(list, message)) = KeysOn(list) \cup KeysCarried(message)
         /\ InOrder(list) /\ EventsInOrder(EventsOf(message))
              /\ Before(KeysOn(list), KeysCarried(message)) => InOrder(Append(list, message))
<1> DEFINE longer == Append(list, message)
<1>1. /\ Entries(longer) = Entries(list) \cup {message}
      /\ Len(longer) = Len(list) + 1 /\ Len(list) \in Nat
      /\ \A i \in 1 .. Len(list) : longer[i] = list[i]
      /\ longer[Len(list) + 1] = message
  BY AppendQueue
<1>2. KeysOn(longer) = KeysOn(list) \cup KeysCarried(message)
  BY <1>1, Zenon DEF KeysOn
<1> HIDE DEF longer
<1>3. ASSUME InOrder(list), EventsInOrder(EventsOf(message)),
             Before(KeysOn(list), KeysCarried(message))
      PROVE  InOrder(longer)
  <2>1. SUFFICES ASSUME NEW i \in 1 .. Len(longer)
                 PROVE  /\ EventsInOrder(EventsOf(longer[i]))
                        /\ \A j \in 1 .. Len(longer) :
                             i < j => Before(KeysCarried(longer[i]), KeysCarried(longer[j]))
    BY Zenon DEF InOrder
  <2>2. CASE i = Len(list) + 1
    BY <2>2, <1>1, <1>3
  <2>3. CASE i \in 1 .. Len(list)
    <3>1. EventsInOrder(EventsOf(longer[i]))
      BY <2>3, <1>1, <1>3 DEF InOrder
    <3>2. ASSUME NEW j \in 1 .. Len(longer), i < j
          PROVE  Before(KeysCarried(longer[i]), KeysCarried(longer[j]))
      <4>1. CASE j = Len(list) + 1
        <5>1. list[i] \in Entries(list)
          BY <2>3 DEF Entries
        <5>2. KeysCarried(list[i]) \subseteq KeysOn(list)
          BY <5>1, Zenon DEF KeysOn
        <5>3. longer[i] = list[i] /\ longer[j] = message
          BY <2>3, <4>1, <1>1
        <5> QED
          BY <5>2, <5>3, <1>3, Zenon DEF Before
      <4>2. CASE j \in 1 .. Len(list)
        <5>1. longer[i] = list[i] /\ longer[j] = list[j]
          BY <2>3, <4>2, <1>1
        <5> QED
          BY <5>1, <2>3, <4>2, <3>2, <1>3 DEF InOrder
      <4> QED
        BY <4>1, <4>2, <1>1
    <3> QED
      BY <3>1, <3>2, Zenon
  <2> QED
    BY <2>2, <2>3, <1>1
<1> QED
  BY <1>2, <1>3 DEF longer

LEMMA KeysTaken ==
  ASSUME NEW S, NEW list \in Seq(S), list # <<>>
  PROVE  /\ KeysOn(list) = KeysOn(Tail(list)) \cup KeysCarried(Head(list))
         /\ InOrder(list) => /\ InOrder(Tail(list)) /\ EventsInOrder(EventsOf(Head(list)))
                             /\ Before(KeysCarried(Head(list)), KeysOn(Tail(list)))
<1>1. /\ Entries(list) = Entries(Tail(list)) \cup {Head(list)}
      /\ Len(list) \in Nat /\ Len(list) >= 1 /\ Len(Tail(list)) = Len(list) - 1
      /\ Head(list) = list[1]
      /\ \A i \in 1 .. Len(list) - 1 : Tail(list)[i] = list[i + 1]
  BY TailQueue
<1>2. KeysOn(list) = KeysOn(Tail(list)) \cup KeysCarried(Head(list))
  BY <1>1, Zenon DEF KeysOn
<1>3. ASSUME InOrder(list)
      PROVE  /\ InOrder(Tail(list)) /\ EventsInOrder(EventsOf(Head(list)))
             /\ Before(KeysCarried(Head(list)), KeysOn(Tail(list)))
  <2>1. InOrder(Tail(list))
    BY <1>3, <1>1 DEF InOrder
  <2>2. EventsInOrder(EventsOf(Head(list)))
    BY <1>3, <1>1 DEF InOrder
  <2>3. ASSUME NEW message \in Entries(Tail(list))
        PROVE  Before(KeysCarried(Head(list)), KeysCarried(message))
    <3>1. PICK i \in 1 .. Len(Tail(list)) : message = Tail(list)[i]
      BY <2>3 DEF Entries
    <3>2. message = list[i + 1] /\ i + 1 \in 1 .. Len(list) /\ 1 \in 1 .. Len(list) /\ 1 < i + 1
      BY <3>1, <1>1
    <3> QED
      BY <3>2, <1>1, <1>3 DEF InOrder
  <2>4. Before(KeysCarried(Head(list)), KeysOn(Tail(list)))
    BY <2>3 DEF Before, KeysOn
  <2> QED
    BY <2>1, <2>2, <2>4
<1> QED
  BY <1>2, <1>3

LEMMA KeysJoined ==
  ASSUME NEW S, NEW p \in Seq(S), NEW q \in Seq(S)
  PROVE  /\ KeysOn(p \o q) = KeysOn(p) \cup KeysOn(q)
         /\ InOrder(p) /\ InOrder(q) /\ Before(KeysOn(p), KeysOn(q)) => InOrder(p \o q)
<1> DEFINE list == p \o q
<1>1. /\ Entries(list) = Entries(p) \cup Entries(q)
      /\ Len(list) = Len(p) + Len(q) /\ Len(p) \in Nat /\ Len(q) \in Nat
      /\ \A i \in 1 .. Len(p) + Len(q) : list[i] = IF i <= Len(p) THEN p[i] ELSE q[i - Len(p)]
  BY JoinQueues
<1>2. KeysOn(list) = KeysOn(p) \cup KeysOn(q)
  BY <1>1, Zenon DEF KeysOn
<1> HIDE DEF list
<1>3. ASSUME InOrder(p), InOrder(q), Before(KeysOn(p), KeysOn(q))
      PROVE  InOrder(list)
  <2>1. ASSUME NEW i \in 1 .. Len(list) PROVE EventsInOrder(EventsOf(list[i]))
    <3>1. CASE i <= Len(p)
      BY <3>1, <1>1, <1>3 DEF InOrder
    <3>2. CASE i > Len(p)
      <4>1. list[i] = q[i - Len(p)] /\ i - Len(p) \in 1 .. Len(q)
        BY <3>2, <1>1
      <4> QED
        BY <4>1, <1>3 DEF InOrder
    <3> QED
      BY <3>1, <3>2, <1>1
  <2>2. ASSUME NEW i \in 1 .. Len(list), NEW j \in 1 .. Len(list), i < j
        PROVE  Before(KeysCarried(list[i]), KeysCarried(list[j]))
    <3>1. CASE j <= Len(p)
      <4>1. list[i] = p[i] /\ list[j] = p[j] /\ i \in 1 .. Len(p) /\ j \in 1 .. Len(p)
        BY <3>1, <2>2, <1>1
      <4> QED
        BY <4>1, <2>2, <1>3 DEF InOrder
    <3>2. CASE i > Len(p)
      <4>1. /\ list[i] = q[i - Len(p)] /\ list[j] = q[j - Len(p)]
            /\ i - Len(p) \in 1 .. Len(q) /\ j - Len(p) \in 1 .. Len(q)
            /\ i - Len(p) < j - Len(p)
        BY <3>2, <2>2, <1>1
      <4> QED
        BY <4>1, <1>3 DEF InOrder
    <3>3. CASE i <= Len(p) /\ j > Len(p)
      <4>1. list[i] = p[i] /\ i \in 1 .. Len(p) /\ list[j] = q[j - Len(p)]
            /\ j - Len(p) \in 1 .. Len(q)
        BY <3>3, <2>2, <1>1
      <4>2. KeysCarried(list[i]) \subseteq KeysOn(p) /\ KeysCarried(list[j]) \subseteq KeysOn(q)
        BY <4>1 DEF KeysOn, Entries
      <4> QED
        BY <4>2, <1>3, Zenon DEF Before
    <3> QED
      BY <3>1, <3>2, <3>3, <1>1
  <2> QED
    BY <2>1, <2>2, Zenon DEF InOrder
<1> QED
  BY <1>2, <1>3 DEF list

LEMMA KeysKeptBy ==
  ASSUME NEW S, NEW q \in Seq(S), NEW kept \in Prefixes(q)
  PROVE  KeysOn(kept) \subseteq KeysOn(q) /\ (InOrder(q) => InOrder(kept))
<1>1. /\ Entries(kept) \subseteq Entries(q)
      /\ Len(kept) \in Nat /\ Len(q) \in Nat /\ Len(kept) <= Len(q)
      /\ \A i \in 1 .. Len(kept) : kept[i] = q[i]
  BY PrefixQueue
<1>2. KeysOn(kept) \subseteq KeysOn(q)
  BY <1>1, Zenon DEF KeysOn
<1>3. \A i \in 1 .. Len(kept) : i \in 1 .. Len(q)
  BY <1>1
<1>4. InOrder(q) => InOrder(kept)
  BY <1>1, <1>3 DEF InOrder
<1> QED
  BY <1>2, <1>4

(* The same for the events of one batch.                                   *)
LEMMA EventsJoined ==
  ASSUME NEW p \in Seq(InputEvents), NEW q \in Seq(InputEvents)
  PROVE  /\ KeyNumbers(p \o q) = KeyNumbers(p) \cup KeyNumbers(q)
         /\ EventsInOrder(p) /\ EventsInOrder(q) /\ Before(KeyNumbers(p), KeyNumbers(q)) =>
              EventsInOrder(p \o q)
<1> DEFINE list == p \o q
<1>1. /\ Entries(list) = Entries(p) \cup Entries(q)
      /\ Len(list) = Len(p) + Len(q) /\ Len(p) \in Nat /\ Len(q) \in Nat
      /\ \A i \in 1 .. Len(p) + Len(q) : list[i] = IF i <= Len(p) THEN p[i] ELSE q[i - Len(p)]
  BY JoinQueues
<1>2. KeyNumbers(list) = KeyNumbers(p) \cup KeyNumbers(q)
  BY <1>1 DEF KeyNumbers
<1> HIDE DEF list
<1>3. ASSUME EventsInOrder(p), EventsInOrder(q), Before(KeyNumbers(p), KeyNumbers(q)),
             NEW i \in 1 .. Len(list), NEW j \in 1 .. Len(list), i < j,
             list[i].key # Motion, list[j].key # Motion
      PROVE  list[i].key < list[j].key
  <2>1. CASE j <= Len(p)
    <3>1. list[i] = p[i] /\ list[j] = p[j] /\ i \in 1 .. Len(p) /\ j \in 1 .. Len(p)
      BY <2>1, <1>3, <1>1
    <3> QED
      BY <3>1, <1>3 DEF EventsInOrder
  <2>2. CASE i > Len(p)
    <3>1. /\ list[i] = q[i - Len(p)] /\ list[j] = q[j - Len(p)]
          /\ i - Len(p) \in 1 .. Len(q) /\ j - Len(p) \in 1 .. Len(q)
          /\ i - Len(p) < j - Len(p)
      BY <2>2, <1>3, <1>1
    <3> QED
      BY <3>1, <1>3 DEF EventsInOrder
  <2>3. CASE i <= Len(p) /\ j > Len(p)
    <3>1. list[i] = p[i] /\ i \in 1 .. Len(p) /\ list[j] = q[j - Len(p)]
          /\ j - Len(p) \in 1 .. Len(q)
      BY <2>3, <1>3, <1>1
    <3>2. p[i] \in Entries(p) /\ q[j - Len(p)] \in Entries(q)
      BY <3>1 DEF Entries
    <3>3. p[i].key \in KeyNumbers(p) /\ q[j - Len(p)].key \in KeyNumbers(q)
      BY <3>1, <3>2, <1>3, Zenon DEF KeyNumbers
    <3> QED
      BY <3>1, <3>3, <1>3, Zenon DEF Before
  <2> QED
    BY <2>1, <2>2, <2>3, <1>1
<1>4. EventsInOrder(p) /\ EventsInOrder(q) /\ Before(KeyNumbers(p), KeyNumbers(q)) =>
        EventsInOrder(list)
  BY <1>3 DEF EventsInOrder
<1> QED
  BY <1>2, <1>4 DEF list

LEMMA EventPushed ==
  ASSUME SessionType, NEW event \in InputEvents, EventsInOrder(buffer),
         event.key # Motion => Before(KeyNumbers(buffer), {event.key})
  PROVE  /\ KeyNumbers(Push(event)) \subseteq KeyNumbers(buffer) \cup ({event.key} \ {Motion})
         /\ EventsInOrder(Push(event)) /\ EventsInOrder(<<event>>) /\ EventsInOrder(<<>>)
         /\ KeyNumbers(<<event>>) = {event.key} \ {Motion} /\ KeyNumbers(<<>>) = {}
<1>1. EventsInOrder(<<event>>) /\ EventsInOrder(<<>>)
  BY DEF EventsInOrder
<1>2. Entries(<<event>>) = {event} /\ Entries(<<>>) = {}
  BY EmptyQueue DEF Entries
<1>3. KeyNumbers(<<event>>) = {event.key} \ {Motion} /\ KeyNumbers(<<>>) = {}
  BY <1>2 DEF KeyNumbers
<1>4. CASE Push(event) = buffer
  BY <1>1, <1>3, <1>4
<1>5. CASE Push(event) = Append(buffer, event)
  <2> DEFINE list == Append(buffer, event)
  <2>1. /\ Entries(list) = Entries(buffer) \cup {event}
        /\ Len(list) = Len(buffer) + 1 /\ Len(buffer) \in Nat
        /\ \A i \in 1 .. Len(buffer) : list[i] = buffer[i]
        /\ list[Len(buffer) + 1] = event
    BY AppendQueue DEF SessionType
  <2> HIDE DEF list
  <2>2. KeyNumbers(list) = KeyNumbers(buffer) \cup ({event.key} \ {Motion})
    BY <2>1 DEF KeyNumbers
  <2>3. ASSUME NEW i \in 1 .. Len(list), NEW j \in 1 .. Len(list), i < j,
               list[i].key # Motion, list[j].key # Motion
        PROVE  list[i].key < list[j].key
    <3>1. i \in 1 .. Len(buffer) /\ list[i] = buffer[i]
      BY <2>3, <2>1
    <3>2. CASE j \in 1 .. Len(buffer)
      BY <3>1, <3>2, <2>1, <2>3 DEF EventsInOrder
    <3>3. CASE j = Len(buffer) + 1
      <4>1. list[j] = event
        BY <3>3, <2>1
      <4>2. buffer[i].key \in KeyNumbers(buffer)
        BY <3>1, <2>3 DEF KeyNumbers, Entries
      <4> QED
        BY <4>1, <4>2, <3>1, <2>3 DEF Before
    <3> QED
      BY <3>2, <3>3, <2>1
  <2>4. EventsInOrder(list)
    BY <2>3 DEF EventsInOrder
  <2> QED
    BY <2>2, <2>4, <1>1, <1>3, <1>5 DEF list
<1> QED
  BY <1>4, <1>5 DEF Push


(* The stages of agent a, the oldest keys first.                           *)
Stage(a, n) ==
  CASE n = 1 -> KeyNumbers(injected[a])
    [] n = 2 -> KeysOn(commands[a])
    [] n = 3 -> KeysOn(actions[a])
    [] n = 4 -> IF connection[a] = NoSession THEN {} ELSE KeysOn(down[connection[a]])
    [] n = 5 -> KeysOn(outbox[a])
    [] OTHER -> KeyNumbers(buffer)

Stages(a) == [n \in 1 .. 6 |-> Stage(a, n)]

StagesInOrder(stages) == \A m, n \in 1 .. 6 : m < n => Before(stages[m], stages[n])

StagesUpTo(stages, last) == \A n \in 1 .. 6 : stages[n] \subseteq 1 .. last

(* InjectedOnceInOrder is about the first stage alone.                     *)
KeysInv(a) ==
  /\ EventsInOrder(injected[a]) /\ EventsInOrder(buffer)
  /\ InOrder(commands[a]) /\ InOrder(actions[a]) /\ InOrder(outbox[a])
  /\ connection[a] # NoSession => InOrder(down[connection[a]])
  /\ StagesInOrder(Stages(a))
  /\ StagesUpTo(Stages(a), captured)

KeysInvAll == \A a \in Agents : KeysInv(a)

(* Keys may be dropped from any stage, and the oldest ones of a stage may  *)
(* go on to the next.                                                      *)
LEMMA StagesAdvance ==
  ASSUME NEW old, NEW new, NEW last \in Nat, NEW k \in 1 .. 5, NEW moved,
         StagesInOrder(old), StagesUpTo(old, last),
         moved \subseteq old[k + 1], Before(moved, new[k + 1]),
         \A n \in 1 .. 6 : new[n] \subseteq old[n] \/ (n = k /\ new[n] \subseteq old[n] \cup moved)
  PROVE  StagesInOrder(new) /\ StagesUpTo(new, last)
<1>1. ASSUME NEW m \in 1 .. 6, NEW n \in 1 .. 6, m < n, NEW x \in new[m], NEW y \in new[n]
      PROVE  x < y
  <2>1. CASE x \in old[m] /\ y \in old[n]
    BY <2>1, <1>1 DEF StagesInOrder, Before
  <2>2. CASE m = k /\ x \in moved
    <3>1. CASE n = k + 1
      BY <3>1, <2>2, <1>1 DEF Before
    <3>2. CASE n # k + 1
      <4>1. k + 1 < n /\ k + 1 \in 1 .. 6 /\ n # k /\ y \in old[n] /\ x \in old[k + 1]
        BY <3>2, <2>2, <1>1
      <4> QED
        BY <4>1, <1>1 DEF StagesInOrder, Before
    <3> QED
      BY <3>1, <3>2
  <2>3. CASE n = k /\ y \in moved
    <3>1. m < k + 1 /\ k + 1 \in 1 .. 6 /\ m # k /\ x \in old[m] /\ y \in old[k + 1]
      BY <2>3, <1>1
    <3> QED
      BY <3>1, <1>1 DEF StagesInOrder, Before
  <2> QED
    BY <2>1, <2>2, <2>3, <1>1
<1>2. ASSUME NEW n \in 1 .. 6 PROVE new[n] \subseteq 1 .. last
  <2>1. k + 1 \in 1 .. 6
    OBVIOUS
  <2>2. old[n] \subseteq 1 .. last /\ old[k + 1] \subseteq 1 .. last
    BY <2>1, <1>2 DEF StagesUpTo
  <2> QED
    BY <2>2, <1>2
<1> QED
  BY <1>1, <1>2 DEF StagesInOrder, StagesUpTo, Before

LEMMA StagesKept ==
  ASSUME NEW old, NEW new, NEW last \in Nat,
         StagesInOrder(old), StagesUpTo(old, last),
         \A n \in 1 .. 6 : new[n] \subseteq old[n]
  PROVE  StagesInOrder(new) /\ StagesUpTo(new, last)
<1>1. Before({}, new[2]) /\ {} \subseteq old[2]
  BY DEF Before
<1> QED
  BY <1>1, StagesAdvance


LEMMA NoKeysCarried ==
  /\ EventsInOrder(<<>>) /\ KeyNumbers(<<>>) = {}
  /\ \A epoch, target, entry : EventsOf(FocusChanged(epoch, target, entry)) = <<>>
  /\ EventsOf(Disconnected) = <<>>
  /\ \A s : EventsOf(BeginSession(s)) = <<>> /\ EventsOf(ReleaseAll(s)) = <<>>
  /\ \A s, batch : EventsOf(ApplyBatch(s, batch)) = batch.events
  /\ EventsOf(ReleaseAllInput) = <<>> /\ EventsOf(FocusEntered) = <<>>
  /\ \A through : EventsOf(SendAck(through)) = <<>>
  /\ \A batch : EventsOf(ApplyInput(batch)) = batch.events
  /\ \A epoch, sequence, events : EventsOf(InputBatch(epoch, sequence, events)) = events
<1>1. EventsInOrder(<<>>) /\ KeyNumbers(<<>>) = {}
  BY EmptyQueue DEF EventsInOrder, KeyNumbers
<1> QED
  BY <1>1 DEF EventsOf, FocusChanged, Disconnected, BeginSession, ReleaseAll, ApplyBatch,
              ReleaseAllInput, FocusEntered, SendAck, ApplyInput, InputBatch

(* What a connection carries to the agent grows by the controller's next   *)
(* messages, by news without keys, or shrinks.                             *)
LEMMA KeysUnderWay ==
  ASSUME PathType, [PathNext]_pathVars, NEW s \in Sessions
  PROVE  \/ /\ KeysOn(down'[s]) \subseteq KeysOn(down[s])
            /\ InOrder(down[s]) => InOrder(down'[s])
         \/ /\ owner[s] \in Agents /\ down'[s] = down[s] \o outbox[owner[s]]
            /\ outbox' = NoMessages /\ UNCHANGED <<buffer, captured>>
<1> DEFINE Goal == /\ KeysOn(down'[s]) \subseteq KeysOn(down[s])
                   /\ InOrder(down[s]) => InOrder(down'[s])
<1>0. down[s] \in Seq(DownMessage)
  BY DEF PathType, ConnectionType
<1>1. CASE down'[s] = down[s]
  BY <1>1
<1>2. CASE ApplyControllerActions
  <2>1. CASE down'[s] = down[s] \o outbox[owner[s]] /\ alive[s] /\ TakeActions
    <3>1. owner[s] \in Agents
      BY <2>1 DEF PathType, OpenedByAgents, ConnectionType, Sessions
    <3> QED
      BY <2>1, <3>1 DEF TakeActions
  <2> QED
    BY <1>1, <1>2, <2>1 DEF ApplyControllerActions
<1>3. CASE Captured \/ EndTick \/ ReturnLocal \/ UNCHANGED pathVars
  BY <1>1, <1>3 DEF Captured, EndTick, ReturnLocal, pathVars, connectionVars
<1>4. ASSUME NEW t \in Sessions,
             \/ AcceptControllerPeer(t) \/ IgnoreNetworkEvent(t) \/ Acknowledged(t)
             \/ DisconnectControllerPeer(t) \/ ConnectionWorkerEnds(t)
      PROVE  Goal
  BY <1>1, <1>4 DEF AcceptControllerPeer, IgnoreNetworkEvent, Acknowledged,
                    DisconnectControllerPeer, ConnectionWorkerEnds
<1>5. ASSUME NEW t \in Sessions, DisplayReported(t) PROVE Goal
  <2>1. CASE down' = Put(down, t, FocusChanged(focus_epoch, focus, position))
    <3> DEFINE news == FocusChanged(focus_epoch, focus, position)
    <3>1. news \in DownMessage
      BY DEF PathType, SessionType, FocusChanged, DownMessage, Messages, FocusMessages
    <3>2. down'[s] = down[s] \/ down'[s] = Append(down[s], news)
      BY <2>1, <3>1, DownQueues, ZenonT(60) DEF PathType
    <3>3. EventsOf(news) = <<>> /\ KeysCarried(news) = {} /\ EventsInOrder(EventsOf(news))
      BY NoKeysCarried DEF KeysCarried
    <3>4. CASE down'[s] = Append(down[s], news)
      BY <1>0, <3>1, <3>3, <3>4, KeysAppended DEF Before
    <3> QED
      BY <1>1, <3>2, <3>4
  <2> QED
    BY <1>1, <1>5, <2>1 DEF DisplayReported
<1>6. ASSUME NEW t \in Sessions, Lose(t) PROVE Goal
  <2>1. PICK kept \in Prefixes(down[t]) : down' = [down EXCEPT ![t] = Append(kept, Disconnected)]
    BY <1>6 DEF Lose
  <2>2. CASE s = t
    <3>1. Disconnected \in DownMessage
      BY UpTypes
    <3>2. kept \in Seq(DownMessage) /\ KeysOn(kept) \subseteq KeysOn(down[s])
          /\ (InOrder(down[s]) => InOrder(kept))
      BY <1>0, <2>2, PrefixQueue, KeysKeptBy
    <3>3. KeysCarried(Disconnected) = {} /\ EventsInOrder(EventsOf(Disconnected))
      BY NoKeysCarried DEF KeysCarried
    <3>4. down'[s] = Append(kept, Disconnected)
      BY <2>1, <2>2 DEF PathType, ConnectionType
    <3> QED
      BY <3>1, <3>2, <3>3, <3>4, KeysAppended DEF Before
  <2>3. CASE s # t
    BY <1>1, <2>1, <2>3 DEF PathType, ConnectionType
  <2> QED
    BY <2>2, <2>3
<1>7. ASSUME NEW a \in Agents, ReceiveFocus(a) \/ ReceiveInput(a) \/ ReceiveDisconnected(a)
      PROVE  Goal
  <2>1. connection[a] \in Sessions /\ down[connection[a]] # <<>>
        /\ down' = Pop(down, connection[a])
    BY <1>7, TakenMessage DEF ReceiveFocus, ReceiveInput, ReceiveDisconnected, PathType
  <2>2. down'[s] = down[s] \/ (down[s] # <<>> /\ down'[s] = Tail(down[s]))
    BY <2>1, DownQueues DEF PathType
  <2>3. CASE down[s] # <<>> /\ down'[s] = Tail(down[s])
    BY <1>0, <2>3, KeysTaken
  <2> QED
    BY <1>1, <2>2, <2>3
<1>8. ASSUME NEW a \in Agents,
             \/ ApplyAgentAction(a) \/ ReceiveApplied(a) \/ ReceiveDesktopChanged(a)
             \/ ReportDisplay(a) \/ Inject(a) \/ Connect(a) \/ DisplayTick(a)
      PROVE  Goal
  BY <1>1, <1>8 DEF ApplyAgentAction, ReceiveApplied, ReceiveDesktopChanged, ReportDisplay,
                    Inject, Connect, DisplayTick, connectionVars
<1> QED
  BY <1>2, <1>3, <1>4, <1>5, <1>6, <1>7, <1>8 DEF PathNext, SteadyNext, ControllerNext, AgentNext

(* What a call puts into the outbox waited in the buffer or was just       *)
(* captured; what waits afterwards did too.                                *)
NewKey(key) == key = captured + 1 /\ captured' = captured + 1

LEMMA SessionKeys ==
  ASSUME SessionType, SessionStep, NEW a \in Agents,
         EventsInOrder(buffer), InOrder(outbox[a]),
         Before(KeysOn(outbox[a]), KeyNumbers(buffer)),
         KeyNumbers(buffer) \subseteq 1 .. captured
  PROVE  /\ EventsInOrder(buffer') /\ InOrder(outbox'[a])
         /\ Before(KeysOn(outbox'[a]), KeyNumbers(buffer'))
         /\ \A key \in KeysOn(outbox'[a]) :
              key \in KeysOn(outbox[a]) \/ key \in KeyNumbers(buffer) \/ NewKey(key)
         /\ \A key \in KeyNumbers(buffer') : key \in KeyNumbers(buffer) \/ NewKey(key)
         /\ captured' \in Nat /\ captured <= captured'
<1>0. captured \in Nat
  BY DEF SessionType
<1>1. CASE NothingSent
  <2>1. outbox'[a] \in {outbox[a], <<>>}
    BY <1>1 DEF NothingSent, NoMessages
  <2> QED
    BY <1>0, <1>1, <2>1, NoKeysOnEmpty DEF NothingSent, Before
<1>2. ASSUME NEW events \in Seq(InputEvents), Sends(events) PROVE
         /\ EventsInOrder(buffer') /\ InOrder(outbox'[a])
         /\ Before(KeysOn(outbox'[a]), KeyNumbers(buffer'))
         /\ \A key \in KeysOn(outbox'[a]) :
              key \in KeysOn(outbox[a]) \/ key \in KeyNumbers(buffer) \/ NewKey(key)
         /\ \A key \in KeyNumbers(buffer') : key \in KeyNumbers(buffer) \/ NewKey(key)
         /\ captured' \in Nat /\ captured <= captured'
  <2> DEFINE sent == KeyNumbers(events)
             left == KeyNumbers(buffer')
             old == KeyNumbers(buffer)
  <2>0. EventsInOrder(<<>>) /\ KeyNumbers(<<>>) = {}
    BY NoKeysCarried
  <2>1. /\ EventsInOrder(events) /\ EventsInOrder(buffer') /\ Before(sent, left)
        /\ \A key \in sent \cup left : key \in old \/ NewKey(key)
        /\ captured' \in Nat /\ captured <= captured'
    <3>1. CASE /\ captured' = captured
               /\ \/ events = <<>> /\ buffer' = <<>>
                  \/ events = <<>> /\ buffer' = buffer
                  \/ events = buffer /\ buffer' = <<>>
      BY <1>0, <2>0, <3>1 DEF Before
    <3>2. ASSUME NEW event \in InputEvents, NewEvent(event),
                 \/ events = <<>> /\ buffer' = Push(event)
                 \/ events = buffer /\ buffer' = <<event>>
                 \/ events = Push(event) /\ buffer' = <<>>
          PROVE  /\ EventsInOrder(events) /\ EventsInOrder(buffer') /\ Before(sent, left)
                 /\ \A key \in sent \cup left : key \in old \/ NewKey(key)
                 /\ captured' \in Nat /\ captured <= captured'
      <4>1. event.key # Motion => NewKey(event.key)
        BY <3>2 DEF NewEvent, NewKey
      <4>2. event.key # Motion => Before(old, {event.key})
        BY <1>0, <4>1 DEF NewKey, Before
      <4>3. /\ KeyNumbers(Push(event)) \subseteq old \cup ({event.key} \ {Motion})
            /\ EventsInOrder(Push(event)) /\ EventsInOrder(<<event>>)
            /\ KeyNumbers(<<event>>) = {event.key} \ {Motion}
        BY <4>2, EventPushed
      <4>4. captured' \in Nat /\ captured <= captured'
        BY <1>0, <3>2 DEF NewEvent
      <4>5. CASE events = <<>> /\ buffer' = Push(event)
        BY <2>0, <4>1, <4>3, <4>4, <4>5, Zenon DEF Before
      <4>6. CASE events = buffer /\ buffer' = <<event>>
        BY <2>0, <4>1, <4>2, <4>3, <4>4, <4>6, Zenon DEF Before
      <4>7. CASE events = Push(event) /\ buffer' = <<>>
        BY <2>0, <4>1, <4>3, <4>4, <4>7, Zenon DEF Before
      <4> QED
        BY <3>2, <4>5, <4>6, <4>7
    <3> QED
      BY <1>2, <3>1, <3>2 DEF Sends
  <2>2. KeysOn(outbox'[a]) \subseteq sent /\ InOrder(outbox'[a])
    <3>1. outbox'[a] = Sending(a, events) \o News(a)
      BY <1>2 DEF Sends
    <3>2. /\ Sending(a, events) \in Seq(Messages)
          /\ KeysOn(Sending(a, events)) \subseteq sent /\ InOrder(Sending(a, events))
      <4>1. CASE Sending(a, events) = <<>>
        BY <4>1, NoKeysOnEmpty, SendingType
      <4>2. CASE Sending(a, events) = <<InputBatch(focus_epoch, last_sent[a] + 1, events)>>
        <5> DEFINE batch == InputBatch(focus_epoch, last_sent[a] + 1, events)
        <5>1. Entries(<<batch>>) = {batch}
          BY DEF Entries
        <5>2. EventsOf(batch) = events
          BY NoKeysCarried
        <5>3. KeysOn(<<batch>>) = sent
          BY <5>1, <5>2, Zenon DEF KeysOn, KeysCarried
        <5>4. InOrder(<<batch>>)
          BY <2>1, <5>2 DEF InOrder
        <5> QED
          BY <4>2, <5>3, <5>4, SendingType
      <4> QED
        BY <4>1, <4>2 DEF Sending
    <3>3. News(a) \in Seq(Messages) /\ KeysOn(News(a)) = {} /\ InOrder(News(a))
      <4>1. CASE News(a) = <<>>
        BY <4>1, NoKeysOnEmpty, EmptyQueue
      <4>2. CASE News(a) = <<FocusChanged(focus_epoch', focus', position')>>
        <5> DEFINE news == FocusChanged(focus_epoch', focus', position')
        <5>1. news \in Messages
          <6>1. SessionType'
            BY SessionStepType
          <6> QED
            BY <6>1 DEF SessionType, FocusChanged, Messages, FocusMessages
        <5>2. Entries(<<news>>) = {news}
          BY DEF Entries
        <5>3. EventsOf(news) = <<>> /\ KeysCarried(news) = {} /\ EventsInOrder(EventsOf(news))
          BY NoKeysCarried DEF KeysCarried
        <5>4. KeysOn(<<news>>) = {}
          BY <5>2, <5>3, Zenon DEF KeysOn
        <5>5. InOrder(<<news>>)
          BY <5>3 DEF InOrder
        <5> QED
          BY <4>2, <5>1, <5>4, <5>5
      <4> QED
        BY <4>1, <4>2 DEF News
    <3> QED
      BY <3>1, <3>2, <3>3, KeysJoined DEF Before
  <2> QED
    BY <2>1, <2>2, Zenon DEF Before
<1> QED
  BY <1>1, <1>2, SessionSends


(* What an agent's session returns carries the keys of the batch it just   *)
(* took from its connection, or none.                                      *)
NoNewKeys(a) ==
  \/ actions'[a] = actions[a]
  \/ KeysOn(actions'[a]) = {} /\ InOrder(actions'[a])

LEMMA QuietActions ==
  ASSUME NEW list,
         \/ list \in {<<>>, <<FocusEntered>>, <<ReleaseAllInput>>,
                      <<ReleaseAllInput, FocusEntered>>}
         \/ \E through : list = <<SendAck(through)>>
  PROVE  KeysOn(list) = {} /\ InOrder(list)
<1>1. \A i \in 1 .. Len(list) : EventsOf(list[i]) = <<>>
  <2>1. CASE list = <<>>
    BY <2>1
  <2>2. CASE list = <<FocusEntered>>
    BY <2>2, NoKeysCarried
  <2>3. CASE list = <<ReleaseAllInput>>
    BY <2>3, NoKeysCarried
  <2>4. CASE list = <<ReleaseAllInput, FocusEntered>>
    <3>1. Len(list) = 2 /\ list[1] = ReleaseAllInput /\ list[2] = FocusEntered
      BY <2>4
    <3>2. \A i \in 1 .. 2 : i = 1 \/ i = 2
      OBVIOUS
    <3> QED
      BY <3>1, <3>2, NoKeysCarried
  <2>5. ASSUME NEW through, list = <<SendAck(through)>>
        PROVE  \A i \in 1 .. Len(list) : EventsOf(list[i]) = <<>>
    BY <2>5, NoKeysCarried
  <2> QED
    BY <2>1, <2>2, <2>3, <2>4, <2>5
<1>2. \A message \in Entries(list) : KeysCarried(message) = {}
  BY <1>1, NoKeysCarried DEF Entries, KeysCarried
<1>3. KeysOn(list) = {}
  BY <1>2 DEF KeysOn
<1>4. \A i \in 1 .. Len(list) : EventsInOrder(EventsOf(list[i])) /\ KeysCarried(list[i]) = {}
  BY <1>1, NoKeysCarried DEF KeysCarried
<1>5. InOrder(list)
  BY <1>4, Zenon DEF InOrder, Before
<1> QED
  BY <1>3, <1>5

LEMMA SessionReturnsKeys ==
  ASSUME PathType, NEW a \in Agents,
         \/ ReceiveFocus(a) \/ ReceiveInput(a) \/ ReceiveDisconnected(a) \/ ReceiveApplied(a)
         \/ ReceiveDesktopChanged(a) \/ ReportDisplay(a) \/ Inject(a) \/ Connect(a)
         \/ DisplayTick(a)
  PROVE  \/ NoNewKeys(a)
         \/ /\ ReceiveInput(a) /\ actions[a] = <<>>
            /\ KeysOn(actions'[a]) = KeysCarried(Head(down[connection[a]]))
            /\ EventsInOrder(EventsOf(Head(down[connection[a]]))) => InOrder(actions'[a])
<1>1. Failed(a) \/ UNCHANGED agentSessions => NoNewKeys(a)
  BY DEF Failed, NoNewKeys, agentSessions, focusVars, deliveryVars
<1>2. ASSUME NEW list, Return(a, list),
             \/ list \in {<<>>, <<FocusEntered>>, <<ReleaseAllInput>>,
                          <<ReleaseAllInput, FocusEntered>>}
             \/ \E through : list = <<SendAck(through)>>
      PROVE  NoNewKeys(a)
  <2>1. actions'[a] = list
    BY <1>2 DEF Return, PathType, AgentType
  <2> QED
    BY <1>2, <2>1, QuietActions DEF NoNewKeys
<1>3. CASE ReceiveFocus(a)
  <2> DEFINE message == Head(down[connection[a]])
             focused == [epoch |-> message.epoch, target |-> message.target,
                         entry |-> message.entry]
             entered == IF focused.target = a THEN <<FocusEntered>> ELSE <<>>
             list == ReleaseIfActive(a) \o entered
  <2>1. FollowFocus(a, focused)
    BY <1>3 DEF ReceiveFocus
  <2> HIDE DEF focused
  <2>2. CASE FocusError(a, focused)
    BY <1>1, <2>2, CallErrors
  <2>3. CASE Return(a, list)
    <3>1. ReleaseIfActive(a) \in {<<>>, <<ReleaseAllInput>>} /\ entered \in {<<>>, <<FocusEntered>>}
      BY DEF ReleaseIfActive
    <3>2. <<>> \o <<>> = <<>> /\ <<>> \o <<FocusEntered>> = <<FocusEntered>>
      OBVIOUS
    <3>3. list \in {<<>>, <<FocusEntered>>, <<ReleaseAllInput>>,
                    <<ReleaseAllInput, FocusEntered>>}
      BY <3>1, <3>2, JoinOne
    <3> QED
      BY <1>2, <2>3, <3>3
  <2> QED
    BY <1>1, <2>1, <2>2, <2>3 DEF FollowFocus
<1>4. CASE ReceiveInput(a)
  <2> DEFINE message == Head(down[connection[a]])
             batch == [epoch |-> message.epoch, sequence |-> message.sequence,
                       events |-> message.events]
  <2>1. ReceiveBatch(a, batch) /\ actions[a] = <<>> /\ message.type = "Input"
        /\ batch.events = message.events
    BY <1>4, TakenMessage DEF ReceiveInput, PathType, ReceiveBatch, AgentIdle
  <2>2. EventsOf(message) = batch.events
    BY <2>1 DEF EventsOf
  <2> HIDE DEF batch
  <2>3. CASE InputError(a, batch)
    BY <1>1, <2>3, CallErrors
  <2>4. CASE Return(a, <<SendAck(last_applied_sequence[a])>>)
    BY <1>2, <2>4
  <2>5. CASE Return(a, <<ApplyInput(batch)>>)
    <3>1. actions'[a] = <<ApplyInput(batch)>>
      BY <2>5 DEF Return, PathType, AgentType
    <3>2. EventsOf(ApplyInput(batch)) = EventsOf(message)
      BY <2>2, NoKeysCarried
    <3>3. KeysCarried(ApplyInput(batch)) = KeysCarried(message)
      BY <3>2 DEF KeysCarried
    <3>4. Entries(<<ApplyInput(batch)>>) = {ApplyInput(batch)}
      BY DEF Entries
    <3>5. KeysOn(actions'[a]) = KeysCarried(message)
      BY <3>1, <3>3, <3>4, Zenon DEF KeysOn
    <3>6. EventsInOrder(EventsOf(message)) => InOrder(<<ApplyInput(batch)>>)
      BY <3>2 DEF InOrder
    <3> QED
      BY <1>4, <2>1, <3>1, <3>5, <3>6
  <2> QED
    BY <2>1, <2>3, <2>4, <2>5 DEF ReceiveBatch
<1>5. CASE ReceiveDisconnected(a) \/ Inject(a) \/ DisplayTick(a)
  BY <1>1, <1>5 DEF ReceiveDisconnected, Inject, DisplayTick, agentVars
<1>6. CASE ReceiveApplied(a)
  <2>1. CASE UNCHANGED agentSessions
    BY <1>1, <2>1
  <2>2. CASE ConfirmApplied(a, Head(native_events[a]).sequence)
    BY <1>1, <1>2, <2>2, CallErrors DEF ConfirmApplied
  <2> QED
    BY <1>6, <2>1, <2>2 DEF ReceiveApplied
<1>7. CASE ReceiveDesktopChanged(a)
  BY <1>2, <1>7 DEF ReceiveDesktopChanged, ReconcileDisplay
<1>8. CASE ReportDisplay(a)
  BY <1>1, <1>8, CallErrors DEF ReportDisplay, SendFails
<1>9. CASE Connect(a)
  <2>1. actions'[a] = <<>>
    BY <1>9 DEF Connect, Start, PathType, AgentType
  <2> QED
    BY <2>1, QuietActions DEF NoNewKeys
<1> QED
  BY <1>3, <1>4, <1>5, <1>6, <1>7, <1>8, <1>9


UnderWay(a) == IF connection[a] = NoSession THEN {} ELSE KeysOn(down[connection[a]])

LEMMA StagesAre ==
  ASSUME NEW a
  PROVE  /\ Stages(a)[1] = KeyNumbers(injected[a]) /\ Stages(a)[2] = KeysOn(commands[a])
         /\ Stages(a)[3] = KeysOn(actions[a]) /\ Stages(a)[4] = UnderWay(a)
         /\ Stages(a)[5] = KeysOn(outbox[a]) /\ Stages(a)[6] = KeyNumbers(buffer)
BY DEF Stages, Stage, UnderWay

LEMMA NextStagesAre ==
  ASSUME NEW a
  PROVE  /\ Stages(a)'[1] = KeyNumbers(injected'[a]) /\ Stages(a)'[2] = KeysOn(commands'[a])
         /\ Stages(a)'[3] = KeysOn(actions'[a]) /\ Stages(a)'[4] = UnderWay(a)'
         /\ Stages(a)'[5] = KeysOn(outbox'[a]) /\ Stages(a)'[6] = KeyNumbers(buffer')
BY DEF Stages, Stage, UnderWay

LEMMA SixStages ==
  ASSUME NEW P1, NEW P2, NEW P3, NEW P4, NEW P5, NEW P6, NEW old, NEW new,
         P1 \subseteq old[1] /\ P2 \subseteq old[2] /\ P3 \subseteq old[3],
         P4 \subseteq old[4] /\ P5 \subseteq old[5] /\ P6 \subseteq old[6],
         new[1] = P1 /\ new[2] = P2 /\ new[3] = P3 /\ new[4] = P4 /\ new[5] = P5 /\ new[6] = P6
  PROVE  \A n \in 1 .. 6 : new[n] \subseteq old[n]
<1>1. \A n \in 1 .. 6 : n = 1 \/ n = 2 \/ n = 3 \/ n = 4 \/ n = 5 \/ n = 6
  OBVIOUS
<1> QED
  BY <1>1

(* Keys may go from one stage to the next, in a step that leaves the       *)
(* buffer alone.                                                           *)
LEMMA KeysMove ==
  ASSUME NEW a \in Agents, SessionType, KeysInv(a), NEW k \in 1 .. 5, NEW moved,
         UNCHANGED <<buffer, captured>>,
         \A n \in 1 .. 6 : \/ Stages(a)'[n] \subseteq Stages(a)[n]
                           \/ n = k /\ Stages(a)'[n] \subseteq Stages(a)[n] \cup moved,
         moved \subseteq Stages(a)[k + 1], Before(moved, Stages(a)'[k + 1]),
         EventsInOrder(injected'[a]), InOrder(commands'[a]), InOrder(actions'[a]),
         InOrder(outbox'[a]), connection'[a] # NoSession => InOrder(down'[connection'[a]])
  PROVE  KeysInv(a)'
<1> DEFINE old == Stages(a)
           new == Stages(a)'
<1>1. captured \in Nat /\ StagesInOrder(old) /\ StagesUpTo(old, captured)
  BY DEF SessionType, KeysInv
<1>2. \A n \in 1 .. 6 : new[n] \subseteq old[n] \/ (n = k /\ new[n] \subseteq old[n] \cup moved)
  OBVIOUS
<1>3. moved \subseteq old[k + 1] /\ Before(moved, new[k + 1])
  OBVIOUS
<1> HIDE DEF old, new
<1>4. StagesInOrder(new) /\ StagesUpTo(new, captured)
  BY <1>1, <1>2, <1>3, StagesAdvance
<1>5. captured' = captured /\ EventsInOrder(buffer')
  BY DEF KeysInv
<1> QED
  BY <1>4, <1>5 DEF KeysInv, new, StagesInOrder, StagesUpTo

LEMMA KeysStay ==
  ASSUME NEW a \in Agents, SessionType, KeysInv(a), UNCHANGED <<buffer, captured>>,
         \A n \in 1 .. 6 : Stages(a)'[n] \subseteq Stages(a)[n],
         EventsInOrder(injected'[a]), InOrder(commands'[a]), InOrder(actions'[a]),
         InOrder(outbox'[a]), connection'[a] # NoSession => InOrder(down'[connection'[a]])
  PROVE  KeysInv(a)'
<1>1. Before({}, Stages(a)'[2]) /\ {} \subseteq Stages(a)[2]
  BY DEF Before
<1>2. 1 \in 1 .. 5 /\ 1 + 1 = 2
  OBVIOUS
<1>3. \A n \in 1 .. 6 : \/ Stages(a)'[n] \subseteq Stages(a)[n]
                        \/ n = 1 /\ Stages(a)'[n] \subseteq Stages(a)[n] \cup {}
  OBVIOUS
<1> QED
  BY <1>1, <1>2, <1>3, KeysMove


(* The controller's steps, and those of other agents.                      *)
LEMMA KeysElsewhere ==
  ASSUME PathType, OwnedInv, NEW a \in Agents, KeysInv(a), [PathNext]_pathVars,
         UNCHANGED LocalTo(a)
  PROVE  KeysInv(a)'
<1> DEFINE c == connection[a]
           old == Stages(a)
           new == Stages(a)'
<1>1. UNCHANGED <<connection[a], injected[a], commands[a], actions[a]>>
  BY DEF LocalTo, SessionOf, RuntimeOf, ServiceOf
<1>2. SessionType /\ SessionStep /\ captured \in Nat
  BY PathStep DEF PathType, SessionType
<1>3. /\ StagesInOrder(old) /\ StagesUpTo(old, captured)
      /\ EventsInOrder(buffer) /\ InOrder(outbox[a])
      /\ c # NoSession => InOrder(down[c])
  BY DEF KeysInv
<1>4. /\ old[5] = KeysOn(outbox[a]) /\ old[6] = KeyNumbers(buffer) /\ old[4] = UnderWay(a)
      /\ new[5] = KeysOn(outbox'[a]) /\ new[6] = KeyNumbers(buffer') /\ new[4] = UnderWay(a)'
      /\ new[1] = old[1] /\ new[2] = old[2] /\ new[3] = old[3]
  BY <1>1, StagesAre, NextStagesAre
<1>5. c # NoSession => c \in Sessions /\ owner[c] = a
  BY DEF OwnedInv, Owned, PathType, AgentType
<1> HIDE DEF old, new
<1>6. Before(KeysOn(outbox[a]), KeyNumbers(buffer)) /\ KeyNumbers(buffer) \subseteq 1 .. captured
  BY <1>3, <1>4 DEF StagesInOrder, StagesUpTo
<1>7. /\ EventsInOrder(buffer') /\ InOrder(outbox'[a])
      /\ Before(new[5], new[6])
      /\ \A key \in new[5] : key \in old[5] \/ key \in old[6] \/ NewKey(key)
      /\ \A key \in new[6] : key \in old[6] \/ NewKey(key)
      /\ captured' \in Nat /\ captured <= captured'
  BY <1>2, <1>3, <1>4, <1>6, SessionKeys
<1>8. ASSUME new[4] \subseteq old[4] PROVE StagesInOrder(new) /\ StagesUpTo(new, captured')
  <2>1. \A n \in 1 .. 6 : \A x \in old[n] : x \in Nat /\ 1 <= x /\ x <= captured
    BY <1>2, <1>3 DEF StagesUpTo
  <2>2. \A n \in 1 .. 6 : n = 1 \/ n = 2 \/ n = 3 \/ n = 4 \/ n = 5 \/ n = 6
    OBVIOUS
  <2>3. \A n \in 1 .. 6 : n <= 4 => new[n] \subseteq old[n]
    BY <1>4, <1>8, <2>2
  <2>4. ASSUME NEW m \in 1 .. 6, NEW n \in 1 .. 6, m < n, NEW x \in new[m], NEW y \in new[n]
        PROVE  x < y
    <3>1. CASE m = 5
      BY <1>7, <2>4, <3>1 DEF Before
    <3>2. CASE m # 5
      <4>1. m <= 4 /\ x \in old[m]
        BY <2>3, <2>4, <3>2
      <4>2. CASE n <= 4
        <5>1. y \in old[n]
          BY <2>3, <2>4, <4>2
        <5> QED
          BY <1>3, <2>4, <4>1, <5>1 DEF StagesInOrder, Before
      <4>3. CASE n > 4
        <5>1. n = 5 \/ n = 6
          BY <4>3
        <5>2. y \in old[5] \/ y \in old[6] \/ NewKey(y)
          BY <1>7, <2>4, <5>1
        <5>3. CASE NewKey(y)
          BY <1>2, <2>1, <4>1, <5>3 DEF NewKey
        <5>4. CASE y \in old[5]
          BY <1>3, <4>1, <5>4 DEF StagesInOrder, Before
        <5>5. CASE y \in old[6]
          BY <1>3, <4>1, <5>5 DEF StagesInOrder, Before
        <5> QED
          BY <5>2, <5>3, <5>4, <5>5
      <4> QED
        BY <4>2, <4>3
    <3> QED
      BY <3>1, <3>2
  <2>5. ASSUME NEW n \in 1 .. 6, NEW x \in new[n] PROVE x \in 1 .. captured'
    <3>1. CASE n <= 4
      <4>1. x \in old[n]
        BY <2>3, <2>5, <3>1
      <4> QED
        BY <1>2, <1>7, <2>1, <4>1
    <3>2. CASE n > 4
      <4>1. n = 5 \/ n = 6
        BY <3>2
      <4>2. x \in old[5] \/ x \in old[6] \/ NewKey(x)
        BY <1>7, <2>5, <4>1
      <4>3. CASE NewKey(x)
        BY <1>2, <4>3 DEF NewKey
      <4> QED
        BY <1>2, <1>7, <2>1, <4>2, <4>3
    <3> QED
      BY <3>1, <3>2
  <2> QED
    BY <2>4, <2>5 DEF StagesInOrder, StagesUpTo, Before
<1>9. CASE c = NoSession
  <2>1. new[4] \subseteq old[4] /\ connection'[a] = NoSession
    BY <1>1, <1>4, <1>9 DEF UnderWay
  <2> QED
    BY <1>1, <1>7, <1>8, <2>1 DEF KeysInv, new
<1>10. ASSUME c # NoSession, KeysOn(down'[c]) \subseteq KeysOn(down[c]), InOrder(down'[c])
       PROVE  KeysInv(a)'
  <2>1. new[4] \subseteq old[4]
    BY <1>1, <1>4, <1>10 DEF UnderWay
  <2> QED
    BY <1>1, <1>7, <1>8, <1>10, <2>1 DEF KeysInv, new
<1>11. ASSUME c # NoSession, down'[c] = down[c] \o outbox[a], outbox' = NoMessages,
              UNCHANGED <<buffer, captured>>
       PROVE  KeysInv(a)'
  <2>1. down[c] \in Seq(DownMessage) /\ outbox[a] \in Seq(DownMessage)
    BY <1>5, <1>11 DEF PathType, ConnectionType, SessionType, DownMessage
  <2>2. Before(KeysOn(down[c]), KeysOn(outbox[a]))
    BY <1>3, <1>4, <1>11, SMTT(60) DEF StagesInOrder, UnderWay
  <2>3. KeysOn(down'[c]) = KeysOn(down[c]) \cup KeysOn(outbox[a]) /\ InOrder(down'[c])
    BY <1>3, <1>11, <2>1, <2>2, KeysJoined
  <2>4. outbox'[a] = <<>> /\ KeysOn(outbox'[a]) = {}
    BY <1>11, NoKeysOnEmpty DEF NoMessages
  <2>5. new[4] = old[4] \cup old[5]
    BY <1>1, <1>4, <1>11, <2>3 DEF UnderWay
  <2>6. \A n \in 1 .. 6 : n = 1 \/ n = 2 \/ n = 3 \/ n = 4 \/ n = 5 \/ n = 6
    OBVIOUS
  <2>7. \A n \in 1 .. 6 : new[n] \subseteq old[n] \/ (n = 4 /\ new[n] \subseteq old[n] \cup old[5])
    BY <1>4, <1>11, <2>4, <2>5, <2>6
  <2>8. Before(old[5], new[4 + 1])
    BY <1>4, <2>4 DEF Before
  <2>9. EventsInOrder(injected'[a]) /\ InOrder(commands'[a]) /\ InOrder(actions'[a])
    BY <1>1 DEF KeysInv
  <2>10. 4 \in 1 .. 5 /\ 4 + 1 = 5
    OBVIOUS
  <2>11. old[5] \subseteq old[4 + 1]
    OBVIOUS
  <2>12. connection'[a] # NoSession => InOrder(down'[connection'[a]])
    BY <1>1, <2>3
  <2> QED
    BY <1>2, <1>7, <1>11, <2>7, <2>8, <2>9, <2>10, <2>11, <2>12, KeysMove DEF old, new
<1> QED
  BY <1>3, <1>5, <1>9, <1>10, <1>11, KeysUnderWay


LEMMA AgentLeavesController ==
  ASSUME NEW a \in Agents, AgentNext(a) \/ Connect(a) \/ DisplayTick(a)
  PROVE  UNCHANGED controllerVars
BY DEF AgentNext, ReceiveFocus, ReceiveInput, ReceiveDisconnected, ApplyAgentAction,
       ReceiveApplied, ReceiveDesktopChanged, ReportDisplay, Inject, Connect, DisplayTick

LEMMA InjectedOnlyByInject ==
  ASSUME NEW a \in Agents, AgentNext(a) \/ Connect(a) \/ DisplayTick(a), ~Inject(a)
  PROVE  UNCHANGED injected
BY DEF AgentNext, ReceiveFocus, ReceiveInput, ReceiveDisconnected, ApplyAgentAction,
       ReceiveApplied, ReceiveDesktopChanged, ReportDisplay, Connect, DisplayTick, historyVars

(* What the agent's own step leaves under way to it.                       *)
LEMMA AgentTakes ==
  ASSUME PathType, OwnedInv, NEW a \in Agents, KeysInv(a),
         AgentNext(a) \/ Connect(a) \/ DisplayTick(a)
  PROVE  /\ UnderWay(a)' \subseteq UnderWay(a)
         /\ connection'[a] # NoSession => InOrder(down'[connection'[a]])
         /\ ReceiveInput(a) =>
              /\ KeysCarried(Head(down[connection[a]])) \subseteq UnderWay(a)
              /\ EventsInOrder(EventsOf(Head(down[connection[a]])))
              /\ Before(KeysCarried(Head(down[connection[a]])), UnderWay(a)')
<1> DEFINE c == connection[a]
<1>0. c # NoSession => c \in Sessions /\ down[c] \in Seq(DownMessage) /\ InOrder(down[c])
  BY DEF PathType, AgentType, ConnectionType, KeysInv
<1>1. CASE ReceiveFocus(a) \/ ReceiveInput(a)
  <2>1. c \in Sessions /\ c # NoSession /\ down[c] # <<>> /\ down' = Pop(down, c) /\ connection' = connection
    BY <1>1, TakenMessage DEF ReceiveFocus, ReceiveInput, PathType
  <2>2. down'[c] = Tail(down[c])
    BY <2>1, DownQueues DEF PathType
  <2>3. /\ KeysOn(down[c]) = KeysOn(down'[c]) \cup KeysCarried(Head(down[c]))
        /\ InOrder(down'[c]) /\ EventsInOrder(EventsOf(Head(down[c])))
        /\ Before(KeysCarried(Head(down[c])), KeysOn(down'[c]))
    BY <1>0, <2>1, <2>2, KeysTaken
  <2> QED
    BY <2>1, <2>3 DEF UnderWay
<1>2. CASE ReceiveDisconnected(a)
  <2>1. connection'[a] = NoSession
    BY <1>2 DEF ReceiveDisconnected, PathType, AgentType
  <2>2. ~ReceiveInput(a)
    <3>1. Head(down[c]).type = "Disconnected"
      BY <1>2, TakenMessage DEF ReceiveDisconnected, PathType
    <3> QED
      BY <3>1, TakenMessage DEF ReceiveInput, PathType
  <2> QED
    BY <2>1, <2>2 DEF UnderWay
<1>3. CASE Connect(a)
  <2>1. opened + 1 \in Sessions /\ opened + 1 > opened
    BY <1>3, InputPathBounds DEF Connect, PathType, ConnectionType, Sessions
  <2>5. connection'[a] = opened + 1 /\ UNCHANGED down
    BY <1>3 DEF Connect, PathType, AgentType
  <2>2. down'[connection'[a]] = <<>>
    BY <2>1, <2>5 DEF OwnedInv
  <2>3. c = NoSession
    BY <1>3 DEF Connect
  <2>4. ~ReceiveInput(a)
    BY <2>3, TakenMessage DEF ReceiveInput, PathType
  <2> QED
    BY <2>2, <2>4, NoKeysOnEmpty DEF UnderWay
<1>4. CASE \/ ApplyAgentAction(a) \/ ReceiveApplied(a) \/ ReceiveDesktopChanged(a)
           \/ ReportDisplay(a) \/ Inject(a) \/ DisplayTick(a)
  <2>1. UNCHANGED <<connection, down>>
    BY <1>4 DEF ApplyAgentAction, ReceiveApplied, ReceiveDesktopChanged, ReportDisplay, Inject,
                DisplayTick, agentVars, connectionVars
  <2>2. ASSUME ReceiveInput(a) PROVE FALSE
    <3>1. down[c] # <<>> /\ down[c] \in Seq(DownMessage) /\ down'[c] = Tail(down[c])
      BY <1>0, <2>2, TakenMessage, DownQueues DEF ReceiveInput, PathType
    <3>2. Len(Tail(down[c])) = Len(down[c]) - 1 /\ Len(down[c]) \in Nat
      BY <3>1, TailQueue
    <3>3. Tail(down[c]) = down[c]
      BY <2>1, <3>1
    <3>4. Len(down[c]) = Len(down[c]) - 1
      BY <3>2, <3>3, Zenon
    <3> QED
      BY <3>2, <3>4
  <2> QED
    BY <1>0, <2>1, <2>2 DEF UnderWay
<1> QED
  BY <1>1, <1>2, <1>3, <1>4 DEF AgentNext

LEMMA KeysInjectStep ==
  ASSUME PathType, OwnedInv, NEW a \in Agents, KeysInv(a), Inject(a)
  PROVE  KeysInv(a)'
<1> DEFINE old == Stages(a)
           new == Stages(a)'
           head == Head(commands[a])
<1>1. UNCHANGED <<buffer, captured, outbox, actions, connection, down>>
  BY DEF Inject, controllerVars, vars, agentVars, agentSessions, focusVars, deliveryVars,
       connectionVars
<1>2. /\ SessionType /\ commands[a] \in Seq(Command) /\ commands[a] # <<>>
      /\ commands'[a] = Tail(commands[a]) /\ head \in Command
      /\ injected[a] \in Seq(InputEvents)
  BY InjectEffect DEF PathType, NativeType
<1>3. /\ EventsInOrder(injected[a]) /\ InOrder(commands[a]) /\ InOrder(actions'[a])
      /\ InOrder(outbox'[a]) /\ (connection'[a] # NoSession => InOrder(down'[connection'[a]]))
      /\ StagesInOrder(old)
  BY <1>1 DEF KeysInv
<1>4. /\ KeysOn(commands[a]) = KeysOn(commands'[a]) \cup KeysCarried(head)
      /\ InOrder(commands'[a]) /\ EventsInOrder(EventsOf(head))
      /\ Before(KeysCarried(head), KeysOn(commands'[a]))
  BY <1>2, <1>3, KeysTaken
<1>5. /\ old[1] = KeyNumbers(injected[a]) /\ new[1] = KeyNumbers(injected'[a])
      /\ old[2] = KeysOn(commands[a]) /\ new[2] = KeysOn(commands'[a])
      /\ new[3] = old[3] /\ new[4] = old[4] /\ new[5] = old[5] /\ new[6] = old[6]
  BY <1>1, StagesAre, NextStagesAre DEF UnderWay
<1> HIDE DEF old, new
<1>6. injected'[a] = injected[a] \/ injected'[a] = injected[a] \o EventsOf(head)
  BY InjectEffect DEF IsBatch, EventsOf
<1>7. /\ EventsInOrder(injected'[a])
      /\ KeyNumbers(injected'[a]) \subseteq KeyNumbers(injected[a]) \cup KeysCarried(head)
  <2>1. CASE injected'[a] = injected[a]
    BY <1>3, <2>1
  <2>2. CASE injected'[a] = injected[a] \o EventsOf(head)
    <3>1. EventsOf(head) \in Seq(InputEvents)
      <4>1. CASE head.type = "ApplyBatch"
        BY <1>2, <4>1, CommandFacts DEF EventsOf
      <4>2. CASE head.type # "ApplyBatch"
        <5>1. head.type \in {"BeginSession", "ReleaseAll"}
          BY <1>2, <4>2, CommandFacts
        <5>2. EventsOf(head) = <<>>
          BY <5>1 DEF EventsOf
        <5> QED
          BY <5>2, EmptyQueue
      <4> QED
        BY <4>1, <4>2
    <3>2. Before(KeyNumbers(injected[a]), KeyNumbers(EventsOf(head)))
      BY <1>3, <1>4, <1>5 DEF StagesInOrder, Before, KeysCarried
    <3> QED
      BY <1>2, <1>3, <1>4, <2>2, <3>1, <3>2, EventsJoined DEF KeysCarried
  <2> QED
    BY <1>6, <2>1, <2>2
<1>8. 1 \in 1 .. 5 /\ 1 + 1 = 2
  OBVIOUS
<1>9. \A n \in 1 .. 6 : n = 1 \/ n = 2 \/ n = 3 \/ n = 4 \/ n = 5 \/ n = 6
  OBVIOUS
<1>10. \A n \in 1 .. 6 :
         new[n] \subseteq old[n] \/ (n = 1 /\ new[n] \subseteq old[n] \cup KeysCarried(head))
  BY <1>4, <1>5, <1>7, <1>9
<1>11. KeysCarried(head) \subseteq old[1 + 1] /\ Before(KeysCarried(head), new[1 + 1])
  BY <1>4, <1>5, <1>8
<1> QED
  BY <1>1, <1>2, <1>3, <1>4, <1>7, <1>8, <1>10, <1>11, KeysMove DEF old, new

LEMMA KeysInputStep ==
  ASSUME PathType, OwnedInv, NEW a \in Agents, KeysInv(a), ReceiveInput(a), ~NoNewKeys(a)
  PROVE  KeysInv(a)'
<1> DEFINE old == Stages(a)
           new == Stages(a)'
           head == Head(down[connection[a]])
<1>1. UNCHANGED <<buffer, captured, outbox, commands, injected, connection>>
  BY DEF ReceiveInput, controllerVars, vars, nativeVars, historyVars
<1>2. /\ KeysOn(actions'[a]) = KeysCarried(head) /\ actions[a] = <<>>
      /\ EventsInOrder(EventsOf(head)) => InOrder(actions'[a])
  BY SessionReturnsKeys
<1>3. /\ UnderWay(a)' \subseteq UnderWay(a) /\ KeysCarried(head) \subseteq UnderWay(a)
      /\ EventsInOrder(EventsOf(head)) /\ Before(KeysCarried(head), UnderWay(a)')
      /\ connection'[a] # NoSession => InOrder(down'[connection'[a]])
  BY AgentTakes DEF AgentNext
<1>4. /\ EventsInOrder(injected'[a]) /\ InOrder(commands'[a]) /\ InOrder(actions'[a])
      /\ InOrder(outbox'[a]) /\ SessionType
  BY <1>1, <1>2, <1>3 DEF KeysInv, PathType
<1>5. /\ new[1] = old[1] /\ new[2] = old[2] /\ new[5] = old[5] /\ new[6] = old[6]
      /\ new[3] = KeysCarried(head)
      /\ old[4] = UnderWay(a) /\ new[4] = UnderWay(a)'
  BY <1>1, <1>2, StagesAre, NextStagesAre
<1> HIDE DEF old, new
<1>6. 3 \in 1 .. 5 /\ 3 + 1 = 4
  OBVIOUS
<1>7. \A n \in 1 .. 6 : n = 1 \/ n = 2 \/ n = 3 \/ n = 4 \/ n = 5 \/ n = 6
  OBVIOUS
<1>8. \A n \in 1 .. 6 :
        new[n] \subseteq old[n] \/ (n = 3 /\ new[n] \subseteq old[n] \cup KeysCarried(head))
  BY <1>3, <1>5, <1>7
<1>9. KeysCarried(head) \subseteq old[3 + 1] /\ Before(KeysCarried(head), new[3 + 1])
  BY <1>3, <1>5, <1>6
<1> QED
  BY <1>1, <1>3, <1>4, <1>6, <1>8, <1>9, KeysMove DEF old, new


LEMMA KeysActionStep ==
  ASSUME PathType, OwnedInv, NEW a \in Agents, KeysInv(a), ApplyAgentAction(a)
  PROVE  KeysInv(a)'
<1> DEFINE old == Stages(a)
           new == Stages(a)'
           head == Head(actions[a])
<1>1. UNCHANGED <<buffer, captured, outbox, injected, connection, down>>
  BY DEF ApplyAgentAction, controllerVars, vars, historyVars
<1>2. /\ SessionType /\ actions[a] \in Seq(Action) /\ actions[a] # <<>>
      /\ commands[a] \in Seq(Command)
  BY DEF PathType, AgentType, NativeType, ApplyAgentAction
<1>3. /\ EventsInOrder(injected'[a]) /\ InOrder(commands[a]) /\ InOrder(actions[a])
      /\ InOrder(outbox'[a]) /\ (connection'[a] # NoSession => InOrder(down'[connection'[a]]))
      /\ StagesInOrder(old)
  BY <1>1 DEF KeysInv
<1>4. /\ old[2] = KeysOn(commands[a]) /\ new[2] = KeysOn(commands'[a])
      /\ old[3] = KeysOn(actions[a]) /\ new[3] = KeysOn(actions'[a])
      /\ new[1] = old[1] /\ new[4] = old[4] /\ new[5] = old[5] /\ new[6] = old[6]
  BY <1>1, StagesAre, NextStagesAre DEF UnderWay
<1> HIDE DEF old, new
<1>5. \A n \in 1 .. 6 : n = 1 \/ n = 2 \/ n = 3 \/ n = 4 \/ n = 5 \/ n = 6
  OBVIOUS
<1>6. /\ KeysOn(actions[a]) = KeysOn(Tail(actions[a])) \cup KeysCarried(head)
      /\ InOrder(Tail(actions[a])) /\ EventsInOrder(EventsOf(head))
      /\ Before(KeysCarried(head), KeysOn(Tail(actions[a])))
  BY <1>2, <1>3, KeysTaken
<1>7. actions'[a] = actions[a] \/ actions'[a] = Tail(actions[a])
  BY DEF ApplyAgentAction, SendFails, AgentSessionFails, TakeAction, Return, PathType, AgentType
<1>8. KeysOn(actions'[a]) \subseteq KeysOn(actions[a]) /\ InOrder(actions'[a])
  BY <1>3, <1>6, <1>7
<1>9. CASE commands'[a] = commands[a]
  <2>1. \A n \in 1 .. 6 : new[n] \subseteq old[n]
    BY <1>4, <1>5, <1>8, <1>9
  <2> QED
    BY <1>1, <1>2, <1>3, <1>8, <1>9, <2>1, KeysStay DEF old, new
<1>10. ASSUME connection[a] \in Sessions, commands'[a] = Append(commands[a], ReleaseAll(connection[a]))
       PROVE  KeysInv(a)'
  <2>1. ReleaseAll(connection[a]) \in Command /\ KeysCarried(ReleaseAll(connection[a])) = {}
        /\ EventsInOrder(EventsOf(ReleaseAll(connection[a])))
    BY <1>10, CommandTypes, NoKeysCarried DEF KeysCarried
  <2>2. KeysOn(commands'[a]) = KeysOn(commands[a]) /\ InOrder(commands'[a])
    <3> DEFINE command == ReleaseAll(connection[a])
    <3>1. commands[a] \in Seq(Command) /\ command \in Command /\ EventsInOrder(EventsOf(command))
          /\ KeysCarried(command) = {} /\ commands'[a] = Append(commands[a], command)
      BY <1>2, <1>10, <2>1
    <3> HIDE DEF command
    <3>2. KeysOn(Append(commands[a], command)) = KeysOn(commands[a]) \cup KeysCarried(command)
      BY <3>1, KeysAppended, ZenonT(60)
    <3>3. InOrder(commands[a]) /\ EventsInOrder(EventsOf(command))
            /\ Before(KeysOn(commands[a]), KeysCarried(command)) => InOrder(Append(commands[a], command))
      BY <3>1, KeysAppended, ZenonT(60)
    <3>4. Before(KeysOn(commands[a]), KeysCarried(command))
      BY <3>1 DEF Before
    <3> QED
      BY <1>3, <3>1, <3>2, <3>3, <3>4
  <2>3. \A n \in 1 .. 6 : new[n] \subseteq old[n]
    BY <1>4, <1>5, <1>8, <2>2
  <2> QED
    BY <1>1, <1>2, <1>3, <1>8, <2>2, <2>3, KeysStay DEF old, new
<1>11. ASSUME connection[a] \in Sessions, head.type = "ApplyInput", head.batch \in Batch,
              TakeAction(a),
              commands'[a] = Append(commands[a], ApplyBatch(connection[a], head.batch))
       PROVE  KeysInv(a)'
  <2> DEFINE command == ApplyBatch(connection[a], head.batch)
  <2>1. command \in Command /\ EventsOf(command) = EventsOf(head)
    BY <1>11, CommandTypes, NoKeysCarried DEF EventsOf
  <2>2. KeysCarried(command) = KeysCarried(head) /\ EventsInOrder(EventsOf(command))
    BY <1>6, <2>1 DEF KeysCarried
  <2>3. Before(KeysOn(commands[a]), KeysCarried(command))
    BY <1>3, <1>4, <1>6, <2>2 DEF StagesInOrder, Before
  <2>4. /\ KeysOn(commands'[a]) = KeysOn(commands[a]) \cup KeysCarried(head)
        /\ InOrder(commands'[a])
    BY <1>2, <1>3, <1>11, <2>1, <2>2, <2>3, KeysAppended
  <2>5. actions'[a] = Tail(actions[a])
    BY <1>11 DEF TakeAction, Return, PathType, AgentType
  <2>6. 2 \in 1 .. 5 /\ 2 + 1 = 3
    OBVIOUS
  <2>7. \A n \in 1 .. 6 :
          new[n] \subseteq old[n] \/ (n = 2 /\ new[n] \subseteq old[n] \cup KeysCarried(head))
    BY <1>4, <1>5, <1>8, <2>4
  <2>8. KeysCarried(head) \subseteq old[2 + 1] /\ Before(KeysCarried(head), new[2 + 1])
    BY <1>4, <1>6, <2>5, <2>6
  <2> QED
    BY <1>1, <1>2, <1>3, <1>8, <2>4, <2>6, <2>7, <2>8, KeysMove DEF old, new
<1>12. AgentNext(a) /\ ~Connect(a) /\ ~Inject(a)
  <2>1. connection[a] # NoSession
    BY <1>2 DEF PathType, ActionsNeedConnection
  <2>2. UNCHANGED native_events /\ UNCHANGED active_generation
    BY DEF ApplyAgentAction
  <2>3. ~Connect(a)
    BY <2>1 DEF Connect
  <2>4. ASSUME Inject(a) PROVE FALSE
    <3>1. actions' = actions
      BY <2>4 DEF Inject, agentVars, agentSessions, focusVars, deliveryVars
    <3>2. UNCHANGED agent_error
      BY <2>4 DEF Inject, agentVars, agentSessions, focusVars, deliveryVars
    <3>3. actions'[a] = Tail(actions[a]) \/ agent_error'[a] = "Transport"
      BY DEF ApplyAgentAction, SendFails, AgentSessionFails, TakeAction, Return, PathType, AgentType
    <3>4. agent_error[a] = "none"
      BY DEF ApplyAgentAction
    <3>5. Len(Tail(actions[a])) = Len(actions[a]) - 1 /\ Len(actions[a]) \in Nat
      BY <1>2, TailQueue
    <3>6. Tail(actions[a]) = actions[a]
      BY <3>1, <3>2, <3>3, <3>4
    <3>7. Len(actions[a]) = Len(actions[a]) - 1
      BY <3>5, <3>6, Zenon
    <3> QED
      BY <3>5, <3>7
  <2> QED
    BY <2>3, <2>4 DEF AgentNext
<1> QED
  BY <1>9, <1>10, <1>11, <1>12, CommandStep

LEMMA KeysQuietStep ==
  ASSUME PathType, OwnedInv, NEW a \in Agents, KeysInv(a), NoNewKeys(a),
         \/ ReceiveFocus(a) \/ ReceiveInput(a) \/ ReceiveDisconnected(a) \/ ReceiveApplied(a)
         \/ ReceiveDesktopChanged(a) \/ ReportDisplay(a) \/ Connect(a) \/ DisplayTick(a),
         ~Inject(a), ~ApplyAgentAction(a)
  PROVE  KeysInv(a)'
<1> DEFINE old == Stages(a)
           new == Stages(a)'
<1>0. AgentNext(a) \/ Connect(a) \/ DisplayTick(a)
  BY DEF AgentNext
<1>1. UNCHANGED <<buffer, captured, outbox, injected>>
  BY <1>0, AgentLeavesController, InjectedOnlyByInject DEF controllerVars, vars
<1>2. SessionType /\ commands[a] \in Seq(Command)
  BY DEF PathType, NativeType
<1>3. /\ UnderWay(a)' \subseteq UnderWay(a)
      /\ connection'[a] # NoSession => InOrder(down'[connection'[a]])
  BY <1>0, AgentTakes
<1>4. /\ EventsInOrder(injected'[a]) /\ InOrder(commands[a]) /\ InOrder(actions'[a])
      /\ InOrder(outbox'[a]) /\ KeysOn(actions'[a]) \subseteq KeysOn(actions[a])
  BY <1>1 DEF KeysInv, NoNewKeys
<1>5. /\ old[2] = KeysOn(commands[a]) /\ new[2] = KeysOn(commands'[a])
      /\ new[1] = old[1] /\ old[3] = KeysOn(actions[a]) /\ new[3] = KeysOn(actions'[a])
      /\ old[4] = UnderWay(a) /\ new[4] = UnderWay(a)'
      /\ new[5] = old[5] /\ new[6] = old[6]
  BY <1>1, StagesAre, NextStagesAre
<1> HIDE DEF old, new
<1>6. \A n \in 1 .. 6 : n = 1 \/ n = 2 \/ n = 3 \/ n = 4 \/ n = 5 \/ n = 6
  OBVIOUS
<1>7. ASSUME NEW command \in Command, commands'[a] = Append(commands[a], command),
             EventsOf(command) = <<>>
      PROVE  KeysOn(commands'[a]) = KeysOn(commands[a]) /\ InOrder(commands'[a])
  <2>1. KeysCarried(command) = {} /\ EventsInOrder(EventsOf(command))
    BY <1>7, NoKeysCarried DEF KeysCarried
  <2>2. /\ KeysOn(Append(commands[a], command)) = KeysOn(commands[a]) \cup KeysCarried(command)
        /\ Before(KeysOn(commands[a]), KeysCarried(command)) => InOrder(Append(commands[a], command))
    BY <1>2, <1>4, <2>1, KeysAppended, ZenonT(60)
  <2>3. Before(KeysOn(commands[a]), KeysCarried(command))
    BY <2>1 DEF Before
  <2> QED
    BY <1>7, <2>1, <2>2, <2>3
<1>8. KeysOn(commands'[a]) = KeysOn(commands[a]) /\ InOrder(commands'[a])
  <2>1. CASE commands'[a] = commands[a]
    BY <1>4, <2>1
  <2>2. CASE /\ connection[a] \in Sessions
             /\ commands'[a] = Append(commands[a], ReleaseAll(connection[a]))
    BY <1>7, <2>2, CommandTypes, NoKeysCarried
  <2>3. CASE /\ opened + 1 \in Sessions
             /\ commands'[a] = Append(commands[a], BeginSession(opened + 1))
    BY <1>7, <2>3, CommandTypes, NoKeysCarried
  <2> QED
    BY <1>0, <2>1, <2>2, <2>3, CommandStep
<1>9. \A n \in 1 .. 6 : new[n] \subseteq old[n]
  BY <1>3, <1>4, <1>5, <1>6, <1>8
<1> QED
  BY <1>1, <1>2, <1>3, <1>4, <1>8, <1>9, KeysStay DEF old, new

LEMMA KeysInvStep ==
  ASSUME PathType, OwnedInv, NEW a \in Agents, KeysInv(a), [PathNext]_pathVars
  PROVE  KeysInv(a)'
<1>1. CASE UNCHANGED LocalTo(a)
  BY <1>1, KeysElsewhere
<1>2. CASE UNCHANGED <<agentVars, nativeVars, injected, applied>>
  BY <1>1, <1>2 DEF LocalTo, SessionOf, RuntimeOf, ServiceOf, agentVars, agentSessions,
       focusVars, deliveryVars, nativeVars
<1>3. CASE Inject(a)
  BY <1>3, KeysInjectStep
<1>4. CASE ApplyAgentAction(a)
  BY <1>4, KeysActionStep
<1>5. CASE /\ ~Inject(a) /\ ~ApplyAgentAction(a)
           /\ AgentNext(a) \/ Connect(a) \/ DisplayTick(a)
  <2>1. \/ ReceiveFocus(a) \/ ReceiveInput(a) \/ ReceiveDisconnected(a) \/ ReceiveApplied(a)
        \/ ReceiveDesktopChanged(a) \/ ReportDisplay(a) \/ Connect(a) \/ DisplayTick(a)
    BY <1>5 DEF AgentNext
  <2>2. CASE NoNewKeys(a)
    BY <1>5, <2>1, <2>2, KeysQuietStep
  <2>3. CASE ~NoNewKeys(a)
    BY <2>1, <2>3, SessionReturnsKeys, KeysInputStep
  <2> QED
    BY <2>2, <2>3
<1> QED
  BY <1>1, <1>2, <1>3, <1>4, <1>5, ControllerFrames, OtherAgents

LEMMA KeysInvInit == PathInit \/ EstablishedInit => KeysInvAll
<1> SUFFICES ASSUME PathInit \/ EstablishedInit, NEW a \in Agents PROVE KeysInv(a)
  BY DEF KeysInvAll
<1>1. /\ injected[a] = <<>> /\ buffer = <<>> /\ commands[a] = <<>> /\ outbox[a] = <<>>
      /\ \A s \in Sessions : down[s] = <<>>
      /\ captured = 0
  BY DEF PathInit, EstablishedInit, Init, NoMessages
<1>2. actions[a] = <<>>
  <2>1. CASE PathInit
    BY <2>1 DEF PathInit, AgentSessionInit, Agents
  <2>2. CASE EstablishedInit
    BY <2>2 DEF EstablishedInit
  <2> QED
    BY <2>1, <2>2
<1>3. connection[a] # NoSession => down[connection[a]] = <<>>
  BY <1>1, PathInitType, EstablishedInitType DEF PathType, AgentType
<1>4. UnderWay(a) = {}
  BY <1>3, NoKeysOnEmpty DEF UnderWay
<1>5. \A n \in 1 .. 6 : Stages(a)[n] = {}
  <2>1. \A n \in 1 .. 6 : n = 1 \/ n = 2 \/ n = 3 \/ n = 4 \/ n = 5 \/ n = 6
    OBVIOUS
  <2> QED
    BY <1>1, <1>2, <1>4, <2>1, StagesAre, NoKeysCarried, NoKeysOnEmpty
<1>6. StagesInOrder(Stages(a)) /\ StagesUpTo(Stages(a), captured)
  BY <1>5 DEF StagesInOrder, StagesUpTo, Before
<1> QED
  BY <1>1, <1>2, <1>3, <1>6, NoKeysCarried, NoKeysOnEmpty DEF KeysInv

(* Over lost and replaced connections, whose sequence numbers start over   *)
(* (reset_peer), and batches that an abandoned connection left with the    *)
(* injection service, an agent injects each key once and in the order of   *)
(* capture.                                                                *)
THEOREM KeysInjectedOnce == PathSpec => []InjectedOnceInOrder
<1>1. PathType /\ OwnedInv /\ KeysInvAll /\ [PathNext]_pathVars => KeysInvAll'
  BY KeysInvStep DEF KeysInvAll
<1>2. KeysInvAll => InjectedOnceInOrder
  BY DEF KeysInvAll, KeysInv, EventsInOrder, InjectedOnceInOrder
<1> QED
  BY <1>1, <1>2, KeysInvInit, OwnedInvHolds, PTL DEF PathSpec

-----------------------------------------------------------------------------
(* The agents' sessions, whatever they receive (AgentSessionSpec): the     *)
(* types, the epoch an agent is controlled in, the batch it applies, and   *)
(* the release of held input.                                              *)

(* Every action an agent session returns is one of AgentActions.           *)
LEMMA ActionTypes ==
  /\ ReleaseAllInput \in AgentActions
  /\ FocusEntered \in AgentActions
  /\ CloseConnection \in AgentActions
  /\ \A batch \in Batches : ApplyInput(batch) \in AgentActions
  /\ \A through \in Nat : SendAck(through) \in AgentActions
BY DEF AgentActions, ReleaseAllInput, FocusEntered, CloseConnection, ApplyInput, SendAck

LEMMA ConstantTypes ==
  /\ NoFocus \in FocusStates
  /\ NoBatch \in Batches
  /\ AnyFocus \subseteq FocusStates
  /\ \A message \in AnyFocus : message.epoch \in Nat
<1>1. NoFocus \in FocusStates
  BY NodesAssumption DEF NoFocus, FocusStates, Positions
<1>2. NoBatch \in Batches
  BY BatchAssumption DEF NoBatch, Batches
<1>3. 0 .. MaxEpoch \subseteq Nat /\ {n - 1 : n \in Sizes} \subseteq Nat
  BY AgentBounds, SizesAssumption
<1> QED
  BY <1>1, <1>2, <1>3 DEF AnyFocus, FocusStates, Positions

(* The batches a controller may send, valid or not.                        *)
LEMMA AnyBatchType ==
  ASSUME NEW batch \in AnyBatch
  PROVE  batch \in [epoch : Nat, sequence : Nat, events : Seq(InputEvents)]
<1>1. PICK e \in 0 .. MaxEpoch, n \in 0 .. MaxSequence, length \in 0 .. MaxBatch + 1 :
        batch = [epoch |-> e, sequence |-> n,
                 events |-> [i \in 1 .. length |-> MotionEvent(e)]]
  BY DEF AnyBatch
<1>2. e \in Nat /\ n \in Nat /\ length \in Nat
  BY AgentBounds, BatchAssumption
<1>3. MotionEvent(e) \in InputEvents
  BY <1>2 DEF MotionEvent, InputEvents, Motion
<1>4. [i \in 1 .. length |-> MotionEvent(e)] \in Seq(InputEvents)
  BY <1>2, <1>3
<1> QED
  BY <1>1, <1>2, <1>4

(* A valid batch is within the protocol's limit.                           *)
LEMMA ValidBatchType ==
  ASSUME NEW batch \in AnyBatch, ValidBatch(batch)
  PROVE  batch \in Batches
BY AnyBatchType DEF ValidBatch, Batches

LEMMA AgentFailsType ==
  ASSUME AgentTypeOK, NEW a \in Agents, NEW reason \in AgentErrors, AgentSessionFails(a, reason)
  PROVE  AgentTypeOK'
BY DEF AgentTypeOK, AgentSessionFails, focusVars, deliveryVars

LEMMA AgentStutterType == ASSUME AgentTypeOK, UNCHANGED agentSessions PROVE AgentTypeOK'
BY DEF AgentTypeOK, agentSessions, focusVars, deliveryVars

LEMMA FollowFocusType ==
  ASSUME AgentTypeOK, NEW a \in Agents, NEW message \in AnyFocus, FollowFocus(a, message)
  PROVE  AgentTypeOK'
<1>1. CASE FocusError(a, message)
  BY <1>1, AgentFailsType DEF FocusError, AgentErrors
<1>2. CASE UNCHANGED agentSessions
  BY <1>2, AgentStutterType
<1>3. CASE /\ highest_focus_epoch' = [highest_focus_epoch EXCEPT ![a] = message.epoch]
           /\ last_focus' = [last_focus EXCEPT ![a] = message]
           /\ active_focus_epoch' = [active_focus_epoch EXCEPT ![a] = OwnEpoch(a, message)]
           /\ Return(a, ReleaseIfActive(a) \o
                        (IF message.target = a THEN <<FocusEntered>> ELSE <<>>))
           /\ UNCHANGED <<display_size, deliveryVars, closed, agent_error>>
  <2>1. message \in FocusStates /\ message.epoch \in Nat
    BY ConstantTypes
  <2>2. OwnEpoch(a, message) \in Nat \cup {None}
    BY <2>1 DEF OwnEpoch
  <2>3. ReleaseIfActive(a) \o (IF message.target = a THEN <<FocusEntered>> ELSE <<>>)
          \in Seq(AgentActions)
    BY ActionTypes DEF ReleaseIfActive
  <2> QED
    BY <1>3, <2>1, <2>2, <2>3 DEF AgentTypeOK, Return, deliveryVars
<1> QED
  BY <1>1, <1>2, <1>3 DEF FollowFocus

LEMMA ReceiveBatchType ==
  ASSUME AgentTypeOK, NEW a \in Agents, NEW batch \in AnyBatch, ReceiveBatch(a, batch)
  PROVE  AgentTypeOK'
<1>1. CASE InputError(a, batch)
  BY <1>1, AgentFailsType DEF InputError, AgentErrors
<1>2. CASE /\ Return(a, <<SendAck(last_applied_sequence[a])>>)
           /\ UNCHANGED <<display_size, focusVars, deliveryVars, closed, agent_error>>
  <2>1. <<SendAck(last_applied_sequence[a])>> \in Seq(AgentActions)
    BY ActionTypes DEF AgentTypeOK
  <2> QED
    BY <1>2, <2>1 DEF AgentTypeOK, Return, focusVars, deliveryVars
<1>3. CASE /\ ValidBatch(batch)
           /\ pending_batch' = [pending_batch EXCEPT ![a] = batch]
           /\ Return(a, <<ApplyInput(batch)>>)
           /\ UNCHANGED <<display_size, focusVars, last_applied_sequence, closed, agent_error>>
  <2>1. batch \in Batches /\ <<ApplyInput(batch)>> \in Seq(AgentActions)
    BY <1>3, ValidBatchType, ActionTypes
  <2> QED
    BY <1>3, <2>1 DEF AgentTypeOK, Return, focusVars
<1> QED
  BY <1>1, <1>2, <1>3 DEF ReceiveBatch

LEMMA ReceiveDisconnectType ==
  ASSUME AgentTypeOK, NEW a \in Agents, ReceiveDisconnect(a)
  PROVE  AgentTypeOK'
<1>1. <<ReleaseAllInput, CloseConnection>> \in Seq(AgentActions)
  BY ActionTypes
<1> QED
  BY <1>1, ConstantTypes DEF ReceiveDisconnect, AgentTypeOK, Return

LEMMA ConfirmAppliedType ==
  ASSUME AgentTypeOK, NEW a \in Agents, NEW sequence \in Nat, ConfirmApplied(a, sequence)
  PROVE  AgentTypeOK'
<1>1. CASE ConfirmError(a, sequence)
  BY <1>1, AgentFailsType DEF ConfirmError, AgentErrors
<1>2. CASE ~ConfirmError(a, sequence)
  <2>1. <<SendAck(sequence)>> \in Seq(AgentActions)
    BY ActionTypes
  <2> QED
    BY <1>2, <2>1, ConstantTypes, ZenonT(60) DEF ConfirmApplied, AgentTypeOK, Return, focusVars
<1> QED
  BY <1>1, <1>2

LEMMA ReconcileDisplayType ==
  ASSUME AgentTypeOK, NEW a \in Agents, NEW size \in Sizes, ReconcileDisplay(a, size)
  PROVE  AgentTypeOK'
<1>1. <<ReleaseAllInput>> \in Seq(AgentActions)
  BY ActionTypes
<1> QED
  BY <1>1, ConstantTypes DEF ReconcileDisplay, AgentTypeOK, Return

LEMMA TakeActionType ==
  ASSUME AgentTypeOK, NEW a \in Agents, TakeAction(a)
  PROVE  AgentTypeOK'
<1>1. Tail(actions[a]) \in Seq(AgentActions)
  BY DEF AgentTypeOK, TakeAction
<1> QED
  BY <1>1 DEF TakeAction, AgentTypeOK, Return, focusVars, deliveryVars

LEMMA AgentNextType == ASSUME AgentTypeOK, AgentSessionNext PROVE AgentTypeOK'
<1> PICK a \in Agents :
      \/ \E message \in AnyFocus : FollowFocus(a, message)
      \/ \E batch \in AnyBatch : ReceiveBatch(a, batch)
      \/ ReceiveDisconnect(a)
      \/ ReceiveUnexpected(a)
      \/ ReceiveWhenClosed(a)
      \/ \E sequence \in 0 .. MaxSequence : ConfirmApplied(a, sequence)
      \/ \E size \in Sizes : ReconcileDisplay(a, size)
      \/ TakeAction(a)
  BY DEF AgentSessionNext
<1>1. CASE ReceiveUnexpected(a) \/ ReceiveWhenClosed(a)
  BY <1>1, AgentFailsType DEF ReceiveUnexpected, ReceiveWhenClosed, AgentErrors
<1>2. 0 .. MaxSequence \subseteq Nat
  BY AgentBounds
<1> QED
  BY <1>1, <1>2, FollowFocusType, ReceiveBatchType, ReceiveDisconnectType,
     ConfirmAppliedType, ReconcileDisplayType, TakeActionType

(* Whatever a controller sends and the native backend reports, every       *)
(* variable keeps its type, and no batch beyond the protocol's limit is    *)
(* taken for application (agent.rs, every method).                         *)
THEOREM AgentTypeCorrect == AgentSessionSpec => []AgentTypeOK
<1>1. AgentSessionInit => AgentTypeOK
  BY ConstantTypes DEF AgentSessionInit, AgentTypeOK, AgentErrors
<1>2. AgentTypeOK /\ [AgentSessionNext]_agentSessions => AgentTypeOK'
  BY AgentNextType, AgentStutterType
<1> QED
  BY <1>1, <1>2, PTL DEF AgentSessionSpec

-----------------------------------------------------------------------------
(* Control and the batch under application.                                *)

(* The two invariants, for one agent.                                      *)
Control(a) == IsActive(a) =>
  /\ active_focus_epoch[a] = highest_focus_epoch[a]
  /\ last_focus[a].epoch = highest_focus_epoch[a]
  /\ last_focus[a].target = a
  /\ last_focus[a].entry < display_size[a]
  /\ ~closed[a]

Pending(a) == IsPending(a) =>
  /\ pending_batch[a].sequence = last_applied_sequence[a] + 1
  /\ IsActive(a)
  /\ pending_batch[a].epoch = active_focus_epoch[a]

ControlInv == AgentTypeOK /\ \A a \in Agents : Control(a) /\ Pending(a)

(* A call changes one agent's session: every other one keeps what the      *)
(* invariants are about.                                                   *)
Others(a) == \A b \in Agents \ {a} :
  /\ display_size'[b] = display_size[b]
  /\ highest_focus_epoch'[b] = highest_focus_epoch[b]
  /\ active_focus_epoch'[b] = active_focus_epoch[b]
  /\ last_focus'[b] = last_focus[b]
  /\ last_applied_sequence'[b] = last_applied_sequence[b]
  /\ pending_batch'[b] = pending_batch[b]
  /\ closed'[b] = closed[b]

LEMMA OneAgent ==
  ASSUME ControlInv, AgentTypeOK', NEW a \in Agents, Others(a), Control(a)', Pending(a)'
  PROVE  ControlInv'
<1>1. ASSUME NEW b \in Agents, b # a PROVE Control(b)' /\ Pending(b)'
  BY <1>1 DEF ControlInv, Others, Control, Pending, IsActive, IsPending
<1> QED
  BY <1>1 DEF ControlInv

LEMMA SameControl ==
  ASSUME ControlInv, AgentTypeOK', UNCHANGED <<display_size, focusVars, deliveryVars, closed>>
  PROVE  ControlInv'
BY DEF ControlInv, Control, Pending, IsActive, IsPending, focusVars, deliveryVars

LEMMA FollowFocusControl ==
  ASSUME ControlInv, AgentTypeOK', NEW a \in Agents, NEW message \in AnyFocus, FollowFocus(a, message)
  PROVE  ControlInv'
<1>1. CASE FocusError(a, message) \/ UNCHANGED agentSessions
  BY <1>1, SameControl DEF FocusError, AgentSessionFails, agentSessions, focusVars, deliveryVars
<1>2. CASE /\ NewerFocus(a, message)
           /\ message.target = a => message.entry < display_size[a]
           /\ ~closed[a]
           /\ highest_focus_epoch' = [highest_focus_epoch EXCEPT ![a] = message.epoch]
           /\ last_focus' = [last_focus EXCEPT ![a] = message]
           /\ active_focus_epoch' = [active_focus_epoch EXCEPT ![a] = OwnEpoch(a, message)]
           /\ UNCHANGED <<display_size, deliveryVars, closed>>
  <2>1. /\ highest_focus_epoch'[a] = message.epoch
        /\ last_focus'[a] = message
        /\ active_focus_epoch'[a] = OwnEpoch(a, message)
        /\ Others(a)
    BY <1>2 DEF ControlInv, AgentTypeOK, Others, deliveryVars
  <2>2. ~IsPending(a)'
    BY <1>2 DEF NewerFocus, IsPending, deliveryVars
  <2>3. Control(a)'
    BY <1>2, <2>1 DEF Control, IsActive, OwnEpoch
  <2> QED
    BY <2>1, <2>2, <2>3, OneAgent DEF Pending
<1> QED
  BY <1>1, <1>2 DEF FollowFocus

LEMMA ReceiveBatchControl ==
  ASSUME ControlInv, AgentTypeOK', NEW a \in Agents, NEW batch \in AnyBatch, ReceiveBatch(a, batch)
  PROVE  ControlInv'
<1>1. CASE InputError(a, batch) \/ UNCHANGED <<display_size, focusVars, deliveryVars, closed>>
  BY <1>1, SameControl DEF InputError, AgentSessionFails
<1>2. CASE /\ Acceptable(a, batch) /\ IsNext(a, batch)
           /\ pending_batch' = [pending_batch EXCEPT ![a] = batch]
           /\ UNCHANGED <<display_size, focusVars, last_applied_sequence, closed>>
  <2>1. pending_batch'[a] = batch /\ Others(a)
    BY <1>2 DEF ControlInv, AgentTypeOK, Others, focusVars
  <2>2. Control(a)'
    BY <1>2 DEF ControlInv, Control, IsActive, focusVars
  <2>3. IsActive(a)'
    <3>1. batch.epoch \in Nat
      BY AnyBatchType
    <3> QED
      BY <1>2, <3>1 DEF Acceptable, IsActive, None, focusVars
  <2>4. Pending(a)'
    BY <1>2, <2>1, <2>3 DEF Pending, Acceptable, IsNext, focusVars
  <2> QED
    BY <2>1, <2>2, <2>4, OneAgent
<1> QED
  BY <1>1, <1>2 DEF ReceiveBatch

(* Losing control gives the batch up as well.                              *)
LEMMA GivenUp ==
  ASSUME ControlInv, AgentTypeOK', NEW a \in Agents, Others(a),
         active_focus_epoch'[a] = None, pending_batch'[a] = NoBatch
  PROVE  ControlInv'
BY OneAgent DEF Control, Pending, IsActive, IsPending

LEMMA ConfirmAppliedControl ==
  ASSUME ControlInv, AgentTypeOK', NEW a \in Agents, NEW sequence \in Nat,
         ConfirmApplied(a, sequence)
  PROVE  ControlInv'
<1>1. CASE ConfirmError(a, sequence)
  BY <1>1, SameControl DEF ConfirmError, AgentSessionFails
<1>2. CASE ~ConfirmError(a, sequence)
  <2>1. /\ last_applied_sequence' = [last_applied_sequence EXCEPT ![a] = sequence]
        /\ pending_batch' = [pending_batch EXCEPT ![a] = NoBatch]
        /\ UNCHANGED <<display_size, focusVars, closed>>
    BY <1>2 DEF ConfirmApplied
  <2>2. Others(a) /\ pending_batch'[a] = NoBatch
    BY <2>1 DEF ControlInv, AgentTypeOK, Others, focusVars
  <2>3. Control(a)'
    BY <2>1 DEF ControlInv, Control, IsActive, focusVars
  <2> QED
    BY <2>2, <2>3, OneAgent DEF Pending, IsPending
<1> QED
  BY <1>1, <1>2

LEMMA AgentNextControl == ASSUME ControlInv, AgentTypeOK', AgentSessionNext PROVE ControlInv'
<1> PICK a \in Agents :
      \/ \E message \in AnyFocus : FollowFocus(a, message)
      \/ \E batch \in AnyBatch : ReceiveBatch(a, batch)
      \/ ReceiveDisconnect(a)
      \/ ReceiveUnexpected(a)
      \/ ReceiveWhenClosed(a)
      \/ \E sequence \in 0 .. MaxSequence : ConfirmApplied(a, sequence)
      \/ \E size \in Sizes : ReconcileDisplay(a, size)
      \/ TakeAction(a)
  BY DEF AgentSessionNext
<1>1. CASE ReceiveDisconnect(a)
  <2>1. Others(a) /\ active_focus_epoch'[a] = None /\ pending_batch'[a] = NoBatch
    BY <1>1 DEF ReceiveDisconnect, Others, ControlInv, AgentTypeOK
  <2> QED
    BY <2>1, GivenUp
<1>2. ASSUME NEW size \in Sizes, ReconcileDisplay(a, size) PROVE ControlInv'
  <2>1. Others(a) /\ active_focus_epoch'[a] = None /\ pending_batch'[a] = NoBatch
    BY <1>2 DEF ReconcileDisplay, Others, ControlInv, AgentTypeOK
  <2> QED
    BY <2>1, GivenUp
<1>3. CASE ReceiveUnexpected(a) \/ ReceiveWhenClosed(a) \/ TakeAction(a)
  BY <1>3, SameControl DEF ReceiveUnexpected, ReceiveWhenClosed, TakeAction, AgentSessionFails
<1>4. 0 .. MaxSequence \subseteq Nat
  BY AgentBounds
<1> QED
  BY <1>1, <1>2, <1>3, <1>4, FollowFocusControl, ReceiveBatchControl, ConfirmAppliedControl

LEMMA ControlInvHolds == AgentSessionSpec => []ControlInv
<1>1. AgentSessionInit => ControlInv
  <2> SUFFICES ASSUME AgentSessionInit PROVE ControlInv
    OBVIOUS
  <2>1. AgentTypeOK
    BY ConstantTypes DEF AgentSessionInit, AgentTypeOK, AgentErrors
  <2>2. \A a \in Agents : ~IsActive(a) /\ ~IsPending(a)
    BY DEF AgentSessionInit, IsActive, IsPending
  <2> QED
    BY <2>1, <2>2 DEF ControlInv, Control, Pending
<1>2. ControlInv /\ [AgentSessionNext]_agentSessions => ControlInv'
  <2>1. ControlInv /\ AgentSessionNext => ControlInv'
    BY AgentNextType, AgentNextControl DEF ControlInv
  <2>2. ControlInv /\ UNCHANGED agentSessions => ControlInv'
    BY AgentStutterType, SameControl DEF ControlInv, agentSessions, focusVars, deliveryVars
  <2> QED
    BY <2>1, <2>2
<1> QED
  BY <1>1, <1>2, PTL DEF AgentSessionSpec

(* An agent is controlled only in the newest epoch it was told of, which   *)
(* names it, at an entry on its present desktop, whatever any controller   *)
(* sends and in whatever order (change_focus, reconcile_display and close  *)
(* in agent.rs).                                                           *)
THEOREM ControlIsCurrent == AgentSessionSpec => []ControlledInNewestEpoch
<1>1. ControlInv => ControlledInNewestEpoch
  BY DEF ControlInv, Control, ControlledInNewestEpoch
<1> QED
  BY <1>1, ControlInvHolds, PTL

(* The batch under native application is always the next in sequence and   *)
(* of the epoch the agent is controlled in; no message change, display       *)
(* change or disconnect leaves an older one behind (receive_input and      *)
(* confirm_applied in agent.rs).                                           *)
THEOREM PendingIsNext == AgentSessionSpec => []PendingBatchIsNext
<1>1. ControlInv => PendingBatchIsNext
  BY DEF ControlInv, Pending, PendingBatchIsNext
<1> QED
  BY <1>1, ControlInvHolds, PTL

-----------------------------------------------------------------------------
(* Release of held input.                                                  *)

(* The step condition of LosingControlReleasesInput.                       *)
Releases ==
  \A a \in Agents :
    IsActive(a) /\ active_focus_epoch'[a] # active_focus_epoch[a]
      => actions'[a] # <<>> /\ actions'[a][1] = ReleaseAllInput

LEMMA SameEpoch == ASSUME UNCHANGED active_focus_epoch PROVE Releases
BY DEF Releases

LEMMA OneRelease ==
  ASSUME AgentTypeOK, NEW a \in Agents, NEW epoch, NEW list,
         active_focus_epoch' = [active_focus_epoch EXCEPT ![a] = epoch],
         Return(a, list),
         IsActive(a) => list # <<>> /\ list[1] = ReleaseAllInput
  PROVE  Releases
BY DEF Releases, Return, AgentTypeOK

LEMMA AgentNextReleases == ASSUME AgentTypeOK, AgentSessionNext PROVE Releases
<1> PICK a \in Agents :
      \/ \E message \in AnyFocus : FollowFocus(a, message)
      \/ \E batch \in AnyBatch : ReceiveBatch(a, batch)
      \/ ReceiveDisconnect(a)
      \/ ReceiveUnexpected(a)
      \/ ReceiveWhenClosed(a)
      \/ \E sequence \in 0 .. MaxSequence : ConfirmApplied(a, sequence)
      \/ \E size \in Sizes : ReconcileDisplay(a, size)
      \/ TakeAction(a)
  BY DEF AgentSessionNext
<1>1. ASSUME NEW message \in AnyFocus, FollowFocus(a, message) PROVE Releases
  <2> DEFINE entered == IF message.target = a THEN <<FocusEntered>> ELSE <<>>
  <2>1. CASE UNCHANGED active_focus_epoch
    BY <2>1, SameEpoch
  <2>2. CASE /\ active_focus_epoch' = [active_focus_epoch EXCEPT ![a] = OwnEpoch(a, message)]
             /\ Return(a, ReleaseIfActive(a) \o entered)
    <3>1. entered \in Seq(AgentActions) /\ ReleaseAllInput \in AgentActions
      BY ActionTypes
    <3> HIDE DEF entered
    <3>2. ASSUME IsActive(a)
          PROVE  /\ ReleaseIfActive(a) \o entered # <<>>
                 /\ (ReleaseIfActive(a) \o entered)[1] = ReleaseAllInput
      <4>1. ReleaseIfActive(a) = <<ReleaseAllInput>>
        BY <3>2 DEF ReleaseIfActive
      <4>2. /\ (<<ReleaseAllInput>> \o entered)[1] = ReleaseAllInput
            /\ Len(<<ReleaseAllInput>> \o entered) = 1 + Len(entered)
            /\ Len(entered) \in Nat
        BY <3>1
      <4>3. <<ReleaseAllInput>> \o entered # <<>>
        BY <4>2
      <4> QED
        BY <4>1, <4>2, <4>3
    <3> QED
      BY <2>2, <3>2, OneRelease
  <2> QED
    BY <1>1, <2>1, <2>2 DEF FollowFocus, FocusError, AgentSessionFails, agentSessions, focusVars, deliveryVars
<1>2. CASE ReceiveDisconnect(a)
  BY <1>2, OneRelease DEF ReceiveDisconnect
<1>3. ASSUME NEW size \in Sizes, ReconcileDisplay(a, size) PROVE Releases
  BY <1>3, OneRelease DEF ReconcileDisplay
<1>4. ASSUME NEW batch \in AnyBatch, ReceiveBatch(a, batch) PROVE Releases
  BY <1>4, SameEpoch DEF ReceiveBatch, InputError, AgentSessionFails, focusVars
<1>5. ASSUME NEW sequence \in 0 .. MaxSequence, ConfirmApplied(a, sequence) PROVE Releases
  BY <1>5, SameEpoch DEF ConfirmApplied, ConfirmError, AgentSessionFails, focusVars
<1>6. CASE ReceiveUnexpected(a) \/ ReceiveWhenClosed(a) \/ TakeAction(a)
  BY <1>6, SameEpoch DEF ReceiveUnexpected, ReceiveWhenClosed, TakeAction, AgentSessionFails, focusVars
<1> QED
  BY <1>1, <1>2, <1>3, <1>4, <1>5, <1>6

(* Whatever ends an interval of control returns ReleaseAllInput first      *)
(* (change_focus, reconcile_display and close in agent.rs).                *)
THEOREM ControlEndsWithRelease == AgentSessionSpec => LosingControlReleasesInput
<1>1. AgentTypeOK /\ [AgentSessionNext]_agentSessions => [Releases]_agentSessions
  BY AgentNextReleases
<1> QED
  BY <1>1, AgentTypeCorrect, PTL DEF AgentSessionSpec, LosingControlReleasesInput, Releases

=============================================================================
