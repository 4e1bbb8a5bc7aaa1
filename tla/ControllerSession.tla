------------------------- MODULE ControllerSession -------------------------
(***************************************************************************)
(* The controller's session state machine (crates/session/controller.rs).  *)
(*                                                                         *)
(* It owns the topology, decides which node has focus, numbers the focus   *)
(* epochs, and turns captured events into batches: at most one per peer is *)
(* unacknowledged, the events behind it wait in `buffer`.                  *)
(*                                                                         *)
(* A call returns a list of actions that the caller carries out before it  *)
(* makes the next call.  `outbox[p]` is the part of that list sent to peer *)
(* p, in order, and `release` says that it holds ReleaseCapture; `Idle`    *)
(* guards every call, and TakeActions is the caller.  A call that returns  *)
(* an error leaves its name in `error` and is the last one: every caller   *)
(* gives the session up.                                                   *)
(***************************************************************************)
EXTENDS SessionMessages

CONSTANT MaxKeys   \* bound on the key transitions captured

ASSUME ControllerBounds == MaxEpoch \in Nat /\ MaxKeys \in Nat

VARIABLES
  screens,            \* topology: the extent of each placed desktop
  focus,              \* the node that has focus
  focus_epoch,
  position,           \* pointer position on the focused desktop
  buffer,             \* captured events not sent yet
  last_sent,          \* PeerDelivery, per agent (its default when unplaced)
  last_acknowledged,
  pending,            \* sequences sent and not acknowledged
  captured,           \* how many key transitions were taken in so far
  outbox,             \* messages the last call returned, per agent
  release,            \* the last call returned ReleaseCapture
  error               \* the error that ended the session, or "none"

deliveries == <<last_sent, last_acknowledged, pending>>
focusState == <<focus, focus_epoch, position>>
vars == <<screens, focusState, buffer, deliveries, captured, outbox, release, error>>

Topologies ==
  {t \in UNION {[placed -> Sizes] : placed \in SUBSET Nodes} : Local \in DOMAIN t}

PeersOf(topology) == DOMAIN topology \ {Local}
Peers == PeersOf(screens)

Center(size) == size \div 2
Clamp(offset, size) == IF offset < size THEN offset ELSE size - 1

NoMessages == [p \in Agents |-> <<>>]

Idle == outbox = NoMessages /\ ~release /\ error = "none"

Errors ==
  {"none", "UnknownPeer", "CaptureAlreadyActive", "NoAdjacentScreen", "InputWhileLocal",
   "Backpressure", "AcknowledgementBeyondSent"}

Fail(reason) ==
  /\ error' = reason
  /\ UNCHANGED <<screens, focusState, buffer, deliveries, captured, outbox, release>>

Init ==
  /\ screens \in Topologies
  /\ focus = Local
  /\ focus_epoch = 1
  /\ position = Center(screens[Local])
  /\ buffer = <<>>
  /\ last_sent = [p \in Agents |-> 0]
  /\ last_acknowledged = [p \in Agents |-> 0]
  /\ pending = [p \in Agents |-> {}]
  /\ captured = 0
  /\ outbox = NoMessages
  /\ release = FALSE
  /\ error = "none"

-----------------------------------------------------------------------------
(* Batches.  MAX_IN_FLIGHT_BATCHES_PER_PEER is 1: a peer with a pending    *)
(* sequence takes no further batch.                                        *)

(* Mutant: no limit on the batches in flight.                              *)
InFlightUnlimited(p) == FALSE

InFlight(p) == pending[p] # {}

(* Events without a focused peer: flush finds them and fails.              *)
Stranded == buffer # <<>> /\ focus = Local

CanSend == buffer # <<>> /\ focus # Local /\ ~InFlight(focus)

(* What EventBuffer::take leaves.  Mutant: the events sent stay behind.    *)
NotTaken == buffer
Taken == <<>>

(* flush finds events but no focused peer: it drops them and fails.        *)
FailStranded ==
  /\ Stranded
  /\ buffer' = <<>>
  /\ error' = "InputWhileLocal"
  /\ UNCHANGED <<screens, focusState, deliveries, captured, outbox, release>>

(* What flush sends to p when it sends `events`.                           *)
BatchFor(p, events) ==
  IF p = focus THEN <<InputBatch(focus_epoch, last_sent[p] + 1, events)>> ELSE <<>>

CountBatch ==
  /\ last_sent' = [last_sent EXCEPT ![focus] = @ + 1]
  /\ pending' = [pending EXCEPT ![focus] = @ \cup {last_sent[focus] + 1}]

(* Mutant: events behind a batch in flight are thrown away.                *)
FlushDroppingBlocked ==
  /\ Idle
  /\ buffer # <<>> /\ focus # Local
  /\ IF InFlight(focus) THEN UNCHANGED <<deliveries, outbox>>
     ELSE /\ CountBatch
          /\ outbox' = [p \in Agents |-> BatchFor(p, buffer)]
          /\ UNCHANGED last_acknowledged
  /\ buffer' = <<>>
  /\ UNCHANGED <<screens, focusState, captured, release, error>>

Flush ==
  /\ Idle
  /\ \/ FailStranded
     \/ /\ CanSend
        /\ CountBatch
        /\ buffer' = Taken
        /\ outbox' = [p \in Agents |-> BatchFor(p, buffer)]
        /\ UNCHANGED <<screens, focusState, last_acknowledged, captured, release, error>>

-----------------------------------------------------------------------------
(* Focus.  advance_epoch_and_broadcast tells every recipient the new epoch *)
(* and target, after whatever the flush before it sent.                    *)

(* Mutant: the new focus is sent ahead of the input captured before it.    *)
AnnouncementFirst(batch, announcement) == announcement \o batch
BatchFirst(batch, announcement) == batch \o announcement

Announce(recipients, target, entry, events) ==
  /\ focus_epoch < MaxEpoch
  /\ focus_epoch' = focus_epoch + 1
  /\ outbox' = [p \in Agents |-> BatchFirst(
       IF events = <<>> THEN <<>> ELSE BatchFor(p, events),
       IF p \in recipients THEN <<FocusChanged(focus_epoch + 1, target, entry)>> ELSE <<>>)]
  /\ release' = (target = Local)

(* Mutant: focus moves although events for the old focus wait.             *)
NeverWaits == FALSE

(* Events stay behind the batch in flight when flush is called.            *)
MustWait == buffer # <<>> /\ ~CanSend

(* change_focus: flush, and give up when events stay behind.               *)
ChangeFocus(target, entry) ==
  \/ /\ MustWait
     /\ UNCHANGED <<focusState, buffer, deliveries, outbox, release>>
  \/ /\ ~MustWait
     /\ IF CanSend THEN CountBatch ELSE UNCHANGED <<last_sent, pending>>
     /\ buffer' = IF CanSend THEN Taken ELSE buffer
     /\ focus' = target
     /\ position' = Clamp(entry, screens[target])
     /\ Announce(Peers, target, position', IF CanSend THEN buffer ELSE <<>>)
     /\ UNCHANGED last_acknowledged

(* The edge the capture backend reported leads to `target`.  Which         *)
(* desktops touch is the topology's business: any pair may.                *)
Activate(target, entry) ==
  /\ Idle
  /\ focus = Local
  /\ \/ FailStranded
     \/ /\ ~Stranded
        /\ ChangeFocus(target, entry)
        /\ UNCHANGED <<screens, captured, error>>

ActivateRefused ==
  /\ Idle
  /\ Fail(IF focus # Local THEN "CaptureAlreadyActive" ELSE "NoAdjacentScreen")

ReturnToLocal ==
  /\ Idle
  /\ focus # Local
  /\ buffer' = <<>>
  /\ focus' = Local
  /\ position' = Center(screens[Local])
  /\ Announce(Peers, Local, position', <<>>)
  /\ UNCHANGED <<screens, deliveries, captured, error>>

-----------------------------------------------------------------------------
(* route_input.  Motion that leaves the focused desktop moves focus and is *)
(* dropped; every other event is buffered, and a full buffer is flushed.   *)

RouteCrossing(target, entry) ==
  /\ Idle
  /\ focus # Local
  /\ target # focus
  /\ ChangeFocus(target, entry)
  /\ UNCHANGED <<screens, captured, error>>

CanCoalesce(event) ==
  /\ buffer # <<>>
  /\ event.key = Motion
  /\ buffer[Len(buffer)].key = Motion

(* Adjacent motion adds up to one motion event.                            *)
Push(event) == IF CanCoalesce(event) THEN buffer ELSE Append(buffer, event)

RouteEvent(event, to) ==
  /\ Idle
  /\ focus # Local
  /\ LET full == Len(buffer) >= MaxBatch /\ ~CanCoalesce(event)
         pushed == Push(event)
     IN \/ /\ full /\ InFlight(focus)
           /\ error' = "Backpressure"
           /\ UNCHANGED <<buffer, deliveries, outbox, position>>
        \/ /\ full /\ ~InFlight(focus)
           /\ CountBatch
           /\ outbox' = [p \in Agents |-> BatchFor(p, buffer)]
           /\ buffer' = <<event>>
           /\ position' = to
           /\ UNCHANGED <<last_acknowledged, error>>
        \/ /\ ~full /\ Len(pushed) >= MaxBatch /\ ~InFlight(focus)
           /\ CountBatch
           /\ outbox' = [p \in Agents |-> BatchFor(p, pushed)]
           /\ buffer' = <<>>
           /\ position' = to
           /\ UNCHANGED <<last_acknowledged, error>>
        \/ /\ ~full /\ (Len(pushed) < MaxBatch \/ InFlight(focus))
           /\ buffer' = pushed
           /\ position' = to
           /\ UNCHANGED <<deliveries, outbox, error>>
  /\ UNCHANGED <<screens, focus, focus_epoch, release>>

RouteKey ==
  /\ captured < MaxKeys
  /\ RouteEvent(KeyEvent(captured + 1, focus_epoch), position)
  /\ captured' = IF error' = error THEN captured + 1 ELSE captured

RouteMotion(to) ==
  /\ to < screens[focus]
  /\ RouteEvent(MotionEvent(focus_epoch), to)
  /\ UNCHANGED captured

RouteWhileLocal == Idle /\ focus = Local /\ Fail("InputWhileLocal")

-----------------------------------------------------------------------------
(* Delivery bookkeeping.                                                   *)

(* Mutant: the batch acknowledged stays pending.                           *)
NotBefore(p, through) == {s \in pending[p] : s >= through}
Unacknowledged(p, through) == {s \in pending[p] : s > through}

Acknowledge(p, through) ==
  /\ Idle
  /\ \/ p \notin Peers /\ Fail("UnknownPeer")
     \/ /\ p \in Peers /\ through > last_sent[p]
        /\ Fail("AcknowledgementBeyondSent")
     \/ /\ p \in Peers /\ through <= last_acknowledged[p]
        /\ UNCHANGED vars
     \/ /\ p \in Peers /\ through \in (last_acknowledged[p] + 1) .. last_sent[p]
        /\ last_acknowledged' = [last_acknowledged EXCEPT ![p] = through]
        /\ pending' = [pending EXCEPT ![p] = Unacknowledged(p, through)]
        /\ UNCHANGED <<screens, focusState, buffer, last_sent, captured,
                       outbox, release, error>>

ResetPeer(p) ==
  /\ Idle
  /\ \/ p \notin Peers /\ Fail("UnknownPeer")
     \/ /\ p \in Peers
        /\ last_sent' = [last_sent EXCEPT ![p] = 0]
        /\ last_acknowledged' = [last_acknowledged EXCEPT ![p] = 0]
        /\ pending' = [pending EXCEPT ![p] = {}]
        /\ UNCHANGED <<screens, focusState, buffer, captured, outbox, release, error>>

(* Deliveries of the peers `next` keeps, after a flush that sent when      *)
(* CanSend; the others go back to the default.                             *)
RetainDeliveries(next) ==
  LET sent(p) == CanSend /\ p = focus
      kept == PeersOf(next)
  IN /\ last_sent' = [p \in Agents |->
          IF p \notin kept THEN 0
          ELSE IF sent(p) THEN last_sent[p] + 1 ELSE last_sent[p]]
     /\ last_acknowledged' = [p \in Agents |->
          IF p \in kept THEN last_acknowledged[p] ELSE 0]
     /\ pending' = [p \in Agents |->
          IF p \notin kept THEN {}
          ELSE IF sent(p) THEN pending[p] \cup {last_sent[p] + 1} ELSE pending[p]]

(* Mutants: the focus outlives its desktop; the pointer is not moved onto  *)
(* the shrunken desktop; an unplaced peer is not told.                     *)
FocusKept(next) == focus
PointerKept(next) == position
NewRecipients(next) == PeersOf(next)

FocusIn(next) == IF focus \in DOMAIN next THEN focus ELSE Local
PointerIn(next) ==
  IF focus \in DOMAIN next THEN Clamp(position, next[focus]) ELSE Center(next[Local])
Recipients(next) == Peers \cup PeersOf(next)

(* Events behind a batch in flight stay in the buffer, whatever becomes of *)
(* the focus they were captured for.                                       *)
ReconcileTopology(next) ==
  /\ Idle
  /\ \/ FailStranded
     \/ /\ ~Stranded
        /\ screens' = next
        /\ focus' = FocusIn(next)
        /\ position' = PointerIn(next)
        /\ buffer' = IF CanSend THEN Taken ELSE buffer
        /\ RetainDeliveries(next)
        /\ Announce(Recipients(next), focus', position',
                    IF CanSend THEN buffer ELSE <<>>)
        /\ UNCHANGED <<captured, error>>

(* The caller has carried out the actions of the last call.                *)
TakeActions ==
  /\ outbox # NoMessages \/ release
  /\ outbox' = NoMessages
  /\ release' = FALSE
  /\ UNCHANGED <<screens, focusState, buffer, deliveries, captured, error>>

-----------------------------------------------------------------------------
(* What the runtime may ask of a session whose topology stays as it is;    *)
(* the acknowledgements explored are bounded.                              *)
CallsUpTo(sequence) ==
  \/ Flush
  \/ ReturnToLocal
  \/ ActivateRefused
  \/ RouteKey
  \/ RouteWhileLocal
  \/ \E to \in 0 .. screens[focus] - 1 : RouteMotion(to)
  \/ \E target \in Peers : \E entry \in 0 .. screens[target] - 1 : Activate(target, entry)
  \/ \E target \in DOMAIN screens : \E entry \in 0 .. screens[target] - 1 :
       RouteCrossing(target, entry)
  \/ \E p \in Agents :
       ResetPeer(p) \/ (\E through \in 0 .. sequence : Acknowledge(p, through))
  \/ TakeActions

Calls == CallsUpTo(MaxEpoch + MaxKeys)

Next == Calls \/ \E next \in Topologies : ReconcileTopology(next)

Spec == Init /\ [][Next]_vars

(* A run in which neither a desktop nor the configuration changes.         *)
FixedTopologySpec == Init /\ [][Calls]_vars

-----------------------------------------------------------------------------
(* Properties.                                                             *)

Entries(messages) == {messages[i] : i \in 1 .. Len(messages)}

(* Every variable keeps its type, and the focused node is on the topology. *)
TypeOK ==
  /\ screens \in Topologies
  /\ focus \in DOMAIN screens
  /\ focus_epoch \in Nat
  /\ position \in Positions
  /\ buffer \in Seq(InputEvents)
  /\ last_sent \in [Agents -> Nat]
  /\ last_acknowledged \in [Agents -> Nat]
  /\ pending \in [Agents -> SUBSET Nat]
  /\ captured \in Nat
  /\ outbox \in [Agents -> Seq(InputMessages \cup FocusMessages)]
  /\ release \in BOOLEAN
  /\ error \in Errors

(* At most one batch per peer is unacknowledged, it is the last one sent,  *)
(* and nothing is acknowledged that was not sent, whatever acknowledgements*)
(* arrive and however often the peer is reset or unplaced.                 *)
DeliveryWindow ==
  \A p \in Agents :
    \/ last_sent[p] = last_acknowledged[p] /\ pending[p] = {}
    \/ last_sent[p] = last_acknowledged[p] + 1 /\ pending[p] = {last_sent[p]}

(* The pointer stays on the focused desktop through motion, crossings and  *)
(* desktops that shrink or disappear.                                      *)
PointerOnFocusedDesktop == position < screens[focus]

(* A batch carries only events captured in its own focus epoch, and the    *)
(* events that wait belong to the current one ("Events from an old epoch   *)
(* must never be injected after focus changes").                           *)
EventsKeepTheirEpoch ==
  /\ \A i \in 1 .. Len(buffer) : buffer[i].epoch = focus_epoch
  /\ \A p \in Agents : \A message \in Entries(outbox[p]) :
       message.type = "Input" =>
         \A i \in 1 .. Len(message.events) : message.events[i].epoch = message.epoch

(* Focus never moves without a new epoch, epochs advance one by one, and   *)
(* every peer placed before or after is told last of all where focus is.   *)
FocusChangeIsAnnounced ==
  [][/\ focus' # focus => focus_epoch' # focus_epoch
     /\ focus_epoch' # focus_epoch =>
          /\ focus_epoch' = focus_epoch + 1
          /\ \A p \in Peers \cup PeersOf(screens') :
               /\ outbox'[p] # <<>>
               /\ outbox'[p][Len(outbox'[p])] =
                    FocusChanged(focus_epoch', focus', position')]_vars

(* "Key and button transitions are never dropped": a waiting key leaves    *)
(* the buffer only in a batch to the focused peer, or when the focused     *)
(* peer loses control to the controller.                                   *)
KeysAreNeverDropped ==
  [][\A i \in 1 .. Len(buffer) :
       \/ buffer[i].key = Motion
       \/ buffer[i] \in Entries(buffer')
       \/ focus # Local /\ focus' = Local
       \/ /\ focus # Local
          /\ outbox'[focus] # <<>>
          /\ outbox'[focus][1].type = "Input"
          /\ buffer[i] \in Entries(outbox'[focus][1].events)]_vars

=============================================================================
