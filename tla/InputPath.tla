----------------------------- MODULE InputPath -----------------------------
(***************************************************************************)
(* The path of an input event from the controller's capture backend to the *)
(* agent's injection backend: the controller runtime around its            *)
(* ControllerSession, one agent runtime around an AgentSession per agent,  *)
(* the connections between them and the injection services                 *)
(* (crates/tevir/runtime.rs, crates/platform/service.rs).  `error` is the  *)
(* controller session's, or one of the runtime that gives the session up.  *)
(*                                                                         *)
(* Connections are numbered in the order they are opened; the number is    *)
(* the session id on both sides and the injection generation on the agent. *)
(* What a connection carries one way, with the queues on either end of it, *)
(* is one FIFO sequence: down[s] to the agent, up[s] to the controller's   *)
(* network queue.  Losing a connection keeps a prefix of each.             *)
(*                                                                         *)
(* Every node is placed on the topology throughout, and the keys captured  *)
(* are presses: a key stays held until something releases it.              *)
(***************************************************************************)
EXTENDS ControllerSession, AgentSession, SequencesExt

CONSTANTS
  MaxSessions,                     \* bound on the connections opened
  MaxDisplayChanges,               \* bound on native display changes,
  MaxDisplaySessions               \* made while at most so many connections were opened

(* A session starts in epoch 1.                                            *)
ASSUME InputPathBounds ==
  /\ MaxEpoch >= 1
  /\ MaxSessions \in Nat /\ MaxDisplayChanges \in Nat /\ MaxDisplaySessions \in Nat

VARIABLES
  (* the controller's runtime *)
  peers,                \* the connection in use, per agent, or NoSession
  draining,             \* the input tick is draining captured events
  (* the agents' runtimes *)
  connection,           \* the agent's end of a connection, or NoSession
  application_pending,
  reporting,            \* a changed display has yet to be sent
  (* the injection services *)
  commands, native_events, active_generation, held, display_changes,
  (* connections *)
  opened,               \* connections 1 .. opened exist
  owner,                \* the agent that opened it
  alive, worker, down, up,
  (* history *)
  injected,             \* events injected, per agent
  applied,              \* last batch applied, per connection
  focused_in            \* the node focused in each epoch

runtimeVars == <<peers, draining>>
controllerVars == <<vars, runtimeVars>>
nativeVars == <<commands, native_events, active_generation, held, display_changes>>
agentVars == <<agentSessions, connection, application_pending, reporting>>
connectionVars == <<opened, owner, alive, worker, down, up>>
historyVars == <<injected, applied, focused_in>>
pathVars == <<controllerVars, agentVars, nativeVars, connectionVars, historyVars>>

NoSession == 0
Sessions == 1 .. MaxSessions

Disconnected == [type |-> "Disconnected"]
BeginSession(generation) == [type |-> "BeginSession", generation |-> generation]
ApplyBatch(generation, batch) ==
  [type |-> "ApplyBatch", generation |-> generation, batch |-> batch]
ReleaseAll(generation) == [type |-> "ReleaseAll", generation |-> generation]
Applied(generation, sequence) ==
  [type |-> "Applied", generation |-> generation, sequence |-> sequence]
DesktopChanged(size) == [type |-> "DesktopChanged", size |-> size]

Put(queue, key, message) == [queue EXCEPT ![key] = Append(@, message)]
Pop(queue, key) == [queue EXCEPT ![key] = Tail(@)]
IsNextIn(queue, key, type) == queue[key] # <<>> /\ Head(queue[key]).type = type

PathInit ==
  /\ Init /\ DOMAIN screens = Nodes
  /\ AgentSessionInit
  /\ peers = [a \in Agents |-> NoSession]
  /\ draining = FALSE
  /\ connection = [a \in Agents |-> NoSession]
  /\ application_pending = [a \in Agents |-> FALSE]
  /\ reporting = [a \in Agents |-> FALSE]
  /\ commands = [a \in Agents |-> <<>>]
  /\ native_events = [a \in Agents |-> <<>>]
  /\ active_generation = [a \in Agents |-> NoSession]
  /\ held = [a \in Agents |-> {}]
  /\ display_changes = 0
  /\ opened = 0
  /\ owner = [s \in Sessions |-> Local]
  /\ alive = [s \in Sessions |-> FALSE]
  /\ worker = [s \in Sessions |-> "none"]
  /\ down = [s \in Sessions |-> <<>>]
  /\ up = [s \in Sessions |-> <<>>]
  /\ injected = [a \in Agents |-> <<>>]
  /\ applied = [s \in Sessions |-> 0]
  /\ focused_in = [e \in 0 .. MaxEpoch |-> Local]

(* Every agent is connected, its display is the one the topology has, and  *)
(* it has been told that the controller has focus.                         *)
EstablishedInit ==
  /\ Init /\ DOMAIN screens = Nodes
  /\ display_size = [a \in Agents |-> screens[a]]
  /\ highest_focus_epoch = [a \in Agents |-> 1]
  /\ active_focus_epoch = [a \in Agents |-> None]
  /\ last_focus = [a \in Agents |-> [epoch |-> 1, target |-> Local, entry |-> position]]
  /\ last_applied_sequence = [a \in Agents |-> 0]
  /\ pending_batch = [a \in Agents |-> NoBatch]
  /\ closed = [a \in Agents |-> FALSE]
  /\ actions = [a \in Agents |-> <<>>]
  /\ agent_error = [a \in Agents |-> "none"]
  /\ opened = MaxSessions
  /\ owner \in {f \in [Sessions -> Agents] : \A a \in Agents : \E s \in Sessions : f[s] = a}
  /\ peers = [a \in Agents |-> CHOOSE s \in Sessions : owner[s] = a]
  /\ connection = peers
  /\ active_generation = peers
  /\ draining = FALSE
  /\ application_pending = [a \in Agents |-> FALSE]
  /\ reporting = [a \in Agents |-> FALSE]
  /\ commands = [a \in Agents |-> <<>>]
  /\ native_events = [a \in Agents |-> <<>>]
  /\ held = [a \in Agents |-> {}]
  /\ display_changes = 0
  /\ alive = [s \in Sessions |-> TRUE]
  /\ worker = [s \in Sessions |-> "running"]
  /\ down = [s \in Sessions |-> <<>>]
  /\ up = [s \in Sessions |-> <<>>]
  /\ injected = [a \in Agents |-> <<>>]
  /\ applied = [s \in Sessions |-> 0]
  /\ focused_in = [e \in 0 .. MaxEpoch |-> Local]

(* Who has focus in each epoch, for the steps that may start one.          *)
RecordFocus ==
  focused_in' = IF focus_epoch' # focus_epoch
                THEN [focused_in EXCEPT ![focus_epoch'] = focus'] ELSE focused_in

-----------------------------------------------------------------------------
(* The controller's runtime carries out the actions of a session call.  A  *)
(* message for a peer that is not connected is dropped; one for a peer     *)
(* whose connection worker has ended, but whose end was not handled yet,   *)
(* ends the runtime.                                                       *)

OutboundClosed(p) == peers[p] # NoSession /\ worker[peers[p]] = "ended"

ApplyControllerActions ==
  /\ ~Idle /\ error = "none"
  /\ IF \E p \in Agents : outbox[p] # <<>> /\ OutboundClosed(p)
     THEN Fail("OutboundQueue") /\ UNCHANGED down
     ELSE /\ TakeActions
          /\ down' = [s \in Sessions |->
               IF alive[s] /\ peers[owner[s]] = s THEN down[s] \o outbox[owner[s]] ELSE down[s]]
  /\ UNCHANGED <<runtimeVars, agentVars, nativeVars, opened, owner, alive, worker, up, historyVars>>

(* The input tick: captured events in a row, then a flush.                 *)

Activated(target, entry) ==
  /\ peers[target] # NoSession
  /\ Activate(target, entry)

(* Motion that moves the pointer; MaxSequence bounds the batches of it.    *)
Moved(to) ==
  /\ to # position
  /\ focus # Local => last_sent[focus] < MaxSequence
  /\ RouteMotion(to)

Captured ==
  /\ \/ \E target \in Agents : \E entry \in 0 .. screens[target] - 1 : Activated(target, entry)
     \/ RouteKey
     \/ \E to \in 0 .. screens[focus] - 1 : Moved(to)
     \/ \E target \in Nodes : \E entry \in 0 .. screens[target] - 1 :
          RouteCrossing(target, entry)
  /\ draining' = TRUE
  /\ RecordFocus
  /\ UNCHANGED <<peers, agentVars, nativeVars, connectionVars, injected, applied>>

EndTick ==
  /\ Idle
  /\ \/ Flush
     \/ draining /\ ~Stranded /\ ~CanSend /\ UNCHANGED vars
  /\ draining' = FALSE
  /\ UNCHANGED <<peers, agentVars, nativeVars, connectionVars, historyVars>>

(* The emergency shortcut among the captured events, or the command.       *)
ReturnLocal ==
  /\ ReturnToLocal
  /\ RecordFocus
  /\ UNCHANGED <<runtimeVars, agentVars, nativeVars, connectionVars, injected, applied>>

-----------------------------------------------------------------------------
(* Between ticks the controller takes connections and network events.      *)

Selecting == Idle /\ ~draining

(* Mutant: a connection that is still in use is not replaced.              *)
KeepConnection(s) == IF peers[owner[s]] = NoSession THEN s ELSE peers[owner[s]]
ReplaceConnection(s) == s

AcceptControllerPeer(s) ==
  /\ Selecting
  /\ s <= opened /\ worker[s] = "none"
  /\ \A t \in s + 1 .. opened : owner[t] = owner[s] => worker[t] = "none"
  /\ ResetPeer(owner[s])
  /\ peers' = [peers EXCEPT ![owner[s]] = ReplaceConnection(s)]
  /\ worker' = [worker EXCEPT ![s] = "running"]
  /\ UNCHANGED <<draining, agentVars, nativeVars, opened, owner, alive, down, up, historyVars>>

(* Mutant: messages of a replaced connection are taken for the peer's.     *)
AnySession(s) == peers[owner[s]] # NoSession

ActiveSession(s) == peers[owner[s]] = s

(* The next event of connection s, from the session in use.                *)
TakeNetworkEvent(s, type) ==
  /\ Selecting
  /\ worker[s] # "none"
  /\ IsNextIn(up, s, type)
  /\ ActiveSession(s)
  /\ up' = Pop(up, s)

IgnoreNetworkEvent(s) ==
  /\ Selecting
  /\ worker[s] # "none"
  /\ up[s] # <<>> /\ ~ActiveSession(s)
  /\ up' = Pop(up, s)
  /\ UNCHANGED <<controllerVars, agentVars, nativeVars, opened, owner, alive, worker, down, historyVars>>

(* A display of a new size is a new topology; the same again is answered   *)
(* with where focus is.                                                    *)
DisplayReported(s) ==
  LET p == owner[s]
      size == Head(up[s]).size
  IN /\ TakeNetworkEvent(s, "DisplayChanged")
     /\ \/ /\ size # screens[p]
           /\ ReconcileTopology([screens EXCEPT ![p] = size])
           /\ UNCHANGED down
        \/ /\ size = screens[p] /\ OutboundClosed(p)
           /\ Fail("OutboundQueue")
           /\ UNCHANGED down
        \/ /\ size = screens[p] /\ ~OutboundClosed(p)
           /\ down' = IF alive[s] THEN Put(down, s, FocusChanged(focus_epoch, focus, position))
                      ELSE down
           /\ UNCHANGED vars
     /\ RecordFocus
     /\ UNCHANGED <<runtimeVars, agentVars, nativeVars, opened, owner, alive, worker, injected, applied>>

Acknowledged(s) ==
  /\ TakeNetworkEvent(s, "InputAcknowledged")
  /\ Acknowledge(owner[s], Head(up[s]).through)
  /\ UNCHANGED <<runtimeVars, agentVars, nativeVars, opened, owner, alive, worker, down, historyVars>>

DisconnectControllerPeer(s) ==
  /\ TakeNetworkEvent(s, "Disconnected")
  /\ peers' = [peers EXCEPT ![owner[s]] = NoSession]
  /\ IF focus = owner[s] THEN ReturnToLocal ELSE UNCHANGED vars
  /\ RecordFocus
  /\ UNCHANGED <<draining, agentVars, nativeVars, opened, owner, alive, worker, down, injected, applied>>

-----------------------------------------------------------------------------
(* Connections.                                                            *)

Lose(s) ==
  /\ alive[s]
  /\ alive' = [alive EXCEPT ![s] = FALSE]
  /\ \E kept \in Prefixes(down[s]) : down' = [down EXCEPT ![s] = Append(kept, Disconnected)]
  /\ \E kept \in Prefixes(up[s]) : up' = [up EXCEPT ![s] = kept]
  /\ UNCHANGED <<controllerVars, agentVars, nativeVars, opened, owner, worker, historyVars>>

Lost(s) == ~alive[s]

(* The controller's worker for s finds it lost.                            *)
ConnectionWorkerEnds(s) ==
  /\ worker[s] = "running" /\ Lost(s)
  /\ worker' = [worker EXCEPT ![s] = "ended"]
  /\ up' = Put(up, s, Disconnected)
  /\ UNCHANGED <<controllerVars, agentVars, nativeVars, opened, owner, alive, down, historyVars>>

-----------------------------------------------------------------------------
(* The agent's runtime.                                                    *)

Running(a) == AgentIdle(a) /\ connection[a] # NoSession /\ ~reporting[a]

(* The size the display had when the events before the connection are      *)
(* drained.                                                                *)
Drained(a, size) ==
  LET changed(i) == native_events[a][i].type = "DesktopChanged"
      events == 1 .. Len(native_events[a])
  IN \/ size = display_size[a] /\ ~\E i \in events : changed(i)
     \/ \E i \in events :
          /\ native_events[a][i] = DesktopChanged(size)
          /\ \A j \in events : j > i => ~changed(j)

(* run_agent connects, run_agent_connection starts a fresh session on it.  *)
Connect(a) ==
  LET s == opened + 1
  IN /\ agent_error[a] = "none" /\ connection[a] = NoSession
     /\ opened < MaxSessions
     /\ \E size \in Sizes :
          /\ Drained(a, size)
          /\ Start(a, size)
          /\ up' = Put(up, s, DisplayChanged(size))
     /\ connection' = [connection EXCEPT ![a] = s]
     /\ application_pending' = [application_pending EXCEPT ![a] = FALSE]
     /\ opened' = s
     /\ owner' = [owner EXCEPT ![s] = a]
     /\ alive' = [alive EXCEPT ![s] = TRUE]
     /\ native_events' = [native_events EXCEPT ![a] = <<>>]
     /\ commands' = Put(commands, a, BeginSession(s))
     /\ UNCHANGED <<controllerVars, reporting, active_generation, held, display_changes,
                    worker, down, historyVars>>

(* The next message of the controller, while no batch is being applied.    *)
TakeMessage(a, type) ==
  LET s == connection[a]
  IN /\ Running(a)
     /\ ~application_pending[a]
     /\ IsNextIn(down, s, type)
     /\ down' = Pop(down, s)

ReceiveFocus(a) ==
  LET message == Head(down[connection[a]])
  IN /\ TakeMessage(a, "FocusChanged")
     /\ FollowFocus(a, [epoch |-> message.epoch, target |-> message.target,
                           entry |-> message.entry])
     /\ UNCHANGED <<controllerVars, connection, application_pending, reporting, nativeVars,
                    opened, owner, alive, worker, up, historyVars>>

ReceiveInput(a) ==
  LET message == Head(down[connection[a]])
  IN /\ TakeMessage(a, "Input")
     /\ ReceiveBatch(a, [epoch |-> message.epoch, sequence |-> message.sequence,
                           events |-> message.events])
     /\ application_pending' = [application_pending EXCEPT ![a] =
          \E i \in 1 .. Len(actions'[a]) : actions'[a][i].type = "ApplyInput"]
     /\ UNCHANGED <<controllerVars, connection, reporting, nativeVars,
                    opened, owner, alive, worker, up, historyVars>>

ReceiveDisconnected(a) ==
  /\ TakeMessage(a, "Disconnected")
  /\ commands' = Put(commands, a, ReleaseAll(connection[a]))
  /\ connection' = [connection EXCEPT ![a] = NoSession]
  /\ UNCHANGED <<controllerVars, agentSessions, application_pending, reporting, native_events,
                 active_generation, held, display_changes,
                 opened, owner, alive, worker, up, historyVars>>

(* Sending on a lost connection fails, or is lost, and a failure ends the  *)
(* runtime without further ado.                                            *)
SendFails(a) ==
  /\ ~alive[connection[a]]
  /\ AgentSessionFails(a, "Transport")
  /\ UNCHANGED <<commands, up>>

Sent(a, message) ==
  up' = IF alive[connection[a]] THEN Put(up, connection[a], message) ELSE up

ApplyAgentAction(a) ==
  LET action == Head(actions[a])
  IN /\ agent_error[a] = "none" /\ actions[a] # <<>>
     /\ \/ action.type = "Send" /\ SendFails(a)
        \/ /\ TakeAction(a)
           /\ up' = up
           /\ commands' =
                CASE action.type = "ApplyInput" ->
                       Put(commands, a, ApplyBatch(connection[a], action.batch))
                  [] action.type = "ReleaseAllInput" ->
                       Put(commands, a, ReleaseAll(connection[a]))
                  [] OTHER -> commands
           /\ action.type # "Send"
        \/ /\ action.type = "Send"
           /\ TakeAction(a)
           /\ Sent(a, InputAcknowledged(action.through))
           /\ UNCHANGED commands
     /\ UNCHANGED <<controllerVars, connection, application_pending, reporting,
                    native_events, active_generation, held, display_changes,
                    opened, owner, alive, worker, down, historyVars>>

ReceiveApplied(a) ==
  /\ Running(a)
  /\ IsNextIn(native_events, a, "Applied")
  /\ native_events' = Pop(native_events, a)
  /\ IF Head(native_events[a]).generation = connection[a]
     THEN /\ application_pending' = [application_pending EXCEPT ![a] = FALSE]
          /\ ConfirmApplied(a, Head(native_events[a]).sequence)
     ELSE UNCHANGED <<application_pending, agentSessions>>
  /\ UNCHANGED <<controllerVars, connection, reporting, commands, active_generation, held,
                 display_changes, connectionVars, historyVars>>

ReceiveDesktopChanged(a) ==
  /\ Running(a)
  /\ IsNextIn(native_events, a, "DesktopChanged")
  /\ native_events' = Pop(native_events, a)
  /\ application_pending' = [application_pending EXCEPT ![a] = FALSE]
  /\ ReconcileDisplay(a, Head(native_events[a]).size)
  /\ reporting' = [reporting EXCEPT ![a] = TRUE]
  /\ UNCHANGED <<controllerVars, connection, commands, active_generation, held,
                 display_changes, connectionVars, historyVars>>

(* Once the actions of the change are carried out, the display is sent.    *)
ReportDisplay(a) ==
  /\ reporting[a] /\ AgentIdle(a)
  /\ reporting' = [reporting EXCEPT ![a] = FALSE]
  /\ \/ SendFails(a)
     \/ /\ Sent(a, DisplayChanged(display_size[a]))
        /\ UNCHANGED <<commands, agentSessions>>
  /\ UNCHANGED <<controllerVars, connection, application_pending, native_events,
                 active_generation, held, display_changes,
                 opened, owner, alive, worker, down, historyVars>>

-----------------------------------------------------------------------------
(* The injection service takes its commands in order.                      *)

KeysIn(events) == {event \in Entries(events) : event.key # Motion}

InjectBatch(a, generation, batch) ==
  /\ injected' = [injected EXCEPT ![a] = @ \o batch.events]
  /\ held' = [held EXCEPT ![a] = @ \cup
       {[key |-> event.key, epoch |-> batch.epoch] : event \in KeysIn(batch.events)}]
  /\ applied' = [applied EXCEPT ![generation] = batch.sequence]
  /\ native_events' = Put(native_events, a, Applied(generation, batch.sequence))

(* Mutant: a new session does not release what the one before it held.     *)
KeepHeld(a) == held' = held

ReleaseHeld(a) == held' = [held EXCEPT ![a] = {}]

BeginInjection(a, generation) ==
  /\ ReleaseHeld(a)
  /\ active_generation' = [active_generation EXCEPT ![a] = generation]

Inject(a) ==
  LET command == Head(commands[a])
      current == command.generation = active_generation[a]
  IN /\ commands[a] # <<>>
     /\ commands' = Pop(commands, a)
     /\ \/ /\ command.type = "BeginSession"
           /\ BeginInjection(a, command.generation)
           /\ UNCHANGED <<native_events, historyVars>>
        \/ /\ command.type = "ApplyBatch" /\ current
           /\ InjectBatch(a, command.generation, command.batch)
           /\ UNCHANGED <<active_generation, focused_in>>
        \/ /\ command.type = "ReleaseAll" /\ current
           /\ ReleaseHeld(a)
           /\ UNCHANGED <<native_events, active_generation, historyVars>>
        \/ /\ command.type # "BeginSession" /\ ~current
           /\ UNCHANGED <<native_events, active_generation, held, historyVars>>
     /\ UNCHANGED <<controllerVars, agentVars, display_changes, connectionVars>>

(* The display changes its extent, or only its origin.                     *)
DisplayTick(a) ==
  /\ display_changes < MaxDisplayChanges /\ opened <= MaxDisplaySessions
  /\ display_changes' = display_changes + 1
  /\ \E size \in Sizes : native_events' = Put(native_events, a, DesktopChanged(size))
  /\ UNCHANGED <<controllerVars, agentVars, commands, active_generation, held,
                 connectionVars, historyVars>>

-----------------------------------------------------------------------------
(* Specifications.                                                         *)

ControllerNext ==
  \/ ApplyControllerActions
  \/ Captured
  \/ EndTick
  \/ ReturnLocal
  \/ \E s \in Sessions :
       \/ AcceptControllerPeer(s)
       \/ IgnoreNetworkEvent(s)
       \/ DisplayReported(s)
       \/ Acknowledged(s)
       \/ DisconnectControllerPeer(s)

AgentNext(a) ==
  \/ ReceiveFocus(a)
  \/ ReceiveInput(a)
  \/ ReceiveDisconnected(a)
  \/ ApplyAgentAction(a)
  \/ ReceiveApplied(a)
  \/ ReceiveDesktopChanged(a)
  \/ ReportDisplay(a)
  \/ Inject(a)

SteadyNext ==
  \/ ControllerNext
  \/ \E a \in Agents : AgentNext(a)

PathNext ==
  \/ SteadyNext
  \/ \E a \in Agents : Connect(a) \/ DisplayTick(a)
  \/ \E s \in Sessions : Lose(s) \/ ConnectionWorkerEnds(s)

PathSpec == PathInit /\ [][PathNext]_pathVars

(* Connections and displays hold.  A captured event, a tick and a network  *)
(* event compete for the controller's loop, which takes any that is ready: *)
(* strong fairness.  Everything else runs in a task of its own.            *)
SteadySpec == EstablishedInit /\ [][SteadyNext]_pathVars

Progress ==
  /\ WF_pathVars(ApplyControllerActions)
  /\ SF_pathVars(EndTick)
  /\ \A s \in Sessions : SF_pathVars(Acknowledged(s))
  /\ \A a \in Agents :
       WF_pathVars(ReceiveFocus(a) \/ ReceiveInput(a) \/ ApplyAgentAction(a) \/ ReceiveApplied(a))
  /\ \A a \in Agents : WF_pathVars(Inject(a))

FairSteadySpec == SteadySpec /\ Progress

(* Connections may be lost, but what is left of an agent goes on.          *)
FairSpec ==
  /\ PathSpec
  /\ \A a \in Agents :
       WF_pathVars(ReceiveFocus(a) \/ ReceiveInput(a) \/ ReceiveDisconnected(a)
               \/ ApplyAgentAction(a) \/ ReceiveApplied(a))
  /\ \A a \in Agents : WF_pathVars(Inject(a))

(* Connections hold, displays change.                                      *)
DisplayNext == SteadyNext \/ \E a \in Agents : DisplayTick(a)

DisplaySpec == EstablishedInit /\ [][DisplayNext]_pathVars

FairDisplaySpec ==
  /\ DisplaySpec
  /\ Progress
  /\ \A s \in Sessions : SF_pathVars(DisplayReported(s))
  /\ \A a \in Agents :
       WF_pathVars(ReceiveDesktopChanged(a) \/ ReportDisplay(a))

-----------------------------------------------------------------------------
(* Properties.                                                             *)

(* An agent's new connection takes the place of the one before it, even    *)
(* when that one's end is noticed only later, and late news of the old one *)
(* does not bring it back.                                                 *)
NewestConnectionInUse ==
  \A s, t \in Sessions :
    owner[s] = owner[t] /\ s < t /\ worker[t] # "none" =>
      \A a \in Agents : peers[a] # s

(* Whatever connections are lost and reopened, an agent injects each key   *)
(* at most once and never after a later one: a sequence number that starts *)
(* over and a batch the last connection left behind do not repeat it.      *)
InjectedOnceInOrder ==
  \A a \in Agents : \A i, j \in 1 .. Len(injected[a]) :
    i < j /\ injected[a][i].key # Motion /\ injected[a][j].key # Motion =>
      injected[a][i].key < injected[a][j].key

(* A key is injected only on the node that had focus when it was captured. *)
InjectedWhereFocused ==
  \A a \in Agents : \A i \in 1 .. Len(injected[a]) :
    focused_in[injected[a][i].epoch] = a

(* Keys held on an agent all come from one epoch: "Focus changes, display  *)
(* changes, and broken connections release held state before another epoch *)
(* can inject input".                                                      *)
HeldFromOneEpoch ==
  \A a \in Agents : \A k1, k2 \in held[a] : k1.epoch = k2.epoch

(* "An agent acknowledges the highest contiguous sequence only after       *)
(* native application is confirmed": what the controller takes for         *)
(* acknowledged on a connection was injected on that connection.           *)
AcknowledgedAfterApplication ==
  \A p \in Agents : peers[p] # NoSession => last_acknowledged[p] <= applied[peers[p]]

(* An agent takes itself to be controlled only in an epoch that gave it    *)
(* focus, so no two agents are controlled in the same epoch.               *)
ControlledOnlyWhenFocused ==
  \A a \in Agents : active_focus_epoch[a] # None =>
    focused_in[active_focus_epoch[a]] = a

(* Neither session ever rejects what the other sends it.                   *)
SessionsAgree ==
  /\ error \in {"none", "Backpressure"}
  /\ \A a \in Agents : agent_error[a] = "none"

(* The numbers of the keys among some events, and of those that the        *)
(* messages, actions or commands of a queue carry.                         *)
Keys(events) ==
  FlattenSeq([i \in 1 .. Len(events) |->
    IF events[i].key = Motion THEN <<>> ELSE <<events[i].key>>])

EventsOf(message) ==
  CASE message.type = "Input" -> message.events
    [] message.type \in {"ApplyBatch", "ApplyInput"} -> message.batch.events
    [] OTHER -> <<>>

KeysOf(messages) == FlattenSeq([i \in 1 .. Len(messages) |-> Keys(EventsOf(messages[i]))])

(* The keys captured for n that it has not injected, oldest first: in its  *)
(* injection service, its session, on the way, and in the controller.      *)
Owed(n) ==
  KeysOf(commands[n] \o actions[n] \o down[peers[n]] \o outbox[n])
  \o (IF focus = n THEN Keys(buffer) ELSE <<>>)

(* The steady input path implements the abstract delivery.                 *)
Delivery == INSTANCE InputDelivery WITH
  Receivers <- Agents,
  Controller <- Local,
  focused <- focus,
  owed <- [n \in Agents |-> Owed(n)],
  injected <- [n \in Agents |-> Keys(injected[n])]

DeliversInput == Delivery!Spec

(* Every captured key is injected in the end, or given up for a return to  *)
(* local control: no acknowledgement is waited for in vain, unless a full  *)
(* buffer ends the session.                                                *)
KeysAreSettled ==
  \A n \in Agents : \A key \in 1 .. MaxKeys :
    (key \in Entries(Owed(n))) ~> (key \notin Entries(Owed(n)) \/ error = "Backpressure")

(* "Native display changes invalidate active focus, release held input,    *)
(* and produce another report. The controller [...] sends the resulting    *)
(* focus state to the agent": an agent that reports its display and still  *)
(* has focus is controlled again.                                          *)
FocusFollowsReport ==
  \A a \in Agents : reporting[a] ~> (focus # a \/ active_focus_epoch[a] = focus_epoch)

(* "Native display changes invalidate active focus": a display change      *)
(* while a batch is being applied gives the batch up, and the native       *)
(* service's confirmation of it, which is on its way, is no error.         *)
ConfirmationsAreExpected ==
  \A a \in Agents : agent_error[a] # "NoInputApplicationPending"

(* "Guarantee that focus loss, disconnect, and backend failure release     *)
(* every held key and button."                                             *)
DisconnectReleasesInput ==
  \A a \in Agents : \A s \in Sessions :
    (held[a] # {} /\ active_generation[a] = s /\ ~alive[s]) ~> (held[a] = {})

=============================================================================
