------------------------- MODULE SteadyPath_proofs -------------------------
(***************************************************************************)
(* Proofs about InputPath while connections and displays hold (SteadySpec):*)
(* neither session ever rejects what the other sends it, a key is injected *)
(* only where focus was when it was captured, and no key is dropped.       *)
(***************************************************************************)
EXTENDS InputPath_proofs, FiniteSetTheorems

-----------------------------------------------------------------------------
(* The inductive invariant.                                                *)

(* Every agent has one connection, the same at both ends, and nothing on   *)
(* its way tells of an end of it or of another display.                    *)
Connected ==
  /\ \A a \in Agents :
       /\ peers[a] \in Sessions /\ owner[peers[a]] = a
       /\ connection[a] = peers[a] /\ active_generation[a] = peers[a]
       /\ ~reporting[a] /\ ~closed[a] /\ display_size[a] = screens[a]
  /\ \A s \in Sessions : alive[s] /\ worker[s] = "running"
  /\ \A s \in Sessions : \A message \in Entries(down[s]) : message.type # "Disconnected"
  /\ \A s \in Sessions : \A message \in Entries(up[s]) : message.type = "InputAcknowledged"
  /\ \A a \in Agents : \A command \in Entries(commands[a]) :
       command.type # "BeginSession" /\ command.generation = peers[a]

(* What the controller's session never does in a steady run.               *)
SessionInv ==
  /\ EpochInv /\ DeliveryWindow /\ PointerOnFocusedDesktop
  /\ Len(buffer) <= MaxBatch

(* What has yet to reach a.                                                *)
Way(a) == down[peers[a]] \o outbox[a]

(* The messages of a list carry on from epoch `from` to epoch `to`: a      *)
(* batch comes after the announcement of its epoch and before the next.    *)
Placed(list, i, from) ==
  /\ from <= list[i].epoch
  /\ \A j \in 1 .. i - 1 : list[j].epoch <= list[i].epoch
  /\ list[i].type = "FocusChanged" =>
       from < list[i].epoch /\ \A j \in 1 .. i - 1 : list[j].epoch < list[i].epoch
  /\ list[i].type = "Input" =>
       \/ list[i].epoch = from
       \/ \E j \in 1 .. i - 1 :
            list[j].type = "FocusChanged" /\ list[j].epoch = list[i].epoch

Follows(list, from, to) ==
  /\ \A i \in 1 .. Len(list) : Placed(list, i, from) /\ list[i].epoch <= to
  /\ \/ from = to
     \/ \E i \in 1 .. Len(list) : list[i].type = "FocusChanged" /\ list[i].epoch = to

(* Batches and announcements an agent accepts.                             *)
Good(a, batch) ==
  /\ batch.events # <<>> /\ Len(batch.events) <= MaxBatch
  /\ InEpoch(batch.events, batch.epoch)
  /\ Known(batch.epoch, a)

Welcome(a, message) ==
  /\ message.type = "Input" => Good(a, message)
  /\ message.type = "FocusChanged" =>
       /\ Known(message.epoch, message.target)
       /\ message.target = a => message.entry < screens[a]

FollowInv(a) ==
  /\ Follows(Way(a), highest_focus_epoch[a], focus_epoch)
  /\ \A message \in Entries(Way(a)) : Welcome(a, message)
  /\ highest_focus_epoch[a] \in 0 .. focus_epoch
  /\ last_focus[a].epoch = highest_focus_epoch[a]
  /\ active_focus_epoch[a] = IF focused_in[highest_focus_epoch[a]] = a
                             THEN highest_focus_epoch[a] ELSE None

(* At most one batch is in a list.                                         *)
HasInput(list) == \E i \in 1 .. Len(list) : list[i].type = "Input"

OneInput(list, sequence) ==
  \A i \in 1 .. Len(list) : list[i].type = "Input" =>
    /\ list[i].sequence = sequence
    /\ \A j \in 1 .. Len(list) : list[j].type = "Input" => i = j

(* The batch in flight is on its way, or under application.                *)
InFlightInv(a) ==
  /\ last_acknowledged[a] <= last_applied_sequence[a]
  /\ last_applied_sequence[a] <= last_sent[a]
  /\ last_sent[a] <= last_applied_sequence[a] + 1
  /\ application_pending[a] <=> IsPending(a)
  /\ application_pending[a] =>
       /\ pending_batch[a].sequence = last_sent[a]
       /\ last_sent[a] = last_applied_sequence[a] + 1
       /\ Good(a, pending_batch[a])
  /\ OneInput(Way(a), last_sent[a])
  /\ HasInput(Way(a)) =>
       ~application_pending[a] /\ last_sent[a] = last_applied_sequence[a] + 1
  /\ \A message \in Entries(up[peers[a]]) : message.through <= last_applied_sequence[a]
  /\ \A action \in Entries(actions[a]) :
       action.type = "Send" => action.through <= last_applied_sequence[a]

Asked(a) == \E action \in Entries(actions[a]) : action.type = "ApplyInput"
Given(a) == \E command \in Entries(commands[a]) : command.type = "ApplyBatch"
Done(a) == native_events[a] # <<>>

(* The batch under application is in one place only, and nothing comes     *)
(* after it.                                                               *)
ApplicationInv(a) ==
  /\ Asked(a) =>
       /\ application_pending[a] /\ ~Given(a) /\ ~Done(a)
       /\ actions[a] = <<ApplyInput(pending_batch[a])>>
  /\ Given(a) =>
       /\ application_pending[a] /\ actions[a] = <<>> /\ ~Done(a)
       /\ \A i \in 1 .. Len(commands[a]) : commands[a][i].type = "ApplyBatch" =>
            i = Len(commands[a]) /\ commands[a][i].batch = pending_batch[a]
  /\ Done(a) =>
       /\ application_pending[a] /\ actions[a] = <<>> /\ commands[a] = <<>>
       /\ native_events[a] = <<Applied(peers[a], pending_batch[a].sequence)>>

InjectedInv(a) == \A event \in Entries(injected[a]) : Known(event.epoch, a)

SteadyInv ==
  /\ PathType /\ FocusInv /\ Connected /\ SessionInv
  /\ \A a \in Agents :
       FollowInv(a) /\ InFlightInv(a) /\ ApplicationInv(a) /\ InjectedInv(a)
  /\ SessionsAgree

-----------------------------------------------------------------------------
(* The steps of a steady run.                                              *)

(* The controller takes captured events, or ends a tick.                   *)
SessionCalled == Captured \/ EndTick \/ ReturnLocal

AgentStep(a) ==
  \/ ReceiveFocus(a) \/ ReceiveInput(a) \/ ReceiveApplied(a) \/ Inject(a)
  \/ ApplyAgentAction(a) /\ TakeAction(a)

SteadyStep ==
  \/ SessionCalled
  \/ ApplyControllerActions /\ TakeActions
  \/ \E s \in Sessions : IgnoreNetworkEvent(s) \/ Acknowledged(s)
  \/ \E a \in Agents : AgentStep(a)
  \/ UNCHANGED pathVars

LEMMA SteadyIsPath == ASSUME [SteadyNext]_pathVars PROVE [PathNext]_pathVars
BY DEF PathNext

(* No connection ends and no display changes.                              *)
LEMMA SteadySteps ==
  ASSUME PathType, Connected, \A a \in Agents : ApplicationInv(a), [SteadyNext]_pathVars
  PROVE  SteadyStep
<1>1. ASSUME ApplyControllerActions PROVE SteadyStep
  <2>1. \A p \in Agents : ~OutboundClosed(p)
    BY DEF OutboundClosed, Connected
  <2> QED
    BY <1>1, <2>1 DEF ApplyControllerActions, SteadyStep
<1>2. ASSUME NEW s \in Sessions PROVE ~AcceptControllerPeer(s)
  BY DEF AcceptControllerPeer, Connected
<1>3. ASSUME NEW s \in Sessions, NEW type, TakeNetworkEvent(s, type)
      PROVE  type = "InputAcknowledged"
  <2>1. up[s] # <<>> /\ Head(up[s]).type = type /\ up[s] \in Seq(UpMessage)
    BY <1>3, TakenEvent DEF PathType, ConnectionType
  <2>2. Head(up[s]) \in Entries(up[s])
    BY <2>1, TailQueue
  <2> QED
    BY <2>1, <2>2 DEF Connected
<1>4. ASSUME NEW s \in Sessions PROVE ~DisplayReported(s) /\ ~DisconnectControllerPeer(s)
  BY <1>3 DEF DisplayReported, DisconnectControllerPeer
<1>5. ASSUME NEW a \in Agents PROVE ~ReceiveDisconnected(a)
  <2> SUFFICES ASSUME ReceiveDisconnected(a) PROVE FALSE
    OBVIOUS
  <2>1. /\ connection[a] \in Sessions /\ down[connection[a]] # <<>>
        /\ Head(down[connection[a]]).type = "Disconnected"
    BY TakenMessage DEF ReceiveDisconnected, PathType
  <2>2. down[connection[a]] \in Seq(DownMessage)
    BY <2>1 DEF PathType, ConnectionType
  <2>3. Head(down[connection[a]]) \in Entries(down[connection[a]])
    BY <2>1, <2>2, TailQueue
  <2> QED
    BY <2>1, <2>3 DEF Connected
<1>6. ASSUME NEW a \in Agents PROVE ~ReceiveDesktopChanged(a)
  <2> SUFFICES ASSUME ReceiveDesktopChanged(a) PROVE FALSE
    OBVIOUS
  <2>1. native_events[a] # <<>> /\ Head(native_events[a]).type = "DesktopChanged"
    BY DEF ReceiveDesktopChanged, IsNextIn
  <2>2. native_events[a] = <<Applied(peers[a], pending_batch[a].sequence)>>
    BY <2>1 DEF ApplicationInv, Done
  <2>3. Head(native_events[a]) = Applied(peers[a], pending_batch[a].sequence)
    BY <2>2
  <2> QED
    BY <2>1, <2>3 DEF Applied
<1>7. ASSUME NEW a \in Agents PROVE ~ReportDisplay(a)
  BY DEF ReportDisplay, Connected
<1>8. ASSUME NEW a \in Agents, ApplyAgentAction(a) PROVE TakeAction(a)
  <2>1. connection[a] \in Sessions
    BY DEF Connected
  <2> QED
    BY <1>8, <2>1 DEF ApplyAgentAction, SendFails, Connected
<1> QED
  BY <1>1, <1>2, <1>4, <1>5, <1>6, <1>7, <1>8
     DEF SteadyNext, ControllerNext, AgentNext, AgentStep, SteadyStep, SessionCalled

(* What stays as it is throughout.                                         *)
LEMMA SteadyFrame ==
  ASSUME PathType, Connected, SteadyStep
  PROVE  /\ UNCHANGED <<peers, connection, active_generation, owner, alive, worker, opened,
                        reporting, screens>>
         /\ \A a \in Agents : closed'[a] = closed[a] /\ display_size'[a] = display_size[a]
<1> DEFINE Kept == UNCHANGED <<peers, connection, active_generation, owner, alive, worker, opened,
                               reporting, screens>>
           Same == \A a \in Agents : closed'[a] = closed[a] /\ display_size'[a] = display_size[a]
<1>1. CASE SessionCalled
  BY <1>1 DEF SessionCalled, Captured, EndTick, ReturnLocal, ReturnToLocal, Activated,
       Activate, FailStranded, RouteKey, RouteEvent, Moved, RouteMotion, RouteCrossing,
       Flush, agentVars, agentSessions, focusVars, deliveryVars, nativeVars,
       connectionVars, runtimeVars, vars
<1>2. CASE ApplyControllerActions /\ TakeActions
  BY <1>2 DEF ApplyControllerActions, TakeActions, agentVars, agentSessions, focusVars,
       deliveryVars, nativeVars, runtimeVars
<1>3. ASSUME NEW s \in Sessions, IgnoreNetworkEvent(s) \/ Acknowledged(s) PROVE Kept /\ Same
  BY <1>3 DEF IgnoreNetworkEvent, Acknowledged, Acknowledge, Fail, agentVars,
       agentSessions, focusVars, deliveryVars, nativeVars, runtimeVars, controllerVars,
       vars
<1>4. ASSUME NEW a \in Agents, ReceiveFocus(a) PROVE Kept /\ Same
  BY <1>4, CallErrors DEF ReceiveFocus, FollowFocus, Failed, agentSessions, focusVars, deliveryVars,
              nativeVars, controllerVars, runtimeVars, vars
<1>5. ASSUME NEW a \in Agents, ReceiveInput(a) PROVE Kept /\ Same
  BY <1>5, CallErrors DEF ReceiveInput, ReceiveBatch, Failed,
              nativeVars, controllerVars, runtimeVars, vars
<1>6. ASSUME NEW a \in Agents, ReceiveApplied(a) PROVE Kept /\ Same
  BY <1>6, CallErrors DEF ReceiveApplied, ConfirmApplied, Failed, agentSessions, focusVars, deliveryVars,
              connectionVars, controllerVars, runtimeVars, vars
<1>7. ASSUME NEW a \in Agents, ApplyAgentAction(a), TakeAction(a) PROVE Kept /\ Same
  BY <1>7 DEF ApplyAgentAction, TakeAction, controllerVars, runtimeVars, vars
<1>8. ASSUME NEW a \in Agents, Inject(a) PROVE Kept /\ Same
  <2>1. Head(commands[a]) \in Entries(commands[a]) /\ commands[a] # <<>>
    BY <1>8, InjectEffect
  <2>2. Head(commands[a]).type # "BeginSession"
    BY <2>1 DEF Connected
  <2>3. UNCHANGED active_generation
    BY <1>8, <2>2 DEF Inject
  <2> QED
    BY <1>8, <2>3 DEF Inject, controllerVars, runtimeVars, vars, agentVars, agentSessions, focusVars, deliveryVars,
                      connectionVars
<1>9. CASE UNCHANGED pathVars
  BY <1>9 DEF pathVars, controllerVars, runtimeVars, vars, agentVars, agentSessions,
       focusVars, deliveryVars, connectionVars, nativeVars
<1> QED
  BY <1>1, <1>2, <1>3, <1>4, <1>5, <1>6, <1>7, <1>8, <1>9 DEF SteadyStep, AgentStep

LEMMA SteadyMessages ==
  ASSUME PathType, Connected, SteadyStep, NEW s \in Sessions, NEW message \in Entries(down'[s])
  PROVE  message.type # "Disconnected"
<1>0. down[s] \in Seq(DownMessage)
  BY DEF PathType, ConnectionType
<1>1. CASE UNCHANGED down
  BY <1>1 DEF Connected
<1>2. CASE ApplyControllerActions /\ TakeActions
  <2>1. CASE down'[s] = down[s] \o outbox[owner[s]] /\ owner[s] \in Agents
    <3>1. outbox[owner[s]] \in Seq(Messages)
      BY <2>1 DEF PathType, SessionType
    <3>2. Messages \subseteq DownMessage
      BY DEF DownMessage
    <3>3. outbox[owner[s]] \in Seq(DownMessage)
      BY <3>1, <3>2
    <3>4. message \in Entries(down[s]) \cup Entries(outbox[owner[s]])
      BY <1>0, <2>1, <3>3, JoinQueues
    <3>5. \A m \in Entries(outbox[owner[s]]) : m \in Messages
      BY <3>1 DEF Entries
    <3> QED
      BY <3>4, <3>5 DEF Connected, Messages, InputMessages, FocusMessages
  <2>2. CASE down'[s] = down[s]
    BY <2>2 DEF Connected
  <2>3. peers[owner[s]] = s => owner[s] \in Agents
    <3>1. s <= opened
      BY InputPathBounds DEF PathType, OpenedByAgents, Connected, ConnectionType, Sessions
    <3> QED
      BY <3>1 DEF PathType, OpenedByAgents
  <2>4. \/ down'[s] = down[s]
        \/ down'[s] = down[s] \o outbox[owner[s]] /\ peers[owner[s]] = s
    BY <1>2 DEF ApplyControllerActions, TakeActions, NoMessages, Fail
  <2> QED
    BY <2>1, <2>2, <2>3, <2>4
<1>3. ASSUME NEW a \in Agents, ReceiveFocus(a) \/ ReceiveInput(a)
      PROVE  message.type # "Disconnected"
  <2>1. /\ connection[a] \in Sessions /\ down[connection[a]] # <<>>
        /\ down' = Pop(down, connection[a])
    BY <1>3, TakenMessage DEF ReceiveFocus, ReceiveInput, PathType
  <2>2. down'[s] = down[s] \/ (down'[s] = Tail(down[s]) /\ down[s] # <<>>)
    <3>1. ConnectionType
      BY DEF PathType
    <3>2. CASE s = connection[a]
      BY <2>1, <3>1, <3>2, DownQueues
    <3>3. CASE s # connection[a]
      BY <2>1, <3>1, <3>3, DownQueues
    <3> QED
      BY <3>2, <3>3
  <2>3. message \in Entries(down[s])
    BY <1>0, <2>2, TailQueue
  <2> QED
    BY <2>3 DEF Connected
<1>4. ASSUME NEW a \in Agents, ReceiveApplied(a) \/ Inject(a) \/ ApplyAgentAction(a)
      PROVE  UNCHANGED down
  BY <1>4 DEF ReceiveApplied, Inject, ApplyAgentAction, connectionVars
<1>5. SessionCalled \/ (\E t \in Sessions : IgnoreNetworkEvent(t) \/ Acknowledged(t))
        \/ UNCHANGED pathVars => UNCHANGED down
  BY DEF SessionCalled, Captured, EndTick, ReturnLocal, IgnoreNetworkEvent, Acknowledged,
         connectionVars, pathVars
<1> QED
  BY <1>1, <1>2, <1>3, <1>4, <1>5 DEF SteadyStep, AgentStep

(* What an acknowledgement on its way says was the agent's to say.         *)
LEMMA SteadyAcknowledgements ==
  ASSUME PathType, Connected, SteadyStep, NEW s \in Sessions, NEW message \in Entries(up'[s])
  PROVE  /\ message.type = "InputAcknowledged"
         /\ \/ message \in Entries(up[s])
            \/ \E a \in Agents :
                 /\ s = peers[a] /\ actions[a] # <<>> /\ Head(actions[a]).type = "Send"
                 /\ message.through = Head(actions[a]).through
<1> DEFINE Goal == /\ message.type = "InputAcknowledged"
                   /\ \/ message \in Entries(up[s])
                      \/ \E a \in Agents :
                           /\ s = peers[a] /\ actions[a] # <<>> /\ Head(actions[a]).type = "Send"
                           /\ message.through = Head(actions[a]).through
<1>0. up[s] \in Seq(UpMessage)
  BY DEF PathType, ConnectionType
<1>1. CASE message \in Entries(up[s])
  BY <1>1 DEF Connected
<1>2. ASSUME NEW t \in Sessions, up[t] # <<>>, up' = Pop(up, t) PROVE Goal
  <2>1. up'[s] = up[s] \/ (up'[s] = Tail(up[s]) /\ up[s] # <<>>)
    <3>1. ConnectionType
      BY DEF PathType
    <3>2. CASE s = t
      BY <1>2, <3>1, <3>2, UpQueues
    <3>3. CASE s # t
      BY <1>2, <3>1, <3>3, UpQueues
    <3> QED
      BY <3>2, <3>3
  <2> QED
    BY <1>0, <1>1, <2>1, TailQueue
<1>3. ASSUME NEW t \in Sessions, IgnoreNetworkEvent(t) \/ Acknowledged(t) PROVE Goal
  BY <1>2, <1>3, TakenEvent DEF IgnoreNetworkEvent, Acknowledged, PathType
<1>7. ASSUME NEW t \in Sessions, NEW new \in UpMessage, up' = Put(up, t, new)
      PROVE  message \in Entries(up[s]) \/ (s = t /\ message = new)
  <2>1. ConnectionType
    BY DEF PathType
  <2>2. CASE s = t
    <3>1. up'[s] = Append(up[s], new)
      BY <1>7, <2>1, <2>2, UpQueues
    <3> QED
      BY <1>0, <2>2, <3>1, AppendQueue
  <2>3. CASE s # t
    BY <1>7, <2>1, <2>3, UpQueues
  <2> QED
    BY <2>2, <2>3
<1>4. ASSUME NEW a \in Agents, ApplyAgentAction(a), TakeAction(a) PROVE Goal
  <2>1. connection[a] = peers[a] /\ peers[a] \in Sessions /\ actions[a] # <<>>
        /\ Head(actions[a]) \in Action
    BY <1>4, TakenAction DEF Connected, ApplyAgentAction, PathType
  <2>2. CASE up' = up
    BY <1>1, <2>2
  <2>3. CASE /\ Head(actions[a]).type = "Send"
             /\ up' = Put(up, peers[a], InputAcknowledged(Head(actions[a]).through))
    <3>1. InputAcknowledged(Head(actions[a]).through) \in UpMessage
      BY <2>1, <2>3, ActionFacts DEF InputAcknowledged, UpMessage
    <3>2. \/ message \in Entries(up[s])
          \/ s = peers[a] /\ message = InputAcknowledged(Head(actions[a]).through)
      BY <1>7, <2>1, <2>3, <3>1
    <3> QED
      BY <1>1, <2>1, <2>3, <3>2 DEF InputAcknowledged
  <2> QED
    BY <1>4, <2>1, <2>2, <2>3 DEF ApplyAgentAction, Sent, SendFails
<1>5. SessionCalled \/ ApplyControllerActions \/ UNCHANGED pathVars => UNCHANGED up
  BY DEF SessionCalled, Captured, EndTick, ReturnLocal, ApplyControllerActions,
         connectionVars, pathVars
<1>6. ASSUME NEW a \in Agents,
             ReceiveFocus(a) \/ ReceiveInput(a) \/ ReceiveApplied(a) \/ Inject(a)
      PROVE  UNCHANGED up
  BY <1>6 DEF ReceiveFocus, ReceiveInput, ReceiveApplied, Inject, connectionVars
<1> QED
  BY <1>1, <1>3, <1>4, <1>5, <1>6 DEF SteadyStep, AgentStep

LEMMA SteadyCommands ==
  ASSUME PathType, Connected, SteadyStep, NEW a \in Agents, NEW command \in Entries(commands'[a])
  PROVE  command.type # "BeginSession" /\ command.generation = peers[a]
<1> DEFINE Goal == command.type # "BeginSession" /\ command.generation = peers[a]
<1>0. commands[a] \in Seq(Command)
  BY DEF PathType, NativeType
<1>1. CASE command \in Entries(commands[a])
  BY <1>1 DEF Connected
<1>2. CASE AgentStep(a)
  <2>1. AgentNext(a)
    BY <1>2 DEF AgentStep, AgentNext
  <2>2. ~Connect(a)
    BY DEF Connect, Connected, Sessions, NoSession
  <2>3. peers[a] \in Sessions /\ connection[a] = peers[a]
    BY DEF Connected
  <2>4. CASE commands'[a] = Tail(commands[a]) /\ commands[a] # <<>>
    BY <1>0, <1>1, <2>4, TailQueue
  <2>5. ASSUME NEW new \in Command, commands'[a] = Append(commands[a], new),
               new.type # "BeginSession", new.generation = peers[a]
        PROVE  Goal
    BY <1>0, <1>1, <2>5, AppendQueue
  <2>6. /\ ReleaseAll(peers[a]) \in Command
        /\ ReleaseAll(peers[a]).type # "BeginSession"
        /\ ReleaseAll(peers[a]).generation = peers[a]
    BY <2>3, CommandTypes DEF ReleaseAll
  <2>7. \A batch \in Batch :
          /\ ApplyBatch(peers[a], batch) \in Command
          /\ ApplyBatch(peers[a], batch).type # "BeginSession"
          /\ ApplyBatch(peers[a], batch).generation = peers[a]
    BY <2>3, CommandTypes DEF ApplyBatch
  <2> QED
    BY <1>1, <2>1, <2>2, <2>3, <2>4, <2>5, <2>6, <2>7, CommandStep
<1>3. ASSUME NEW b \in Agents, b # a, AgentStep(b) PROVE commands'[a] = commands[a]
  <2>1. AgentNext(b)
    BY <1>3 DEF AgentStep, AgentNext
  <2> QED
    BY <1>3, <2>1, OtherAgents DEF LocalTo, ServiceOf
<1>4. SessionCalled \/ ApplyControllerActions \/ UNCHANGED pathVars
        \/ (\E s \in Sessions : IgnoreNetworkEvent(s) \/ Acknowledged(s))
      => UNCHANGED commands
  BY DEF SessionCalled, Captured, EndTick, ReturnLocal, IgnoreNetworkEvent, Acknowledged,
         ApplyControllerActions, nativeVars, pathVars
<1> QED
  BY <1>1, <1>2, <1>3, <1>4 DEF SteadyStep

LEMMA ConnectedStep == ASSUME PathType, Connected, SteadyStep PROVE Connected'
<1>1. \A a \in Agents :
        /\ peers'[a] \in Sessions /\ owner'[peers'[a]] = a
        /\ connection'[a] = peers'[a] /\ active_generation'[a] = peers'[a]
        /\ ~reporting'[a] /\ ~closed'[a] /\ display_size'[a] = screens'[a]
  BY SteadyFrame DEF Connected
<1>2. \A s \in Sessions : alive'[s] /\ worker'[s] = "running"
  BY SteadyFrame DEF Connected
<1>3. \A a \in Agents : \A command \in Entries(commands'[a]) :
        command.type # "BeginSession" /\ command.generation = peers'[a]
  BY SteadyCommands, SteadyFrame
<1> QED
  BY <1>1, <1>2, <1>3, SteadyMessages, SteadyAcknowledgements DEF Connected

-----------------------------------------------------------------------------
(* The controller's session.                                               *)

(* An acknowledgement taken is one for a batch applied.                    *)
LEMMA TakenAcknowledgement ==
  ASSUME PathType, Connected, NEW s \in Sessions, Acknowledged(s), InFlightInv(owner[s])
  PROVE  /\ owner[s] \in Agents /\ s = peers[owner[s]] /\ Head(up[s]).through \in Nat
         /\ Head(up[s]).through <= last_applied_sequence[owner[s]]
         /\ Head(up[s]).through <= last_sent[owner[s]]
         /\ Acknowledge(owner[s], Head(up[s]).through)
<1>1. /\ owner[s] \in Agents /\ s = peers[owner[s]] /\ up[s] # <<>>
      /\ Head(up[s]).through \in Nat /\ Acknowledge(owner[s], Head(up[s]).through)
  BY TakenEvent, UpMessageType DEF Acknowledged, PathType
<1>2. Head(up[s]) \in Entries(up[peers[owner[s]]])
  <2>1. up[s] \in Seq(UpMessage)
    BY DEF PathType, ConnectionType
  <2> QED
    BY <1>1, <2>1, TailQueue
<1>3. Head(up[s]).through <= last_applied_sequence[owner[s]]
  BY <1>2 DEF InFlightInv
<1>4. /\ last_applied_sequence[owner[s]] <= last_sent[owner[s]]
      /\ last_applied_sequence[owner[s]] \in Nat /\ last_sent[owner[s]] \in Nat
  BY <1>1 DEF InFlightInv, PathType, SessionType, AgentType
<1> QED
  BY <1>1, <1>3, <1>4

LEMMA SteadyCalls ==
  ASSUME PathType, Connected, SteadyStep
  PROVE  UNCHANGED vars \/ \E sequence \in Nat : CallsUpTo(sequence)
<1>1. CASE Captured
  BY <1>1, PeersAreAgents DEF Captured, CallsUpTo, Activated, Moved, PathType, SessionType, Agents,
                              Activate, FailStranded, Stranded
<1>2. CASE EndTick \/ ReturnLocal \/ (ApplyControllerActions /\ TakeActions)
  BY <1>2 DEF EndTick, ReturnLocal, CallsUpTo
<1>3. ASSUME NEW s \in Sessions, IgnoreNetworkEvent(s) PROVE UNCHANGED vars
  BY <1>3 DEF IgnoreNetworkEvent, controllerVars
<1>4. ASSUME NEW s \in Sessions, Acknowledged(s) PROVE \E sequence \in Nat : CallsUpTo(sequence)
  <2>1. owner[s] \in Agents /\ Head(up[s]).through \in Nat
    BY <1>4, TakenEvent, UpMessageType DEF Acknowledged, PathType
  <2>2. CallsUpTo(Head(up[s]).through)
    BY <1>4, <2>1 DEF Acknowledged, CallsUpTo
  <2> QED
    BY <2>1, <2>2
<1>5. ASSUME NEW a \in Agents, AgentStep(a) PROVE UNCHANGED vars
  BY <1>5 DEF AgentStep, ReceiveFocus, ReceiveInput, ReceiveApplied, Inject, ApplyAgentAction,
              controllerVars
<1>6. UNCHANGED pathVars => UNCHANGED vars
  BY DEF pathVars, controllerVars
<1> QED
  BY <1>1, <1>2, <1>3, <1>4, <1>5, <1>6 DEF SteadyStep, SessionCalled

(* A full buffer is all that can end the session.                          *)
LEMMA SteadyErrors ==
  ASSUME PathType, Connected, SessionInv, \A a \in Agents : InFlightInv(a), SteadyStep,
         error \in {"none", "Backpressure"}
  PROVE  error' \in {"none", "Backpressure"}
<1>1. ~Stranded
  BY DEF SessionInv, EpochInv, NothingWaitsLocally, Stranded
<1>2. ~FailStranded
  BY <1>1 DEF FailStranded
<1>3. CASE Captured
  BY <1>2, <1>3 DEF Captured, Activated, Activate, RouteKey, Moved, RouteMotion, RouteEvent,
                    RouteCrossing
<1>4. CASE EndTick \/ ReturnLocal \/ (ApplyControllerActions /\ TakeActions)
  BY <1>2, <1>4 DEF EndTick, Flush, ReturnLocal, ReturnToLocal, TakeActions, vars
<1>5. ASSUME NEW s \in Sessions, Acknowledged(s) PROVE UNCHANGED error
  <2>1. owner[s] \in Agents
    BY <1>5, TakenEvent DEF Acknowledged, PathType
  <2>2. /\ Head(up[s]).through \in Nat /\ Head(up[s]).through <= last_sent[owner[s]]
        /\ Acknowledge(owner[s], Head(up[s]).through)
    BY <1>5, <2>1, TakenAcknowledgement
  <2>3. last_sent[owner[s]] \in Nat /\ owner[s] \in Peers
    BY <2>1, PeersAreAgents DEF PathType, SessionType
  <2> QED
    BY <2>2, <2>3 DEF Acknowledge, vars
<1>6. \/ SessionCalled \/ (ApplyControllerActions /\ TakeActions) \/ UNCHANGED error
      \/ \E s \in Sessions : Acknowledged(s)
  BY DEF SteadyStep, AgentStep, ReceiveFocus, ReceiveInput, ReceiveApplied, Inject,
         ApplyAgentAction, IgnoreNetworkEvent, controllerVars, vars, pathVars
<1> QED
  BY <1>3, <1>4, <1>5, <1>6 DEF SessionCalled

LEMMA SessionInvStep ==
  ASSUME PathType, Connected, SessionInv, \A a \in Agents : InFlightInv(a), SteadyStep,
         error \in {"none", "Backpressure"}, [SteadyNext]_pathVars
  PROVE  SessionInv'
<1>1. TypeOK
  BY DEF SessionInv, EpochInv
<1>2. CASE UNCHANGED vars
  BY <1>1, <1>2, StutterType, EpochUnchanged
     DEF SessionInv, vars, focusState, deliveries, DeliveryWindow, PointerOnFocusedDesktop
<1>3. ASSUME NEW sequence \in Nat, CallsUpTo(sequence)
      PROVE  EpochInv' /\ DeliveryWindow' /\ PointerOnFocusedDesktop'
  <2>1. TypeOK'
    BY <1>1, <1>3, CallsType
  <2> QED
    BY <1>1, <1>3, <2>1, CallsEpoch, CallsWindow, CallsPointer DEF SessionInv
<1>4. Len(buffer') <= MaxBatch
  <2>1. SessionType /\ SessionStep
    BY SteadyIsPath, PathStep DEF PathType
  <2>2. CASE NothingSent
    BY <2>2 DEF NothingSent, SessionInv
  <2>3. ASSUME NEW events \in Seq(InputEvents), Sends(events) PROVE Len(buffer') <= MaxBatch
    <3>1. Len(<<>>) = 0 /\ MaxBatch >= 1 /\ \A event : Len(<<event>>) = 1
      BY BatchAssumption
    <3>2. \/ buffer' = <<>> \/ buffer' = buffer \/ (\E event : buffer' = <<event>>)
          \/ Fits(buffer')
      BY <2>3 DEF Sends
    <3>3. ASSUME NEW event, buffer' = <<event>> PROVE Len(buffer') <= MaxBatch
      BY <3>1, <3>3
    <3>4. CASE buffer' = <<>>
      BY <3>1, <3>4, BatchAssumption
    <3> QED
      BY <3>2, <3>3, <3>4 DEF SessionInv, Fits
  <2> QED
    BY <2>1, <2>2, <2>3, SessionSends
<1> QED
  BY <1>2, <1>3, <1>4, SteadyCalls DEF SessionInv

-----------------------------------------------------------------------------
(* Lists of messages that follow the epochs.                               *)

LEMMA MessageEpoch ==
  ASSUME NEW m \in Messages
  PROVE  m.epoch \in Nat /\ m.type \in {"Input", "FocusChanged"}
BY DEF Messages, InputMessages, FocusMessages

LEMMA FollowsUpward ==
  ASSUME NEW list \in Seq(Messages), NEW from \in Nat, NEW to \in Nat, Follows(list, from, to)
  PROVE  from <= to
<1>1. ASSUME NEW i \in 1 .. Len(list), list[i].epoch = to PROVE from <= to
  BY <1>1 DEF Follows, Placed
<1> QED
  BY <1>1 DEF Follows

(* A batch of the newest epoch, or the announcement of the next, comes     *)
(* last.                                                                   *)
LEMMA FollowsNext ==
  ASSUME NEW list \in Seq(Messages), NEW from \in Nat, NEW to \in Nat, Follows(list, from, to),
         NEW m \in Messages, NEW next \in Nat, m.epoch = next,
         \/ m.type = "Input" /\ next = to
         \/ m.type = "FocusChanged" /\ next = to + 1
  PROVE  Follows(Append(list, m), from, next)
<1> DEFINE longer == Append(list, m)
           n == Len(list)
<1>1. /\ Len(longer) = n + 1 /\ n \in Nat /\ longer[n + 1] = m
      /\ \A i \in 1 .. n : longer[i] = list[i]
  BY AppendQueue
<1>2. \A i \in 1 .. n : list[i].epoch \in Nat
  BY MessageEpoch
<1>3. from <= to
  BY FollowsUpward
<1> HIDE DEF longer
<1>4. ASSUME NEW i \in 1 .. n PROVE Placed(longer, i, from) /\ longer[i].epoch <= to
  <2>1. \A j \in 1 .. i - 1 : j \in 1 .. n /\ longer[j] = list[j]
    BY <1>1
  <2>2. longer[i] = list[i]
    BY <1>1
  <2>3. Placed(list, i, from) /\ list[i].epoch <= to
    BY DEF Follows
  <2> HIDE DEF n
  <2> QED
    BY <2>1, <2>2, <2>3 DEF Placed
<1>5. \/ from = to
      \/ \E i \in 1 .. n : longer[i].type = "FocusChanged" /\ longer[i].epoch = to
  BY <1>1 DEF Follows
<1>6. (n + 1) - 1 = n /\ \A i \in 1 .. n : i \in 1 .. n + 1
  BY <1>1
<1>7. n + 1 \in 1 .. n + 1 /\ \A i \in 1 .. n + 1 : i \in 1 .. n \/ i = n + 1
  BY <1>1
<1>8. \A i \in 1 .. n : longer[i].epoch <= to /\ longer[i].epoch \in Nat
  BY <1>1, <1>2, <1>4
<1> HIDE DEF n
<1>9. longer[n + 1].epoch = next /\ longer[n + 1].type = m.type
  BY <1>1
<1>10. Placed(longer, n + 1, from)
  <2>1. CASE m.type = "Input" /\ next = to
    BY <1>3, <1>5, <1>6, <1>8, <1>9, <2>1 DEF Placed
  <2>2. CASE m.type = "FocusChanged" /\ next = to + 1
    BY <1>3, <1>6, <1>8, <1>9, <2>2 DEF Placed
  <2> QED
    BY <2>1, <2>2
<1>11. to <= next
  OBVIOUS
<1>12. ASSUME NEW i \in 1 .. n + 1 PROVE Placed(longer, i, from) /\ longer[i].epoch <= next
  <2>1. CASE i \in 1 .. n
    BY <1>4, <1>8, <1>11, <2>1
  <2>2. CASE i = n + 1
    BY <1>9, <1>10, <2>2
  <2> QED
    BY <1>7, <2>1, <2>2
<1>13. \/ from = next
       \/ \E i \in 1 .. n + 1 : longer[i].type = "FocusChanged" /\ longer[i].epoch = next
  <2>1. CASE m.type = "Input" /\ next = to
    BY <1>5, <1>6, <2>1
  <2>2. CASE m.type = "FocusChanged" /\ next = to + 1
    BY <1>7, <1>9, <2>2
  <2> QED
    BY <2>1, <2>2
<1>14. Len(longer) = n + 1
  BY <1>1
<1> QED
  BY <1>12, <1>13, <1>14 DEF Follows, longer

(* The first message of such a list is of the next epoch, or of the one    *)
(* before it.                                                              *)
LEMMA FollowsTaken ==
  ASSUME NEW list \in Seq(Messages), NEW from \in Nat, NEW to \in Nat, Follows(list, from, to),
         list # <<>>
  PROVE  /\ Head(list).type = "FocusChanged" =>
              from < Head(list).epoch /\ Follows(Tail(list), Head(list).epoch, to)
         /\ Head(list).type = "Input" =>
              Head(list).epoch = from /\ Follows(Tail(list), from, to)
<1> DEFINE rest == Tail(list)
           n == Len(list) - 1
           from2 == list[1].epoch
<1>1. /\ Len(rest) = n /\ n \in Nat /\ Head(list) = list[1] /\ Len(list) = n + 1
      /\ \A i \in 1 .. n : rest[i] = list[i + 1]
  BY TailQueue
<1>2. \A i \in 1 .. n + 1 : list[i] \in Messages /\ list[i].epoch \in Nat
  BY <1>1, MessageEpoch
<1>3. \A i \in 1 .. n + 1 : Placed(list, i, from) /\ list[i].epoch <= to
  BY <1>1 DEF Follows
<1>4. \/ from = to
      \/ \E i \in 1 .. n + 1 : list[i].type = "FocusChanged" /\ list[i].epoch = to
  BY <1>1 DEF Follows
<1> HIDE DEF rest, n
<1>5. 1 \in 1 .. n + 1 /\ (1 .. 1 - 1) = {}
  BY <1>1
<1>6. /\ list[1].type = "FocusChanged" => from < list[1].epoch
      /\ list[1].type = "Input" => list[1].epoch = from
      /\ list[1].epoch \in Nat /\ list[1].epoch <= to
  BY <1>2, <1>3, <1>5 DEF Placed
<1>7. \A i \in 1 .. n : 1 \in 1 .. (i + 1) - 1 /\ i + 1 \in 1 .. n + 1
  BY <1>1
<1>8. ASSUME NEW i \in 1 .. n PROVE Placed(rest, i, list[1].epoch) /\ rest[i].epoch <= to
  <2>1. \A j \in 1 .. i - 1 : j \in 1 .. n /\ j + 1 \in 1 .. (i + 1) - 1 /\ rest[j] = list[j + 1]
    BY <1>1
  <2>2. rest[i] = list[i + 1] /\ Placed(list, i + 1, from) /\ list[i + 1].epoch <= to
    BY <1>1, <1>3, <1>7
  <2>3. \A j \in 1 .. (i + 1) - 1 : j = 1 \/ (j - 1 \in 1 .. i - 1 /\ (j - 1) + 1 = j)
    BY <1>1
  <2>4. list[i + 1].epoch \in Nat
    BY <1>2, <1>7
  <2>5. list[1].epoch <= rest[i].epoch
    BY <1>7, <2>2 DEF Placed
  <2>6. \A j \in 1 .. i - 1 : rest[j].epoch <= rest[i].epoch
    BY <2>1, <2>2 DEF Placed
  <2>7. rest[i].type = "FocusChanged" =>
          list[1].epoch < rest[i].epoch /\ \A j \in 1 .. i - 1 : rest[j].epoch < rest[i].epoch
    BY <1>7, <2>1, <2>2 DEF Placed
  <2>8. ASSUME rest[i].type = "Input", rest[i].epoch # list[1].epoch
        PROVE  \E j \in 1 .. i - 1 : rest[j].type = "FocusChanged" /\ rest[j].epoch = rest[i].epoch
    <3>1. list[i + 1].epoch # from
      BY <1>2, <1>5, <1>6, <2>2, <2>4, <2>5, <2>8, MessageEpoch
    <3>2. PICK j \in 1 .. (i + 1) - 1 :
            list[j].type = "FocusChanged" /\ list[j].epoch = list[i + 1].epoch
      BY <2>2, <2>8, <3>1 DEF Placed
    <3>3. j # 1
      BY <2>2, <2>8, <3>2
    <3>4. j - 1 \in 1 .. i - 1 /\ rest[j - 1] = list[j]
      BY <2>1, <2>3, <3>3
    <3> QED
      BY <2>2, <3>2, <3>4
  <2> QED
    BY <2>2, <2>5, <2>6, <2>7, <2>8 DEF Placed
<1>9. \/ list[1].epoch = to
      \/ \E i \in 1 .. n : rest[i].type = "FocusChanged" /\ rest[i].epoch = to
  <2>1. CASE from = to
    BY <1>2, <1>3, <1>5, <1>6, <2>1, MessageEpoch
  <2>2. ASSUME NEW i \in 1 .. n + 1, list[i].type = "FocusChanged", list[i].epoch = to, i # 1
        PROVE  \E k \in 1 .. n : rest[k].type = "FocusChanged" /\ rest[k].epoch = to
    <3>1. i - 1 \in 1 .. n /\ (i - 1) + 1 = i
      BY <1>1, <2>2
    <3>2. rest[i - 1] = list[i]
      BY <1>1, <3>1
    <3> QED
      BY <2>2, <3>1, <3>2
  <2> QED
    BY <1>4, <2>1, <2>2
<1>10. Follows(rest, list[1].epoch, to)
  <2>1. Len(rest) = n
    BY <1>1
  <2> QED
    BY <1>8, <1>9, <2>1 DEF Follows
<1> QED
  BY <1>1, <1>6, <1>10 DEF rest

-----------------------------------------------------------------------------
(* The way of an agent.                                                    *)

LEMMA WayType ==
  ASSUME PathType, Connected, NEW a \in Agents
  PROVE  /\ down[peers[a]] \in Seq(Messages) /\ outbox[a] \in Seq(Messages)
         /\ Way(a) \in Seq(Messages)
<1>1. down[peers[a]] \in Seq(DownMessage) /\ peers[a] \in Sessions
  BY DEF PathType, ConnectionType, Connected
<1>2. \A i \in 1 .. Len(down[peers[a]]) : down[peers[a]][i] \in Messages
  <2> SUFFICES ASSUME NEW i \in 1 .. Len(down[peers[a]]) PROVE down[peers[a]][i] \in Messages
    OBVIOUS
  <2>1. down[peers[a]][i] \in DownMessage /\ down[peers[a]][i] \in Entries(down[peers[a]])
    BY <1>1 DEF Entries
  <2>2. down[peers[a]][i] # Disconnected
    BY <1>1, <2>1 DEF Connected, Disconnected
  <2> QED
    BY <2>1, <2>2 DEF DownMessage
<1>3. down[peers[a]] \in Seq(Messages)
  BY <1>1, <1>2
<1>4. outbox[a] \in Seq(Messages)
  BY DEF PathType, SessionType
<1> QED
  BY <1>3, <1>4 DEF Way

(* Taking the oldest message.                                              *)
LEMMA JoinTail ==
  ASSUME NEW S, NEW p \in Seq(S), NEW q \in Seq(S), p # <<>>
  PROVE  Head(p \o q) = Head(p) /\ Tail(p \o q) = Tail(p) \o q /\ p \o q # <<>>
<1>1. p \o q \in Seq(S) /\ Len(p \o q) = Len(p) + Len(q) /\ Len(p) \in Nat /\ Len(q) \in Nat
      /\ \A i \in 1 .. Len(p) + Len(q) :
           (p \o q)[i] = IF i <= Len(p) THEN p[i] ELSE q[i - Len(p)]
  BY JoinQueues
<1>2. /\ Tail(p) \in Seq(S) /\ Len(p) >= 1 /\ Len(Tail(p)) = Len(p) - 1
      /\ Head(p) = p[1]
      /\ \A i \in 1 .. Len(p) - 1 : Tail(p)[i] = p[i + 1]
  BY TailQueue
<1>3. p \o q # <<>>
  BY <1>1, <1>2
<1>4. /\ Tail(p \o q) \in Seq(S)
      /\ Head(p \o q) = (p \o q)[1] /\ Len(Tail(p \o q)) = Len(p) + Len(q) - 1
      /\ \A i \in 1 .. Len(p) + Len(q) - 1 : Tail(p \o q)[i] = (p \o q)[i + 1]
  BY <1>1, <1>3, TailQueue
<1>5. /\ Tail(p) \o q \in Seq(S) /\ Len(Tail(p) \o q) = Len(p) - 1 + Len(q)
      /\ \A i \in 1 .. Len(p) - 1 + Len(q) :
           (Tail(p) \o q)[i] = IF i <= Len(p) - 1 THEN Tail(p)[i] ELSE q[i - (Len(p) - 1)]
  BY <1>1, <1>2, JoinQueues
<1>6. Head(p \o q) = Head(p)
  BY <1>1, <1>2, <1>4
<1>7. ASSUME NEW i \in 1 .. Len(p) + Len(q) - 1
      PROVE  Tail(p \o q)[i] = (Tail(p) \o q)[i]
  <2>1. Tail(p \o q)[i] = (p \o q)[i + 1]
    BY <1>4
  <2>2. CASE i <= Len(p) - 1
    BY <1>1, <1>2, <1>5, <2>1, <2>2
  <2>3. CASE i > Len(p) - 1
    <3>1. (p \o q)[i + 1] = q[i + 1 - Len(p)] /\ (Tail(p) \o q)[i] = q[i - (Len(p) - 1)]
      BY <1>1, <1>2, <1>5, <2>3
    <3>2. i + 1 - Len(p) = i - (Len(p) - 1)
      BY <1>1
    <3> QED
      BY <2>1, <3>1, <3>2
  <2> QED
    BY <1>1, <2>2, <2>3
<1>8. Tail(p \o q) = Tail(p) \o q
  <2>1. Len(Tail(p \o q)) = Len(Tail(p) \o q) /\ Len(Tail(p \o q)) = Len(p) + Len(q) - 1
    BY <1>1, <1>4, <1>5
  <2> QED
    BY <1>4, <1>5, <1>7, <2>1
<1> QED
  BY <1>3, <1>6, <1>8

(* A call of the controller's session puts what it sends at the end.       *)
LEMMA WaySent ==
  ASSUME PathType, Connected, NEW a \in Agents, NEW events \in Seq(InputEvents), Sends(events),
         SessionType', UNCHANGED <<peers, down>>
  PROVE  LET batch == InputBatch(focus_epoch, last_sent[a] + 1, events)
             news == FocusChanged(focus_epoch', focus', position')
             sent == events # <<>> /\ a = focus
             moved == focus_epoch' # focus_epoch
         IN /\ batch \in Messages /\ news \in Messages /\ outbox[a] = <<>>
            /\ ~sent /\ ~moved => Way(a)' = Way(a)
            /\ sent /\ ~moved => Way(a)' = Append(Way(a), batch)
            /\ ~sent /\ moved => Way(a)' = Append(Way(a), news)
            /\ sent /\ moved => Way(a)' = Append(Append(Way(a), batch), news)
            /\ sent => batch \in Entries(outbox'[a])
<1> DEFINE batch == InputBatch(focus_epoch, last_sent[a] + 1, events)
           news == FocusChanged(focus_epoch', focus', position')
           sent == events # <<>> /\ a = focus
           moved == focus_epoch' # focus_epoch
           before == down[peers[a]]
<1>1. batch \in Messages /\ news \in Messages
  BY DEF InputBatch, FocusChanged, Messages, InputMessages, FocusMessages, SessionType, PathType
<1>2. before \in Seq(Messages)
  BY WayType
<1>3. outbox[a] = <<>> /\ outbox'[a] = Sending(a, events) \o News(a)
  BY DEF Sends, NoMessages
<1>4. Way(a) = before
  BY <1>2, <1>3, JoinEmpty DEF Way
<1>5. Way(a)' = before \o outbox'[a]
  BY DEF Way
<1>6. /\ Sending(a, events) = IF sent THEN <<batch>> ELSE <<>>
      /\ News(a) = IF moved THEN <<news>> ELSE <<>>
  BY DEF Sending, News
<1> HIDE DEF batch, news, sent, moved, before
<1>7. <<>> \in Seq(Messages) /\ <<batch>> \in Seq(Messages) /\ <<news>> \in Seq(Messages)
  BY <1>1
<1>8. CASE ~sent /\ ~moved
  <2>1. outbox'[a] = <<>>
    BY <1>3, <1>6, <1>7, <1>8, JoinEmpty
  <2> QED
    BY <1>1, <1>2, <1>3, <1>4, <1>5, <1>8, <2>1, JoinEmpty DEF batch, news, sent, moved
<1>9. CASE sent /\ ~moved
  <2>1. outbox'[a] = <<batch>>
    BY <1>3, <1>6, <1>7, <1>9, JoinEmpty
  <2>2. Way(a)' = Append(Way(a), batch)
    BY <1>1, <1>2, <1>4, <1>5, <2>1
  <2>3. batch \in Entries(outbox'[a])
    BY <2>1 DEF Entries
  <2> QED
    BY <1>1, <1>3, <1>9, <2>2, <2>3 DEF batch, news, sent, moved
<1>10. CASE ~sent /\ moved
  <2>1. outbox'[a] = <<news>>
    BY <1>3, <1>6, <1>7, <1>10, JoinEmpty
  <2>2. Way(a)' = Append(Way(a), news)
    BY <1>1, <1>2, <1>4, <1>5, <2>1
  <2> QED
    BY <1>1, <1>3, <1>10, <2>2 DEF batch, news, sent, moved
<1>11. CASE sent /\ moved
  <2>1. outbox'[a] = <<batch>> \o <<news>>
    BY <1>3, <1>6, <1>11
  <2>2. before \o (<<batch>> \o <<news>>) = (before \o <<batch>>) \o <<news>>
    BY <1>2, <1>7
  <2>3. before \o <<batch>> = Append(before, batch) /\ Append(before, batch) \in Seq(Messages)
    BY <1>1, <1>2, AppendQueue
  <2>4. Append(before, batch) \o <<news>> = Append(Append(before, batch), news)
    BY <1>1, <2>3
  <2>5. Way(a)' = Append(Append(Way(a), batch), news)
    BY <1>4, <1>5, <2>1, <2>2, <2>3, <2>4
  <2>6. batch \in Entries(outbox'[a])
    <3>1. Entries(<<batch>> \o <<news>>) = Entries(<<batch>>) \cup Entries(<<news>>)
      BY <1>7, JoinQueues, ZenonT(60)
    <3>2. batch \in Entries(<<batch>>)
      BY DEF Entries
    <3> QED
      BY <2>1, <3>1, <3>2
  <2> QED
    BY <1>1, <1>3, <1>11, <2>5, <2>6 DEF batch, news, sent, moved
<1> QED
  BY <1>8, <1>9, <1>10, <1>11 DEF batch, news, sent, moved

(* Nothing else changes it but the agent taking its first message.         *)
LEMMA WayKept ==
  ASSUME PathType, Connected, SteadyStep, NEW a \in Agents,
         \/ ApplyControllerActions /\ TakeActions
         \/ \E s \in Sessions : IgnoreNetworkEvent(s) \/ Acknowledged(s)
         \/ ReceiveApplied(a) \/ Inject(a) \/ ApplyAgentAction(a)
         \/ \E b \in Agents : b # a /\ AgentStep(b)
         \/ UNCHANGED pathVars
  PROVE  Way(a)' = Way(a)
<1>0. UNCHANGED peers
  BY SteadyFrame
<1>1. ASSUME UNCHANGED <<down, outbox>> PROVE Way(a)' = Way(a)
  BY <1>0, <1>1 DEF Way
<1>2. CASE ApplyControllerActions /\ TakeActions
  <2>1. /\ down' = [s \in Sessions |->
             IF alive[s] /\ peers[owner[s]] = s THEN down[s] \o outbox[owner[s]] ELSE down[s]]
        /\ outbox' = NoMessages
    BY <1>2 DEF ApplyControllerActions, TakeActions, Fail, NoMessages
  <2>2. peers[a] \in Sessions /\ owner[peers[a]] = a /\ alive[peers[a]]
    BY DEF Connected
  <2>3. down'[peers[a]] = Way(a) /\ outbox'[a] = <<>>
    BY <2>1, <2>2 DEF Way, NoMessages
  <2>4. Way(a)' = Way(a) \o <<>>
    BY <1>0, <2>3 DEF Way
  <2> QED
    BY <2>4, WayType, JoinEmpty
<1>3. ASSUME NEW s \in Sessions, IgnoreNetworkEvent(s) \/ Acknowledged(s)
      PROVE  UNCHANGED <<down, outbox>>
  BY <1>3 DEF IgnoreNetworkEvent, Acknowledged, Acknowledge, Fail, controllerVars, vars
<1>4. ASSUME NEW b \in Agents, ReceiveApplied(b) \/ Inject(b) \/ ApplyAgentAction(b)
      PROVE  UNCHANGED <<down, outbox>>
  BY <1>4 DEF ReceiveApplied, Inject, ApplyAgentAction, controllerVars, vars, connectionVars
<1>5. ASSUME NEW b \in Agents, b # a, ReceiveFocus(b) \/ ReceiveInput(b)
      PROVE  Way(a)' = Way(a)
  <2>1. /\ peers[b] \in Sessions /\ peers[a] \in Sessions /\ peers[a] # peers[b]
        /\ connection[b] = peers[b]
    BY <1>5 DEF Connected
  <2>2. down[peers[b]] # <<>> /\ down' = Pop(down, peers[b]) /\ UNCHANGED outbox
    BY <1>5, <2>1, TakenMessage DEF ReceiveFocus, ReceiveInput, PathType, controllerVars, vars
  <2>3. down'[peers[a]] = down[peers[a]]
    BY <2>1, <2>2, DownQueues DEF PathType
  <2> QED
    BY <1>0, <2>2, <2>3 DEF Way
<1>6. UNCHANGED pathVars => UNCHANGED <<down, outbox>>
  BY DEF pathVars, controllerVars, vars, connectionVars
<1> QED
  BY <1>1, <1>2, <1>3, <1>4, <1>5, <1>6 DEF AgentStep

LEMMA WayTaken ==
  ASSUME PathType, Connected, NEW a \in Agents, NEW type, TakeMessage(a, type),
         UNCHANGED <<peers, outbox>>
  PROVE  /\ Way(a) # <<>> /\ Head(Way(a)) = Head(down[connection[a]])
         /\ Head(Way(a)).type = type /\ Head(Way(a)) \in Messages
         /\ Head(Way(a)) \in Entries(Way(a))
         /\ Way(a)' = Tail(Way(a))
         /\ actions[a] = <<>> /\ agent_error[a] = "none" /\ ~application_pending[a]
<1>1. /\ down[connection[a]] # <<>> /\ Head(down[connection[a]]).type = type
      /\ down' = Pop(down, connection[a]) /\ connection[a] \in Sessions
      /\ Running(a) /\ ~application_pending[a]
  BY TakenMessage DEF PathType
<1>2. connection[a] = peers[a]
  BY DEF Connected
<1>3. down'[peers[a]] = Tail(down[peers[a]])
  BY <1>1, <1>2, DownQueues DEF PathType
<1>4. /\ Head(Way(a)) = Head(down[peers[a]]) /\ Way(a) # <<>>
      /\ Tail(Way(a)) = Tail(down[peers[a]]) \o outbox[a]
  <2>1. /\ down[peers[a]] \in Seq(Messages) /\ outbox[a] \in Seq(Messages)
        /\ down[peers[a]] # <<>>
    BY <1>1, <1>2, WayType
  <2> DEFINE p == down[peers[a]]
             q == outbox[a]
  <2>2. Way(a) = p \o q
    BY DEF Way
  <2> HIDE DEF p, q
  <2>3. Head(p \o q) = Head(p) /\ Tail(p \o q) = Tail(p) \o q /\ p \o q # <<>>
    BY <2>1, JoinTail DEF p, q
  <2> QED
    BY <2>2, <2>3 DEF p, q
<1>5. Way(a)' = Tail(Way(a))
  BY <1>3, <1>4 DEF Way
<1>6. Head(Way(a)) \in Messages /\ Head(Way(a)) \in Entries(Way(a))
  BY <1>4, WayType, TailQueue
<1> QED
  BY <1>1, <1>2, <1>4, <1>5, <1>6, RunningAgent DEF PathType

-----------------------------------------------------------------------------
(* What an agent's step does, with what is known of what it takes: no step *)
(* fails.                                                                  *)

LEMMA FollowFacts ==
  ASSUME PathType, Connected, NEW a \in Agents, FollowInv(a)
  PROVE  /\ Way(a) \in Seq(Messages)
         /\ highest_focus_epoch[a] \in Nat /\ focus_epoch \in Nat
         /\ highest_focus_epoch[a] <= focus_epoch
         /\ Follows(Way(a), highest_focus_epoch[a], focus_epoch)
BY WayType, SMTT(60) DEF PathType, AgentType, SessionType, FollowInv

LEMMA FocusEffect ==
  ASSUME PathType, Connected, NEW a \in Agents, FollowInv(a), InFlightInv(a), ReceiveFocus(a)
  PROVE  LET message == Head(Way(a))
         IN /\ Way(a) # <<>> /\ message \in Messages /\ message \in Entries(Way(a))
            /\ message.type = "FocusChanged"
            /\ Way(a)' = Tail(Way(a))
            /\ actions[a] = <<>> /\ ~application_pending[a]
            /\ highest_focus_epoch'[a] = message.epoch /\ last_focus'[a].epoch = message.epoch
            /\ active_focus_epoch'[a] = IF message.target = a THEN message.epoch ELSE None
            /\ \A action \in Entries(actions'[a]) : action.type \in {"ReleaseAllInput", "FocusEntered"}
            /\ UNCHANGED <<last_applied_sequence, pending_batch, application_pending,
                           commands, native_events, injected, up, agent_error>>
<1> DEFINE message == Head(Way(a))
           focused == [epoch |-> message.epoch, target |-> message.target,
                       entry |-> message.entry]
<1>1. /\ TakeMessage(a, "FocusChanged")
      /\ UNCHANGED <<peers, outbox, application_pending, commands, native_events, injected, up>>
  BY DEF ReceiveFocus, controllerVars, runtimeVars, vars, nativeVars, historyVars
<1>2. /\ Way(a) # <<>> /\ message = Head(down[connection[a]])
      /\ message.type = "FocusChanged" /\ message \in Messages /\ message \in Entries(Way(a))
      /\ Way(a)' = Tail(Way(a)) /\ actions[a] = <<>> /\ ~application_pending[a]
  BY <1>1, WayTaken
<1>3. FollowFocus(a, focused)
  BY <1>2 DEF ReceiveFocus
<1>4. message.epoch > highest_focus_epoch[a]
  <2>1. highest_focus_epoch[a] < message.epoch
    BY <1>2, FollowFacts, FollowsTaken
  <2> QED
    BY <1>2, <2>1, FollowFacts, MessageEpoch
<1>5. ~IsPending(a) /\ (message.target = a => message.entry < display_size[a])
  BY <1>2 DEF InFlightInv, FollowInv, Welcome, Connected
<1>6. message.epoch \in Nat /\ message.entry \in Nat /\ highest_focus_epoch[a] \in Nat
      /\ display_size[a] \in Nat
  <2>1. message \in FocusMessages
    BY <1>2 DEF Messages, InputMessages
  <2> QED
    BY <2>1, FollowFacts, SizesAssumption DEF FocusMessages, Positions, PathType, AgentType
<1> HIDE DEF message
<1>7. ~FocusError(a, focused)
  BY <1>4, <1>5, <1>6 DEF FocusError
<1>8. ~(focused.epoch < highest_focus_epoch[a]) /\ focused # last_focus[a]
  BY <1>4, <1>6 DEF FollowInv
<1>9. /\ highest_focus_epoch' = [highest_focus_epoch EXCEPT ![a] = focused.epoch]
      /\ last_focus' = [last_focus EXCEPT ![a] = focused]
      /\ active_focus_epoch' = [active_focus_epoch EXCEPT ![a] = OwnEpoch(a, focused)]
      /\ Return(a, ReleaseIfActive(a) \o
                   (IF focused.target = a THEN <<FocusEntered>> ELSE <<>>))
      /\ UNCHANGED <<last_applied_sequence, pending_batch, agent_error>>
  BY <1>3, <1>7, <1>8 DEF FollowFocus, deliveryVars
<1>10. /\ highest_focus_epoch'[a] = message.epoch /\ last_focus'[a].epoch = message.epoch
       /\ active_focus_epoch'[a] = IF message.target = a THEN message.epoch ELSE None
  BY <1>9 DEF OwnEpoch, PathType, AgentType
<1>11. \A action \in Entries(actions'[a]) : action.type \in {"ReleaseAllInput", "FocusEntered"}
  <2>1. actions'[a] = ReleaseIfActive(a) \o
                        (IF focused.target = a THEN <<FocusEntered>> ELSE <<>>)
    BY <1>9 DEF Return, PathType, AgentType
  <2>2. ReleaseIfActive(a) \in {<<>>, <<ReleaseAllInput>>}
    BY DEF ReleaseIfActive
  <2>3. \/ actions'[a] = <<>> \o <<>>
        \/ actions'[a] = <<>> \o <<FocusEntered>>
        \/ actions'[a] = <<ReleaseAllInput>> \o <<>>
        \/ actions'[a] = <<ReleaseAllInput>> \o <<FocusEntered>>
    BY <2>1, <2>2
  <2>4. ReleaseAllInput.type = "ReleaseAllInput" /\ FocusEntered.type = "FocusEntered"
    BY DEF ReleaseAllInput, FocusEntered
  <2> QED
    BY <2>3, <2>4 DEF Entries
<1> QED
  BY <1>1, <1>2, <1>9, <1>10, <1>11 DEF message

LEMMA InputEffect ==
  ASSUME PathType, Connected, NEW a \in Agents, FollowInv(a), InFlightInv(a), ReceiveInput(a)
  PROVE  LET message == Head(Way(a))
             batch == [epoch |-> message.epoch, sequence |-> message.sequence,
                       events |-> message.events]
         IN /\ Way(a) # <<>> /\ message \in Messages /\ message.type = "Input"
            /\ Way(a)' = Tail(Way(a))
            /\ actions[a] = <<>> /\ ~application_pending[a]
            /\ batch \in Batch /\ Good(a, batch) /\ batch.epoch = highest_focus_epoch[a]
            /\ batch.sequence = last_sent[a] /\ last_sent[a] = last_applied_sequence[a] + 1
            /\ pending_batch'[a] = batch /\ application_pending'[a]
            /\ actions'[a] = <<ApplyInput(batch)>>
            /\ UNCHANGED <<highest_focus_epoch, last_focus, active_focus_epoch,
                           last_applied_sequence, commands, native_events, injected, up,
                           agent_error>>
<1> DEFINE message == Head(Way(a))
           batch == [epoch |-> message.epoch, sequence |-> message.sequence,
                     events |-> message.events]
<1>1. /\ TakeMessage(a, "Input")
      /\ UNCHANGED <<peers, outbox, commands, native_events, injected, up>>
      /\ application_pending' = [application_pending EXCEPT ![a] =
           \E i \in 1 .. Len(actions'[a]) : actions'[a][i].type = "ApplyInput"]
  BY DEF ReceiveInput, controllerVars, runtimeVars, vars, nativeVars, historyVars
<1>2. /\ Way(a) # <<>> /\ message = Head(down[connection[a]])
      /\ message.type = "Input" /\ message \in Messages /\ message \in Entries(Way(a))
      /\ Way(a)' = Tail(Way(a)) /\ actions[a] = <<>> /\ ~application_pending[a]
  BY <1>1, WayTaken
<1>3. ReceiveBatch(a, batch)
  BY <1>2 DEF ReceiveInput
<1>4. message.epoch = highest_focus_epoch[a]
  BY <1>2, FollowFacts, FollowsTaken
<1>5. Good(a, message)
  BY <1>2 DEF FollowInv, Welcome
<1>6. message.sequence = last_sent[a] /\ last_sent[a] = last_applied_sequence[a] + 1
  <2>1. 1 \in 1 .. Len(Way(a)) /\ Way(a)[1] = message
    BY <1>2, FollowFacts
  <2> QED
    BY <1>2, <2>1 DEF InFlightInv, OneInput, HasInput
<1>7. batch \in Batch
  BY <1>2 DEF Messages, InputMessages, FocusMessages, Batch
<1>8. last_applied_sequence[a] \in Nat /\ highest_focus_epoch[a] \in Nat
  BY DEF PathType, AgentType
<1> HIDE DEF message
<1>9. Good(a, batch)
  BY <1>5 DEF Good
<1>10. ValidBatch(batch) /\ Acceptable(a, batch) /\ IsNext(a, batch)
  <2>1. ValidBatch(batch)
    BY <1>9 DEF Good, ValidBatch
  <2>2. active_focus_epoch[a] = batch.epoch /\ ~IsPending(a)
    BY <1>2, <1>4, <1>9 DEF Good, Known, FollowInv, InFlightInv
  <2> QED
    BY <1>6, <2>1, <2>2 DEF Acceptable, IsNext
<1> HIDE DEF batch
<1>11. ~InputError(a, batch) /\ ~(batch.sequence <= last_applied_sequence[a])
  <2>1. batch.epoch = highest_focus_epoch[a] /\ batch.sequence = last_applied_sequence[a] + 1
    BY <1>4, <1>6 DEF batch
  <2> QED
    BY <1>8, <1>10, <2>1 DEF InputError, Acceptable
<1>12. /\ pending_batch' = [pending_batch EXCEPT ![a] = batch]
       /\ Return(a, <<ApplyInput(batch)>>)
       /\ UNCHANGED <<highest_focus_epoch, last_focus, active_focus_epoch,
                      last_applied_sequence, agent_error>>
  BY <1>3, <1>11 DEF ReceiveBatch, focusVars
<1>13. pending_batch'[a] = batch /\ actions'[a] = <<ApplyInput(batch)>>
  BY <1>12 DEF Return, PathType, AgentType
<1>14. application_pending'[a]
  <2>1. Len(actions'[a]) = 1 /\ actions'[a][1].type = "ApplyInput" /\ 1 \in 1 .. 1
    BY <1>13 DEF ApplyInput
  <2>2. \E i \in 1 .. Len(actions'[a]) : actions'[a][i].type = "ApplyInput"
    BY <2>1
  <2> QED
    BY <1>1, <2>2 DEF PathType, AgentType
<1>15. batch.epoch = highest_focus_epoch[a] /\ batch.sequence = last_sent[a]
  BY <1>4, <1>6 DEF batch
<1> QED
  BY <1>1, <1>2, <1>6, <1>7, <1>9, <1>12, <1>13, <1>14, <1>15 DEF batch, message

LEMMA AppliedEffect ==
  ASSUME PathType, Connected, NEW a \in Agents, InFlightInv(a), ApplicationInv(a),
         ReceiveApplied(a)
  PROVE  /\ application_pending[a] /\ actions[a] = <<>> /\ commands[a] = <<>>
         /\ last_applied_sequence'[a] = last_sent[a]
         /\ last_sent[a] = last_applied_sequence[a] + 1
         /\ pending_batch'[a] = NoBatch /\ ~application_pending'[a]
         /\ actions'[a] = <<SendAck(last_sent[a])>>
         /\ native_events'[a] = <<>>
         /\ UNCHANGED <<highest_focus_epoch, last_focus, active_focus_epoch, commands, injected,
                        up, agent_error>>
<1> DEFINE sequence == pending_batch[a].sequence
<1>1. /\ Running(a) /\ native_events[a] # <<>> /\ native_events' = Pop(native_events, a)
      /\ UNCHANGED <<commands, injected, up>>
  BY DEF ReceiveApplied, IsNextIn, connectionVars, historyVars
<1>2. /\ application_pending[a] /\ actions[a] = <<>> /\ commands[a] = <<>>
      /\ native_events[a] = <<Applied(peers[a], sequence)>>
  BY <1>1 DEF ApplicationInv, Done
<1>3. Head(native_events[a]) = Applied(peers[a], sequence)
  BY <1>2
<1>4. /\ Head(native_events[a]).generation = connection[a]
      /\ Head(native_events[a]).sequence = sequence
  BY <1>3 DEF Applied, Connected
<1>5. /\ application_pending' = [application_pending EXCEPT ![a] = FALSE]
      /\ ConfirmApplied(a, sequence)
  BY <1>4 DEF ReceiveApplied
<1>6. ~closed[a] /\ IsPending(a) /\ sequence = last_sent[a]
      /\ last_sent[a] = last_applied_sequence[a] + 1
  BY <1>2 DEF Connected, InFlightInv
<1>7. ~ConfirmError(a, sequence)
  BY <1>6 DEF ConfirmError
<1>8. /\ last_applied_sequence' = [last_applied_sequence EXCEPT ![a] = sequence]
      /\ pending_batch' = [pending_batch EXCEPT ![a] = NoBatch]
      /\ Return(a, <<SendAck(sequence)>>)
      /\ UNCHANGED <<highest_focus_epoch, last_focus, active_focus_epoch, agent_error>>
  BY <1>5, <1>7 DEF ConfirmApplied, focusVars
<1>9. native_events'[a] = <<>>
  <2>1. native_events'[a] = Tail(native_events[a])
    BY <1>1, NativeQueues DEF PathType
  <2> QED
    BY <1>2, <2>1
<1> HIDE DEF sequence
<1> QED
  BY <1>1, <1>2, <1>5, <1>6, <1>8, <1>9 DEF Return, PathType, AgentType

LEMMA ActionEffect ==
  ASSUME PathType, Connected, NEW a \in Agents, ApplyAgentAction(a), TakeAction(a)
  PROVE  /\ actions[a] # <<>> /\ Head(actions[a]) \in Action
         /\ Head(actions[a]) \in Entries(actions[a])
         /\ actions'[a] = Tail(actions[a])
         /\ UNCHANGED <<highest_focus_epoch, last_focus, active_focus_epoch,
                        last_applied_sequence, pending_batch, application_pending,
                        native_events, injected, agent_error>>
         /\ \/ /\ Head(actions[a]).type = "ApplyInput"
               /\ ApplyBatch(peers[a], Head(actions[a]).batch) \in Command
               /\ commands'[a] = Append(commands[a], ApplyBatch(peers[a], Head(actions[a]).batch))
            \/ /\ ReleaseAll(peers[a]) \in Command
               /\ commands'[a] = Append(commands[a], ReleaseAll(peers[a]))
               /\ Head(actions[a]).type # "ApplyInput"
            \/ commands'[a] = commands[a] /\ Head(actions[a]).type # "ApplyInput"
<1> DEFINE action == Head(actions[a])
<1>1. /\ actions[a] # <<>> /\ action \in Action /\ action \in Entries(actions[a])
      /\ connection[a] = peers[a] /\ peers[a] \in Sessions
      /\ UNCHANGED <<application_pending, native_events, injected>>
  BY TakenAction, TailQueue
     DEF ApplyAgentAction, PathType, AgentType, Connected, historyVars
<1>2. /\ actions'[a] = Tail(actions[a])
      /\ UNCHANGED <<highest_focus_epoch, last_focus, active_focus_epoch,
                     last_applied_sequence, pending_batch, agent_error>>
  BY DEF TakeAction, Return, focusVars, deliveryVars, PathType, AgentType
<1>3. CASE commands' = commands /\ action.type # "ApplyInput"
  BY <1>1, <1>2, <1>3
<1>4. CASE /\ action.type = "ApplyInput"
           /\ commands' = Put(commands, a, ApplyBatch(peers[a], action.batch))
  <2>1. ApplyBatch(peers[a], action.batch) \in Command
    BY <1>1, <1>4, ActionFacts, CommandTypes
  <2> QED
    BY <1>1, <1>2, <1>4, <2>1, CommandQueues DEF PathType
<1>5. CASE /\ action.type = "ReleaseAllInput"
           /\ commands' = Put(commands, a, ReleaseAll(peers[a]))
  <2>1. ReleaseAll(peers[a]) \in Command
    BY <1>1, CommandTypes
  <2> QED
    BY <1>1, <1>2, <1>5, <2>1, CommandQueues DEF PathType
<1> QED
  BY <1>1, <1>3, <1>4, <1>5 DEF ApplyAgentAction, SendFails, Connected

-----------------------------------------------------------------------------
(* What the controller puts on the way.                                    *)

Silent == UNCHANGED <<focus, focus_epoch, outbox, last_sent, last_acknowledged>>

LEMMA CalledSends ==
  ASSUME PathType, SessionCalled
  PROVE  outbox = NoMessages /\ (Silent \/ \E events \in Seq(InputEvents) : Sends(events))
<1> DEFINE Goal == outbox = NoMessages /\ (Silent \/ \E events \in Seq(InputEvents) : Sends(events))
<1>0. SessionType /\ <<>> \in Seq(InputEvents)
  BY DEF PathType
<1>1. ASSUME NEW target \in Nodes, NEW entry, ChangeFocus(target, entry), outbox = NoMessages,
             UNCHANGED captured
      PROVE  Goal
  <2>1. CASE UNCHANGED <<focusState, buffer, deliveries, outbox, release>>
    BY <1>1, <2>1 DEF Silent, focusState, deliveries
  <2>2. CASE ~ UNCHANGED <<focusState, buffer, deliveries, outbox, release>>
    <3>1. focus_epoch' # focus_epoch
      BY <1>0, <1>1, <2>2 DEF ChangeFocus, Announce, SessionType
    <3>2. ~NothingSent
      BY <3>1 DEF NothingSent
    <3> QED
      BY <1>0, <1>1, <3>2, ChangeFocusSends
  <2> QED
    BY <2>1, <2>2
<1>2. ASSUME NEW event \in InputEvents, NEW to, RouteEvent(event, to),
             error' = error => NewEvent(event)
      PROVE  Goal
  <2>1. outbox = NoMessages
    BY <1>2 DEF RouteEvent, Idle
  <2>2. CASE error' = error
    BY <1>0, <1>2, <2>1, <2>2, RouteEventSends
  <2>3. CASE error' # error
    BY <1>2, <2>1, <2>3 DEF RouteEvent, deliveries, Silent
  <2> QED
    BY <2>2, <2>3
<1>3. CASE RouteKey
  <2> DEFINE event == KeyEvent(captured + 1, focus_epoch)
  <2>1. event \in InputEvents /\ event.epoch = focus_epoch /\ event.key = captured + 1
    BY <1>0, KeyType DEF SessionType, KeyEvent
  <2>2. RouteEvent(event, position)
        /\ captured' = IF error' = error THEN captured + 1 ELSE captured
    BY <1>3 DEF RouteKey
  <2> HIDE DEF event
  <2>3. error' = error => NewEvent(event)
    BY <2>1, <2>2 DEF NewEvent
  <2> QED
    BY <1>2, <2>1, <2>2, <2>3
<1>4. ASSUME NEW to \in 0 .. screens[focus] - 1, Moved(to) PROVE Goal
  <2> DEFINE event == MotionEvent(focus_epoch)
  <2>1. event \in InputEvents /\ NewEvent(event)
    BY <1>0, <1>4, MotionType DEF SessionType, MotionEvent, NewEvent, Moved, RouteMotion
  <2>2. RouteEvent(event, to)
    BY <1>4 DEF Moved, RouteMotion
  <2> HIDE DEF event
  <2> QED
    BY <1>2, <2>1, <2>2
<1>5. ASSUME NEW target \in Agents, NEW entry, Activated(target, entry) PROVE Goal
  <2>1. outbox = NoMessages /\ target \in Nodes
    BY <1>5 DEF Activated, Activate, Idle, Agents
  <2>2. CASE FailStranded
    BY <1>0, <2>1, <2>2, StrandedSends
  <2> QED
    BY <1>1, <1>5, <2>1, <2>2 DEF Activated, Activate
<1>6. ASSUME NEW target \in Nodes, NEW entry, RouteCrossing(target, entry) PROVE Goal
  BY <1>1, <1>6 DEF RouteCrossing, Idle
<1>7. CASE Captured
  BY <1>3, <1>4, <1>5, <1>6, <1>7 DEF Captured
<1>8. CASE EndTick
  <2>1. outbox = NoMessages
    BY <1>8 DEF EndTick, Idle
  <2>2. CASE UNCHANGED vars
    BY <2>1, <2>2 DEF vars, focusState, deliveries, Silent
  <2> QED
    BY <1>0, <1>8, <2>1, <2>2, FlushSends DEF EndTick
<1>9. CASE ReturnLocal
  BY <1>0, <1>9, ReturnToLocalSends DEF ReturnLocal, ReturnToLocal, Idle
<1> QED
  BY <1>7, <1>8, <1>9 DEF SessionCalled

(* Good and Welcome after a step, and FollowInv with them.                 *)
GoodNow(a, batch) ==
  /\ batch.events # <<>> /\ Len(batch.events) <= MaxBatch
  /\ InEpoch(batch.events, batch.epoch)
  /\ KnownNow(batch.epoch, a)

WelcomeNow(a, message) ==
  /\ message.type = "Input" => GoodNow(a, message)
  /\ message.type = "FocusChanged" =>
       /\ KnownNow(message.epoch, message.target)
       /\ message.target = a => message.entry < screens'[a]

LEMMA StillGood ==
  ASSUME PathType, FocusInv, Connected, SteadyStep, [SteadyNext]_pathVars, NEW a \in Agents
  PROVE  /\ \A batch : Good(a, batch) => GoodNow(a, batch)
         /\ \A message : Welcome(a, message) => WelcomeNow(a, message)
<1>1. \A epoch, target : Known(epoch, target) => KnownNow(epoch, target)
  BY SteadyIsPath, FocusIsRecorded
<1>2. UNCHANGED screens
  BY SteadyFrame
<1> QED
  BY <1>1, <1>2 DEF Good, GoodNow, Welcome, WelcomeNow

LEMMA SentFits ==
  ASSUME SessionInv, NEW events \in Seq(InputEvents), Sends(events)
  PROVE  Len(events) <= MaxBatch
<1>1. events = <<>> \/ events = buffer \/ Fits(events)
  BY DEF Sends
<1>2. CASE events = <<>>
  BY <1>2, BatchAssumption
<1> QED
  BY <1>1, <1>2 DEF SessionInv, Fits

(* What a call sends follows what is on the way, and is welcome.           *)
LEMMA FollowSent ==
  ASSUME PathType, FocusInv, Connected, SessionInv, SessionInv', SteadyStep,
         [SteadyNext]_pathVars, SessionType', UNCHANGED down,
         NEW events \in Seq(InputEvents), Sends(events), NEW a \in Agents, FollowInv(a)
  PROVE  /\ Follows(Way(a)', highest_focus_epoch[a], focus_epoch')
         /\ \A message \in Entries(Way(a)') : WelcomeNow(a, message)
<1> DEFINE batch == InputBatch(focus_epoch, last_sent[a] + 1, events)
           news == FocusChanged(focus_epoch', focus', position')
           sent == events # <<>> /\ a = focus
           moved == focus_epoch' # focus_epoch
           from == highest_focus_epoch[a]
           Welcomed(list) == \A message \in Entries(list) : WelcomeNow(a, message)
<1>1. /\ batch \in Messages /\ news \in Messages
      /\ ~sent /\ ~moved => Way(a)' = Way(a)
      /\ sent /\ ~moved => Way(a)' = Append(Way(a), batch)
      /\ ~sent /\ moved => Way(a)' = Append(Way(a), news)
      /\ sent /\ moved => Way(a)' = Append(Append(Way(a), batch), news)
      /\ sent => batch \in Entries(outbox'[a])
  BY SteadyFrame, WaySent
<1>2. /\ Way(a) \in Seq(Messages) /\ from \in Nat /\ focus_epoch \in Nat
      /\ Follows(Way(a), from, focus_epoch)
  BY FollowFacts
<1>3. focus_epoch' \in Nat /\ (moved => focus_epoch' = focus_epoch + 1)
  BY DEF Sends, SessionType
<1>4. batch.type = "Input" /\ batch.epoch = focus_epoch
      /\ news.type = "FocusChanged" /\ news.epoch = focus_epoch'
  BY DEF InputBatch, FocusChanged
<1>5. Welcomed(Way(a))
  BY StillGood DEF FollowInv
<1>6. sent => WelcomeNow(a, batch)
  <2> SUFFICES ASSUME sent PROVE GoodNow(a, batch)
    BY <1>4 DEF WelcomeNow
  <2>1. KnownNow(focus_epoch, a)
    <3>1. Known(focus_epoch, focus)
      BY <1>2 DEF Known, FocusInv
    <3> QED
      BY <3>1, SteadyIsPath, FocusIsRecorded
  <2>2. InEpoch(batch.events, batch.epoch)
    <3>1. Tagged(batch)
      BY <1>1 DEF SessionInv, EpochInv, AllTagged
    <3> QED
      BY <1>4, <3>1 DEF Tagged, InEpoch
  <2>3. batch.events = events
    BY DEF InputBatch
  <2> QED
    BY <1>4, <2>1, <2>2, <2>3, SentFits DEF GoodNow
<1>7. WelcomeNow(a, news)
  <2>1. KnownNow(focus_epoch', focus')
    BY SteadyIsPath, FocusIsRecorded
  <2>2. focus' = a => position' < screens'[a]
    BY DEF SessionInv, PointerOnFocusedDesktop
  <2> QED
    BY <2>1, <2>2 DEF WelcomeNow, FocusChanged
<1> HIDE DEF batch, news, sent, moved, from
<1>8. ASSUME NEW list \in Seq(Messages), NEW m \in Messages, Welcomed(list), WelcomeNow(a, m)
      PROVE  Append(list, m) \in Seq(Messages) /\ Welcomed(Append(list, m))
  BY <1>8, AppendQueue
<1>9. sent => /\ Append(Way(a), batch) \in Seq(Messages)
              /\ Follows(Append(Way(a), batch), from, focus_epoch)
              /\ Welcomed(Append(Way(a), batch))
  BY <1>1, <1>2, <1>4, <1>5, <1>6, <1>8, FollowsNext
<1>10. ASSUME NEW list \in Seq(Messages), Follows(list, from, focus_epoch), Welcomed(list), moved
       PROVE  Follows(Append(list, news), from, focus_epoch') /\ Welcomed(Append(list, news))
  BY <1>1, <1>2, <1>3, <1>4, <1>7, <1>8, <1>10, FollowsNext
<1> HIDE DEF Welcomed
<1>11. ~moved => focus_epoch' = focus_epoch
  BY DEF moved
<1>12. Follows(Way(a)', from, focus_epoch') /\ Welcomed(Way(a)')
  <2>1. CASE ~moved
    BY <1>1, <1>2, <1>5, <1>9, <1>11, <2>1
  <2>2. CASE moved
    BY <1>1, <1>2, <1>5, <1>9, <1>10, <2>2
  <2> QED
    BY <2>1, <2>2
<1> QED
  BY <1>12 DEF Welcomed, from

LEMMA FocusEpochKept ==
  ASSUME \/ ApplyControllerActions /\ TakeActions
         \/ \E s \in Sessions : IgnoreNetworkEvent(s) \/ Acknowledged(s)
         \/ \E a \in Agents : AgentStep(a)
         \/ UNCHANGED pathVars
  PROVE  UNCHANGED <<focus_epoch, last_sent>>
BY DEF TakeActions, IgnoreNetworkEvent, Acknowledged, Acknowledge, Fail, AgentStep, ReceiveFocus,
       ReceiveInput, ReceiveApplied, Inject, ApplyAgentAction, pathVars, controllerVars, vars,
       focusState, deliveries

(* The calls of one agent's session do not touch another's.                *)
LEMMA SessionKept ==
  ASSUME PathType, NEW a \in Agents,
         \/ SessionCalled
         \/ ApplyControllerActions /\ TakeActions
         \/ \E s \in Sessions : IgnoreNetworkEvent(s) \/ Acknowledged(s)
         \/ \E b \in Agents : b # a /\ AgentStep(b)
         \/ UNCHANGED pathVars
  PROVE  UNCHANGED LocalTo(a)
<1>1. ASSUME UNCHANGED <<agentVars, nativeVars, injected>> PROVE UNCHANGED LocalTo(a)
  BY <1>1 DEF agentVars, agentSessions, focusVars, deliveryVars, nativeVars, LocalTo,
       SessionOf, RuntimeOf, ServiceOf
<1>2. SessionCalled => UNCHANGED <<agentVars, nativeVars, injected>>
  BY DEF SessionCalled, Captured, EndTick, ReturnLocal, historyVars
<1>3. ApplyControllerActions => UNCHANGED <<agentVars, nativeVars, injected>>
  BY DEF ApplyControllerActions, historyVars
<1>4. ASSUME NEW s \in Sessions, IgnoreNetworkEvent(s) \/ Acknowledged(s)
      PROVE  UNCHANGED <<agentVars, nativeVars, injected>>
  BY <1>4 DEF IgnoreNetworkEvent, Acknowledged, historyVars
<1>5. ASSUME NEW b \in Agents, b # a, AgentStep(b) PROVE UNCHANGED LocalTo(a)
  <2>1. AgentNext(b)
    BY <1>5 DEF AgentStep, AgentNext
  <2> QED
    BY <1>5, <2>1, OtherAgents
<1>6. UNCHANGED pathVars => UNCHANGED <<agentVars, nativeVars, injected>>
  BY DEF pathVars, historyVars
<1> QED
  BY <1>1, <1>2, <1>3, <1>4, <1>5, <1>6

LEMMA FollowInvStep ==
  ASSUME PathType, FocusInv, Connected, SessionInv, SessionInv', SteadyStep,
         [SteadyNext]_pathVars, SessionType', NEW a \in Agents, FollowInv(a), InFlightInv(a),
         ApplicationInv(a)
  PROVE  FollowInv(a)'
<1> DEFINE Focusing == /\ highest_focus_epoch'[a] \in 0 .. focus_epoch'
                       /\ last_focus'[a].epoch = highest_focus_epoch'[a]
                       /\ active_focus_epoch'[a] = IF focused_in'[highest_focus_epoch'[a]] = a
                                                   THEN highest_focus_epoch'[a] ELSE None
           Coming == /\ Follows(Way(a)', highest_focus_epoch'[a], focus_epoch')
                     /\ \A message \in Entries(Way(a)') : WelcomeNow(a, message)
<1>1. Focusing /\ Coming => FollowInv(a)'
  BY DEF FollowInv, Welcome, WelcomeNow, Good, GoodNow, Known, KnownNow
<1>2. ASSUME NEW epoch, NEW target, Known(epoch, target) PROVE KnownNow(epoch, target)
  BY <1>2, SteadyIsPath, FocusIsRecorded
<1>3. /\ Way(a) \in Seq(Messages) /\ highest_focus_epoch[a] \in Nat /\ focus_epoch \in Nat
      /\ Follows(Way(a), highest_focus_epoch[a], focus_epoch)
  BY FollowFacts
<1>4. ASSUME UNCHANGED <<highest_focus_epoch[a], last_focus[a], active_focus_epoch[a]>>
      PROVE  Focusing
  <2>1. Known(highest_focus_epoch[a], focused_in[highest_focus_epoch[a]])
    BY DEF FollowInv, Known
  <2>2. KnownNow(highest_focus_epoch[a], focused_in[highest_focus_epoch[a]])
    BY <1>2, <2>1
  <2> QED
    BY <1>4, <2>2 DEF FollowInv, KnownNow
<1>5. \A message \in Entries(Way(a)) : WelcomeNow(a, message)
  BY StillGood DEF FollowInv
<1>6. CASE SessionCalled
  <2>1. UNCHANGED <<highest_focus_epoch[a], last_focus[a], active_focus_epoch[a]>>
    BY <1>6, SessionKept DEF LocalTo, SessionOf
  <2>2. UNCHANGED <<down, peers>>
    BY <1>6, SteadyFrame DEF SessionCalled, Captured, EndTick, ReturnLocal, connectionVars
  <2>3. CASE Silent
    <3>1. Way(a)' = Way(a) /\ focus_epoch' = focus_epoch
      BY <2>2, <2>3 DEF Silent, Way
    <3> QED
      BY <1>1, <1>3, <1>4, <1>5, <2>1, <3>1
  <2>4. ASSUME NEW events \in Seq(InputEvents), Sends(events) PROVE Coming
    BY <2>1, <2>2, <2>4, FollowSent
  <2> QED
    BY <1>1, <1>4, <1>6, <2>1, <2>3, <2>4, CalledSends
<1>7. CASE ReceiveFocus(a)
  <2> DEFINE message == Head(Way(a))
  <2>1. /\ Way(a) # <<>> /\ message \in Messages /\ message \in Entries(Way(a))
        /\ message.type = "FocusChanged" /\ Way(a)' = Tail(Way(a))
        /\ highest_focus_epoch'[a] = message.epoch /\ last_focus'[a].epoch = message.epoch
        /\ active_focus_epoch'[a] = IF message.target = a THEN message.epoch ELSE None
    BY <1>7, FocusEffect
  <2>2. KnownNow(message.epoch, message.target)
    BY <1>5, <2>1 DEF WelcomeNow
  <2>3. Follows(Tail(Way(a)), message.epoch, focus_epoch)
    BY <1>3, <2>1, FollowsTaken
  <2>4. focus_epoch' = focus_epoch
    BY <1>7, FocusEpochKept DEF AgentStep
  <2>5. Entries(Tail(Way(a))) \subseteq Entries(Way(a))
    BY <1>3, <2>1, TailQueue
  <2> HIDE DEF message
  <2> QED
    BY <1>1, <1>5, <2>1, <2>2, <2>3, <2>4, <2>5 DEF KnownNow
<1>8. CASE ReceiveInput(a)
  <2>1. /\ Way(a) # <<>> /\ Head(Way(a)).type = "Input" /\ Way(a)' = Tail(Way(a))
        /\ UNCHANGED <<highest_focus_epoch, last_focus, active_focus_epoch>>
    BY <1>8, InputEffect
  <2>2. Follows(Tail(Way(a)), highest_focus_epoch[a], focus_epoch)
    BY <1>3, <2>1, FollowsTaken
  <2>3. focus_epoch' = focus_epoch
    BY <1>8, FocusEpochKept DEF AgentStep
  <2>4. Entries(Tail(Way(a))) \subseteq Entries(Way(a))
    BY <1>3, <2>1, TailQueue
  <2> QED
    BY <1>1, <1>4, <1>5, <2>1, <2>2, <2>3, <2>4
<1>9. ASSUME \/ ApplyControllerActions /\ TakeActions
             \/ \E s \in Sessions : IgnoreNetworkEvent(s) \/ Acknowledged(s)
             \/ ReceiveApplied(a) \/ Inject(a) \/ (ApplyAgentAction(a) /\ TakeAction(a))
             \/ \E b \in Agents : b # a /\ AgentStep(b)
             \/ UNCHANGED pathVars,
             UNCHANGED <<highest_focus_epoch[a], last_focus[a], active_focus_epoch[a]>>
      PROVE  FollowInv(a)'
  <2>1. Way(a)' = Way(a) /\ focus_epoch' = focus_epoch
    BY <1>9, WayKept, FocusEpochKept DEF AgentStep
  <2> QED
    BY <1>1, <1>3, <1>4, <1>5, <1>9, <2>1
<1>10. ReceiveApplied(a) \/ Inject(a) \/ (ApplyAgentAction(a) /\ TakeAction(a))
         => UNCHANGED <<highest_focus_epoch, last_focus, active_focus_epoch>>
  BY AppliedEffect, ActionEffect DEF Inject, agentVars, agentSessions, focusVars, deliveryVars
<1>11. ASSUME \/ ApplyControllerActions /\ TakeActions
              \/ \E s \in Sessions : IgnoreNetworkEvent(s) \/ Acknowledged(s)
              \/ \E b \in Agents : b # a /\ AgentStep(b)
              \/ UNCHANGED pathVars
       PROVE  UNCHANGED <<highest_focus_epoch[a], last_focus[a], active_focus_epoch[a]>>
  BY <1>11, SessionKept DEF LocalTo, SessionOf
<1> QED
  BY <1>6, <1>7, <1>8, <1>9, <1>10, <1>11 DEF SteadyStep, AgentStep

-----------------------------------------------------------------------------
(* The batch in flight.                                                    *)

LEMMA InputAppended ==
  ASSUME NEW list \in Seq(Messages), NEW m \in Messages, NEW sequence
  PROVE  /\ m.type # "Input" /\ OneInput(list, sequence) => OneInput(Append(list, m), sequence)
         /\ m.type # "Input" /\ HasInput(Append(list, m)) => HasInput(list)
         /\ ~HasInput(list) /\ m.sequence = sequence => OneInput(Append(list, m), sequence)
<1> DEFINE longer == Append(list, m)
           n == Len(list)
<1>1. /\ Len(longer) = n + 1 /\ n \in Nat /\ longer[n + 1] = m
      /\ \A i \in 1 .. n : longer[i] = list[i]
  BY AppendQueue
<1> HIDE DEF longer
<1>2. /\ m.type # "Input" /\ OneInput(list, sequence) => OneInput(longer, sequence)
      /\ m.type # "Input" /\ HasInput(longer) => HasInput(list)
  BY <1>1 DEF OneInput, HasInput
<1>3. ~HasInput(list) /\ m.sequence = sequence => OneInput(longer, sequence)
  BY <1>1 DEF OneInput, HasInput
<1> QED
  BY <1>2, <1>3 DEF longer

LEMMA InputTaken ==
  ASSUME NEW list \in Seq(Messages), list # <<>>, NEW sequence, OneInput(list, sequence)
  PROVE  /\ OneInput(Tail(list), sequence)
         /\ HasInput(Tail(list)) => HasInput(list)
         /\ Head(list).type = "Input" => ~HasInput(Tail(list))
<1> DEFINE rest == Tail(list)
           n == Len(list) - 1
<1>1. /\ Len(rest) = n /\ n \in Nat /\ Head(list) = list[1] /\ Len(list) = n + 1
      /\ \A i \in 1 .. n : rest[i] = list[i + 1]
  BY TailQueue
<1> HIDE DEF rest, n
<1>2. \A i \in 1 .. n : i + 1 \in 1 .. n + 1 /\ i + 1 # 1
  BY <1>1
<1>3. 1 \in 1 .. n + 1
  BY <1>1
<1>4. OneInput(rest, sequence)
  BY <1>1, <1>2 DEF OneInput
<1>5. HasInput(rest) => HasInput(list)
  BY <1>1, <1>2 DEF HasInput
<1>6. Head(list).type = "Input" => ~HasInput(rest)
  BY <1>1, <1>2, <1>3 DEF HasInput, OneInput
<1> QED
  BY <1>4, <1>5, <1>6 DEF rest

(* What is acknowledged was applied, also after the step.                  *)
LEMMA AcknowledgementsKept ==
  ASSUME PathType, Connected, SteadyStep, NEW a \in Agents, InFlightInv(a),
         last_applied_sequence'[a] \in Nat,
         last_applied_sequence[a] <= last_applied_sequence'[a]
  PROVE  /\ \A message \in Entries(up'[peers'[a]]) :
              message.through <= last_applied_sequence'[a]
         /\ \A action \in Entries(actions[a]) :
              action.type = "Send" => action.through <= last_applied_sequence'[a]
<1>1. peers'[a] = peers[a] /\ peers[a] \in Sessions /\ last_applied_sequence[a] \in Nat
      /\ up[peers[a]] \in Seq(UpMessage) /\ actions[a] \in Seq(Action)
  BY SteadyFrame DEF Connected, PathType, AgentType, ConnectionType
<1>2. ASSUME NEW action \in Entries(actions[a]), action.type = "Send"
      PROVE  action.through <= last_applied_sequence'[a]
  <2>1. action.through \in Nat
    BY <1>1, <1>2, ActionFacts DEF Entries
  <2> QED
    BY <1>1, <1>2, <2>1 DEF InFlightInv
<1>3. ASSUME NEW message \in Entries(up'[peers[a]])
      PROVE  message.through <= last_applied_sequence'[a]
  <2>1. CASE message \in Entries(up[peers[a]])
    <3>1. message \in UpMessage /\ message.type = "InputAcknowledged"
      BY <1>1, <2>1 DEF Entries, Connected
    <3>2. message.through \in Nat
      BY <3>1, UpMessageType
    <3> QED
      BY <1>1, <2>1, <3>2 DEF InFlightInv
  <2>2. ASSUME NEW b \in Agents, peers[a] = peers[b], actions[b] # <<>>,
               Head(actions[b]).type = "Send", message.through = Head(actions[b]).through
        PROVE  message.through <= last_applied_sequence'[a]
    <3>1. a = b
      BY <2>2 DEF Connected
    <3>2. Head(actions[a]) \in Entries(actions[a])
      BY <1>1, <2>2, <3>1, TailQueue
    <3> QED
      BY <1>2, <2>2, <3>1, <3>2
  <2> QED
    BY <1>1, <1>3, <2>1, <2>2, SteadyAcknowledgements
<1> QED
  BY <1>1, <1>2, <1>3

LEMMA InFlightInvStep ==
  ASSUME PathType, FocusInv, Connected, SessionInv, SteadyStep, [SteadyNext]_pathVars,
         SessionType', NEW a \in Agents, FollowInv(a), InFlightInv(a), ApplicationInv(a),
         \A b \in Agents : InFlightInv(b)
  PROVE  InFlightInv(a)'
<1> DEFINE Sequences == /\ last_acknowledged'[a] <= last_applied_sequence'[a]
                        /\ last_applied_sequence'[a] <= last_sent'[a]
                        /\ last_sent'[a] <= last_applied_sequence'[a] + 1
           Applying == /\ application_pending'[a] <=> pending_batch'[a] # NoBatch
                       /\ application_pending'[a] =>
                            /\ pending_batch'[a].sequence = last_sent'[a]
                            /\ last_sent'[a] = last_applied_sequence'[a] + 1
                            /\ GoodNow(a, pending_batch'[a])
           Carrying == /\ OneInput(Way(a)', last_sent'[a])
                       /\ HasInput(Way(a)') =>
                            /\ ~application_pending'[a]
                            /\ last_sent'[a] = last_applied_sequence'[a] + 1
           Acknowledging == /\ \A message \in Entries(up'[peers'[a]]) :
                                 message.through <= last_applied_sequence'[a]
                            /\ \A action \in Entries(actions'[a]) :
                                 action.type = "Send" =>
                                   action.through <= last_applied_sequence'[a]
<1>1. Sequences /\ Applying /\ Carrying /\ Acknowledging => InFlightInv(a)'
  BY DEF InFlightInv, Good, GoodNow, Known, KnownNow, IsPending
<1>2. /\ Way(a) \in Seq(Messages) /\ actions[a] \in Seq(Action)
      /\ last_acknowledged[a] \in Nat /\ last_applied_sequence[a] \in Nat /\ last_sent[a] \in Nat
      /\ last_acknowledged'[a] \in Nat /\ last_sent'[a] \in Nat
  BY WayType DEF PathType, AgentType, SessionType
<1>3. /\ last_acknowledged[a] <= last_applied_sequence[a]
      /\ last_applied_sequence[a] <= last_sent[a]
      /\ last_sent[a] <= last_applied_sequence[a] + 1
      /\ application_pending[a] <=> pending_batch[a] # NoBatch
      /\ application_pending[a] =>
           /\ pending_batch[a].sequence = last_sent[a]
           /\ last_sent[a] = last_applied_sequence[a] + 1
           /\ GoodNow(a, pending_batch[a])
      /\ OneInput(Way(a), last_sent[a])
      /\ HasInput(Way(a)) =>
           ~application_pending[a] /\ last_sent[a] = last_applied_sequence[a] + 1
  BY StillGood DEF InFlightInv, IsPending
<1> DEFINE Same == UNCHANGED <<last_applied_sequence[a], pending_batch[a],
                               application_pending[a]>>
<1>4. Same /\ UNCHANGED last_sent[a] => Applying
  BY <1>3
<1>5. Same /\ Entries(actions'[a]) \subseteq Entries(actions[a]) => Acknowledging
  BY <1>2, AcknowledgementsKept
<1>6. CASE SessionCalled
  <2>1. Same /\ actions'[a] = actions[a]
    BY <1>6, SessionKept DEF LocalTo, SessionOf, RuntimeOf
  <2>2. UNCHANGED <<down, peers>>
    BY <1>6, SteadyFrame DEF SessionCalled, Captured, EndTick, ReturnLocal, connectionVars
  <2>3. CASE Silent
    <3>1. Way(a)' = Way(a) /\ UNCHANGED <<last_sent, last_acknowledged>>
      BY <2>2, <2>3 DEF Silent, Way
    <3>2. Sequences /\ Carrying
      BY <1>3, <2>1, <3>1
    <3> HIDE DEF Sequences, Applying, Carrying, Acknowledging, Same
    <3> QED
      BY <1>1, <1>4, <1>5, <2>1, <3>1, <3>2
  <2>4. ASSUME NEW events \in Seq(InputEvents), Sends(events) PROVE InFlightInv(a)'
    <3> DEFINE batch == InputBatch(focus_epoch, last_sent[a] + 1, events)
               news == FocusChanged(focus_epoch', focus', position')
               sent == events # <<>> /\ a = focus
               moved == focus_epoch' # focus_epoch
    <3>1. /\ batch \in Messages /\ news \in Messages
          /\ ~sent /\ ~moved => Way(a)' = Way(a)
          /\ sent /\ ~moved => Way(a)' = Append(Way(a), batch)
          /\ ~sent /\ moved => Way(a)' = Append(Way(a), news)
          /\ sent /\ moved => Way(a)' = Append(Append(Way(a), batch), news)
      BY <2>2, <2>4, WaySent
    <3>2. batch.type = "Input" /\ batch.sequence = last_sent[a] + 1 /\ news.type # "Input"
      BY DEF InputBatch, FocusChanged
    <3>3. /\ last_sent'[a] = IF sent THEN last_sent[a] + 1 ELSE last_sent[a]
          /\ last_acknowledged'[a] = last_acknowledged[a]
          /\ sent => ~InFlight(a)
      BY <2>4 DEF Sends
    <3> HIDE DEF batch, news, sent, moved
    <3>4. CASE sent
      <4>1. last_sent[a] = last_acknowledged[a]
        BY <3>3, <3>4 DEF InFlight, SessionInv, DeliveryWindow
      <4>2. last_applied_sequence[a] = last_sent[a]
        BY <1>2, <1>3, <4>1
      <4>3. ~HasInput(Way(a)) /\ ~application_pending[a]
        BY <1>2, <1>3, <4>2
      <4>4. /\ Append(Way(a), batch) \in Seq(Messages)
            /\ OneInput(Append(Way(a), batch), last_sent[a] + 1)
        BY <1>2, <3>1, <3>2, <4>3, InputAppended, AppendQueue
      <4>5. OneInput(Append(Append(Way(a), batch), news), last_sent[a] + 1)
        BY <3>1, <3>2, <4>4, InputAppended
      <4>6. OneInput(Way(a)', last_sent[a] + 1)
        BY <3>1, <3>4, <4>4, <4>5
      <4>7. Sequences /\ Applying /\ Carrying
        BY <1>2, <1>3, <2>1, <3>3, <3>4, <4>1, <4>2, <4>3, <4>6
      <4> HIDE DEF Sequences, Applying, Carrying, Acknowledging, Same
      <4> QED
        BY <1>1, <1>5, <2>1, <4>7
    <3>5. CASE ~sent
      <4>1. Sequences
        BY <1>3, <2>1, <3>3, <3>5
      <4>2. Carrying
        <5>1. CASE Way(a)' = Way(a)
          BY <1>3, <2>1, <3>3, <3>5, <5>1
        <5>2. CASE Way(a)' = Append(Way(a), news)
          <6>1. /\ OneInput(Append(Way(a), news), last_sent[a])
                /\ HasInput(Append(Way(a), news)) => HasInput(Way(a))
            BY <1>2, <1>3, <3>1, <3>2, InputAppended
          <6> QED
            BY <1>3, <2>1, <3>3, <3>5, <5>2, <6>1
        <5> QED
          BY <3>1, <3>5, <5>1, <5>2
      <4>3. UNCHANGED last_sent[a]
        BY <3>3, <3>5
      <4> HIDE DEF Sequences, Applying, Carrying, Acknowledging, Same
      <4> QED
        BY <1>1, <1>4, <1>5, <2>1, <4>1, <4>2, <4>3
    <3> QED
      BY <3>4, <3>5
  <2> QED
    BY <1>6, <2>3, <2>4, CalledSends
<1>7. CASE ReceiveFocus(a)
  <2>1. /\ Way(a) # <<>> /\ Way(a)' = Tail(Way(a))
        /\ \A action \in Entries(actions'[a]) : action.type \in {"ReleaseAllInput", "FocusEntered"}
        /\ UNCHANGED <<last_applied_sequence, pending_batch, application_pending>>
    BY <1>7, FocusEffect
  <2>2. UNCHANGED controllerVars
    BY <1>7, AgentLeavesController DEF AgentNext
  <2>3. UNCHANGED <<last_sent, last_acknowledged>>
    BY <2>2 DEF controllerVars, vars, deliveries
  <2>4. Sequences /\ Carrying
    BY <1>2, <1>3, <2>1, <2>3, InputTaken
  <2>5. Acknowledging
    BY <1>2, <2>1, AcknowledgementsKept
  <2> QED
    BY <1>1, <1>4, <2>1, <2>3, <2>4, <2>5
<1>8. CASE ReceiveInput(a)
  <2> DEFINE batch == [epoch |-> Head(Way(a)).epoch, sequence |-> Head(Way(a)).sequence,
                       events |-> Head(Way(a)).events]
  <2>1. /\ Way(a) # <<>> /\ Way(a)' = Tail(Way(a)) /\ Head(Way(a)).type = "Input"
        /\ Good(a, batch) /\ batch.sequence = last_sent[a]
        /\ last_sent[a] = last_applied_sequence[a] + 1
        /\ pending_batch'[a] = batch /\ application_pending'[a]
        /\ actions'[a] = <<ApplyInput(batch)>>
        /\ UNCHANGED last_applied_sequence
    BY <1>8, InputEffect
  <2> HIDE DEF batch
  <2>2. UNCHANGED controllerVars
    BY <1>8, AgentLeavesController DEF AgentNext
  <2>3. UNCHANGED <<last_sent, last_acknowledged>>
    BY <2>2 DEF controllerVars, vars, deliveries
  <2>4. Sequences
    BY <1>3, <2>1, <2>3
  <2>5. Carrying
    BY <1>2, <1>3, <2>1, <2>3, InputTaken
  <2>6. Applying
    <3>1. batch # NoBatch
      BY <2>1 DEF Good, NoBatch
    <3>2. GoodNow(a, batch)
      BY <2>1, StillGood
    <3> QED
      BY <2>1, <2>3, <3>1, <3>2
  <2>7. Acknowledging
    <3>1. \A action \in Entries(actions'[a]) : action.type # "Send"
      BY <2>1 DEF Entries, ApplyInput
    <3> QED
      BY <1>2, <2>1, <3>1, AcknowledgementsKept
  <2> QED
    BY <1>1, <2>4, <2>5, <2>6, <2>7
<1>9. CASE ReceiveApplied(a)
  <2>1. /\ application_pending[a]
        /\ last_applied_sequence'[a] = last_sent[a]
        /\ last_sent[a] = last_applied_sequence[a] + 1
        /\ pending_batch'[a] = NoBatch /\ ~application_pending'[a]
        /\ actions'[a] = <<SendAck(last_sent[a])>>
    BY <1>9, AppliedEffect
  <2>2. UNCHANGED controllerVars /\ Way(a)' = Way(a)
    BY <1>9, AgentLeavesController, WayKept DEF AgentNext
  <2>3. UNCHANGED <<last_sent, last_acknowledged>>
    BY <2>2 DEF controllerVars, vars, deliveries
  <2>4. Sequences /\ Applying /\ Carrying
    BY <1>2, <1>3, <2>1, <2>2, <2>3
  <2>5. Acknowledging
    <3>1. \A action \in Entries(actions'[a]) : action.through = last_sent[a]
      BY <2>1 DEF Entries, SendAck
    <3> QED
      BY <1>2, <2>1, <3>1, AcknowledgementsKept
  <2> QED
    BY <1>1, <2>4, <2>5
<1>10. CASE ApplyAgentAction(a) /\ TakeAction(a)
  <2>1. Same /\ Entries(actions'[a]) \subseteq Entries(actions[a])
    BY <1>2, <1>10, ActionEffect, TailQueue
  <2>2. UNCHANGED controllerVars /\ Way(a)' = Way(a)
    BY <1>10, AgentLeavesController, WayKept DEF AgentNext
  <2>3. UNCHANGED <<last_sent, last_acknowledged>>
    BY <2>2 DEF controllerVars, vars, deliveries
  <2>4. Sequences /\ Carrying
    BY <1>3, <2>1, <2>2, <2>3
  <2> HIDE DEF Sequences, Applying, Carrying, Acknowledging, Same
  <2> QED
    BY <1>1, <1>4, <1>5, <2>1, <2>3, <2>4
<1>11. ASSUME Same, actions'[a] = actions[a], Way(a)' = Way(a), UNCHANGED last_sent,
              last_acknowledged'[a] <= last_applied_sequence[a]
       PROVE  InFlightInv(a)'
  <2>1. Sequences /\ Carrying
    BY <1>3, <1>11
  <2> HIDE DEF Sequences, Applying, Carrying, Acknowledging, Same
  <2> QED
    BY <1>1, <1>4, <1>5, <1>11, <2>1
<1>12. CASE Inject(a)
  <2>1. Same /\ actions'[a] = actions[a]
    BY <1>12 DEF Inject, agentVars, agentSessions, focusVars, deliveryVars
  <2>2. UNCHANGED controllerVars /\ Way(a)' = Way(a)
    BY <1>12, AgentLeavesController, WayKept DEF AgentNext
  <2>3. UNCHANGED <<last_sent, last_acknowledged>>
    BY <2>2 DEF controllerVars, vars, deliveries
  <2> HIDE DEF Same
  <2> QED
    BY <1>3, <1>11, <2>1, <2>2, <2>3
<1>13. ASSUME \/ ApplyControllerActions /\ TakeActions
              \/ \E s \in Sessions : IgnoreNetworkEvent(s) \/ Acknowledged(s)
              \/ \E b \in Agents : b # a /\ AgentStep(b)
              \/ UNCHANGED pathVars
       PROVE  InFlightInv(a)'
  <2>1. Same /\ actions'[a] = actions[a]
    BY <1>13, SessionKept DEF LocalTo, SessionOf, RuntimeOf
  <2>2. Way(a)' = Way(a) /\ UNCHANGED last_sent
    BY <1>13, WayKept, FocusEpochKept
  <2>3. last_acknowledged'[a] <= last_applied_sequence[a]
    <3>1. ASSUME NEW s \in Sessions, Acknowledged(s) PROVE last_acknowledged'[a] <= last_applied_sequence[a]
      <4>1. /\ owner[s] \in Agents
            /\ Head(up[s]).through <= last_applied_sequence[owner[s]]
            /\ Acknowledge(owner[s], Head(up[s]).through)
        BY <3>1, TakenEvent, TakenAcknowledgement DEF Acknowledged, PathType
      <4>2. \/ UNCHANGED last_acknowledged
            \/ last_acknowledged' = [last_acknowledged EXCEPT ![owner[s]] = Head(up[s]).through]
        BY <4>1 DEF Acknowledge, Fail, vars, deliveries
      <4>3. last_acknowledged \in [Agents -> Nat]
        BY DEF PathType, SessionType
      <4>4. CASE owner[s] = a
        BY <1>3, <4>1, <4>2, <4>3, <4>4
      <4>5. CASE owner[s] # a
        BY <1>3, <4>1, <4>2, <4>3, <4>5
      <4> QED
        BY <4>4, <4>5
    <3>2. \/ UNCHANGED last_acknowledged
          \/ \E s \in Sessions : Acknowledged(s)
      BY <1>13 DEF TakeActions, IgnoreNetworkEvent, AgentStep, ReceiveFocus, ReceiveInput,
                   ReceiveApplied, Inject, ApplyAgentAction, pathVars, controllerVars, vars,
                   deliveries
    <3> QED
      BY <1>3, <3>1, <3>2
  <2> HIDE DEF Same
  <2> QED
    BY <1>11, <2>1, <2>2, <2>3
<1> QED
  BY <1>6, <1>7, <1>8, <1>9, <1>10, <1>12, <1>13 DEF SteadyStep, AgentStep

-----------------------------------------------------------------------------
(* The batch under application.                                            *)

LEMMA ApplicationInvStep ==
  ASSUME PathType, Connected, SteadyStep, NEW a \in Agents, FollowInv(a), InFlightInv(a),
         ApplicationInv(a)
  PROVE  ApplicationInv(a)'
<1>0. UNCHANGED peers
  BY SteadyFrame
<1>1. /\ actions[a] \in Seq(Action) /\ commands[a] \in Seq(Command)
      /\ native_events[a] \in Seq(NativeEvent)
  BY DEF PathType, AgentType, NativeType
<1>2. ASSUME UNCHANGED <<application_pending[a], pending_batch[a], actions[a], commands[a],
                         native_events[a]>>
      PROVE  ApplicationInv(a)'
  BY <1>0, <1>2 DEF ApplicationInv, Asked, Given, Done
<1>3. ~application_pending[a] => ~Asked(a) /\ ~Given(a) /\ ~Done(a)
  BY DEF ApplicationInv
<1>4. ~Asked(a)' /\ ~Given(a)' /\ ~Done(a)' => ApplicationInv(a)'
  BY DEF ApplicationInv
<1>5. CASE ReceiveFocus(a)
  <2>1. /\ ~application_pending[a]
        /\ \A action \in Entries(actions'[a]) : action.type \in {"ReleaseAllInput", "FocusEntered"}
        /\ UNCHANGED <<commands, native_events>>
    BY <1>5, FocusEffect
  <2>2. ~Asked(a)' /\ ~Given(a)' /\ ~Done(a)'
    BY <1>3, <2>1 DEF Asked, Given, Done
  <2> QED
    BY <1>4, <2>2
<1>6. CASE ReceiveInput(a)
  <2> DEFINE batch == [epoch |-> Head(Way(a)).epoch, sequence |-> Head(Way(a)).sequence,
                       events |-> Head(Way(a)).events]
  <2>1. /\ ~application_pending[a]
        /\ pending_batch'[a] = batch /\ application_pending'[a]
        /\ actions'[a] = <<ApplyInput(batch)>>
        /\ UNCHANGED <<commands, native_events>>
    BY <1>6, InputEffect
  <2> HIDE DEF batch
  <2>2. ~Given(a)' /\ ~Done(a)'
    BY <1>3, <2>1 DEF Given, Done
  <2> QED
    BY <2>1, <2>2 DEF ApplicationInv
<1>7. CASE ReceiveApplied(a)
  <2>1. /\ commands[a] = <<>> /\ native_events'[a] = <<>> /\ UNCHANGED commands
        /\ actions'[a] = <<SendAck(last_sent[a])>>
    BY <1>7, AppliedEffect
  <2>2. ~Asked(a)' /\ ~Given(a)' /\ ~Done(a)'
    BY <2>1 DEF Asked, Given, Done, Entries, SendAck
  <2> QED
    BY <1>4, <2>2
<1>8. CASE ApplyAgentAction(a) /\ TakeAction(a)
  <2> DEFINE action == Head(actions[a])
  <2>1. /\ actions[a] # <<>> /\ action \in Entries(actions[a]) /\ actions'[a] = Tail(actions[a])
        /\ UNCHANGED <<pending_batch, application_pending, native_events>>
        /\ \/ /\ action.type = "ApplyInput" /\ ApplyBatch(peers[a], action.batch) \in Command
              /\ commands'[a] = Append(commands[a], ApplyBatch(peers[a], action.batch))
           \/ /\ ReleaseAll(peers[a]) \in Command /\ action.type # "ApplyInput"
              /\ commands'[a] = Append(commands[a], ReleaseAll(peers[a]))
           \/ commands'[a] = commands[a] /\ action.type # "ApplyInput"
    BY <1>8, ActionEffect
  <2>2. ~Given(a) /\ ~Done(a)
    BY <2>1 DEF ApplicationInv
  <2>3. CASE action.type = "ApplyInput"
    <3>1. application_pending[a] /\ actions[a] = <<ApplyInput(pending_batch[a])>>
      BY <2>1, <2>3 DEF ApplicationInv, Asked
    <3>2. actions'[a] = <<>> /\ action.batch = pending_batch[a]
      BY <2>1, <3>1 DEF ApplyInput
    <3> DEFINE command == ApplyBatch(peers[a], pending_batch[a])
    <3>3. command \in Command /\ commands'[a] = Append(commands[a], command)
      BY <2>1, <2>3, <3>2
    <3>4. command.batch = pending_batch[a]
      BY DEF ApplyBatch
    <3> HIDE DEF command
    <3>5. ~Asked(a)' /\ ~Done(a)'
      <4>1. Entries(actions'[a]) = {}
        BY <3>2, EmptyQueue
      <4>2. UNCHANGED native_events
        BY <2>1
      <4> QED
        BY <2>2, <4>1, <4>2 DEF Asked, Done
    <3>6. ASSUME NEW i \in 1 .. Len(commands'[a]), commands'[a][i].type = "ApplyBatch"
          PROVE  i = Len(commands'[a]) /\ commands'[a][i].batch = pending_batch[a]
      <4>1. /\ Len(commands'[a]) = Len(commands[a]) + 1 /\ Len(commands[a]) \in Nat
            /\ commands'[a][Len(commands[a]) + 1] = command
            /\ \A j \in 1 .. Len(commands[a]) : commands'[a][j] = commands[a][j]
        BY <1>1, <3>3, AppendQueue
      <4>2. i \notin 1 .. Len(commands[a])
        BY <2>2, <3>6, <4>1 DEF Given, Entries
      <4> QED
        BY <3>4, <4>1, <4>2
    <3> QED
      BY <2>1, <3>1, <3>2, <3>5, <3>6 DEF ApplicationInv
  <2>4. CASE action.type # "ApplyInput"
    <3>1. ~Asked(a)
      <4> SUFFICES ASSUME Asked(a) PROVE FALSE
        OBVIOUS
      <4>1. actions[a] = <<ApplyInput(pending_batch[a])>>
        BY DEF ApplicationInv
      <4> QED
        BY <2>4, <4>1 DEF ApplyInput
    <3>2. ~Asked(a)'
      <4>1. Entries(Tail(actions[a])) \subseteq Entries(actions[a])
        BY <1>1, <2>1, TailQueue
      <4> QED
        BY <2>1, <3>1, <4>1 DEF Asked
    <3>3. ~Given(a)'
      <4>1. CASE commands'[a] = commands[a]
        BY <2>2, <4>1 DEF Given
      <4>2. CASE /\ ReleaseAll(peers[a]) \in Command
                 /\ commands'[a] = Append(commands[a], ReleaseAll(peers[a]))
        <5>1. \A command \in Entries(commands'[a]) :
                command \in Entries(commands[a]) \/ command = ReleaseAll(peers[a])
          BY <1>1, <4>2, AppendQueue
        <5> QED
          BY <2>2, <5>1 DEF Given, ReleaseAll
      <4> QED
        BY <2>1, <2>4, <4>1, <4>2
    <3>4. ~Done(a)'
      BY <2>1, <2>2 DEF Done
    <3> QED
      BY <1>4, <3>2, <3>3, <3>4
  <2> QED
    BY <2>3, <2>4
<1>9. CASE Inject(a)
  <2> DEFINE command == Head(commands[a])
  <2>1. /\ commands[a] # <<>> /\ commands'[a] = Tail(commands[a])
        /\ command \in Entries(commands[a])
        /\ \/ native_events' = native_events
           \/ /\ IsBatch(command, active_generation[a])
              /\ native_events'[a] =
                   Append(native_events[a], Applied(command.generation, command.batch.sequence))
    BY <1>9, InjectEffect
  <2>2. UNCHANGED <<application_pending, pending_batch, actions>>
    BY <1>9 DEF Inject, agentVars, agentSessions, focusVars, deliveryVars
  <2>3. ~Done(a)
    BY <2>1 DEF ApplicationInv
  <2>4. /\ Len(commands'[a]) = Len(commands[a]) - 1 /\ Len(commands[a]) - 1 \in Nat
        /\ command = commands[a][1]
        /\ \A i \in 1 .. Len(commands[a]) - 1 : commands'[a][i] = commands[a][i + 1]
        /\ Entries(commands'[a]) \subseteq Entries(commands[a])
    BY <1>1, <2>1, TailQueue
  <2>5. Given(a)' => Given(a)
    BY <2>4 DEF Given
  <2>6. CASE native_events' = native_events
    <3>1. ~Done(a)'
      BY <2>3, <2>6 DEF Done
    <3>2. ASSUME Given(a), NEW i \in 1 .. Len(commands'[a]), commands'[a][i].type = "ApplyBatch"
          PROVE  i = Len(commands'[a]) /\ commands'[a][i].batch = pending_batch[a]
      <4>1. i + 1 \in 1 .. Len(commands[a]) /\ commands'[a][i] = commands[a][i + 1]
        BY <2>4
      <4>2. i + 1 = Len(commands[a]) /\ commands[a][i + 1].batch = pending_batch[a]
        BY <3>2, <4>1 DEF ApplicationInv
      <4> QED
        BY <2>4, <4>1, <4>2
    <3>3. Asked(a)' <=> Asked(a)
      BY <2>2 DEF Asked
    <3> QED
      BY <2>2, <2>5, <3>1, <3>2, <3>3 DEF ApplicationInv
  <2>7. CASE /\ IsBatch(command, active_generation[a])
             /\ native_events'[a] =
                  Append(native_events[a], Applied(command.generation, command.batch.sequence))
    <3>1. Given(a)
      BY <2>1, <2>7 DEF Given, IsBatch
    <3>2. application_pending[a] /\ actions[a] = <<>> /\ native_events[a] = <<>>
      BY <2>3, <3>1 DEF ApplicationInv, Done
    <3>3. 1 = Len(commands[a]) /\ command.batch = pending_batch[a]
      <4>1. 1 \in 1 .. Len(commands[a]) /\ commands[a][1].type = "ApplyBatch"
        BY <2>4, <2>7 DEF IsBatch
      <4> QED
        BY <2>4, <3>1, <4>1 DEF ApplicationInv
    <3>4. commands'[a] = <<>>
      <4>1. commands'[a] \in Seq(Command) /\ Len(commands'[a]) = 0
        BY <1>1, <2>1, <2>4, <3>3, TailQueue
      <4> QED
        BY <4>1
    <3>5. native_events'[a] = <<Applied(peers[a], pending_batch[a].sequence)>>
      <4>1. command.generation = peers[a]
        BY <2>1 DEF Connected
      <4> QED
        BY <2>7, <3>2, <3>3, <4>1
    <3>6. ~Asked(a)' /\ ~Given(a)'
      BY <2>2, <3>2, <3>4 DEF Asked, Given, Entries
    <3> QED
      BY <1>0, <2>2, <3>2, <3>4, <3>5, <3>6 DEF ApplicationInv
  <2> QED
    BY <2>1, <2>6, <2>7
<1>10. ASSUME UNCHANGED LocalTo(a) PROVE ApplicationInv(a)'
  BY <1>2, <1>10 DEF LocalTo, SessionOf, RuntimeOf, ServiceOf
<1> QED
  BY <1>5, <1>6, <1>7, <1>8, <1>9, <1>10, SessionKept DEF SteadyStep, AgentStep

-----------------------------------------------------------------------------
(* What is injected, and the whole invariant.                              *)

LEMMA InjectedInvStep ==
  ASSUME PathType, FocusInv, Connected, SteadyStep, [SteadyNext]_pathVars, NEW a \in Agents,
         InFlightInv(a), ApplicationInv(a), InjectedInv(a)
  PROVE  InjectedInv(a)'
<1>1. ASSUME NEW epoch, Known(epoch, a) PROVE KnownNow(epoch, a)
  BY <1>1, SteadyIsPath, FocusIsRecorded
<1>2. (\A event \in Entries(injected'[a]) : KnownNow(event.epoch, a)) => InjectedInv(a)'
  BY DEF InjectedInv, Known, KnownNow
<1>3. CASE injected'[a] = injected[a]
  BY <1>1, <1>2, <1>3 DEF InjectedInv
<1>4. CASE Inject(a)
  <2> DEFINE batch == Head(commands[a]).batch
  <2>1. \/ UNCHANGED injected
        \/ /\ IsBatch(Head(commands[a]), active_generation[a]) /\ batch.events \in Seq(InputEvents)
           /\ injected'[a] = injected[a] \o batch.events
    BY <1>4, InjectEffect
  <2>2. commands[a] # <<>> /\ commands[a] \in Seq(Command)
        /\ Head(commands[a]) \in Entries(commands[a])
    BY <1>4, InjectEffect DEF PathType, NativeType
  <2>3. ASSUME Head(commands[a]).type = "ApplyBatch" PROVE Good(a, batch)
    <3>1. Given(a)
      BY <2>2, <2>3 DEF Given
    <3>2. 1 \in 1 .. Len(commands[a]) /\ commands[a][1] = Head(commands[a])
      BY <2>2, TailQueue
    <3>3. batch = pending_batch[a] /\ application_pending[a]
      BY <2>3, <3>1, <3>2 DEF ApplicationInv
    <3> QED
      BY <3>3 DEF InFlightInv
  <2>4. CASE /\ IsBatch(Head(commands[a]), active_generation[a])
             /\ batch.events \in Seq(InputEvents)
             /\ injected'[a] = injected[a] \o batch.events
    <3>1. Good(a, batch)
      BY <2>3, <2>4 DEF IsBatch
    <3> HIDE DEF batch
    <3>2. \A event \in Entries(batch.events) : event.epoch = batch.epoch
      BY <3>1 DEF Good, InEpoch, Entries
    <3>3. Entries(injected'[a]) = Entries(injected[a]) \cup Entries(batch.events)
      BY <2>4, JoinQueues DEF PathType, NativeType
    <3>4. KnownNow(batch.epoch, a)
      BY <1>1, <3>1 DEF Good
    <3> QED
      BY <1>1, <1>2, <3>2, <3>3, <3>4 DEF InjectedInv
  <2> QED
    BY <1>3, <2>1, <2>4
<1>5. AgentStep(a) /\ ~Inject(a) => UNCHANGED injected
  BY InjectedOnlyByInject DEF AgentStep, AgentNext
<1> QED
  BY <1>3, <1>4, <1>5, SessionKept DEF SteadyStep, LocalTo, ServiceOf

LEMMA AgreementKept ==
  ASSUME PathType, Connected, SessionInv, SteadyStep, SessionsAgree,
         \A a \in Agents : FollowInv(a) /\ InFlightInv(a) /\ ApplicationInv(a)
  PROVE  SessionsAgree'
<1>1. error' \in {"none", "Backpressure"}
  BY SteadyErrors DEF SessionsAgree
<1>2. ASSUME NEW a \in Agents PROVE agent_error'[a] = "none"
  <2>1. AgentStep(a) => UNCHANGED agent_error
    BY FocusEffect, InputEffect, AppliedEffect, ActionEffect
       DEF AgentStep, Inject, agentVars, agentSessions, focusVars, deliveryVars
  <2>2. ~AgentStep(a) => agent_error'[a] = agent_error[a]
    BY SessionKept DEF SteadyStep, LocalTo, SessionOf
  <2> QED
    BY <2>1, <2>2 DEF SessionsAgree
<1> QED
  BY <1>1, <1>2 DEF SessionsAgree

LEMMA SteadyInvStep == ASSUME SteadyInv, [SteadyNext]_pathVars PROVE SteadyInv'
<1>1. /\ PathType /\ FocusInv /\ Connected /\ SessionInv /\ SessionsAgree
      /\ \A a \in Agents : FollowInv(a) /\ InFlightInv(a) /\ ApplicationInv(a) /\ InjectedInv(a)
  BY DEF SteadyInv
<1>2. SteadyStep /\ [PathNext]_pathVars
  BY <1>1, SteadySteps, SteadyIsPath
<1>3. PathType' /\ FocusInv' /\ Connected'
  BY <1>1, <1>2, PathTypeStep, FocusInvStep, ConnectedStep
<1>4. SessionType'
  BY <1>3 DEF PathType
<1>5. SessionInv' /\ SessionsAgree'
  BY <1>1, <1>2, SessionInvStep, AgreementKept DEF SessionsAgree
<1>6. ASSUME NEW a \in Agents
      PROVE  FollowInv(a)' /\ InFlightInv(a)' /\ ApplicationInv(a)' /\ InjectedInv(a)'
  BY <1>1, <1>2, <1>4, <1>5, FollowInvStep, InFlightInvStep, ApplicationInvStep, InjectedInvStep
<1> QED
  BY <1>3, <1>5, <1>6 DEF SteadyInv

LEMMA SteadyInvInit == EstablishedInit => SteadyInv
<1> SUFFICES ASSUME EstablishedInit PROVE SteadyInv
  OBVIOUS
<1>1. PathType /\ FocusInv /\ Init /\ TypeOK
  BY EstablishedInitType, FocusInvInit, InitType DEF EstablishedInit
<1>2. Connected
  BY EstablishedPeers DEF EstablishedInit, Connected, Entries
<1>3. /\ buffer = <<>> /\ outbox = NoMessages /\ error = "none" /\ focus_epoch = 1
      /\ focus = Local /\ position = Center(screens[Local])
      /\ last_sent = [p \in Agents |-> 0] /\ last_acknowledged = [p \in Agents |-> 0]
      /\ pending = [p \in Agents |-> {}]
  BY <1>1 DEF Init
<1>4. SessionInv
  <2>1. EpochInv
    BY <1>1, <1>3 DEF EpochInv, NothingWaitsLocally, InEpoch, AllTagged, Entries, NoMessages
  <2>2. DeliveryWindow
    BY <1>3 DEF DeliveryWindow
  <2>3. PointerOnFocusedDesktop
    BY <1>1, <1>3, TopologyFacts, CenterType DEF PointerOnFocusedDesktop, TypeOK
  <2>4. Len(buffer) <= MaxBatch
    BY <1>3, BatchAssumption
  <2> QED
    BY <2>1, <2>2, <2>3, <2>4 DEF SessionInv
<1>5. ASSUME NEW a \in Agents
      PROVE  FollowInv(a) /\ InFlightInv(a) /\ ApplicationInv(a) /\ InjectedInv(a)
  <2>1. Way(a) = <<>>
    <3>1. peers[a] \in Sessions
      BY EstablishedPeers
    <3>2. down[peers[a]] = <<>> /\ outbox[a] = <<>>
      BY <1>3, <3>1 DEF EstablishedInit, NoMessages
    <3> QED
      BY <3>2 DEF Way
  <2>2. /\ highest_focus_epoch[a] = 1 /\ last_focus[a].epoch = 1
        /\ active_focus_epoch[a] = None /\ last_applied_sequence[a] = 0
        /\ pending_batch[a] = NoBatch /\ ~application_pending[a]
        /\ actions[a] = <<>> /\ commands[a] = <<>> /\ native_events[a] = <<>>
        /\ injected[a] = <<>> /\ up[peers[a]] = <<>>
    BY EstablishedPeers DEF EstablishedInit
  <2>3. focused_in[1] # a
    BY InputPathBounds DEF EstablishedInit, Agents
  <2>4. Entries(<<>>) = {} /\ Len(<<>>) = 0
    BY EmptyQueue
  <2>5. Follows(Way(a), 1, 1)
    BY <2>1, <2>4 DEF Follows
  <2>6. FollowInv(a)
    BY <1>3, <2>1, <2>2, <2>3, <2>4, <2>5 DEF FollowInv
  <2>7. OneInput(<<>>, 0) /\ ~HasInput(<<>>)
    BY <2>4 DEF OneInput, HasInput
  <2>8. InFlightInv(a)
    BY <1>3, <2>1, <2>2, <2>4, <2>7 DEF InFlightInv, IsPending
  <2>9. ApplicationInv(a) /\ InjectedInv(a)
    BY <2>2, <2>4 DEF ApplicationInv, InjectedInv, Asked, Given, Done
  <2> QED
    BY <2>6, <2>8, <2>9
<1>6. SessionsAgree
  BY <1>3 DEF EstablishedInit, SessionsAgree
<1> QED
  BY <1>1, <1>2, <1>4, <1>5, <1>6 DEF SteadyInv

LEMMA SteadyInvHolds == SteadySpec => []SteadyInv
BY SteadyInvInit, SteadyInvStep, PTL DEF SteadySpec

-----------------------------------------------------------------------------
(* Sequences flattened.  What FlattenSeq computes step by step is proved    *)
(* by counting up to the number of pieces.                                 *)

(* Sets of numbers have a least one.                                       *)
LEMMA LeastNumber ==
  ASSUME NEW T, T \subseteq Nat, T # {}
  PROVE  \E x \in T : \A y \in T : x <= y
<1> DEFINE Below(n) == 1 .. n
           R == StrictSubsetOrdering(Nat)
           S == FiniteSubsetsOf(Nat)
           TT == {Below(n) : n \in T}
<1>1. IsWellFoundedOn(R, S)
  BY FS_StrictSubsetOrderingWellFounded
<1>2. TT \subseteq S /\ TT # {}
  <2>1. \A n \in Nat : IsFiniteSet(1 .. n) /\ 1 .. n \subseteq Nat
    BY FS_Interval
  <2> QED
    BY <2>1 DEF FiniteSubsetsOf
<1>3. \E x \in TT : \A y \in TT : ~ (<<y, x>> \in R)
  <2> HIDE DEF R, S, TT
  <2> QED
    BY <1>1, <1>2, WFMin
<1>4. PICK m \in T : \A n \in T : <<Below(n), Below(m)>> \notin R
  BY <1>3
<1>5. ASSUME NEW n \in T, n < m PROVE FALSE
  <2>1. /\ Below(n) \subseteq Below(m) /\ Below(n) \subseteq Nat /\ Below(m) \subseteq Nat
        /\ m \in Below(m) /\ m \notin Below(n)
    BY <1>5
  <2>2. <<Below(n), Below(m)>> \in R
    <3> HIDE DEF Below
    <3> QED
      BY <2>1 DEF StrictSubsetOrdering
  <2> QED
    BY <1>4, <2>2
<1> QED
  BY <1>5

(* The partial joins of pieces, up to the n-th of them.                    *)
Joins(pieces, n, join) ==
  join = [i \in 1 .. n |-> IF i = 1 THEN pieces[i] ELSE join[i - 1] \o pieces[i]]

(* What holds of zero and of every number after one that it holds of.      *)
LEMMA Counting ==
  ASSUME NEW N \in Nat, NEW T, 0 \in T, \A i \in 0 .. N : i \in T /\ i < N => i + 1 \in T
  PROVE  0 .. N \subseteq T
<1> DEFINE Rest == (0 .. N) \ T
<1> SUFFICES ASSUME Rest # {} PROVE FALSE
  OBVIOUS
<1>1. Rest \subseteq Nat
  OBVIOUS
<1>2. PICK least \in Rest : \A i \in Rest : least <= i
  BY <1>1, LeastNumber
<1>3. least \in Nat /\ least # 0 /\ least <= N /\ least \notin T
  OBVIOUS
<1>4. least - 1 \in 0 .. N /\ least - 1 < N /\ ~(least <= least - 1)
  BY <1>3
<1>5. least - 1 \in T
  BY <1>2, <1>4
<1> QED
  BY <1>3, <1>4, <1>5

LEMMA JoinsExist ==
  ASSUME NEW pieces, NEW N \in Nat
  PROVE  \E join : Joins(pieces, N, join)
<1> DEFINE T == {n \in 0 .. N : \E join : Joins(pieces, n, join)}
<1>1. 0 \in T
  <2> DEFINE first == [i \in 1 .. 0 |-> <<>>]
  <2>1. \A i \in 1 .. 0 : FALSE
    OBVIOUS
  <2>2. Joins(pieces, 0, first)
    BY <2>1, Zenon DEF Joins
  <2>3. 0 \in 0 .. N
    OBVIOUS
  <2> QED
    BY <2>2, <2>3
<1>2. ASSUME NEW n \in 0 .. N, n \in T, n < N PROVE n + 1 \in T
  <2>1. PICK join : Joins(pieces, n, join)
    BY <1>2
  <2>2. \A i \in 1 .. n : join[i] = IF i = 1 THEN pieces[i] ELSE join[i - 1] \o pieces[i]
    BY <2>1, Zenon DEF Joins
  <2> DEFINE Value(i) == IF i = 1 THEN pieces[i] ELSE join[i - 1] \o pieces[i]
             next == [i \in 1 .. n + 1 |-> IF i = n + 1 THEN Value(i) ELSE join[i]]
  <2>3. \A i \in 1 .. n + 1 :
          next[i] = IF i = 1 THEN pieces[i] ELSE next[i - 1] \o pieces[i]
    <3> SUFFICES ASSUME NEW i \in 1 .. n + 1
                 PROVE  next[i] = IF i = 1 THEN pieces[i] ELSE next[i - 1] \o pieces[i]
      OBVIOUS
    <3>1. CASE i = 1
      <4>1. next[i] = pieces[i]
        BY <2>2, <3>1
      <4> QED
        BY <3>1, <4>1
    <3>2. CASE i # 1
      <4>1. i - 1 \in 1 .. n + 1 /\ i - 1 # n + 1 /\ (i # n + 1 => i \in 1 .. n)
        BY <3>2
      <4>2. next[i - 1] = join[i - 1]
        BY <4>1
      <4>3. next[i] = join[i - 1] \o pieces[i]
        <5>1. CASE i = n + 1
          BY <3>2, <5>1
        <5>2. CASE i # n + 1
          <6>1. next[i] = join[i]
            BY <5>2
          <6> HIDE DEF next
          <6> QED
            BY <2>2, <3>2, <4>1, <5>2, <6>1
        <5> QED
          BY <5>1, <5>2
      <4> HIDE DEF next
      <4> QED
        BY <3>2, <4>2, <4>3
    <3> QED
      BY <3>1, <3>2
  <2>4. next = [i \in 1 .. n + 1 |-> next[i]]
    <3>1. \A Dom : \A F : F = [i \in Dom |-> IF i = n + 1 THEN Value(i) ELSE join[i]]
             => F = [i \in Dom |-> F[i]]
      BY Zenon
    <3> QED
      BY <3>1, Zenon
  <2> HIDE DEF next
  <2>5. Joins(pieces, n + 1, next)
    BY <2>3, <2>4, Zenon DEF Joins
  <2>6. n + 1 \in 0 .. N
    BY <1>2
  <2> QED
    BY <2>5, <2>6
<1>3. N \in T
  <2> HIDE DEF T
  <2>1. \A n \in 0 .. N : n \in T /\ n < N => n + 1 \in T
    BY <1>2
  <2>2. 0 .. N \subseteq T
    BY <1>1, <2>1, Counting
  <2> QED
    BY <2>2
<1> QED
  BY <1>3

LEMMA FlattenIs ==
  ASSUME NEW pieces, NEW N \in Nat, Len(pieces) = N, N # 0
  PROVE  \E join : Joins(pieces, N, join) /\ FlattenSeq(pieces) = join[N]
<1> DEFINE flat == CHOOSE join : Joins(pieces, N, join)
<1>1. Joins(pieces, N, flat)
  BY JoinsExist
<1>2. FlattenSeq(pieces) = flat[N]
  BY DEF FlattenSeq, Joins
<1> QED
  BY <1>1, <1>2

(* What a join is, step by step: the pieces before one, and that one.      *)
LEMMA FlattenSteps ==
  ASSUME NEW S, NEW pieces \in Seq(Seq(S))
  PROVE  \E join : /\ FlattenSeq(pieces) = join[Len(pieces)] /\ join[0] = <<>>
                   /\ \A i \in 1 .. Len(pieces) : join[i] = join[i - 1] \o pieces[i]
                   /\ \A i \in 0 .. Len(pieces) : join[i] \in Seq(S)
<1> DEFINE N == Len(pieces)
<1>1. N \in Nat /\ \A i \in 1 .. N : pieces[i] \in Seq(S)
  OBVIOUS
<1>2. CASE N = 0
  <2> DEFINE none == [i \in 0 .. 0 |-> <<>>]
  <2>1. pieces = <<>> /\ <<>> \in Seq(S)
    BY <1>2
  <2>2. FlattenSeq(pieces) = <<>>
    BY <1>2, <2>1 DEF FlattenSeq
  <2>3. none[0] = <<>> /\ \A i \in 0 .. 0 : i = 0
    OBVIOUS
  <2>4. \A i \in 1 .. 0 : FALSE
    OBVIOUS
  <2> HIDE DEF none
  <2>5. /\ FlattenSeq(pieces) = none[N] /\ none[0] = <<>>
        /\ \A i \in 1 .. N : none[i] = none[i - 1] \o pieces[i]
        /\ \A i \in 0 .. N : none[i] \in Seq(S)
    BY <1>2, <2>1, <2>2, <2>3, <2>4
  <2> QED
    BY <2>5
<1>3. CASE N # 0
  <2>1. PICK flat : Joins(pieces, N, flat) /\ FlattenSeq(pieces) = flat[N]
    BY <1>1, <1>3, FlattenIs
  <2>2. \A i \in 1 .. N : flat[i] = IF i = 1 THEN pieces[i] ELSE flat[i - 1] \o pieces[i]
    BY <2>1, Zenon DEF Joins
  <2> DEFINE join == [i \in 0 .. N |-> IF i = 0 THEN <<>> ELSE flat[i]]
  <2>3. join[0] = <<>> /\ \A i \in 1 .. N : join[i] = flat[i]
    BY <1>1
  <2> HIDE DEF join
  <2>4. \A piece \in Seq(S) : <<>> \o piece = piece
    OBVIOUS
  <2>5. \A i \in 1 .. N : join[i] = join[i - 1] \o pieces[i]
    <3> SUFFICES ASSUME NEW i \in 1 .. N PROVE join[i] = join[i - 1] \o pieces[i]
      OBVIOUS
    <3>1. CASE i = 1
      <4>1. i - 1 = 0 /\ join[i] = pieces[i]
        BY <2>2, <2>3, <3>1
      <4>2. <<>> \o pieces[i] = pieces[i]
        BY <1>1, <2>4
      <4> QED
        BY <2>3, <4>1, <4>2
    <3>2. CASE i # 1
      <4>1. i - 1 \in 1 .. N
        BY <1>1, <3>2
      <4> QED
        BY <2>2, <2>3, <3>2, <4>1
    <3> QED
      BY <3>1, <3>2
  <2> DEFINE T == {i \in 0 .. N : join[i] \in Seq(S)}
  <2>6. 0 \in T
    <3>1. <<>> \in Seq(S) /\ 0 \in 0 .. N
      BY <1>1
    <3> QED
      BY <2>3, <3>1
  <2>7. \A i \in 0 .. N : i \in T /\ i < N => i + 1 \in T
    <3> SUFFICES ASSUME NEW i \in 0 .. N, i \in T, i < N PROVE i + 1 \in T
      OBVIOUS
    <3>1. i + 1 \in 1 .. N /\ i + 1 \in 0 .. N /\ (i + 1) - 1 = i
      BY <1>1
    <3>2. pieces[i + 1] \in Seq(S) /\ join[i] \in Seq(S)
      BY <1>1, <3>1
    <3>3. join[i] \o pieces[i + 1] \in Seq(S)
      BY <3>2
    <3> QED
      BY <2>5, <3>1, <3>3
  <2>8. 0 .. N \subseteq T
    <3> HIDE DEF T
    <3> QED
      BY <1>1, <2>6, <2>7, Counting
  <2>9. /\ FlattenSeq(pieces) = join[N] /\ join[0] = <<>>
        /\ \A i \in 1 .. N : join[i] = join[i - 1] \o pieces[i]
        /\ \A i \in 0 .. N : join[i] \in Seq(S)
    <3>1. N \in 1 .. N
      BY <1>1, <1>3
    <3> QED
      BY <2>1, <2>3, <2>5, <2>8, <3>1
  <2> QED
    BY <2>9
<1> QED
  BY <1>2, <1>3

LEMMA JoinAssociates ==
  ASSUME NEW S, NEW p \in Seq(S), NEW q \in Seq(S), NEW r \in Seq(S)
  PROVE  (p \o q) \o r = p \o (q \o r)
OBVIOUS

(* Joining is a homomorphism.                                              *)
LEMMA FlattenEmpty == FlattenSeq(<<>>) = <<>>
<1>1. <<>> \in Seq(Seq({})) /\ Len(<<>>) = 0
  OBVIOUS
<1> QED
  BY <1>1, FlattenSteps

LEMMA FlattenOne ==
  ASSUME NEW S, NEW piece \in Seq(S)
  PROVE  FlattenSeq(<<piece>>) = piece
<1> DEFINE pieces == <<piece>>
<1>1. pieces \in Seq(Seq(S)) /\ Len(pieces) = 1 /\ pieces[1] = piece
  OBVIOUS
<1> HIDE DEF pieces
<1>2. PICK join : /\ FlattenSeq(pieces) = join[Len(pieces)] /\ join[0] = <<>>
                  /\ \A i \in 1 .. Len(pieces) : join[i] = join[i - 1] \o pieces[i]
                  /\ \A i \in 0 .. Len(pieces) : join[i] \in Seq(S)
  BY <1>1, FlattenSteps, ZenonT(60)
<1>3. 1 \in 1 .. Len(pieces) /\ 1 - 1 = 0
  BY <1>1
<1>4. join[1] = <<>> \o piece
  BY <1>1, <1>2, <1>3
<1>5. <<>> \o piece = piece
  OBVIOUS
<1> QED
  BY <1>1, <1>2, <1>4, <1>5 DEF pieces

LEMMA FlattenConcat ==
  ASSUME NEW S, NEW p \in Seq(Seq(S)), NEW q \in Seq(Seq(S))
  PROVE  /\ FlattenSeq(p \o q) = FlattenSeq(p) \o FlattenSeq(q)
         /\ FlattenSeq(p) \in Seq(S) /\ FlattenSeq(q) \in Seq(S)
<1>0. \A a, b, c \in Seq(S) : (a \o b) \o c = a \o (b \o c)
  <2> TAKE a, b, c \in Seq(S)
  <2> QED
    OBVIOUS
<1> DEFINE both == p \o q
           N == Len(p)
           M == Len(q)
<1>1. /\ both \in Seq(Seq(S)) /\ Len(both) = N + M /\ N \in Nat /\ M \in Nat
      /\ \A i \in 1 .. N + M : both[i] = IF i <= N THEN p[i] ELSE q[i - N]
  OBVIOUS
<1> HIDE DEF both
<1>2. PICK all : /\ FlattenSeq(both) = all[Len(both)] /\ all[0] = <<>>
                 /\ \A i \in 1 .. Len(both) : all[i] = all[i - 1] \o both[i]
                 /\ \A i \in 0 .. Len(both) : all[i] \in Seq(S)
  <2>1. both \in Seq(Seq(S))
    BY <1>1
  <2> QED
    BY <2>1, FlattenSteps
<1>3. PICK early : /\ FlattenSeq(p) = early[N] /\ early[0] = <<>>
                   /\ \A i \in 1 .. N : early[i] = early[i - 1] \o p[i]
                   /\ \A i \in 0 .. N : early[i] \in Seq(S)
  BY FlattenSteps
<1>4. PICK late : /\ FlattenSeq(q) = late[M] /\ late[0] = <<>>
                  /\ \A i \in 1 .. M : late[i] = late[i - 1] \o q[i]
                  /\ \A i \in 0 .. M : late[i] \in Seq(S)
  BY FlattenSteps
<1> DEFINE Early == {i \in 0 .. N : all[i] = early[i]}
           Late == {i \in 0 .. M : all[N + i] = early[N] \o late[i]}
<1>5. 0 \in Early
  BY <1>1, <1>2, <1>3
<1>6. \A i \in 0 .. N : i \in Early /\ i < N => i + 1 \in Early
  <2> SUFFICES ASSUME NEW i \in 0 .. N, i \in Early, i < N PROVE i + 1 \in Early
    OBVIOUS
  <2>1. /\ i + 1 \in 1 .. N /\ i + 1 \in 0 .. N /\ (i + 1) - 1 = i
        /\ i + 1 \in 1 .. N + M /\ i + 1 <= N
    BY <1>1
  <2>2. both[i + 1] = p[i + 1] /\ all[i] = early[i]
    BY <1>1, <2>1
  <2>3. all[i + 1] = all[i] \o both[i + 1] /\ early[i + 1] = early[i] \o p[i + 1]
    BY <1>1, <1>2, <1>3, <2>1
  <2> QED
    BY <2>1, <2>2, <2>3
<1>7. all[N] = early[N]
  <2> HIDE DEF Early
  <2>1. 0 .. N \subseteq Early
    BY <1>1, <1>5, <1>6, Counting
  <2>2. N \in 0 .. N
    BY <1>1
  <2> QED
    BY <2>1, <2>2 DEF Early
<1>8. early[N] \in Seq(S) /\ late[M] \in Seq(S)
  BY <1>1, <1>3, <1>4
<1>9. 0 \in Late
  <2>1. early[N] \o <<>> = early[N]
    BY <1>8
  <2>2. N + 0 = N /\ 0 \in 0 .. M
    BY <1>1
  <2> QED
    BY <1>4, <1>7, <2>1, <2>2
<1>10. \A i \in 0 .. M : i \in Late /\ i < M => i + 1 \in Late
  <2> SUFFICES ASSUME NEW i \in 0 .. M, i \in Late, i < M PROVE i + 1 \in Late
    OBVIOUS
  <2>1. /\ i + 1 \in 1 .. M /\ i + 1 \in 0 .. M /\ (i + 1) - 1 = i
        /\ N + (i + 1) \in 1 .. N + M /\ ~(N + (i + 1) <= N)
        /\ (N + (i + 1)) - N = i + 1 /\ (N + (i + 1)) - 1 = N + i
    <3>1. N \in Nat /\ M \in Nat
      BY <1>1
    <3> HIDE DEF N, M
    <3> QED
      BY <3>1
  <2>2. both[N + (i + 1)] = q[i + 1] /\ all[N + i] = early[N] \o late[i]
    BY <1>1, <2>1
  <2>3. all[N + (i + 1)] = all[N + i] \o both[N + (i + 1)]
    BY <1>1, <1>2, <2>1
  <2>4. late[i + 1] = late[i] \o q[i + 1] /\ late[i] \in Seq(S) /\ q[i + 1] \in Seq(S)
    <3>1. late[i + 1] = late[i] \o q[i + 1] /\ late[i] \in Seq(S)
      BY <1>4, <2>1
    <3>2. q[i + 1] \in Seq(S)
      BY <2>1
    <3> QED
      BY <3>1, <3>2
  <2>6. (early[N] \o late[i]) \o q[i + 1] = early[N] \o (late[i] \o q[i + 1])
    BY <1>0, <1>8, <2>4
  <2> QED
    BY <2>1, <2>2, <2>3, <2>4, <2>6
<1>11. all[N + M] = early[N] \o late[M]
  <2> HIDE DEF Late
  <2>1. 0 .. M \subseteq Late
    BY <1>1, <1>9, <1>10, Counting
  <2>2. M \in 0 .. M
    BY <1>1
  <2> QED
    BY <2>1, <2>2 DEF Late
<1> QED
  BY <1>1, <1>2, <1>3, <1>4, <1>8, <1>11 DEF both

(* The pieces of a sequence whose elements each give one.                  *)
Gives(S, piece, T) == piece \in [S -> T]
Pieces(list, piece) == [i \in 1 .. Len(list) |-> piece[list[i]]]

LEMMA PiecesType ==
  ASSUME NEW S, NEW T, NEW piece, Gives(S, piece, T), NEW list \in Seq(S)
  PROVE  /\ Pieces(list, piece) \in Seq(T) /\ Len(Pieces(list, piece)) = Len(list)
         /\ \A i \in 1 .. Len(list) : Pieces(list, piece)[i] = piece[list[i]]
<1>1. Len(list) \in Nat /\ \A i \in 1 .. Len(list) : piece[list[i]] \in T
  BY DEF Gives
<1> QED
  BY <1>1 DEF Pieces

LEMMA PiecesJoined ==
  ASSUME NEW S, NEW T, NEW piece, Gives(S, piece, T), NEW p \in Seq(S), NEW q \in Seq(S)
  PROVE  Pieces(p \o q, piece) = Pieces(p, piece) \o Pieces(q, piece)
<1> DEFINE n == Len(p)
           m == Len(q)
           early == Pieces(p, piece)
           late == Pieces(q, piece)
           both == Pieces(p \o q, piece)
           joined == early \o late
<1>1. /\ p \o q \in Seq(S) /\ Len(p \o q) = n + m /\ n \in Nat /\ m \in Nat
      /\ \A i \in 1 .. n + m : (p \o q)[i] = IF i <= n THEN p[i] ELSE q[i - n]
  BY JoinQueues
<1>2. /\ early \in Seq(T) /\ Len(early) = n /\ \A i \in 1 .. n : early[i] = piece[p[i]]
      /\ late \in Seq(T) /\ Len(late) = m /\ \A i \in 1 .. m : late[i] = piece[q[i]]
      /\ both \in Seq(T) /\ Len(both) = n + m
      /\ \A i \in 1 .. n + m : both[i] = piece[(p \o q)[i]]
  <2>1. early \in Seq(T) /\ Len(early) = n /\ \A i \in 1 .. n : early[i] = piece[p[i]]
    BY PiecesType
  <2>2. late \in Seq(T) /\ Len(late) = m /\ \A i \in 1 .. m : late[i] = piece[q[i]]
    BY PiecesType
  <2>3. /\ both \in Seq(T) /\ Len(both) = Len(p \o q)
        /\ \A i \in 1 .. Len(p \o q) : both[i] = piece[(p \o q)[i]]
    <3> DEFINE whole == p \o q
    <3>1. whole \in Seq(S)
      BY <1>1
    <3> HIDE DEF whole
    <3>2. LET pieces == Pieces(whole, piece)
          IN /\ pieces \in Seq(T) /\ Len(pieces) = Len(whole)
             /\ \A i \in 1 .. Len(whole) : pieces[i] = piece[whole[i]]
      BY <3>1, PiecesType
    <3> QED
      BY <3>2 DEF whole
  <2> QED
    BY <1>1, <2>1, <2>2, <2>3
<1> HIDE DEF early, late, both
<1>3. /\ joined \in Seq(T) /\ Len(joined) = n + m
      /\ \A i \in 1 .. n + m : joined[i] = IF i <= n THEN early[i] ELSE late[i - n]
  <2>1. early \in Seq(T) /\ late \in Seq(T)
    BY <1>2
  <2>2. /\ joined \in Seq(T) /\ Len(joined) = Len(early) + Len(late)
        /\ \A i \in 1 .. Len(early) + Len(late) :
             joined[i] = IF i <= Len(early) THEN early[i] ELSE late[i - Len(early)]
    BY <2>1, JoinQueues
  <2> HIDE DEF joined, n, m
  <2> QED
    BY <1>2, <2>2
<1> HIDE DEF joined
<1>4. ASSUME NEW i \in 1 .. n + m PROVE both[i] = joined[i]
  <2>1. CASE i <= n
    <3>1. i \in 1 .. n /\ (p \o q)[i] = p[i] /\ joined[i] = early[i]
      BY <1>1, <1>3, <2>1
    <3> QED
      BY <1>2, <3>1
  <2>2. CASE ~(i <= n)
    <3>1. i - n \in 1 .. m /\ (p \o q)[i] = q[i - n] /\ joined[i] = late[i - n]
      BY <1>1, <1>3, <2>2
    <3> QED
      BY <1>2, <3>1
  <2> QED
    BY <2>1, <2>2
<1>5. both = joined
  BY <1>2, <1>3, <1>4
<1> QED
  BY <1>5 DEF early, late, both, joined

(* Pieces flattened: of none, of one, and of two sequences in a row.       *)
LEMMA FlattenNoPieces == ASSUME NEW piece PROVE FlattenSeq(Pieces(<<>>, piece)) = <<>>
<1>1. Pieces(<<>>, piece) = <<>>
  BY DEF Pieces
<1> QED
  BY <1>1, FlattenEmpty

LEMMA FlattenOnePiece ==
  ASSUME NEW S, NEW U, NEW piece, Gives(S, piece, Seq(U)), NEW x \in S
  PROVE  FlattenSeq(Pieces(<<x>>, piece)) = piece[x]
<1> DEFINE value == piece[x]
<1>1. value \in Seq(U)
  BY DEF Gives
<1>2. Pieces(<<x>>, piece) = <<value>>
  <2>1. Len(<<x>>) = 1 /\ <<x>>[1] = x
    OBVIOUS
  <2> QED
    BY <2>1 DEF Pieces
<1> HIDE DEF value
<1>3. FlattenSeq(<<value>>) = value
  BY <1>1, FlattenOne
<1> QED
  BY <1>2, <1>3 DEF value

LEMMA FlattenPieces ==
  ASSUME NEW S, NEW U, NEW piece, Gives(S, piece, Seq(U)), NEW p \in Seq(S), NEW q \in Seq(S)
  PROVE  /\ FlattenSeq(Pieces(p \o q, piece)) =
              FlattenSeq(Pieces(p, piece)) \o FlattenSeq(Pieces(q, piece))
         /\ FlattenSeq(Pieces(p, piece)) \in Seq(U)
<1> DEFINE T == Seq(U)
           early == Pieces(p, piece)
           late == Pieces(q, piece)
<1>1. Pieces(p \o q, piece) = early \o late /\ early \in Seq(T) /\ late \in Seq(T)
  <2>1. Gives(S, piece, T)
    OBVIOUS
  <2> HIDE DEF T
  <2> QED
    BY <2>1, PiecesJoined, PiecesType
<1>2. early \in Seq(Seq(U)) /\ late \in Seq(Seq(U))
  BY <1>1
<1> HIDE DEF early, late
<1>3. FlattenSeq(early \o late) = FlattenSeq(early) \o FlattenSeq(late)
      /\ FlattenSeq(early) \in Seq(U)
  BY <1>2, FlattenConcat
<1> QED
  BY <1>1, <1>3 DEF early, late

-----------------------------------------------------------------------------
(* The keys among events, and on a queue.                                  *)

KeyPiece ==
  [event \in InputEvents |-> IF event.key = Motion THEN <<>> ELSE <<event.key>>]

LEMMA KeyPieceType == Gives(InputEvents, KeyPiece, Seq(Nat))
<1>1. <<>> \in Seq(Nat) /\ \A key \in Nat : <<key>> \in Seq(Nat)
  OBVIOUS
<1>2. \A event \in InputEvents : event.key \in Nat
  BY DEF InputEvents
<1>3. \A event \in InputEvents :
        (IF event.key = Motion THEN <<>> ELSE <<event.key>>) \in Seq(Nat)
  BY <1>1, <1>2
<1> QED
  BY <1>3 DEF KeyPiece, Gives

LEMMA KeysArePieces ==
  ASSUME NEW events \in Seq(InputEvents)
  PROVE  Keys(events) = FlattenSeq(Pieces(events, KeyPiece))
<1>1. \A i \in 1 .. Len(events) : events[i] \in InputEvents
  OBVIOUS
<1>2. Pieces(events, KeyPiece) =
        [i \in 1 .. Len(events) |-> IF events[i].key = Motion THEN <<>> ELSE <<events[i].key>>]
  BY <1>1 DEF Pieces, KeyPiece
<1> QED
  BY <1>2 DEF Keys

LEMMA KeysOfNoEvents == Keys(<<>>) = <<>>
<1>1. <<>> \in Seq(InputEvents)
  OBVIOUS
<1> QED
  BY <1>1, KeysArePieces, FlattenNoPieces

LEMMA KeysOfOneEvent ==
  ASSUME NEW event \in InputEvents
  PROVE  /\ event.key = Motion => Keys(<<event>>) = <<>>
         /\ event.key # Motion => Keys(<<event>>) = <<event.key>>
<1>1. <<event>> \in Seq(InputEvents)
  OBVIOUS
<1>2. Keys(<<event>>) = KeyPiece[event]
  BY <1>1, KeysArePieces, KeyPieceType, FlattenOnePiece
<1> QED
  BY <1>2 DEF KeyPiece

LEMMA KeysOfJoined ==
  ASSUME NEW p \in Seq(InputEvents), NEW q \in Seq(InputEvents)
  PROVE  /\ Keys(p \o q) = Keys(p) \o Keys(q)
         /\ Keys(p) \in Seq(Nat) /\ Keys(q) \in Seq(Nat)
<1>1. p \o q \in Seq(InputEvents)
  OBVIOUS
<1> QED
  <2>1. /\ FlattenSeq(Pieces(p \o q, KeyPiece)) =
             FlattenSeq(Pieces(p, KeyPiece)) \o FlattenSeq(Pieces(q, KeyPiece))
        /\ FlattenSeq(Pieces(p, KeyPiece)) \in Seq(Nat)
        /\ FlattenSeq(Pieces(q, KeyPiece)) \in Seq(Nat)
    BY KeyPieceType, FlattenPieces
  <2>2. /\ Keys(p) = FlattenSeq(Pieces(p, KeyPiece)) /\ Keys(q) = FlattenSeq(Pieces(q, KeyPiece))
        /\ Keys(p \o q) = FlattenSeq(Pieces(p \o q, KeyPiece))
    BY <1>1, KeysArePieces
  <2> QED
    BY <2>1, <2>2

(* An event pushed adds its key: coalesced motion has none.                *)
LEMMA KeysPushed ==
  ASSUME buffer \in Seq(InputEvents), NEW event \in InputEvents
  PROVE  /\ Keys(Push(event)) = Keys(buffer) \o Keys(<<event>>)
         /\ Push(event) \in Seq(InputEvents)
<1>1. <<event>> \in Seq(InputEvents)
  OBVIOUS
<1>2. CASE CanCoalesce(event)
  <2>1. event.key = Motion /\ Push(event) = buffer
    BY <1>2 DEF CanCoalesce, Push
  <2>2. Keys(<<event>>) = <<>> /\ Keys(buffer) \in Seq(Nat)
    BY <2>1, KeysOfOneEvent, KeysOfJoined
  <2> QED
    BY <2>1, <2>2, JoinEmpty
<1>3. CASE ~CanCoalesce(event)
  <2>1. Push(event) = Append(buffer, event)
    BY <1>3 DEF Push
  <2>2. Append(buffer, event) = buffer \o <<event>> /\ Append(buffer, event) \in Seq(InputEvents)
    OBVIOUS
  <2>3. Keys(buffer \o <<event>>) = Keys(buffer) \o Keys(<<event>>)
    BY <1>1, KeysOfJoined, ZenonT(60)
  <2> QED
    BY <2>1, <2>2, <2>3
<1> QED
  BY <1>2, <1>3

(* What a queue of the path may hold.                                      *)
Carriers == Messages \cup Action \cup Command

LEMMA CarriersCarry == ASSUME NEW m \in Carriers PROVE EventsOf(m) \in Seq(InputEvents)
<1>0. <<>> \in Seq(InputEvents)
  OBVIOUS
<1>1. CASE m \in Messages
  BY <1>0, <1>1 DEF EventsOf, Messages, InputMessages, FocusMessages
<1>2. CASE m \in Action
  BY <1>0, <1>2, ActionFacts DEF EventsOf, Batch
<1>3. CASE m \in Command
  BY <1>0, <1>3, CommandFacts DEF EventsOf
<1> QED
  BY <1>1, <1>2, <1>3 DEF Carriers

LEMMA QueuesCarry ==
  /\ \A q \in Seq(Messages) : q \in Seq(Carriers)
  /\ \A q \in Seq(Action) : q \in Seq(Carriers)
  /\ \A q \in Seq(Command) : q \in Seq(Carriers)
<1>1. Messages \subseteq Carriers /\ Action \subseteq Carriers /\ Command \subseteq Carriers
  BY DEF Carriers
<1>2. \A S, T : S \subseteq T => \A q \in Seq(S) : q \in Seq(T)
  OBVIOUS
<1> QED
  BY <1>1, <1>2

QueuePiece == [m \in Carriers |-> Keys(EventsOf(m))]

LEMMA QueuePieceType == Gives(Carriers, QueuePiece, Seq(Nat))
<1>1. \A m \in Carriers : Keys(EventsOf(m)) \in Seq(Nat)
  BY CarriersCarry, KeysOfJoined
<1> QED
  BY <1>1 DEF QueuePiece, Gives

LEMMA QueuesArePieces ==
  ASSUME NEW list \in Seq(Carriers)
  PROVE  KeysOf(list) = FlattenSeq(Pieces(list, QueuePiece))
<1>1. \A i \in 1 .. Len(list) : list[i] \in Carriers
  OBVIOUS
<1>2. Pieces(list, QueuePiece) = [i \in 1 .. Len(list) |-> Keys(EventsOf(list[i]))]
  BY <1>1 DEF Pieces, QueuePiece
<1> QED
  BY <1>2 DEF KeysOf

LEMMA KeysOfNoQueue == KeysOf(<<>>) = <<>>
<1>1. <<>> \in Seq(Carriers)
  OBVIOUS
<1> QED
  BY <1>1, QueuesArePieces, FlattenNoPieces

LEMMA KeysOfOneMessage ==
  ASSUME NEW m \in Carriers
  PROVE  KeysOf(<<m>>) = Keys(EventsOf(m)) /\ Keys(EventsOf(m)) \in Seq(Nat)
<1>1. <<m>> \in Seq(Carriers)
  OBVIOUS
<1>2. KeysOf(<<m>>) = QueuePiece[m]
  BY <1>1, QueuesArePieces, QueuePieceType, FlattenOnePiece
<1>3. QueuePiece[m] = Keys(EventsOf(m))
  BY DEF QueuePiece
<1> QED
  BY <1>2, <1>3, CarriersCarry, KeysOfJoined

LEMMA KeysOfJoinedQueues ==
  ASSUME NEW p \in Seq(Carriers), NEW q \in Seq(Carriers)
  PROVE  /\ KeysOf(p \o q) = KeysOf(p) \o KeysOf(q) /\ p \o q \in Seq(Carriers)
         /\ KeysOf(p) \in Seq(Nat) /\ KeysOf(q) \in Seq(Nat)
<1>1. p \o q \in Seq(Carriers)
  OBVIOUS
<1> QED
  <2>1. /\ FlattenSeq(Pieces(p \o q, QueuePiece)) =
             FlattenSeq(Pieces(p, QueuePiece)) \o FlattenSeq(Pieces(q, QueuePiece))
        /\ FlattenSeq(Pieces(p, QueuePiece)) \in Seq(Nat)
        /\ FlattenSeq(Pieces(q, QueuePiece)) \in Seq(Nat)
    BY QueuePieceType, FlattenPieces
  <2>2. /\ KeysOf(p) = FlattenSeq(Pieces(p, QueuePiece))
        /\ KeysOf(q) = FlattenSeq(Pieces(q, QueuePiece))
        /\ KeysOf(p \o q) = FlattenSeq(Pieces(p \o q, QueuePiece))
    BY <1>1, QueuesArePieces
  <2> QED
    BY <1>1, <2>1, <2>2

LEMMA KeysOfAppended ==
  ASSUME NEW S, NEW list \in Seq(S), NEW m \in S, S \subseteq Carriers
  PROVE  KeysOf(Append(list, m)) = KeysOf(list) \o Keys(EventsOf(m))
<1>1. list \in Seq(Carriers) /\ m \in Carriers /\ <<m>> \in Seq(Carriers)
  OBVIOUS
<1>2. Append(list, m) = list \o <<m>>
  OBVIOUS
<1> QED
  BY <1>1, <1>2, KeysOfJoinedQueues, KeysOfOneMessage

LEMMA KeysOfTaken ==
  ASSUME NEW S, NEW list \in Seq(S), list # <<>>, S \subseteq Carriers
  PROVE  KeysOf(list) = Keys(EventsOf(Head(list))) \o KeysOf(Tail(list))
<1>1. list \in Seq(Carriers) /\ Head(list) \in Carriers /\ Tail(list) \in Seq(Carriers)
      /\ <<Head(list)>> \in Seq(Carriers)
  OBVIOUS
<1>2. list = <<Head(list)>> \o Tail(list)
  OBVIOUS
<1> QED
  BY <1>1, <1>2, KeysOfJoinedQueues, KeysOfOneMessage

(* A queue without batches carries no keys.                                *)
LEMMA KeysOfOthers ==
  ASSUME NEW list \in Seq(Carriers),
         \A m \in Entries(list) : m.type \notin {"Input", "ApplyBatch", "ApplyInput"}
  PROVE  KeysOf(list) = <<>>
<1> DEFINE pieces == Pieces(list, QueuePiece)
           N == Len(list)
           T == Seq(Nat)
<1>1. /\ pieces \in Seq(T) /\ Len(pieces) = N /\ N \in Nat
      /\ \A i \in 1 .. N : pieces[i] = QueuePiece[list[i]]
  <2>1. Gives(Carriers, QueuePiece, T)
    BY QueuePieceType
  <2> HIDE DEF T
  <2>2. /\ pieces \in Seq(T) /\ Len(pieces) = Len(list)
        /\ \A i \in 1 .. Len(list) : pieces[i] = QueuePiece[list[i]]
    BY <2>1, PiecesType
  <2>3. Len(list) \in Nat
    OBVIOUS
  <2> QED
    BY <2>2, <2>3
<1>0. pieces \in Seq(Seq(Nat)) /\ KeysOf(list) = FlattenSeq(pieces)
  BY <1>1, QueuesArePieces
<1>2. \A i \in 1 .. N : pieces[i] = <<>>
  <2> SUFFICES ASSUME NEW i \in 1 .. N PROVE pieces[i] = <<>>
    OBVIOUS
  <2>1. list[i] \in Entries(list) /\ list[i] \in Carriers
    BY DEF Entries
  <2>2. EventsOf(list[i]) = <<>>
    BY <2>1 DEF EventsOf
  <2>3. QueuePiece[list[i]] = Keys(EventsOf(list[i]))
    BY <2>1 DEF QueuePiece
  <2> HIDE DEF pieces
  <2> QED
    BY <1>1, <2>2, <2>3, KeysOfNoEvents
<1> HIDE DEF pieces, N, T
<1>3. PICK join : /\ FlattenSeq(pieces) = join[N] /\ join[0] = <<>>
                  /\ \A i \in 1 .. N : join[i] = join[i - 1] \o pieces[i]
                  /\ \A i \in 0 .. N : join[i] \in Seq(Nat)
  BY <1>0, <1>1, FlattenSteps
<1> DEFINE Q == {i \in 0 .. N : join[i] = <<>>}
<1>4. N \in Nat /\ \A i \in 1 .. N : pieces[i] = <<>>
  BY <1>1, <1>2
<1>5. 0 \in Q
  BY <1>3, <1>4
<1>6. \A i \in 0 .. N : i \in Q /\ i < N => i + 1 \in Q
  <2> SUFFICES ASSUME NEW i \in 0 .. N, i \in Q, i < N PROVE i + 1 \in Q
    OBVIOUS
  <2>1. i + 1 \in 1 .. N /\ i + 1 \in 0 .. N /\ (i + 1) - 1 = i
    BY <1>4
  <2>2. join[i + 1] = <<>> \o <<>>
    BY <1>3, <1>4, <2>1
  <2>3. <<>> \o <<>> = <<>>
    OBVIOUS
  <2> QED
    BY <2>1, <2>2, <2>3
<1>7. join[N] = <<>>
  <2> HIDE DEF Q
  <2>1. 0 .. N \subseteq Q
    BY <1>4, <1>5, <1>6, Counting
  <2>2. N \in 0 .. N
    BY <1>4
  <2> QED
    BY <2>1, <2>2 DEF Q
<1> QED
  BY <1>0, <1>3, <1>7

-----------------------------------------------------------------------------
(* The keys owed to an agent: those underway, and those that wait.         *)

Waiting(a) == IF focus = a THEN Keys(buffer) ELSE <<>>

Underway(a) == (KeysOf(commands[a]) \o KeysOf(actions[a])) \o KeysOf(Way(a))

LEMMA QueueParts ==
  ASSUME NEW c \in Seq(Command), NEW t \in Seq(Action), NEW d \in Seq(Messages),
         NEW o \in Seq(Messages)
  PROVE  /\ KeysOf(c \o t \o d \o o) = (KeysOf(c) \o KeysOf(t)) \o KeysOf(d \o o)
         /\ KeysOf(c) \in Seq(Nat) /\ KeysOf(t) \in Seq(Nat) /\ KeysOf(d \o o) \in Seq(Nat)
<1>1. c \in Seq(Carriers) /\ t \in Seq(Carriers) /\ d \in Seq(Carriers) /\ o \in Seq(Carriers)
  BY QueuesCarry
<1>2. /\ KeysOf(c \o t) = KeysOf(c) \o KeysOf(t) /\ c \o t \in Seq(Carriers)
      /\ KeysOf(d \o o) = KeysOf(d) \o KeysOf(o) /\ d \o o \in Seq(Carriers)
      /\ KeysOf(c) \in Seq(Nat) /\ KeysOf(t) \in Seq(Nat)
      /\ KeysOf(d) \in Seq(Nat) /\ KeysOf(o) \in Seq(Nat)
  BY <1>1, KeysOfJoinedQueues
<1> DEFINE early == c \o t
           late == d \o o
           Kc == KeysOf(c)
           Kt == KeysOf(t)
<1>3. (early \o d) \o o = early \o late
  BY <1>1, <1>2, SMTT(60)
<1> HIDE DEF early, late
<1>4. KeysOf(early \o late) = KeysOf(early) \o KeysOf(late)
      /\ KeysOf(late) \in Seq(Nat)
  <2>1. early \in Seq(Carriers) /\ late \in Seq(Carriers)
    BY <1>2 DEF early, late
  <2> QED
    BY <2>1, KeysOfJoinedQueues
<1> QED
  BY <1>2, <1>3, <1>4 DEF early, late

LEMMA OnlyMessages ==
  ASSUME NEW q \in Seq(DownMessage), \A m \in Entries(q) : m.type # "Disconnected"
  PROVE  q \in Seq(Messages)
<1>1. ASSUME NEW i \in 1 .. Len(q) PROVE q[i] \in Messages
  <2>1. q[i] \in DownMessage /\ q[i] \in Entries(q)
    BY DEF Entries
  <2>2. q[i] # Disconnected
    BY <2>1 DEF Disconnected
  <2> QED
    BY <2>1, <2>2 DEF DownMessage
<1> QED
  BY <1>1

LEMMA OwedIs ==
  ASSUME PathType, Connected, NEW a \in Agents
  PROVE  /\ Owed(a) = Underway(a) \o Waiting(a)
         /\ Underway(a) \in Seq(Nat) /\ Waiting(a) \in Seq(Nat)
         /\ KeysOf(commands[a]) \in Seq(Nat) /\ KeysOf(actions[a]) \in Seq(Nat)
         /\ KeysOf(Way(a)) \in Seq(Nat) /\ Keys(buffer) \in Seq(Nat)
<1>1. /\ commands[a] \in Seq(Command) /\ actions[a] \in Seq(Action)
      /\ down[peers[a]] \in Seq(Messages) /\ outbox[a] \in Seq(Messages)
  BY WayType DEF PathType, NativeType, AgentType
<1>2. /\ KeysOf(commands[a] \o actions[a] \o down[peers[a]] \o outbox[a]) = Underway(a)
      /\ KeysOf(commands[a]) \in Seq(Nat) /\ KeysOf(actions[a]) \in Seq(Nat)
      /\ KeysOf(Way(a)) \in Seq(Nat)
  BY <1>1, QueueParts DEF Underway, Way
<1>3. Keys(buffer) \in Seq(Nat) /\ <<>> \in Seq(Nat)
  BY KeysOfJoined DEF PathType, SessionType
<1>4. Underway(a) \in Seq(Nat)
  BY <1>2 DEF Underway
<1> QED
  BY <1>2, <1>3, <1>4 DEF Owed, Waiting

LEMMA OwedIsNow ==
  ASSUME PathType', Connected', NEW a \in Agents
  PROVE  /\ Owed(a)' = Underway(a)' \o Waiting(a)'
         /\ Waiting(a)' \in Seq(Nat) /\ Keys(buffer') \in Seq(Nat)
<1>1. /\ commands'[a] \in Seq(Command) /\ actions'[a] \in Seq(Action)
      /\ down'[peers'[a]] \in Seq(Messages) /\ outbox'[a] \in Seq(Messages)
  <2>1. down'[peers'[a]] \in Seq(DownMessage) /\ peers'[a] \in Sessions
    BY DEF PathType, ConnectionType, Connected
  <2>2. \A m \in Entries(down'[peers'[a]]) : m.type # "Disconnected"
    BY <2>1 DEF Connected
  <2> QED
    BY <2>1, <2>2, OnlyMessages DEF PathType, NativeType, AgentType, SessionType
<1>2. KeysOf(commands'[a] \o actions'[a] \o down'[peers'[a]] \o outbox'[a]) = Underway(a)'
  BY <1>1, QueueParts DEF Underway, Way
<1>3. Keys(buffer') \in Seq(Nat) /\ <<>> \in Seq(Nat)
  BY KeysOfJoined DEF PathType, SessionType
<1> QED
  BY <1>2, <1>3 DEF Owed, Waiting

(* What the controller sends is underway.                                  *)
LEMMA UnderwaySent ==
  ASSUME PathType, Connected, NEW a \in Agents, NEW events \in Seq(InputEvents), Sends(events),
         SessionType', UNCHANGED <<peers, down>>,
         commands'[a] = commands[a], actions'[a] = actions[a]
  PROVE  /\ a = focus => Underway(a)' = Underway(a) \o Keys(events)
         /\ a # focus => Underway(a)' = Underway(a)
         /\ Keys(events) \in Seq(Nat)
<1> DEFINE batch == InputBatch(focus_epoch, last_sent[a] + 1, events)
           news == FocusChanged(focus_epoch', focus', position')
           sent == events # <<>> /\ a = focus
           moved == focus_epoch' # focus_epoch
           pipe == KeysOf(commands[a]) \o KeysOf(actions[a])
           way == KeysOf(Way(a))
           keys == Keys(events)
<1>1. /\ batch \in Messages /\ news \in Messages
      /\ ~sent /\ ~moved => Way(a)' = Way(a)
      /\ sent /\ ~moved => Way(a)' = Append(Way(a), batch)
      /\ ~sent /\ moved => Way(a)' = Append(Way(a), news)
      /\ sent /\ moved => Way(a)' = Append(Append(Way(a), batch), news)
  BY WaySent
<1>2. Way(a) \in Seq(Messages) /\ Messages \subseteq Carriers
  BY WayType DEF Carriers
<1>3. pipe \in Seq(Nat) /\ way \in Seq(Nat) /\ keys \in Seq(Nat)
  BY OwedIs, KeysOfJoined
<1>4. Underway(a) = pipe \o way /\ Underway(a)' = pipe \o KeysOf(Way(a)')
  BY DEF Underway
<1>5. EventsOf(batch) = events /\ EventsOf(news) = <<>>
  BY DEF EventsOf, InputBatch, FocusChanged
<1>6. events = <<>> => keys = <<>>
  BY KeysOfNoEvents
<1> HIDE DEF batch, news, pipe
<1>7. KeysOf(Append(Way(a), batch)) = way \o keys /\ Append(Way(a), batch) \in Seq(Messages)
  BY <1>1, <1>2, <1>5, KeysOfAppended, AppendQueue, ZenonT(60)
<1>8. /\ KeysOf(Append(Way(a), news)) = way \o <<>>
      /\ KeysOf(Append(Append(Way(a), batch), news)) = (way \o keys) \o <<>>
  <2>1. Keys(EventsOf(news)) = <<>>
    BY <1>5, KeysOfNoEvents
  <2>2. KeysOf(Append(Way(a), news)) = way \o Keys(EventsOf(news))
    BY <1>1, <1>2, KeysOfAppended
  <2>3. KeysOf(Append(Append(Way(a), batch), news)) =
          KeysOf(Append(Way(a), batch)) \o Keys(EventsOf(news))
    BY <1>1, <1>2, <1>7, KeysOfAppended
  <2> QED
    BY <1>7, <2>1, <2>2, <2>3
<1> HIDE DEF way, keys, sent, moved
<1>9. way \o <<>> = way /\ (way \o keys) \o <<>> = way \o keys /\ way \o keys \in Seq(Nat)
  BY <1>3
<1>10. /\ sent => KeysOf(Way(a)') = way \o keys
       /\ ~sent => KeysOf(Way(a)') = way
  BY <1>1, <1>7, <1>8, <1>9 DEF way
<1>11. pipe \o (way \o keys) = (pipe \o way) \o keys
  BY <1>3
<1>12. ~sent /\ a = focus => keys = <<>> /\ (pipe \o way) \o keys = pipe \o way
  <2>1. (pipe \o way) \o <<>> = pipe \o way
    BY <1>3
  <2> QED
    BY <1>6, <2>1 DEF sent
<1>13. sent => a = focus
  BY DEF sent
<1> QED
  BY <1>3, <1>4, <1>10, <1>11, <1>12, <1>13 DEF keys

(* A stage that hands a batch on keeps it underway.                        *)
LEMMA UnderwayKept ==
  ASSUME PathType, PathType', Connected, SteadyStep, NEW a \in Agents,
         FollowInv(a), InFlightInv(a), ApplicationInv(a),
         \/ ApplyControllerActions /\ TakeActions
         \/ \E s \in Sessions : IgnoreNetworkEvent(s) \/ Acknowledged(s)
         \/ \E b \in Agents : AgentStep(b)
         \/ UNCHANGED pathVars,
         Inject(a) => \E b \in Agents : b # a /\ AgentStep(b)
  PROVE  Underway(a)' = Underway(a)
<1>1. /\ KeysOf(commands[a]) \in Seq(Nat) /\ KeysOf(actions[a]) \in Seq(Nat)
      /\ KeysOf(Way(a)) \in Seq(Nat)
      /\ commands[a] \in Seq(Command) /\ actions[a] \in Seq(Action) /\ Way(a) \in Seq(Messages)
      /\ Command \subseteq Carriers /\ Action \subseteq Carriers /\ Messages \subseteq Carriers
      /\ actions'[a] \in Seq(Carriers)
  BY OwedIs, WayType, QueuesCarry DEF PathType, NativeType, AgentType, Carriers
<1>2. Underway(a)' = (KeysOf(commands'[a]) \o KeysOf(actions'[a])) \o KeysOf(Way(a)')
  BY DEF Underway
<1>3. CASE \/ ApplyControllerActions /\ TakeActions
           \/ \E s \in Sessions : IgnoreNetworkEvent(s) \/ Acknowledged(s)
           \/ \E b \in Agents : b # a /\ AgentStep(b)
           \/ UNCHANGED pathVars
  <2>1. Way(a)' = Way(a)
    BY <1>3, WayKept
  <2>2. commands'[a] = commands[a] /\ actions'[a] = actions[a]
    BY <1>3, SessionKept DEF LocalTo, SessionOf, ServiceOf
  <2> QED
    BY <1>2, <2>1, <2>2 DEF Underway
<1>4. ASSUME Way(a) # <<>>
      PROVE  /\ KeysOf(Way(a)) = Keys(EventsOf(Head(Way(a)))) \o KeysOf(Tail(Way(a)))
             /\ KeysOf(Tail(Way(a))) \in Seq(Nat) /\ Keys(EventsOf(Head(Way(a)))) \in Seq(Nat)
  <2>1. Tail(Way(a)) \in Seq(Carriers) /\ Head(Way(a)) \in Carriers
    BY <1>1, <1>4, TailQueue, QueuesCarry
  <2> QED
    BY <1>1, <1>4, <2>1, KeysOfTaken, KeysOfJoinedQueues, KeysOfOneMessage
<1>5. CASE ReceiveFocus(a)
  <2>1. /\ Way(a) # <<>> /\ Head(Way(a)).type = "FocusChanged" /\ Way(a)' = Tail(Way(a))
        /\ actions[a] = <<>> /\ UNCHANGED commands
        /\ \A action \in Entries(actions'[a]) : action.type \in {"ReleaseAllInput", "FocusEntered"}
    BY <1>5, FocusEffect
  <2>2. Keys(EventsOf(Head(Way(a)))) = <<>>
    BY <2>1, KeysOfNoEvents DEF EventsOf
  <2>3. KeysOf(Way(a)) = KeysOf(Way(a)')
    BY <1>4, <2>1, <2>2, JoinEmpty
  <2>4. KeysOf(actions[a]) = <<>> /\ KeysOf(actions'[a]) = <<>>
    BY <1>1, <2>1, KeysOfNoQueue, KeysOfOthers
  <2> QED
    BY <1>2, <2>1, <2>3, <2>4 DEF Underway
<1>6. CASE ReceiveInput(a)
  <2> DEFINE message == Head(Way(a))
             batch == [epoch |-> message.epoch, sequence |-> message.sequence,
                       events |-> message.events]
             keys == Keys(message.events)
             rest == KeysOf(Tail(Way(a)))
             given == KeysOf(commands[a])
  <2>1. /\ Way(a) # <<>> /\ message.type = "Input" /\ Way(a)' = Tail(Way(a))
        /\ actions[a] = <<>> /\ UNCHANGED commands
        /\ actions'[a] = <<ApplyInput(batch)>>
    BY <1>6, InputEffect
  <2>2. EventsOf(message) = message.events /\ EventsOf(ApplyInput(batch)) = message.events
    BY <2>1 DEF EventsOf, ApplyInput
  <2>3. KeysOf(actions'[a]) = keys
    <3>1. Len(actions'[a]) = 1 /\ actions'[a][1] = ApplyInput(batch)
      BY <2>1
    <3>2. ApplyInput(batch) \in Carriers
      BY <1>1, <3>1
    <3> HIDE DEF batch
    <3> QED
      BY <2>1, <2>2, <3>2, KeysOfOneMessage
  <2>4. KeysOf(Way(a)) = keys \o rest /\ keys \in Seq(Nat) /\ rest \in Seq(Nat)
        /\ given \in Seq(Nat) /\ KeysOf(actions[a]) = <<>>
    BY <1>1, <1>4, <2>1, <2>2, KeysOfNoQueue
  <2>5. Underway(a)' = (given \o keys) \o rest /\ Underway(a) = (given \o <<>>) \o (keys \o rest)
    BY <1>2, <2>1, <2>3, <2>4 DEF Underway
  <2> HIDE DEF keys, rest, given
  <2>6. given \o <<>> = given /\ (given \o keys) \o rest = given \o (keys \o rest)
    BY <2>4, JoinEmpty, JoinAssociates, SMTT(60)
  <2> QED
    BY <2>5, <2>6
<1>7. CASE ReceiveApplied(a)
  <2>1. /\ actions[a] = <<>> /\ UNCHANGED commands /\ actions'[a] = <<SendAck(last_sent[a])>>
    BY <1>7, AppliedEffect
  <2>2. Way(a)' = Way(a)
    BY <1>7, WayKept
  <2>3. \A action \in Entries(actions'[a]) : action.type = "Send"
    BY <2>1 DEF Entries, SendAck
  <2>4. KeysOf(actions[a]) = <<>> /\ KeysOf(actions'[a]) = <<>>
    BY <1>1, <2>1, <2>3, KeysOfNoQueue, KeysOfOthers
  <2> QED
    BY <1>2, <2>1, <2>2, <2>4 DEF Underway
<1>8. CASE ApplyAgentAction(a) /\ TakeAction(a)
  <2> DEFINE action == Head(actions[a])
             keys == Keys(EventsOf(action))
             rest == KeysOf(Tail(actions[a]))
             given == KeysOf(commands[a])
             way == KeysOf(Way(a))
  <2>1. /\ actions[a] # <<>> /\ action \in Action /\ actions'[a] = Tail(actions[a])
        /\ \/ /\ action.type = "ApplyInput"
              /\ ApplyBatch(peers[a], action.batch) \in Command
              /\ commands'[a] = Append(commands[a], ApplyBatch(peers[a], action.batch))
           \/ /\ ReleaseAll(peers[a]) \in Command
              /\ commands'[a] = Append(commands[a], ReleaseAll(peers[a]))
              /\ action.type # "ApplyInput"
           \/ commands'[a] = commands[a] /\ action.type # "ApplyInput"
    BY <1>8, ActionEffect
  <2>2. Way(a)' = Way(a)
    BY <1>8, WayKept
  <2>3. KeysOf(actions[a]) = keys \o rest /\ keys \in Seq(Nat) /\ rest \in Seq(Nat)
        /\ given \in Seq(Nat) /\ way \in Seq(Nat)
    <3>1. action \in Carriers /\ Tail(actions[a]) \in Seq(Carriers)
      BY <1>1, <2>1
    <3> QED
      BY <1>1, <2>1, <3>1, KeysOfTaken, KeysOfOneMessage, KeysOfJoinedQueues
  <2>4. action.type # "ApplyInput" => keys = <<>>
    <3>1. action.type \notin {"Input", "ApplyBatch"}
      BY <2>1, ActionFacts DEF Action
    <3> QED
      BY <3>1, KeysOfNoEvents DEF EventsOf
  <2>5. KeysOf(commands'[a]) = given \o keys
    <3>1. CASE commands'[a] = commands[a] /\ action.type # "ApplyInput"
      <4> HIDE DEF keys
      <4> QED
        BY <2>3, <2>4, <3>1, JoinEmpty
    <3>2. ASSUME NEW command \in Command, commands'[a] = Append(commands[a], command),
                 Keys(EventsOf(command)) = keys
          PROVE  KeysOf(commands'[a]) = given \o keys
      BY <1>1, <3>2, KeysOfAppended
    <3>3. CASE /\ action.type = "ApplyInput"
               /\ ApplyBatch(peers[a], action.batch) \in Command
               /\ commands'[a] = Append(commands[a], ApplyBatch(peers[a], action.batch))
      <4>1. EventsOf(ApplyBatch(peers[a], action.batch)) = EventsOf(action)
        BY <3>3 DEF EventsOf, ApplyBatch
      <4> QED
        BY <3>2, <3>3, <4>1
    <3>4. CASE /\ ReleaseAll(peers[a]) \in Command
               /\ commands'[a] = Append(commands[a], ReleaseAll(peers[a]))
               /\ action.type # "ApplyInput"
      <4>1. EventsOf(ReleaseAll(peers[a])) = <<>>
        BY DEF EventsOf, ReleaseAll
      <4> QED
        BY <2>4, <3>2, <3>4, <4>1, KeysOfNoEvents
    <3> QED
      BY <2>1, <3>1, <3>3, <3>4
  <2>6. Underway(a)' = ((given \o keys) \o rest) \o way
        /\ Underway(a) = (given \o (keys \o rest)) \o way
    BY <1>2, <2>1, <2>2, <2>3, <2>5 DEF Underway
  <2> HIDE DEF keys, rest, given, way
  <2> QED
    BY <2>3, <2>6
<1> QED
  BY <1>3, <1>5, <1>6, <1>7, <1>8 DEF AgentStep

-----------------------------------------------------------------------------
(* What a call of the controller's session does to the keys that wait.     *)

(* The keys that waited are sent or go on waiting for the focused agent.   *)
Settles(events) ==
  /\ Sends(events) /\ captured' = captured
  /\ Keys(events) \o Keys(buffer') = Keys(buffer)
  /\ focus' = focus \/ buffer' = <<>>

(* The next key joins them.                                                *)
Captures(events) ==
  /\ Sends(events) /\ captured' = captured + 1
  /\ focus' = focus /\ focus \in Agents
  /\ Keys(events) \o Keys(buffer') = Keys(buffer) \o <<captured + 1>>

(* They are given up with the focus.                                       *)
GivesUp ==
  /\ Sends(<<>>) /\ captured' = captured
  /\ focus \in Agents /\ focus' = Local /\ buffer' = <<>>

Stays == Silent /\ UNCHANGED <<captured, buffer>>

LEMMA EventRouted ==
  ASSUME SessionType, NEW event \in InputEvents, NEW to, RouteEvent(event, to),
         error' = error => NewEvent(event), error' # error => captured' = captured
  PROVE  \/ Stays
         \/ \E events \in Seq(InputEvents) : Settles(events) \/ Captures(events)
<1>1. CASE error' # error
  BY <1>1 DEF RouteEvent, deliveries, Silent, Stays
<1>2. CASE error' = error
  <2>1. PICK events \in Seq(InputEvents) : Sends(events) /\ Leaves(event, events)
    BY <1>2, RouteEventSends
  <2>2. /\ buffer \in Seq(InputEvents) /\ <<event>> \in Seq(InputEvents)
        /\ focus \in Agents /\ captured \in Nat
    BY DEF SessionType, RouteEvent, Agents
  <2>3. /\ Keys(buffer) \in Seq(Nat) /\ Keys(<<event>>) \in Seq(Nat)
        /\ Keys(Push(event)) = Keys(buffer) \o Keys(<<event>>)
        /\ Push(event) \in Seq(InputEvents) /\ Keys(Push(event)) \in Seq(Nat)
    BY <2>2, KeysOfJoined, KeysPushed
  <2>4. Keys(events) \o Keys(buffer') = Keys(buffer) \o Keys(<<event>>) /\ focus' = focus
    BY <2>1, <2>3, KeysOfNoEvents, JoinEmpty, ZenonT(60) DEF Leaves
  <2>5. CASE event.key = Motion /\ captured' = captured
    <3>1. Keys(buffer) \o Keys(<<event>>) = Keys(buffer)
      BY <2>3, <2>5, KeysOfOneEvent, JoinEmpty
    <3> QED
      BY <2>1, <2>4, <2>5, <3>1 DEF Settles
  <2>6. CASE event.key = captured + 1 /\ captured' = captured + 1
    <3>1. event.key # Motion
      BY <2>2, <2>6 DEF Motion
    <3>2. Keys(<<event>>) = <<captured + 1>>
      BY <2>6, <3>1, KeysOfOneEvent
    <3> QED
      BY <2>1, <2>2, <2>4, <2>6, <3>2 DEF Captures
  <2> QED
    BY <1>2, <2>5, <2>6 DEF NewEvent
<1> QED
  BY <1>1, <1>2

LEMMA AllSent ==
  ASSUME SessionType, Sends(buffer), buffer' = <<>>, captured' = captured
  PROVE  Settles(buffer) /\ buffer \in Seq(InputEvents)
<1>1. buffer \in Seq(InputEvents) /\ Keys(buffer) \in Seq(Nat)
  BY KeysOfJoined DEF SessionType
<1>2. Keys(buffer) \o Keys(buffer') = Keys(buffer)
  BY <1>1, KeysOfNoEvents, JoinEmpty
<1> QED
  BY <1>1, <1>2 DEF Settles

LEMMA CallEffect ==
  ASSUME PathType, EpochInv, SessionCalled
  PROVE  \/ Stays
         \/ \E events \in Seq(InputEvents) : Settles(events) \/ Captures(events)
         \/ GivesUp
<1> DEFINE Goal == \/ Stays
                   \/ \E events \in Seq(InputEvents) : Settles(events) \/ Captures(events)
                   \/ GivesUp
<1>0. SessionType /\ ~Stranded /\ ~FailStranded
  BY DEF PathType, EpochInv, NothingWaitsLocally, Stranded, FailStranded
<1>1. ASSUME NEW target \in Nodes, NEW entry, ChangeFocus(target, entry), outbox = NoMessages,
             UNCHANGED captured
      PROVE  Goal
  <2>1. CASE UNCHANGED <<focusState, buffer, deliveries, outbox, release>>
    BY <1>1, <2>1 DEF Silent, Stays, focusState, deliveries
  <2>2. CASE Sends(buffer) /\ buffer' = <<>>
    BY <1>0, <1>1, <2>2, AllSent
  <2> QED
    BY <1>0, <1>1, <2>1, <2>2, ChangeFocusSends
<1>2. CASE RouteKey
  <2> DEFINE event == KeyEvent(captured + 1, focus_epoch)
  <2>1. event \in InputEvents /\ event.epoch = focus_epoch /\ event.key = captured + 1
    BY <1>0, KeyType DEF SessionType, KeyEvent
  <2>2. RouteEvent(event, position)
        /\ captured' = IF error' = error THEN captured + 1 ELSE captured
    BY <1>2 DEF RouteKey
  <2> HIDE DEF event
  <2>3. error' = error => NewEvent(event)
    BY <2>1, <2>2 DEF NewEvent
  <2>4. error' # error => captured' = captured
    BY <2>2
  <2> QED
    BY <1>0, <2>1, <2>2, <2>3, <2>4, EventRouted
<1>3. ASSUME NEW to \in 0 .. screens[focus] - 1, Moved(to) PROVE Goal
  <2> DEFINE event == MotionEvent(focus_epoch)
  <2>1. event \in InputEvents /\ NewEvent(event) /\ captured' = captured
    BY <1>0, <1>3, MotionType DEF SessionType, MotionEvent, NewEvent, Moved, RouteMotion
  <2>2. RouteEvent(event, to)
    BY <1>3 DEF Moved, RouteMotion
  <2> HIDE DEF event
  <2> QED
    BY <1>0, <2>1, <2>2, EventRouted
<1>4. ASSUME NEW target \in Agents, NEW entry, Activated(target, entry) PROVE Goal
  <2>1. /\ outbox = NoMessages /\ target \in Nodes
        /\ ChangeFocus(target, entry) /\ UNCHANGED captured
    BY <1>0, <1>4 DEF Activated, Activate, Idle, Agents
  <2> QED
    BY <1>1, <2>1
<1>5. ASSUME NEW target \in Nodes, NEW entry, RouteCrossing(target, entry) PROVE Goal
  BY <1>1, <1>5 DEF RouteCrossing, Idle
<1>6. CASE Captured
  BY <1>2, <1>3, <1>4, <1>5, <1>6 DEF Captured
<1>7. CASE EndTick
  <2>1. CASE UNCHANGED vars
    BY <2>1 DEF vars, focusState, deliveries, Silent, Stays
  <2>2. CASE Flush
    <3>1. Sends(buffer) /\ buffer' = <<>>
      BY <1>0, <2>2, FlushSends
    <3>2. captured' = captured
      BY <1>0, <2>2 DEF Flush
    <3> QED
      BY <1>0, <3>1, <3>2, AllSent
  <2> QED
    BY <1>7, <2>1, <2>2 DEF EndTick
<1>8. CASE ReturnLocal
  <2>1. Sends(<<>>)
    BY <1>0, <1>8, ReturnToLocalSends DEF ReturnLocal
  <2>2. focus \in Agents /\ focus' = Local /\ buffer' = <<>> /\ captured' = captured
    BY <1>0, <1>8 DEF ReturnLocal, ReturnToLocal, SessionType, Agents
  <2> QED
    BY <2>1, <2>2 DEF GivesUp
<1> QED
  BY <1>6, <1>7, <1>8 DEF SessionCalled

-----------------------------------------------------------------------------
(* Every step of the steady path is one of the abstract delivery.          *)

LEMMA OwedCalled ==
  ASSUME PathType, PathType', Connected, Connected', SteadyStep, SessionCalled,
         NEW a \in Agents, NEW events \in Seq(InputEvents)
  PROVE  /\ Stays \/ Settles(events) => Owed(a)' = Owed(a)
         /\ Captures(events) =>
              Owed(a)' = IF a = focus THEN Owed(a) \o <<captured + 1>> ELSE Owed(a)
         /\ GivesUp => Owed(a)' = IF a = focus THEN Underway(a) ELSE Owed(a)
<1>1. /\ UNCHANGED <<peers, down>> /\ SessionType' /\ captured \in Nat
      /\ commands'[a] = commands[a] /\ actions'[a] = actions[a]
  <2>1. UNCHANGED <<peers, down>>
    BY SteadyFrame DEF SessionCalled, Captured, EndTick, ReturnLocal, connectionVars
  <2>2. commands'[a] = commands[a] /\ actions'[a] = actions[a]
    BY SessionKept DEF LocalTo, SessionOf, ServiceOf
  <2> QED
    BY <2>1, <2>2 DEF PathType, SessionType
<1>2. /\ Owed(a) = Underway(a) \o Waiting(a) /\ Owed(a)' = Underway(a)' \o Waiting(a)'
      /\ Underway(a) \in Seq(Nat) /\ Waiting(a) \in Seq(Nat)
      /\ Keys(buffer) \in Seq(Nat) /\ Keys(buffer') \in Seq(Nat)
      /\ Waiting(a) = IF a = focus THEN Keys(buffer) ELSE <<>>
      /\ Waiting(a)' = IF a = focus' THEN Keys(buffer') ELSE <<>>
  BY OwedIs, OwedIsNow DEF Waiting
<1>3. ASSUME NEW sent \in Seq(InputEvents), Sends(sent)
      PROVE  /\ a = focus => Underway(a)' = Underway(a) \o Keys(sent)
             /\ a # focus => Underway(a)' = Underway(a)
             /\ Keys(sent) \in Seq(Nat)
  BY <1>1, <1>3, UnderwaySent
<1> DEFINE under == Underway(a)
           next == Underway(a)'
           wait == Waiting(a)
           left == Waiting(a)'
           keys == Keys(events)
           waited == Keys(buffer)
           waits == Keys(buffer')
<1>4. Stays => Owed(a)' = Owed(a)
  <2> SUFFICES ASSUME Stays PROVE Owed(a)' = Owed(a)
    OBVIOUS
  <2>1. UNCHANGED <<outbox, focus, buffer>>
    BY DEF Stays, Silent
  <2> QED
    BY <1>1, <2>1 DEF Owed
<1>5. buffer' = <<>> => waits = <<>>
  BY KeysOfNoEvents
<1>6. ASSUME Settles(events) PROVE Owed(a)' = Owed(a)
  <2>1. /\ Sends(events) /\ keys \o waits = waited /\ (focus' = focus \/ waits = <<>>)
    BY <1>5, <1>6 DEF Settles
  <2>2. left = IF a = focus THEN waits ELSE <<>>
    BY <1>2, <2>1
  <2>3. CASE a = focus
    <3>1. next = under \o keys /\ keys \in Seq(Nat) /\ left = waits /\ wait = waited
          /\ under \in Seq(Nat) /\ waits \in Seq(Nat)
      BY <1>2, <1>3, <2>1, <2>2, <2>3
    <3> HIDE DEF under, next, wait, left, keys, waited, waits
    <3>2. under \in Seq(Nat) /\ keys \in Seq(Nat) /\ waits \in Seq(Nat)
      BY <3>1
    <3>3. (under \o keys) \o waits = under \o (keys \o waits)
      BY <3>2
    <3>4. next \o left = under \o wait
      BY <2>1, <3>1, <3>3
    <3> QED
      BY <1>2, <3>4 DEF under, next, wait, left
  <2>4. CASE a # focus
    BY <1>2, <1>3, <2>1, <2>2, <2>4
  <2> QED
    BY <2>3, <2>4
<1>7. ASSUME Captures(events)
      PROVE  Owed(a)' = IF a = focus THEN Owed(a) \o <<captured + 1>> ELSE Owed(a)
  <2>1. Sends(events) /\ keys \o waits = waited \o <<captured + 1>> /\ focus' = focus
    BY <1>7 DEF Captures
  <2>2. CASE a = focus
    <3>1. next = under \o keys /\ keys \in Seq(Nat) /\ left = waits /\ wait = waited
          /\ under \in Seq(Nat) /\ waits \in Seq(Nat) /\ waited \in Seq(Nat)
      BY <1>2, <1>3, <2>1, <2>2
    <3> DEFINE new == <<captured + 1>>
    <3>2. new \in Seq(Nat)
      BY <1>1
    <3> HIDE DEF under, next, wait, left, keys, waited, waits
    <3>3. keys \o waits = waited \o new
      BY <2>1
    <3> HIDE DEF new
    <3>4. under \in Seq(Nat) /\ keys \in Seq(Nat) /\ waits \in Seq(Nat) /\ waited \in Seq(Nat)
      BY <3>1
    <3>5. (under \o keys) \o waits = under \o (keys \o waits)
      BY <3>4
    <3>6. (under \o waited) \o new = under \o (waited \o new)
      BY <3>2, <3>4, SMTT(60)
    <3>7. next \o left = (under \o wait) \o new
      BY <3>1, <3>3, <3>5, <3>6
    <3> QED
      BY <1>2, <2>2, <3>7 DEF under, next, wait, left, new
  <2>3. CASE a # focus
    BY <1>2, <1>3, <2>1, <2>3
  <2> QED
    BY <2>2, <2>3
<1>8. ASSUME GivesUp
      PROVE  Owed(a)' = IF a = focus THEN Underway(a) ELSE Owed(a)
  <2>1. Sends(<<>>) /\ focus' = Local /\ buffer' = <<>> /\ <<>> \in Seq(InputEvents)
    BY <1>8 DEF GivesUp
  <2>2. left = <<>> /\ Keys(<<>>) = <<>>
    BY <1>2, <1>5, <2>1, KeysOfNoEvents
  <2>5. under \o <<>> = under
    BY <1>2, JoinEmpty
  <2>3. next = under
    <3>1. /\ a = focus => next = under \o Keys(<<>>)
          /\ a # focus => next = under
      BY <1>3, <2>1
    <3> QED
      BY <2>2, <2>5, <3>1
  <2>4. a # focus => wait = <<>>
    BY <1>2
  <2>6. Owed(a)' = under
    BY <1>2, <2>2, <2>3, <2>5
  <2>7. a # focus => Owed(a) = under
    BY <1>2, <2>4, <2>5
  <2> QED
    BY <2>6, <2>7
<1> QED
  BY <1>4, <1>6, <1>7, <1>8

(* Injecting takes the keys of the oldest command.                         *)
LEMMA OwedInjected ==
  ASSUME PathType, PathType', Connected, Connected', SteadyStep, NEW a \in Agents, Inject(a)
  PROVE  \E keys \in Seq(Nat) :
           /\ Owed(a) = keys \o Owed(a)' /\ Owed(a)' \in Seq(Nat)
           /\ Keys(injected'[a]) = Keys(injected[a]) \o keys
<1> DEFINE command == Head(commands[a])
           keys == Keys(EventsOf(command))
           rest == KeysOf(Tail(commands[a]))
           taken == KeysOf(actions[a])
           way == KeysOf(Way(a))
           wait == Waiting(a)
<1>1. /\ commands[a] # <<>> /\ commands'[a] = Tail(commands[a])
      /\ command \in Command /\ command \in Entries(commands[a])
      /\ commands[a] \in Seq(Command) /\ Command \subseteq Carriers
      /\ UNCHANGED <<controllerVars, agentVars, connectionVars>>
  BY InjectEffect DEF Inject, PathType, NativeType, Carriers
<1>2. /\ UNCHANGED <<actions, down, peers, outbox, focus, buffer>>
  BY <1>1 DEF controllerVars, vars, runtimeVars, focusState, agentVars, agentSessions,
       focusVars, deliveryVars, connectionVars
<1>3. command.type # "BeginSession" /\ command.generation = active_generation[a]
  BY <1>1 DEF Connected
<1>4. /\ KeysOf(commands[a]) = keys \o rest /\ keys \in Seq(Nat) /\ rest \in Seq(Nat)
      /\ taken \in Seq(Nat) /\ way \in Seq(Nat) /\ wait \in Seq(Nat)
      /\ Owed(a) = ((KeysOf(commands[a]) \o taken) \o way) \o wait
  <2>1. command \in Carriers /\ Tail(commands[a]) \in Seq(Carriers)
    BY <1>1
  <2>2. KeysOf(commands[a]) = keys \o rest
    BY <1>1, KeysOfTaken
  <2>3. keys \in Seq(Nat) /\ rest \in Seq(Nat)
    BY <2>1, KeysOfOneMessage, KeysOfJoinedQueues
  <2> QED
    BY <2>2, <2>3, OwedIs DEF Underway
<1>5. Owed(a)' = ((rest \o taken) \o way) \o wait
  <2>1. Owed(a)' = Underway(a)' \o Waiting(a)'
    BY OwedIsNow
  <2>2. Waiting(a)' = wait /\ Way(a)' = Way(a)
    BY <1>2 DEF Waiting, Way
  <2> QED
    BY <1>1, <1>2, <2>1, <2>2 DEF Underway
<1>6. Keys(injected'[a]) = Keys(injected[a]) \o keys
  <2>1. injected[a] \in Seq(InputEvents)
    BY DEF PathType, NativeType
  <2>2. CASE command.type = "ApplyBatch"
    <3>1. InjectBatch(a, command.generation, command.batch)
      BY <1>3, <2>2 DEF Inject
    <3>2. injected'[a] = injected[a] \o command.batch.events
      BY <3>1 DEF InjectBatch, PathType, NativeType
    <3>3. EventsOf(command) = command.batch.events /\ command.batch.events \in Seq(InputEvents)
      BY <1>1, <2>2, CommandFacts DEF EventsOf
    <3> QED
      BY <2>1, <3>2, <3>3, KeysOfJoined
  <2>3. CASE command.type # "ApplyBatch"
    <3>1. command.type = "ReleaseAll"
      BY <1>1, <1>3, <2>3, CommandFacts
    <3>2. UNCHANGED injected
      BY <1>3, <3>1 DEF Inject, historyVars
    <3>3. EventsOf(command) = <<>>
      BY <3>1 DEF EventsOf
    <3>4. keys = <<>> /\ Keys(injected[a]) \in Seq(Nat)
      BY <2>1, <3>3, KeysOfNoEvents, KeysOfJoined
    <3> HIDE DEF keys
    <3> QED
      BY <3>2, <3>4, JoinEmpty
  <2> QED
    BY <2>2, <2>3
<1> HIDE DEF keys, rest, taken, way, wait
<1>7. (((keys \o rest) \o taken) \o way) \o wait = keys \o (((rest \o taken) \o way) \o wait)
      /\ ((rest \o taken) \o way) \o wait \in Seq(Nat)
  <2>1. /\ keys \in Seq(Nat) /\ rest \in Seq(Nat) /\ taken \in Seq(Nat)
        /\ way \in Seq(Nat) /\ wait \in Seq(Nat)
    BY <1>4
  <2> DEFINE onward == rest \o taken
             further == onward \o way
  <2>2. onward \in Seq(Nat) /\ further \in Seq(Nat) /\ further \o wait \in Seq(Nat)
    BY <2>1
  <2>3. (keys \o rest) \o taken = keys \o onward
    BY <2>1, SMTT(60)
  <2> HIDE DEF onward
  <2>4. (keys \o onward) \o way = keys \o further
    BY <2>1, <2>2, SMTT(60)
  <2> HIDE DEF further
  <2>5. (keys \o further) \o wait = keys \o (further \o wait)
    BY <2>1, <2>2, SMTT(60)
  <2> QED
    BY <2>2, <2>3, <2>4, <2>5 DEF onward, further
<1> QED
  BY <1>4, <1>5, <1>6, <1>7

(* Every other step leaves what is owed, and what was injected.            *)
LEMMA OwedKept ==
  ASSUME PathType, PathType', Connected, Connected', SteadyStep, NEW a \in Agents,
         FollowInv(a), InFlightInv(a), ApplicationInv(a),
         \/ ApplyControllerActions /\ TakeActions
         \/ \E s \in Sessions : IgnoreNetworkEvent(s) \/ Acknowledged(s)
         \/ \E b \in Agents : AgentStep(b)
         \/ UNCHANGED pathVars,
         Inject(a) => \E b \in Agents : b # a /\ AgentStep(b)
  PROVE  /\ Owed(a)' = Owed(a) /\ injected'[a] = injected[a]
         /\ UNCHANGED <<focus, captured>>
<1>1. UNCHANGED <<focus, captured, buffer>>
  BY DEF TakeActions, IgnoreNetworkEvent, Acknowledged, Acknowledge, Fail, AgentStep, ReceiveFocus,
         ReceiveInput, ReceiveApplied, Inject, ApplyAgentAction, pathVars, controllerVars, vars,
         focusState
<1>2. Underway(a)' = Underway(a)
  BY UnderwayKept
<1>3. Waiting(a)' = Waiting(a)
  BY <1>1 DEF Waiting
<1>4. injected'[a] = injected[a]
  <2>1. AgentStep(a) /\ ~Inject(a) => UNCHANGED injected
    BY InjectedOnlyByInject DEF AgentStep, AgentNext
  <2>2. CASE AgentStep(a) /\ ~Inject(a)
    BY <2>1, <2>2
  <2>3. CASE ~(AgentStep(a) /\ ~Inject(a))
    BY <2>3, SessionKept DEF LocalTo, ServiceOf
  <2> QED
    BY <2>2, <2>3
<1> QED
  BY <1>1, <1>2, <1>3, <1>4, OwedIs, OwedIsNow

LEMMA JoinSplits ==
  ASSUME NEW S, NEW p \in Seq(S), NEW q \in Seq(S)
  PROVE  /\ SubSeq(p \o q, 1, Len(p)) = p
         /\ SubSeq(p \o q, Len(p) + 1, Len(p \o q)) = q
         /\ Len(p) \in 0 .. Len(p \o q)
         /\ p # <<>> => Len(p) \in 1 .. Len(p \o q)
<1>1. /\ p \o q \in Seq(S) /\ Len(p \o q) = Len(p) + Len(q) /\ Len(p) \in Nat /\ Len(q) \in Nat
      /\ \A i \in 1 .. Len(p) + Len(q) :
           (p \o q)[i] = IF i <= Len(p) THEN p[i] ELSE q[i - Len(p)]
  BY JoinQueues
<1> DEFINE early == SubSeq(p \o q, 1, Len(p))
           late == SubSeq(p \o q, Len(p) + 1, Len(p \o q))
<1>2. early \in Seq(S) /\ Len(early) = Len(p) /\ \A i \in 1 .. Len(p) : early[i] = (p \o q)[i]
  BY <1>1
<1>3. /\ late \in Seq(S) /\ Len(late) = Len(q)
      /\ \A i \in 1 .. Len(q) : late[i] = (p \o q)[Len(p) + i]
  BY <1>1
<1> HIDE DEF early, late
<1>4. \A i \in 1 .. Len(p) : early[i] = p[i]
  BY <1>1, <1>2
<1>5. \A i \in 1 .. Len(q) : late[i] = q[i]
  <2> SUFFICES ASSUME NEW i \in 1 .. Len(q) PROVE late[i] = q[i]
    OBVIOUS
  <2>1. /\ Len(p) + i \in 1 .. Len(p) + Len(q) /\ ~(Len(p) + i <= Len(p))
        /\ (Len(p) + i) - Len(p) = i
    BY <1>1
  <2> QED
    BY <1>1, <1>3, <2>1
<1>6. early = p /\ late = q
  <2>1. early = p
    BY <1>1, <1>2, <1>4
  <2>2. late = q
    BY <1>1, <1>3, <1>5
  <2> QED
    BY <2>1, <2>2
<1>7. p # <<>> => Len(p) >= 1
  BY <1>1, TailQueue
<1> QED
  BY <1>1, <1>6, <1>7 DEF early, late

LEMMA DeliveryInit == EstablishedInit => Delivery!Init
<1> SUFFICES ASSUME EstablishedInit PROVE Delivery!Init
  OBVIOUS
<1>1. focus = Local /\ captured = 0 /\ buffer = <<>> /\ outbox = NoMessages
  BY DEF EstablishedInit, Init
<1>2. ASSUME NEW a \in Agents PROVE Owed(a) = <<>> /\ Keys(injected[a]) = <<>>
  <2>1. /\ commands[a] = <<>> /\ actions[a] = <<>> /\ injected[a] = <<>>
        /\ down[peers[a]] = <<>> /\ outbox[a] = <<>>
    BY <1>1, EstablishedPeers DEF EstablishedInit, NoMessages
  <2>2. commands[a] \o actions[a] \o down[peers[a]] \o outbox[a] = <<>>
    BY <2>1
  <2>3. Owed(a) = <<>> \o <<>>
    BY <1>1, <2>2, KeysOfNoQueue, KeysOfNoEvents DEF Owed
  <2> QED
    BY <2>1, <2>3, KeysOfNoEvents
<1>3. /\ [n \in Agents |-> Owed(n)] = [n \in Agents |-> <<>>]
      /\ [n \in Agents |-> Keys(injected[n])] = [n \in Agents |-> <<>>]
  BY <1>2
<1> QED
  BY <1>1, <1>3 DEF Delivery!Init

LEMMA DeliveryStep ==
  ASSUME SteadyInv, SteadyInv', [SteadyNext]_pathVars
  PROVE  [Delivery!Next]_(Delivery!vars)
<1>1. /\ PathType /\ Connected /\ PathType' /\ Connected' /\ EpochInv
      /\ \A a \in Agents : FollowInv(a) /\ InFlightInv(a) /\ ApplicationInv(a)
  BY DEF SteadyInv, SessionInv
<1>2. SteadyStep
  BY <1>1, SteadySteps
<1> DEFINE owed == [n \in Agents |-> Owed(n)]
           owes == [n \in Agents |-> Owed(n)']
           had == [n \in Agents |-> Keys(injected[n])]
           has == [n \in Agents |-> Keys(injected'[n])]
<1>0. ASSUME NEW a \in Agents
      PROVE  /\ Owed(a) = Underway(a) \o Waiting(a) /\ Owed(a) \in Seq(Nat)
             /\ SubSeq(Owed(a), 1, Len(Underway(a))) = Underway(a)
             /\ Len(Underway(a)) \in 0 .. Len(Owed(a))
  <2>1. /\ Owed(a) = Underway(a) \o Waiting(a)
        /\ Underway(a) \in Seq(Nat) /\ Waiting(a) \in Seq(Nat)
    BY <1>1, OwedIs
  <2>2. Underway(a) \o Waiting(a) \in Seq(Nat)
    BY <2>1
  <2> QED
    BY <2>1, <2>2, JoinSplits
<1>3. Agents \cup {Local} = Nodes /\ focus' \in Nodes /\ Local \notin Agents
  BY <1>1, NodesAssumption DEF PathType, SessionType, Agents
<1>4. ASSUME owes = owed, has = had, captured' = captured
      PROVE  Delivery!Next
  <2>1. Delivery!Move(focus')
    BY <1>4 DEF Delivery!Move
  <2> QED
    BY <1>3, <2>1 DEF Delivery!Next
<1>5. CASE SessionCalled
  <2>1. has = had
    BY <1>5 DEF SessionCalled, Captured, EndTick, ReturnLocal, historyVars
  <2>2. ASSUME NEW events \in Seq(InputEvents), NEW a \in Agents
        PROVE  /\ Stays \/ Settles(events) => Owed(a)' = Owed(a)
               /\ Captures(events) =>
                    Owed(a)' = IF a = focus THEN Owed(a) \o <<captured + 1>> ELSE Owed(a)
               /\ GivesUp => Owed(a)' = IF a = focus THEN Underway(a) ELSE Owed(a)
    BY <1>1, <1>2, <1>5, OwedCalled
  <2>3. <<>> \in Seq(InputEvents)
    OBVIOUS
  <2>4. CASE Stays \/ \E events \in Seq(InputEvents) : Settles(events)
    <3>1. captured' = captured
      BY <2>4 DEF Stays, Settles
    <3>2. \A a \in Agents : Owed(a)' = Owed(a)
      BY <2>2, <2>3, <2>4
    <3> QED
      BY <1>4, <2>1, <3>1, <3>2
  <2>5. ASSUME NEW events \in Seq(InputEvents), Captures(events) PROVE Delivery!Next
    <3>1. focus \in Agents /\ focus' = focus /\ captured' = captured + 1
      BY <2>5 DEF Captures
    <3>2. \A a \in Agents :
            Owed(a)' = IF a = focus THEN Owed(a) \o <<captured + 1>> ELSE Owed(a)
      BY <2>2, <2>5
    <3>3. Owed(focus) \in Seq(Nat) /\ captured \in Nat
      BY <1>0, <1>1, <3>1 DEF PathType, SessionType
    <3>4. Owed(focus) \o <<captured + 1>> = Append(Owed(focus), captured + 1)
      BY <3>3
    <3>5. owes = [owed EXCEPT ![focus] = Append(@, captured + 1)]
      BY <3>1, <3>2, <3>4
    <3>6. Delivery!Capture(focus)
      BY <2>1, <3>1, <3>5 DEF Delivery!Capture
    <3> QED
      BY <3>1, <3>6 DEF Delivery!Next
  <2>6. ASSUME GivesUp PROVE Delivery!Next
    <3>1. focus \in Agents /\ focus' = Local /\ captured' = captured
      BY <2>6 DEF GivesUp
    <3>2. \A a \in Agents : Owed(a)' = IF a = focus THEN Underway(a) ELSE Owed(a)
      BY <2>2, <2>3, <2>6
    <3>3. /\ SubSeq(Owed(focus), 1, Len(Underway(focus))) = Underway(focus)
          /\ Len(Underway(focus)) \in 0 .. Len(Owed(focus))
      BY <1>0, <3>1
    <3>4. owes = [owed EXCEPT ![focus] = SubSeq(@, 1, Len(Underway(focus)))]
      BY <3>1, <3>2, <3>3
    <3>5. Len(Underway(focus)) \in 0 .. Len(owed[focus])
      BY <3>1, <3>3
    <3>6. Delivery!Return(focus)
      BY <2>1, <3>1, <3>4, <3>5 DEF Delivery!Return
    <3> QED
      BY <3>1, <3>6 DEF Delivery!Next
  <2>7. \/ Stays
        \/ \E events \in Seq(InputEvents) : Settles(events) \/ Captures(events)
        \/ GivesUp
    BY <1>1, <1>5, CallEffect
  <2> QED
    BY <2>4, <2>5, <2>6, <2>7
<1>6. CASE \/ ApplyControllerActions /\ TakeActions
           \/ \E s \in Sessions : IgnoreNetworkEvent(s) \/ Acknowledged(s)
           \/ \E a \in Agents : AgentStep(a)
           \/ UNCHANGED pathVars
  <2>1. ASSUME NEW a \in Agents, Inject(a) => \E b \in Agents : b # a /\ AgentStep(b)
        PROVE  /\ Owed(a)' = Owed(a) /\ injected'[a] = injected[a]
               /\ UNCHANGED <<focus, captured>>
    BY <1>1, <1>2, <1>6, <2>1, OwedKept
  <2>2. CASE \A a \in Agents : ~Inject(a)
    <3>1. \A a \in Agents : Owed(a)' = Owed(a) /\ injected'[a] = injected[a]
      BY <2>1, <2>2
    <3>2. UNCHANGED <<focus, captured>>
      BY <1>6 DEF TakeActions, IgnoreNetworkEvent, Acknowledged, Acknowledge, Fail, AgentStep,
                  ReceiveFocus, ReceiveInput, ReceiveApplied, Inject, ApplyAgentAction, pathVars,
                  controllerVars, vars, focusState
    <3> QED
      BY <1>4, <3>1, <3>2
  <2>3. ASSUME NEW a \in Agents, Inject(a) PROVE Delivery!Next \/ UNCHANGED Delivery!vars
    <3>1. UNCHANGED <<focus, captured>>
      BY <2>3 DEF Inject, controllerVars, vars, focusState
    <3>2. \A b \in Agents : b # a => Owed(b)' = Owed(b) /\ injected'[b] = injected[b]
      BY <2>1, <2>3 DEF AgentStep
    <3>3. PICK keys \in Seq(Nat) :
            /\ Owed(a) = keys \o Owed(a)' /\ Owed(a)' \in Seq(Nat)
            /\ Keys(injected'[a]) = Keys(injected[a]) \o keys
      BY <1>1, <1>2, <2>3, OwedInjected
    <3> DEFINE count == Len(keys)
    <3>4. /\ SubSeq(Owed(a), 1, count) = keys
          /\ SubSeq(Owed(a), count + 1, Len(Owed(a))) = Owed(a)'
          /\ keys # <<>> => count \in 1 .. Len(Owed(a))
      BY <3>3, JoinSplits
    <3>5. CASE keys = <<>>
      <4>1. Keys(injected[a]) \in Seq(Nat)
        BY <1>1, KeysOfJoined DEF PathType, NativeType
      <4>2. Owed(a)' = Owed(a) /\ Keys(injected'[a]) = Keys(injected[a])
        BY <3>3, <3>5, <4>1, JoinEmpty
      <4>3. owes = owed /\ has = had
        BY <3>2, <4>2
      <4> QED
        BY <1>4, <3>1, <4>3
    <3>6. CASE keys # <<>>
      <4>1. has = [had EXCEPT ![a] = @ \o SubSeq(owed[a], 1, count)]
        BY <3>2, <3>3, <3>4
      <4>2. owes = [owed EXCEPT ![a] = SubSeq(@, count + 1, Len(@))]
        BY <3>2, <3>4
      <4>3. count \in 1 .. Len(owed[a])
        BY <3>4, <3>6
      <4>4. Delivery!Deliver(a)
        BY <3>1, <4>1, <4>2, <4>3 DEF Delivery!Deliver
      <4> QED
        BY <4>4 DEF Delivery!Next
    <3> QED
      BY <3>5, <3>6
  <2> QED
    BY <2>2, <2>3
<1> QED
  BY <1>2, <1>5, <1>6 DEF SteadyStep

-----------------------------------------------------------------------------
(* The theorems.                                                           *)

(* Neither session ever rejects what the other sends it while connections  *)
(* and displays hold, whatever focus moves, keys and motion are captured,  *)
(* and however the messages, the batches under application and the         *)
(* acknowledgements interleave: a full buffer is all that ends a session   *)
(* (receive_message in agent.rs and controller.rs, run_agent_connection    *)
(* and apply_controller_actions in runtime.rs).                            *)
THEOREM SessionsAlwaysAgree == SteadySpec => []SessionsAgree
<1>1. SteadyInv => SessionsAgree
  BY DEF SteadyInv
<1> QED
  BY <1>1, SteadyInvHolds, PTL

(* An event is injected only on the node that had focus when it was        *)
(* captured (route_input in controller.rs, receive_input in agent.rs).     *)
THEOREM InjectedOnlyWhereFocused == SteadySpec => []InjectedWhereFocused
<1>1. SteadyInv => InjectedWhereFocused
  BY DEF SteadyInv, InjectedInv, InjectedWhereFocused, Known, Entries
<1> QED
  BY <1>1, SteadyInvHolds, PTL

(* A batch carries only events captured in its own epoch, in the whole     *)
(* path as in the session alone (EventBuffer and flush in controller.rs).  *)
THEOREM SentEventsKeepEpoch == SteadySpec => []EventsKeepTheirEpoch
<1>1. SteadyInv => EventsKeepTheirEpoch
  BY EpochInvImplies DEF SteadyInv, SessionInv
<1> QED
  BY <1>1, SteadyInvHolds, PTL

(* No step of the path loses a captured key that waits: it stays, or goes  *)
(* to the focused agent, or focus returns to the controller (flush,        *)
(* change_focus and return_to_local in controller.rs).                     *)
THEOREM KeysNeverDropped == SteadySpec => KeysAreNeverDropped
<1>1. SteadyInv /\ [SteadyNext]_pathVars => [KeysKept]_vars
  <2> SUFFICES ASSUME SteadyInv, [SteadyNext]_pathVars PROVE [KeysKept]_vars
    OBVIOUS
  <2>1. PathType /\ Connected /\ (\A a \in Agents : ApplicationInv(a)) /\ EpochInv
    BY DEF SteadyInv, SessionInv
  <2>2. UNCHANGED vars \/ \E sequence \in Nat : CallsUpTo(sequence)
    BY <2>1, SteadySteps, SteadyCalls
  <2> QED
    BY <2>1, <2>2, CallsKeys
<1> QED
  BY <1>1, SteadyInvHolds, PTL DEF SteadySpec, KeysAreNeverDropped, KeysKept, SentToFocus

(* The steady path delivers: an agent injects the keys captured while it   *)
(* had focus, in the order of capture and each once, and only a return to  *)
(* local control gives any up, the newest first (route_input, flush and    *)
(* return_to_local in controller.rs, receive_input in agent.rs, the        *)
(* runtimes' queues and inject in platform/service.rs).                    *)
THEOREM SteadyPathDelivers == SteadySpec => DeliversInput
<1>1. EstablishedInit => Delivery!Init
  BY DeliveryInit
<1>2. SteadyInv /\ SteadyInv' /\ [SteadyNext]_pathVars => [Delivery!Next]_(Delivery!vars)
  BY DeliveryStep
<1> QED
  BY <1>1, <1>2, SteadyInvHolds, PTL DEF SteadySpec, DeliversInput, Delivery!Spec

=============================================================================
