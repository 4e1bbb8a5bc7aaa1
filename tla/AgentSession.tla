---------------------------- MODULE AgentSession ----------------------------
(***************************************************************************)
(* The agent's session state machine (crates/session/agent.rs), one per    *)
(* agent.  It follows the focus epochs the controller announces, lets one  *)
(* input batch at a time through to native application, and acknowledges   *)
(* it after the application is confirmed.                                  *)
(*                                                                         *)
(* `actions[a]` is the list the last call returned; the caller carries it  *)
(* out before the next call.  An error ends the session: the caller gives  *)
(* it up.  `Start(a, size)` is AgentSession::new for a new connection.     *)
(***************************************************************************)
EXTENDS SessionMessages, Integers

CONSTANT MaxSequence   \* bound on the batch sequences a controller sends

ASSUME AgentBounds == MaxEpoch \in Nat /\ MaxSequence \in Nat

VARIABLES
  display_size,           \* extent of the agent's own desktop
  highest_focus_epoch,    \* 0 before the first focus message
  active_focus_epoch,     \* the epoch the agent is controlled in, or None
  last_focus,             \* the last focus message accepted, or NoFocus
  last_applied_sequence,
  pending_batch,          \* the batch under native application, or NoBatch
  closed,
  actions,                \* what the last call returned
  agent_error             \* the error that ended the session, or "none"

focusVars == <<highest_focus_epoch, active_focus_epoch, last_focus>>
deliveryVars == <<last_applied_sequence, pending_batch>>
agentSessions ==
  <<display_size, focusVars, deliveryVars, closed, actions, agent_error>>

None == -1
NoFocus == [epoch |-> None, target |-> Local, entry |-> 0]
NoBatch == [epoch |-> 0, sequence |-> 0, events |-> <<>>]
FocusStates == [epoch : Nat \cup {None}, target : Nodes, entry : Positions]
Batches ==
  [epoch : Nat, sequence : Nat,
   events : {events \in Seq(InputEvents) : Len(events) <= MaxBatch}]

ReleaseAllInput == [type |-> "ReleaseAllInput"]
FocusEntered == [type |-> "FocusEntered"]
CloseConnection == [type |-> "CloseConnection"]
ApplyInput(batch) == [type |-> "ApplyInput", batch |-> batch]
SendAck(through) == [type |-> "Send", through |-> through]

AgentActions ==
  [type : {"ReleaseAllInput", "FocusEntered", "CloseConnection"}]
    \cup [type : {"ApplyInput"}, batch : Batches]
    \cup [type : {"Send"}, through : Nat]

AgentIdle(a) == actions[a] = <<>> /\ agent_error[a] = "none"

Return(a, list) == actions' = [actions EXCEPT ![a] = list]

AgentErrors ==
  {"none", "SessionClosed", "UnexpectedDisplayChange", "UnexpectedAcknowledgement",
   "ConflictingFocusEpoch", "EntryPositionOutsideDisplay", "StaleInputEpoch",
   "InactiveInputEpoch", "InputSequenceGap", "InputApplicationPending", "EmptyInputBatch",
   "TooManyInputEvents", "NoInputApplicationPending", "AppliedSequenceMismatch"}

AgentSessionFails(a, reason) ==
  /\ agent_error' = [agent_error EXCEPT ![a] = reason]
  /\ UNCHANGED <<display_size, focusVars, deliveryVars, closed, actions>>

AgentSessionInit ==
  /\ display_size \in [Agents -> Sizes]
  /\ highest_focus_epoch = [a \in Agents |-> 0]
  /\ active_focus_epoch = [a \in Agents |-> None]
  /\ last_focus = [a \in Agents |-> NoFocus]
  /\ last_applied_sequence = [a \in Agents |-> 0]
  /\ pending_batch = [a \in Agents |-> NoBatch]
  /\ closed = [a \in Agents |-> FALSE]
  /\ actions = [a \in Agents |-> <<>>]
  /\ agent_error = [a \in Agents |-> "none"]

Start(a, size) ==
  /\ display_size' = [display_size EXCEPT ![a] = size]
  /\ highest_focus_epoch' = [highest_focus_epoch EXCEPT ![a] = 0]
  /\ active_focus_epoch' = [active_focus_epoch EXCEPT ![a] = None]
  /\ last_focus' = [last_focus EXCEPT ![a] = NoFocus]
  /\ last_applied_sequence' = [last_applied_sequence EXCEPT ![a] = 0]
  /\ pending_batch' = [pending_batch EXCEPT ![a] = NoBatch]
  /\ closed' = [closed EXCEPT ![a] = FALSE]
  /\ actions' = [actions EXCEPT ![a] = <<>>]
  /\ agent_error' = [agent_error EXCEPT ![a] = "none"]

-----------------------------------------------------------------------------
(* Handling one message of the controller.                                 *)

IsActive(a) == active_focus_epoch[a] # None
IsPending(a) == pending_batch[a] # NoBatch

(* Mutant: focus taken away without releasing what is held.                *)
ReleaseForgotten(a) == <<>>

ReleaseIfActive(a) == IF IsActive(a) THEN <<ReleaseAllInput>> ELSE <<>>

(* A focus message newer than every one before it, with nothing pending.   *)
NewerFocus(a, focus) == focus.epoch > highest_focus_epoch[a] /\ ~IsPending(a)

FocusError(a, focus) ==
  \/ /\ focus.epoch = highest_focus_epoch[a] /\ last_focus[a] # focus
     /\ AgentSessionFails(a, "ConflictingFocusEpoch")
  \/ /\ focus.epoch > highest_focus_epoch[a] /\ IsPending(a)
     /\ AgentSessionFails(a, "InputApplicationPending")
  \/ /\ NewerFocus(a, focus) /\ focus.target = a /\ focus.entry >= display_size[a]
     /\ AgentSessionFails(a, "EntryPositionOutsideDisplay")

(* The epoch `focus` makes active, if it names a.  Mutant: whoever it names.*)
EveryEpoch(a, focus) == focus.epoch
OwnEpoch(a, focus) == IF focus.target = a THEN focus.epoch ELSE None

(* change_focus; stale messages and exact repetitions change nothing.      *)
FollowFocus(a, focus) ==
  /\ AgentIdle(a) /\ ~closed[a]
  /\ \/ FocusError(a, focus)
     \/ /\ focus.epoch < highest_focus_epoch[a] \/ focus = last_focus[a]
        /\ UNCHANGED agentSessions
     \/ /\ NewerFocus(a, focus)
        /\ focus.target = a => focus.entry < display_size[a]
        /\ highest_focus_epoch' = [highest_focus_epoch EXCEPT ![a] = focus.epoch]
        /\ last_focus' = [last_focus EXCEPT ![a] = focus]
        /\ active_focus_epoch' = [active_focus_epoch EXCEPT ![a] = OwnEpoch(a, focus)]
        /\ Return(a, ReleaseIfActive(a) \o
                     (IF focus.target = a THEN <<FocusEntered>> ELSE <<>>))
        /\ UNCHANGED <<display_size, deliveryVars, closed, agent_error>>

Acceptable(a, batch) ==
  /\ active_focus_epoch[a] = batch.epoch
  /\ ~IsPending(a)

(* Mutant: a duplicate applied again.                                      *)
NextOrDuplicate(a, batch) == batch.sequence <= last_applied_sequence[a] + 1

IsNext(a, batch) == batch.sequence = last_applied_sequence[a] + 1

ValidBatch(batch) == batch.events # <<>> /\ Len(batch.events) <= MaxBatch

InputError(a, batch) ==
  \/ /\ ~ValidBatch(batch)
     /\ AgentSessionFails(a, IF batch.events = <<>> THEN "EmptyInputBatch"
                             ELSE "TooManyInputEvents")
  \/ /\ ValidBatch(batch) /\ batch.epoch < highest_focus_epoch[a]
     /\ AgentSessionFails(a, "StaleInputEpoch")
  \/ /\ ValidBatch(batch) /\ batch.epoch >= highest_focus_epoch[a]
     /\ active_focus_epoch[a] # batch.epoch
     /\ AgentSessionFails(a, "InactiveInputEpoch")
  \/ /\ ValidBatch(batch) /\ active_focus_epoch[a] = batch.epoch /\ IsPending(a)
     /\ AgentSessionFails(a, "InputApplicationPending")
  \/ /\ ValidBatch(batch) /\ Acceptable(a, batch)
     /\ batch.sequence > last_applied_sequence[a] + 1
     /\ AgentSessionFails(a, "InputSequenceGap")

(* receive_input; a duplicate repeats the last acknowledgement.            *)
ReceiveBatch(a, batch) ==
  /\ AgentIdle(a) /\ ~closed[a]
  /\ \/ InputError(a, batch)
     \/ /\ ValidBatch(batch) /\ Acceptable(a, batch)
        /\ batch.sequence <= last_applied_sequence[a]
        /\ Return(a, <<SendAck(last_applied_sequence[a])>>)
        /\ UNCHANGED <<display_size, focusVars, deliveryVars, closed, agent_error>>
     \/ /\ ValidBatch(batch) /\ Acceptable(a, batch)
        /\ IsNext(a, batch)
        /\ pending_batch' = [pending_batch EXCEPT ![a] = batch]
        /\ Return(a, <<ApplyInput(batch)>>)
        /\ UNCHANGED <<display_size, focusVars, last_applied_sequence, closed, agent_error>>

ReceiveDisconnect(a) ==
  /\ AgentIdle(a) /\ ~closed[a]
  /\ active_focus_epoch' = [active_focus_epoch EXCEPT ![a] = None]
  /\ pending_batch' = [pending_batch EXCEPT ![a] = NoBatch]
  /\ closed' = [closed EXCEPT ![a] = TRUE]
  /\ Return(a, <<ReleaseAllInput, CloseConnection>>)
  /\ UNCHANGED <<display_size, highest_focus_epoch, last_focus, last_applied_sequence,
                 agent_error>>

(* What only an agent may send: a display report or an acknowledgement.    *)
ReceiveUnexpected(a) ==
  /\ AgentIdle(a) /\ ~closed[a]
  /\ \/ AgentSessionFails(a, "UnexpectedDisplayChange")
     \/ AgentSessionFails(a, "UnexpectedAcknowledgement")

ReceiveWhenClosed(a) == AgentIdle(a) /\ closed[a] /\ AgentSessionFails(a, "SessionClosed")

-----------------------------------------------------------------------------
(* Native events.                                                          *)

ConfirmError(a, sequence) ==
  \/ closed[a] /\ AgentSessionFails(a, "SessionClosed")
  \/ ~closed[a] /\ ~IsPending(a) /\ AgentSessionFails(a, "NoInputApplicationPending")
  \/ /\ ~closed[a] /\ IsPending(a) /\ pending_batch[a].sequence # sequence
     /\ AgentSessionFails(a, "AppliedSequenceMismatch")

ConfirmApplied(a, sequence) ==
  /\ AgentIdle(a)
  /\ \/ ConfirmError(a, sequence)
     \/ /\ ~closed[a] /\ IsPending(a) /\ pending_batch[a].sequence = sequence
        /\ last_applied_sequence' = [last_applied_sequence EXCEPT ![a] = sequence]
        /\ pending_batch' = [pending_batch EXCEPT ![a] = NoBatch]
        /\ Return(a, <<SendAck(sequence)>>)
        /\ UNCHANGED <<display_size, focusVars, closed, agent_error>>

ReconcileDisplay(a, size) ==
  /\ AgentIdle(a)
  /\ display_size' = [display_size EXCEPT ![a] = size]
  /\ active_focus_epoch' = [active_focus_epoch EXCEPT ![a] = None]
  /\ pending_batch' = [pending_batch EXCEPT ![a] = NoBatch]
  /\ Return(a, <<ReleaseAllInput>>)
  /\ UNCHANGED <<highest_focus_epoch, last_focus, last_applied_sequence, closed, agent_error>>

(* The caller has carried out the first action returned.                   *)
TakeAction(a) ==
  /\ actions[a] # <<>>
  /\ Return(a, Tail(actions[a]))
  /\ UNCHANGED <<display_size, focusVars, deliveryVars, closed, agent_error>>

-----------------------------------------------------------------------------
(* An agent that any controller talks to: every message at any time, and   *)
(* any report of the native backend.                                       *)

AnyFocus == [epoch : 0 .. MaxEpoch, target : Nodes, entry : {n - 1 : n \in Sizes}]

AnyBatch ==
  {[epoch |-> e, sequence |-> n, events |-> [i \in 1 .. length |-> MotionEvent(e)]] :
     e \in 0 .. MaxEpoch, n \in 0 .. MaxSequence, length \in 0 .. MaxBatch + 1}

AgentSessionNext ==
  \E a \in Agents :
    \/ \E focus \in AnyFocus : FollowFocus(a, focus)
    \/ \E batch \in AnyBatch : ReceiveBatch(a, batch)
    \/ ReceiveDisconnect(a)
    \/ ReceiveUnexpected(a)
    \/ ReceiveWhenClosed(a)
    \/ \E sequence \in 0 .. MaxSequence : ConfirmApplied(a, sequence)
    \/ \E size \in Sizes : ReconcileDisplay(a, size)
    \/ TakeAction(a)

AgentSessionSpec == AgentSessionInit /\ [][AgentSessionNext]_agentSessions

-----------------------------------------------------------------------------
(* Properties.                                                             *)

(* Every variable keeps its type; no batch beyond the protocol limit is    *)
(* ever taken for application.                                             *)
AgentTypeOK ==
  /\ display_size \in [Agents -> Sizes]
  /\ highest_focus_epoch \in [Agents -> Nat]
  /\ active_focus_epoch \in [Agents -> Nat \cup {None}]
  /\ last_focus \in [Agents -> FocusStates]
  /\ last_applied_sequence \in [Agents -> Nat]
  /\ pending_batch \in [Agents -> Batches]
  /\ closed \in [Agents -> BOOLEAN]
  /\ actions \in [Agents -> Seq(AgentActions)]
  /\ agent_error \in [Agents -> AgentErrors]

(* An agent is controlled only in the newest epoch it was told of, an      *)
(* epoch that names it, entered at a position on its present desktop.      *)
ControlledInNewestEpoch ==
  \A a \in Agents : IsActive(a) =>
    /\ active_focus_epoch[a] = highest_focus_epoch[a]
    /\ last_focus[a].epoch = highest_focus_epoch[a]
    /\ last_focus[a].target = a
    /\ last_focus[a].entry < display_size[a]
    /\ ~closed[a]

(* The batch under application is the next in sequence and belongs to the  *)
(* epoch the agent is controlled in: a new focus, a display change or a    *)
(* disconnect never leaves an older one behind.                            *)
PendingBatchIsNext ==
  \A a \in Agents : IsPending(a) =>
    /\ pending_batch[a].sequence = last_applied_sequence[a] + 1
    /\ IsActive(a)
    /\ pending_batch[a].epoch = active_focus_epoch[a]

(* "Focus changes, display changes, and broken connections release held    *)
(* state before another epoch can inject input": whatever ends an interval *)
(* of control first returns ReleaseAllInput.                               *)
LosingControlReleasesInput ==
  [][\A a \in Agents :
       IsActive(a) /\ active_focus_epoch'[a] # active_focus_epoch[a]
         => actions'[a] # <<>> /\ actions'[a][1] = ReleaseAllInput]_agentSessions

=============================================================================
