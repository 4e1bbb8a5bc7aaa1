---------------------------- MODULE ClipboardPath ----------------------------
(***************************************************************************)
(* The clipboard from one node's native clipboard to another's: the        *)
(* clipboard sessions of both ends of every connection, the two runtimes   *)
(* with their queue of native applications (crates/tevir/runtime.rs), the  *)
(* native clipboard services (crates/platform/clipboard.rs), the control   *)
(* stream and the transfer streams of each connection.                     *)
(*                                                                         *)
(* control[e][s] is what end e has sent on the control stream of           *)
(* connection s, with the queues at both ends of it; transfers[e][s] is    *)
(* the same for its transfer streams.  Nothing orders one with the other.  *)
(* Losing a connection keeps a prefix of each and ends it with the event   *)
(* its worker or reader posts.                                             *)
(*                                                                         *)
(* Each copy the user makes is a text of its own, <<node, number>>.  The   *)
(* clipboard is negotiated on every connection.                            *)
(***************************************************************************)
EXTENDS Integers, SequencesExt

CONSTANTS
  Nodes,
  Local,         \* the controller
  MaxCopies,     \* bound on the copies a user makes, by node
  MaxSessions,   \* bound on the connections an agent opens
  MaxFailures,   \* bound on failures of native services
  MaxLosses      \* bound on connections lost

ASSUME ClipboardPathAssumption ==
  /\ Local \in Nodes
  /\ MaxCopies \in [Nodes -> Nat]
  /\ MaxSessions \in Nat /\ MaxFailures \in Nat /\ MaxLosses \in Nat

(* The configuration lists its nodes.                                      *)
ASSUME NodesAreFinite == IsFiniteSet(Nodes)

Agents == Nodes \ {Local}
Ends == {<<Local, a>> : a \in Agents} \cup {<<a, Local>> : a \in Agents}
Node(e) == e[1]
Opposite(e) == <<e[2], e[1]>>
EndsOf(n) == {e \in Ends : Node(e) = n}

CopiesOf(n) == {<<n, i>> : i \in 1 .. MaxCopies[n]}
Texts == UNION {CopiesOf(n) : n \in Nodes}
NoText == <<Local, 0>>
LastSequence == Max({MaxCopies[n] : n \in Nodes}) + 1

VARIABLES
  session, actions, error,   \* the clipboard sessions, by end
  (* the runtimes *)
  inUse,        \* the connection an end uses, or NoSession
  open,         \* its clipboard session is there
  offering,     \* a native change and the ends it has yet to be offered on
  applications, \* ClipboardApplications, by node
  ended,        \* the runtime ended with an error
  (* the native services *)
  service,      \* the runtime still has the service
  native,       \* what the node's clipboard holds
  seen,         \* the text the service saw last
  changed,      \* the user copied and the service has not noticed
  commands, events,
  (* connections *)
  opened, accepted,   \* numbers of connections, by agent
  alive, control, transfers,
  (* bounds and history *)
  copies, failures, losses,
  written       \* generations written to a native clipboard, by connection

S == INSTANCE ClipboardSession

sessionVars == <<session, actions, error>>
serviceVars == <<native, seen, changed, copies>>
streamVars == <<control, transfers>>
connectionVars == <<opened, accepted, alive, losses>>
vars ==
  <<sessionVars, inUse, open, offering, applications, ended, service, serviceVars,
    commands, events, connectionVars, streamVars, failures, written>>

NoSession == 0
Sessions == 1 .. MaxSessions

(* A text to be applied natively.  `session` is not in the code: it is the *)
(* connection the text came on.                                            *)
Application(e, s, n, text) == [end |-> e, session |-> s, sequence |-> n, text |-> text]
NoApplication == Application(<<>>, 0, 0, NoText)
NoApplications == [pending |-> NoApplication, queued |-> <<>>]

Disconnected == [type |-> "Disconnected"]
ClipboardFailed == [type |-> "ClipboardFailed"]
Changed(text) == [type |-> "Changed", text |-> text]
Applied == [type |-> "Applied"]
Failed == [type |-> "Failed"]
NotOffering == [ends |-> {}, text |-> NoText]


Init ==
  /\ S!Init
  /\ inUse = [e \in Ends |-> NoSession]
  /\ open = [e \in Ends |-> FALSE]
  /\ offering = [n \in Nodes |-> NotOffering]
  /\ applications = [n \in Nodes |-> NoApplications]
  /\ ended = [n \in Nodes |-> FALSE]
  /\ service = [n \in Nodes |-> TRUE]
  /\ native = [n \in Nodes |-> NoText]
  /\ seen = [n \in Nodes |-> NoText]
  /\ changed = [n \in Nodes |-> FALSE]
  /\ commands = [n \in Nodes |-> <<>>]
  /\ events = [n \in Nodes |-> <<>>]
  /\ opened = [a \in Agents |-> 0]
  /\ accepted = [a \in Agents |-> 0]
  /\ alive = [a \in Agents |-> [s \in Sessions |-> FALSE]]
  /\ control = [e \in Ends |-> [s \in Sessions |-> <<>>]]
  /\ transfers = [e \in Ends |-> [s \in Sessions |-> <<>>]]
  /\ copies = [n \in Nodes |-> 0]
  /\ failures = 0
  /\ losses = 0
  /\ written = {}

-----------------------------------------------------------------------------
(* The runtimes.                                                           *)

Ended(n) == ended[n] \/ \E e \in EndsOf(n) : error[e] # "none"

(* The runtime can take something new: it carries out what a session       *)
(* returned, and offers a change on every connection, before that.         *)
Free(n) ==
  /\ ~Ended(n)
  /\ \A e \in EndsOf(n) : actions[e] = <<>>
  /\ offering[n].ends = {}

(* An error that ends the runtime of n.                                    *)
EndRuntime(n) ==
  /\ ended' = [ended EXCEPT ![n] = TRUE]
  /\ UNCHANGED <<applications, commands>>

(* start_next_clipboard_application, `list` being the applications before. *)
StartNext(n, list) ==
  \/ /\ list.pending # NoApplication \/ list.queued = <<>>
     /\ applications' = [applications EXCEPT ![n] = list]
     /\ UNCHANGED <<commands, ended>>
  \/ /\ list.pending = NoApplication /\ list.queued # <<>> /\ service[n]
     /\ applications' = [applications EXCEPT ![n] =
                           [pending |-> Head(list.queued), queued |-> Tail(list.queued)]]
     /\ commands' = [commands EXCEPT ![n] = Append(@, Head(list.queued))]
     /\ UNCHANGED ended
  \/ /\ list.pending = NoApplication /\ list.queued # <<>> /\ ~service[n]
     /\ EndRuntime(n)

AgentOf(e) == IF Node(e) = Local THEN e[2] ELSE e[1]
Alive(e) == alive[AgentOf(e)][inUse[e]]

Put(streams, e, message) == [streams EXCEPT ![e][inUse[e]] = Append(@, message)]

(* The first action returned goes out.  On a lost connection it goes       *)
(* nowhere, or the loss shows as an error that ends the runtime.           *)
Send(e) ==
  LET message == Head(actions[e]) IN
  /\ ~Ended(Node(e))
  /\ actions[e] # <<>> /\ message.type # "ApplyRemote"
  /\ S!TakeAction(e)
  /\ \/ /\ Alive(e) /\ message.type = "SendTransfer"
        /\ transfers' = Put(transfers, e, message)
        /\ UNCHANGED control
     \/ /\ Alive(e) /\ message.type # "SendTransfer"
        /\ control' = Put(control, e, message)
        /\ UNCHANGED transfers
     \/ ~Alive(e) /\ UNCHANGED streamVars
  /\ \/ Len(actions[e]) = 1 /\ StartNext(Node(e), applications[Node(e)])
     \/ Len(actions[e]) > 1 /\ UNCHANGED <<applications, commands, ended>>
     \/ ~Alive(e) /\ EndRuntime(Node(e))
  /\ UNCHANGED <<inUse, open, offering, service, serviceVars, events, connectionVars,
                 failures, written>>

(* A text to be applied waits for the ones before it.                      *)
QueueApplication(e) ==
  LET n == Node(e)
      action == Head(actions[e])
      application == Application(e, inUse[e], action.sequence, action.text)
  IN
  /\ ~Ended(n)
  /\ actions[e] # <<>> /\ action.type = "ApplyRemote"
  /\ S!TakeAction(e)
  /\ StartNext(n, [applications[n] EXCEPT !.queued = Append(@, application)])
  /\ UNCHANGED <<inUse, open, offering, service, serviceVars, events, connectionVars,
                 streamVars, failures, written>>

TakeNativeEvent(n, type) ==
  /\ Free(n)
  /\ n # Local => \E e \in EndsOf(n) : inUse[e] # NoSession
  /\ events[n] # <<>> /\ Head(events[n]).type = type

Informed(n) == {e \in EndsOf(n) : open[e]}

(* The native clipboard changed: every open session is told.               *)
NativeChanged(n) ==
  /\ TakeNativeEvent(n, "Changed")
  /\ events' = [events EXCEPT ![n] = Tail(@)]
  /\ offering' = [offering EXCEPT ![n] =
                    [ends |-> Informed(n), text |-> Head(events[n]).text]]
  /\ UNCHANGED <<sessionVars, inUse, open, applications, ended, service, serviceVars,
                 commands, connectionVars, streamVars, failures, written>>

OfferChange(e) ==
  LET n == Node(e)
      rest == offering[n].ends \ {e}
  IN
  /\ ~Ended(n)
  /\ e \in offering[n].ends
  /\ \A f \in EndsOf(n) : actions[f] = <<>>
  /\ S!LocalChanged(e, offering[n].text)
  /\ offering' = [offering EXCEPT ![n] =
                    IF rest = {} THEN NotOffering ELSE [@ EXCEPT !.ends = rest]]
  /\ UNCHANGED <<inUse, open, applications, ended, service, serviceVars, commands, events,
                 connectionVars, streamVars, failures, written>>

(* The native clipboard was written.                                       *)
NativeApplied(n) ==
  LET list == applications[n]
      e == list.pending.end
      rest == [list EXCEPT !.pending = NoApplication]
  IN
  /\ TakeNativeEvent(n, "Applied")
  /\ events' = [events EXCEPT ![n] = Tail(@)]
  /\ \/ list.pending = NoApplication /\ EndRuntime(n) /\ UNCHANGED sessionVars
     \/ /\ list.pending # NoApplication /\ ~open[e]
        /\ StartNext(n, rest)
        /\ UNCHANGED sessionVars
     \/ /\ list.pending # NoApplication /\ open[e]
        /\ S!ConfirmApplied(e, e[2], list.pending.sequence)
        /\ applications' = [applications EXCEPT ![n] = rest]
        /\ UNCHANGED <<commands, ended>>
  /\ UNCHANGED <<inUse, open, offering, service, serviceVars, connectionVars, streamVars,
                 failures, written>>

(* The service failed.  The controller gives it up, after the events it    *)
(* had already taken from it; an agent gives up its clipboard session.     *)
NativeFailed(n) ==
  /\ TakeNativeEvent(n, "Failed")
  /\ applications' = [applications EXCEPT ![n] = NoApplications]
  /\ \/ /\ n = Local
        /\ service' = [service EXCEPT ![n] = FALSE]
        /\ \E kept \in Prefixes(Tail(events[n])) : events' = [events EXCEPT ![n] = kept]
        /\ UNCHANGED open
     \/ /\ n # Local
        /\ open' = [e \in Ends |-> open[e] /\ Node(e) # n]
        /\ events' = [events EXCEPT ![n] = Tail(@)]
        /\ UNCHANGED service
  /\ UNCHANGED <<sessionVars, inUse, offering, ended, serviceVars, commands, connectionVars,
                 streamVars, failures, written>>

(* What comes on the control stream.                                       *)
ReceiveControl(e, message) ==
  \/ /\ message.type = "SendOffer"
     /\ S!ReceiveOffer(e, e[2], message.sequence, message.text)
  \/ /\ message.type = "SendApplied"
     /\ S!ReceiveAcknowledgement(e, e[1], message.sequence)

Arriving(streams, e) ==
  IF inUse[e] = NoSession THEN <<>> ELSE streams[Opposite(e)][inUse[e]]

Taken(streams, e) == [streams EXCEPT ![Opposite(e)][inUse[e]] = Tail(@)]

TakeControl(e) ==
  /\ Free(Node(e)) /\ Arriving(control, e) # <<>>
  /\ control' = Taken(control, e)
  /\ LET message == Head(Arriving(control, e)) IN
     \/ /\ message = Disconnected
        /\ inUse' = [inUse EXCEPT ![e] = NoSession]
        /\ open' = [open EXCEPT ![e] = FALSE]
        /\ UNCHANGED <<sessionVars, applications, commands, ended>>
     \/ /\ message # Disconnected /\ ~open[e]
        /\ EndRuntime(Node(e))
        /\ UNCHANGED <<sessionVars, inUse, open>>
     \/ /\ message # Disconnected /\ open[e]
        /\ ReceiveControl(e, message)
        /\ UNCHANGED <<inUse, open, applications, commands, ended>>
  /\ UNCHANGED <<offering, service, serviceVars, events, connectionVars, transfers,
                 failures, written>>

(* The controller forgets what a failed clipboard had queued, an agent     *)
(* does not.                                                               *)
WithoutPeer(e) ==
  LET list == applications[Node(e)]
      kept == [i \in 1 .. Len(list.queued) |->
                 IF list.queued[i].end = e THEN <<>> ELSE <<list.queued[i]>>]
  IN
  IF Node(e) = Local THEN [list EXCEPT !.queued = FlattenSeq(kept)] ELSE list

TakeTransfer(e) ==
  /\ Free(Node(e)) /\ Arriving(transfers, e) # <<>>
  /\ transfers' = Taken(transfers, e)
  /\ LET message == Head(Arriving(transfers, e)) IN
     \/ /\ message = ClipboardFailed
        /\ open' = [open EXCEPT ![e] = FALSE]
        /\ applications' = [applications EXCEPT ![Node(e)] = WithoutPeer(e)]
        /\ UNCHANGED <<sessionVars, commands, ended>>
     \/ /\ message # ClipboardFailed /\ ~open[e]
        /\ EndRuntime(Node(e))
        /\ UNCHANGED <<sessionVars, open>>
     \/ /\ message # ClipboardFailed /\ open[e]
        /\ S!ReceiveTransfer(e, e[2], message.sequence, message.text)
        /\ UNCHANGED <<open, applications, commands, ended>>
  /\ UNCHANGED <<inUse, offering, service, serviceVars, events, connectionVars, control,
                 failures, written>>

-----------------------------------------------------------------------------
(* Connections.                                                            *)

(* run_agent_connection up to its loop: a new session, no applications;    *)
(* the service and what it has queued stay.                                *)
Connect(a) ==
  LET e == <<a, Local>>
      s == opened[a] + 1
  IN
  /\ Free(a) /\ ~Ended(Local)
  /\ inUse[e] = NoSession /\ opened[a] < MaxSessions
  /\ S!Start(e)
  /\ opened' = [opened EXCEPT ![a] = s]
  /\ alive' = [alive EXCEPT ![a][s] = TRUE]
  /\ inUse' = [inUse EXCEPT ![e] = s]
  /\ open' = [open EXCEPT ![e] = TRUE]
  /\ applications' = [applications EXCEPT ![a] = NoApplications]
  /\ UNCHANGED <<offering, ended, service, serviceVars, commands, events, accepted, losses,
                 streamVars, failures, written>>

(* accept_controller_peer: a new session, in place of any other; the       *)
(* applications of the replaced one stay.                                  *)
AcceptPeer(a) ==
  LET e == <<Local, a>>
      s == accepted[a] + 1
  IN
  /\ Free(Local) /\ accepted[a] < opened[a]
  /\ S!Start(e)
  /\ accepted' = [accepted EXCEPT ![a] = s]
  /\ inUse' = [inUse EXCEPT ![e] = s]
  /\ open' = [open EXCEPT ![e] = TRUE]
  /\ UNCHANGED <<offering, applications, ended, service, serviceVars, commands, events,
                 opened, alive, losses, streamVars, failures, written>>

Cut(streams, a, s, kept, last) ==
  [streams EXCEPT ![<<a, Local>>][s] = Append(kept[1], last),
                  ![<<Local, a>>][s] = Append(kept[2], last)]

KeptOf(streams, a, s) == Prefixes(streams[<<a, Local>>][s]) \X Prefixes(streams[<<Local, a>>][s])

Lose(a, s) ==
  /\ alive[a][s] /\ losses < MaxLosses
  /\ losses' = losses + 1
  /\ alive' = [alive EXCEPT ![a][s] = FALSE]
  /\ \E kept \in KeptOf(control, a, s) : control' = Cut(control, a, s, kept, Disconnected)
  /\ \E kept \in KeptOf(transfers, a, s) :
       transfers' = Cut(transfers, a, s, kept, ClipboardFailed)
  /\ UNCHANGED <<sessionVars, inUse, open, offering, applications, ended, service,
                 serviceVars, commands, events, opened, accepted, failures, written>>

-----------------------------------------------------------------------------
(* The native clipboards.                                                  *)

Report(n, event) ==
  events' = IF service[n] THEN [events EXCEPT ![n] = Append(@, event)] ELSE events

UserCopies(n) ==
  /\ copies[n] < MaxCopies[n]
  /\ copies' = [copies EXCEPT ![n] = @ + 1]
  /\ native' = [native EXCEPT ![n] = <<n, copies[n] + 1>>]
  /\ changed' = [changed EXCEPT ![n] = TRUE]
  /\ UNCHANGED <<sessionVars, inUse, open, offering, applications, ended, service, seen,
                 commands, events, connectionVars, streamVars, failures, written>>

(* The service reads what the clipboard holds by now.  Where it polls, it  *)
(* reports only what it has not seen; where it is signalled, it reports    *)
(* what it reads.                                                          *)
ServiceNotices(n) ==
  /\ service[n] /\ changed[n]
  /\ changed' = [changed EXCEPT ![n] = FALSE]
  /\ seen' = [seen EXCEPT ![n] = native[n]]
  /\ \/ Report(n, Changed(native[n]))
     \/ native[n] = seen[n] /\ UNCHANGED events
  /\ UNCHANGED <<sessionVars, inUse, open, offering, applications, ended, service, native,
                 commands, connectionVars, streamVars, copies, failures, written>>

ServiceApplies(n) ==
  /\ commands[n] # <<>>
  /\ commands' = [commands EXCEPT ![n] = Tail(@)]
  /\ LET application == Head(commands[n]) IN
     /\ native' = [native EXCEPT ![n] = application.text]
     /\ seen' = [seen EXCEPT ![n] = application.text]
     /\ written' = written \cup {application}
  /\ Report(n, Applied)
  /\ UNCHANGED <<sessionVars, inUse, open, offering, applications, ended, service, changed,
                 connectionVars, streamVars, copies, failures>>

(* Mutant: a text that could not be written is reported as applied.        *)
ReportedAnyway == Applied
FailureReported == Failed

(* The clipboard cannot be read, or a text cannot be written.              *)
ServiceFails(n) ==
  /\ service[n] /\ failures < MaxFailures
  /\ failures' = failures + 1
  /\ \/ changed[n] /\ changed' = [changed EXCEPT ![n] = FALSE] /\ UNCHANGED commands
     \/ /\ commands[n] # <<>> /\ commands' = [commands EXCEPT ![n] = Tail(@)]
        /\ UNCHANGED changed
  /\ Report(n, FailureReported)
  /\ UNCHANGED <<sessionVars, inUse, open, offering, applications, ended, service, native,
                 seen, connectionVars, streamVars, copies, written>>

-----------------------------------------------------------------------------

RuntimeStep(n) ==
  \/ NativeChanged(n) \/ NativeApplied(n) \/ NativeFailed(n)
  \/ \E e \in EndsOf(n) :
       \/ Send(e) \/ QueueApplication(e) \/ OfferChange(e)
       \/ TakeControl(e) \/ TakeTransfer(e)

ServiceStep(n) == ServiceNotices(n) \/ ServiceApplies(n)

Next ==
  \/ \E n \in Nodes : RuntimeStep(n) \/ ServiceStep(n) \/ ServiceFails(n) \/ UserCopies(n)
  \/ \E a \in Agents :
       \/ Connect(a) \/ AcceptPeer(a)
       \/ \E s \in Sessions : Lose(a, s)

Spec == Init /\ [][Next]_vars

(* Every task and thread goes on with what it has; users, losses and       *)
(* failures are not fair.                                                  *)
FairSpec ==
  /\ Spec
  /\ \A n \in Nodes : WF_vars(RuntimeStep(n)) /\ WF_vars(ServiceStep(n))
  /\ \A a \in Agents : WF_vars(AcceptPeer(a))

-----------------------------------------------------------------------------
(* Properties.                                                             *)

(* "An applied message is emitted only after the platform confirms its     *)
(* write": a generation an end has an acknowledgement of, on the           *)
(* connection it uses, was written to the peer's native clipboard.         *)
AcknowledgedAfterWrite ==
  \A e \in Ends :
    inUse[e] # NoSession /\ session[e].acknowledged > 0 =>
      \E w \in written :
        /\ w.end = Opposite(e) /\ w.session = inUse[e]
        /\ w.sequence = session[e].acknowledged

(* "The corresponding native change notification is suppressed so received *)
(* content is not sent back to its owner", however late the notification   *)
(* is, and whatever else was copied and applied meanwhile.                 *)
NothingIsSentBack ==
  \A e \in Ends : \A i \in DOMAIN actions[e] :
    actions[e][i].type \in {"SendOffer", "SendTransfer"} => actions[e][i].text[1] # e[2]

(* As long as no connection is lost and no service fails, no runtime meets *)
(* an error: no session rejects what the other sends, and every            *)
(* confirmation of the service is the one that is expected.                *)
SessionsAgree == losses = 0 /\ failures = 0 => \A n \in Nodes : ~Ended(n)

(* A change that is offered is in the end acknowledged, or replaced by a   *)
(* newer one that is, unless a connection is lost or a service fails.      *)
NewestIsAcknowledged ==
  \A e \in Ends :
    session[e].pending # 0 ~> session[e].pending = 0 \/ losses > 0 \/ failures > 0

=============================================================================
