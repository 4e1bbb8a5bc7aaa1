--------------------------- MODULE CaptureService ---------------------------
(***************************************************************************)
(* Native input capture on Linux: the compositor, the two tasks that read  *)
(* the portal and the EIS socket, and the worker thread of CaptureService  *)
(* (platform/service.rs, platform/native_input.rs, platform/state.rs).     *)
(*                                                                         *)
(* The owner of the service posts commands into one bounded queue and      *)
(* takes events from another; `Client` lets it do both in any order, and   *)
(* CapturePath puts the controller's runtime in its place.                 *)
(*                                                                         *)
(* The portal announces an activation over D-Bus while the input of that   *)
(* activation arrives on a socket of its own, so the two may overtake each *)
(* other on their way to the worker.                                       *)
(***************************************************************************)
EXTENDS Naturals, Sequences, FiniteSets, SequencesExt

CONSTANTS
  Edges,            \* edges of the local desktop (four in the code)
  Keys,             \* keys and buttons; Motion stands for pointer motion
  Motion,
  NoEdge,           \* stands for Rust's None where an edge is optional
  CommandCapacity,  \* COMMAND_QUEUE_CAPACITY
  EventCapacity,    \* SERVICE_QUEUE_CAPACITY
  MaxHappenings     \* bound on what happens around the service

ASSUME CaptureAssumption ==
  /\ NoEdge \notin Edges
  /\ Motion \notin Keys
  /\ CommandCapacity \in Nat /\ EventCapacity \in Nat
  /\ MaxHappenings \in Nat

VARIABLES
  captured,   \* the compositor sends input to this session, not to the desktop
  refused,    \* history: the portal has refused to release a capture
  happenings, \* how much the user, the desktop and others did
  signals,    \* portal signals not read yet, in order
  eis,        \* captured input not read from the socket yet, in order
  active,     \* NativeCapture.active: the edge of the activation, or NoEdge
  native,     \* NativeCapture.events: what the two tasks have read, in order
  worker,     \* "running" or "ended"
  enabled_edges, accepting_input, held,   \* locals of run_capture
  commands,   \* posted and not carried out
  events,     \* reported and not taken
  reported    \* history: what is down for whoever takes every event reported

user == <<captured, refused, happenings>>
tasks == <<signals, eis, native>>
service == <<worker, enabled_edges, accepting_input, held, reported>>
nativeVars == <<user, tasks, active>>
captureVars == <<nativeVars, service, commands, events>>

Configure(edges) == [kind |-> "Configure", edges |-> edges]
Release == [kind |-> "Release", edges |-> {}]

(* Native events.                                                          *)
Activation(edge) == [kind |-> "Activated", edge |-> edge]
Input(key, press) == [kind |-> "Input", key |-> key, press |-> press]
ZonesChanged == [kind |-> "DesktopChanged"]
Failure == [kind |-> "Error"]

(* Service events.  `down` is no part of an event: it records the keys     *)
(* that are down for whoever has taken every event up to this one.         *)
Event(kind, down) == [kind |-> kind, down |-> down]
Activated(edge, down) == [kind |-> "Activated", edge |-> edge, down |-> down]
Captured(key, press, down) ==
  [kind |-> "Input", key |-> key, press |-> press, down |-> down]

(* Mutant: nothing is released.                                            *)
NoReleases == <<>>

(* emit_capture_releases: one release per key held, taken as one event.    *)
Releases ==
  IF held = {} THEN <<>>
  ELSE <<[kind |-> "Releases", keys |-> held, down |-> reported \ held]>>

(* What is down after a sequence of events, or `before` when it is empty.  *)
DownAfter(queue, before) == IF queue = <<>> THEN before ELSE Last(queue).down

CaptureInit ==
  /\ captured = FALSE /\ refused = FALSE
  /\ happenings = 0
  /\ signals = <<>> /\ eis = <<>> /\ native = <<>> /\ active = NoEdge
  /\ worker = "running"
  /\ enabled_edges = {} /\ accepting_input = FALSE /\ held = {}
  /\ commands = <<>>
  /\ events = <<Event("DesktopChanged", {}), Event("Ready", {})>>
  /\ reported = {}

-----------------------------------------------------------------------------
(* The user and the compositor.                                            *)

Happens ==
  /\ happenings < MaxHappenings
  /\ happenings' = happenings + 1

(* The pointer hits a barrier.  Barriers stand on every edge of every      *)
(* region, whatever edges the service has enabled.                         *)
CompositorActivates(edge) ==
  /\ worker = "running"
  /\ ~captured
  /\ Happens
  /\ captured' = TRUE
  /\ signals' = Append(signals, Activation(edge))
  /\ UNCHANGED <<refused, eis, native, active, service, commands, events>>

(* A key goes down, repeats or comes up, or the pointer moves.  The key    *)
(* that comes up may have gone down before the capture.                    *)
UserInput(key, press) ==
  /\ worker = "running"
  /\ captured
  /\ Happens
  /\ eis' = Append(eis, Input(key, press))
  /\ UNCHANGED <<captured, refused, signals, native, active, service, commands, events>>

CompositorChangesZones ==
  /\ worker = "running"
  /\ Happens
  /\ signals' = Append(signals, ZonesChanged)
  /\ UNCHANGED <<captured, refused, eis, native, active, service, commands, events>>

(* run_portal_events: an activation is recorded as active before the       *)
(* worker is told of it; a zone change leaves `active` alone.              *)
ReadSignal ==
  /\ worker = "running"
  /\ signals # <<>>
  /\ signals' = Tail(signals)
  /\ native' = Append(native, Head(signals))
  /\ active' = IF Head(signals).kind = "Activated" THEN Head(signals).edge ELSE active
  /\ UNCHANGED <<user, eis, service, commands, events>>

(* run_capture_eis.                                                        *)
ReadInput ==
  /\ worker = "running"
  /\ eis # <<>>
  /\ eis' = Tail(eis)
  /\ native' = Append(native, Head(eis))
  /\ UNCHANGED <<user, signals, active, service, commands, events>>

(* A portal or EIS stream ends, or an event cannot be interpreted.         *)
NativeFails ==
  /\ worker = "running"
  /\ Happens
  /\ native' = Append(native, Failure)
  /\ UNCHANGED <<captured, refused, signals, eis, active, service, commands, events>>

-----------------------------------------------------------------------------
(* The worker.                                                             *)

(* The worker blocks while the event queue is full: a step that reports    *)
(* events is taken when there is room for all of them.                     *)
Report(new) ==
  /\ Len(events) + Len(new) <= EventCapacity
  /\ events' = events \o new
  /\ reported' = DownAfter(new, reported)

(* The keys held are released between what is reported before and after.   *)
ReleaseThenReport(before, after) == Report(before \o Releases \o after)

GivenUp(kind) == Event(kind, DownAfter(Releases, reported))

(* NativeCapture::release: nothing is asked of the portal without an       *)
(* activation that the portal task has read.                               *)
NativeRelease ==
  /\ active' = NoEdge
  /\ captured' = IF active = NoEdge THEN captured ELSE FALSE
  /\ UNCHANGED <<refused, happenings>>

(* The portal refuses: the activation is forgotten before it is asked.     *)
NativeReleaseFails ==
  /\ active # NoEdge
  /\ Happens
  /\ active' = NoEdge /\ refused' = TRUE
  /\ UNCHANGED captured

StopAccepting ==
  /\ accepting_input' = FALSE
  /\ held' = {}

TakeConfigure ==
  LET edges == Head(commands).edges IN
  /\ worker = "running"
  /\ commands # <<>> /\ Head(commands).kind = "Configure"
  /\ commands' = Tail(commands)
  /\ enabled_edges' = edges
  /\ IF edges = enabled_edges
     THEN UNCHANGED <<user, active, accepting_input, held, events, reported>>
     ELSE /\ StopAccepting
          /\ \/ NativeRelease /\ Report(Releases)
             \/ NativeReleaseFails /\ ReleaseThenReport(<<>>, <<GivenUp("Failed")>>)
  /\ UNCHANGED <<tasks, worker>>

TakeRelease ==
  /\ worker = "running"
  /\ commands # <<>> /\ Head(commands).kind = "Release"
  /\ commands' = Tail(commands)
  /\ StopAccepting
  /\ \/ NativeRelease /\ ReleaseThenReport(<<>>, <<GivenUp("Released")>>)
     \/ NativeReleaseFails /\ ReleaseThenReport(<<>>, <<GivenUp("Failed")>>)
  /\ UNCHANGED <<tasks, worker, enabled_edges>>

(* An activation on an edge that is not enabled is given back at once.     *)
TakeActivation ==
  LET edge == Head(native).edge IN
  /\ worker = "running"
  /\ native # <<>> /\ Head(native).kind = "Activated"
  /\ native' = Tail(native)
  /\ accepting_input' = (edge \in enabled_edges)
  /\ IF edge \in enabled_edges
     THEN Report(<<Activated(edge, reported)>>) /\ UNCHANGED <<user, active>>
     ELSE \/ NativeRelease /\ UNCHANGED <<events, reported>>
          \/ NativeReleaseFails /\ Report(<<Event("Failed", reported)>>)
  /\ UNCHANGED <<signals, eis, worker, enabled_edges, held, commands>>

Toggled(down, key, press) ==
  IF key = Motion THEN down ELSE IF press THEN down \cup {key} ELSE down \ {key}

(* HeldInput::observe.                                                     *)
Observe(key, press) == Toggled(held, key, press)

(* Input is observed and reported, or it cannot be converted, or nobody    *)
(* accepts it.                                                             *)
TakeInput ==
  LET input == Head(native) IN
  /\ worker = "running"
  /\ native # <<>> /\ Head(native).kind = "Input"
  /\ native' = Tail(native)
  /\ \/ /\ accepting_input /\ UNCHANGED user
        /\ held' = Observe(input.key, input.press)
        /\ Report(<<Captured(input.key, input.press,
                             Toggled(reported, input.key, input.press))>>)
     \/ /\ accepting_input /\ Happens /\ UNCHANGED <<captured, refused, held>>
        /\ Report(<<Event("Failed", reported)>>)
     \/ ~accepting_input /\ UNCHANGED <<user, held, events, reported>>
  /\ UNCHANGED <<signals, eis, active, worker, enabled_edges, accepting_input, commands>>

TakeZonesChanged ==
  /\ worker = "running"
  /\ native # <<>> /\ Head(native).kind = "DesktopChanged"
  /\ native' = Tail(native)
  /\ StopAccepting
  /\ \/ /\ NativeRelease
        /\ ReleaseThenReport(<<>>, <<GivenUp("DesktopChanged")>>)
     \/ /\ NativeReleaseFails
        /\ ReleaseThenReport(<<>>, <<GivenUp("Failed"), GivenUp("DesktopChanged")>>)
  /\ UNCHANGED <<signals, eis, worker, enabled_edges, commands>>

(* The loop ends: what is held is released, the session is closed, which   *)
(* gives the input back, and the command queue is gone.                    *)
TakeFailure ==
  /\ worker = "running"
  /\ native # <<>> /\ Head(native).kind = "Error"
  /\ worker' = "ended"
  /\ native' = <<>> /\ signals' = <<>> /\ eis' = <<>> /\ commands' = <<>>
  /\ active' = NoEdge /\ captured' = FALSE
  /\ accepting_input' = FALSE /\ held' = {}
  /\ ReleaseThenReport(<<Event("Failed", reported)>>, <<GivenUp("Stopped")>>)
  /\ UNCHANGED <<refused, happenings, enabled_edges>>

Environment ==
  \/ \E edge \in Edges : CompositorActivates(edge)
  \/ \E key \in Keys, press \in BOOLEAN : UserInput(key, press)
  \/ UserInput(Motion, FALSE)
  \/ CompositorChangesZones
  \/ NativeFails

Worker ==
  \/ ReadSignal
  \/ ReadInput
  \/ TakeConfigure
  \/ TakeRelease
  \/ TakeActivation
  \/ TakeInput
  \/ TakeZonesChanged
  \/ TakeFailure

-----------------------------------------------------------------------------
(* Whoever owns the service.                                               *)

Commands == {Configure(edges) : edges \in SUBSET Edges} \cup {Release}

(* CaptureService::send: try_send, which a full queue or an ended worker   *)
(* refuses.                                                                *)
CanPost(posted) == worker = "running" /\ Len(commands) + Len(posted) <= CommandCapacity

Client ==
  /\ UNCHANGED <<nativeVars, service>>
  /\ \/ \E command \in Commands :
          /\ CanPost(<<command>>)
          /\ commands' = Append(commands, command)
          /\ UNCHANGED events
     \/ /\ events # <<>>
        /\ events' = Tail(events)
        /\ UNCHANGED commands

CaptureNext == Environment \/ Worker \/ Client

CaptureSpec == CaptureInit /\ [][CaptureNext]_captureVars

-----------------------------------------------------------------------------
(* Properties of the stream of events.                                     *)

(* Capture is given up only with every key released: whoever has taken the *)
(* events up to a Released, a DesktopChanged or a Stopped holds no key, in *)
(* whatever order commands, activations and input reached the worker.      *)
KeysReleasedBeforeGivingUp ==
  /\ reported = held
  /\ \A i \in DOMAIN events :
       events[i].kind \in {"Released", "DesktopChanged", "Stopped"} => events[i].down = {}

=============================================================================
