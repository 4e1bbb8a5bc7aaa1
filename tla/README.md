# A verification project for Tevir

Tevir shares one keyboard, pointer and clipboard among several computers. One
node, the *controller*, captures input at the edges of its desktop and sends it
to the *agent* that has focus; agents inject it natively and acknowledge it.
This directory models the code that decides which node has focus, numbers the
focus epochs, batches and delivers input, and takes it through two runtimes, the
connections between them and the native services; the code that captures input at
the edges and gives it back; the code that keeps the clipboards of two nodes the
same; the arrangement of desktops and its editor; the handshake; and the application
with its trust store. TLC checks the models on small instances. TLAPS proves, for every
value of the constants, the properties of the sessions and of the paths they are composed
into (that the input path implements its abstract specification among them), of the
capture service, the trust store, the application, the handshake and the heartbeats.

Paths below are relative to the repository (`crates/...`).

## 1. The system

| Component | State | Operations | Correct when |
|---|---|---|---|
| Controller session, `session/src/controller.rs`, `coalesce.rs` | topology, focus and its epoch, pointer position, event buffer, per-peer delivery (sent, acknowledged, pending) | `activate`, `route_input`, `flush`, `acknowledge`, `reset_peer`, `return_to_local`, `reconcile_topology` | one batch per peer in flight; events travel only in their own epoch; keys are never dropped; the pointer is on the focused desktop; every focus change is announced |
| Agent session, `session/src/agent.rs` | display size, highest and active epoch, last focus, last applied sequence, pending batch | `handle` (focus, input, disconnect), `confirm_applied`, `reconcile_display` | controlled only in the newest epoch; batches applied once and in order; losing control releases what is held |
| Runtimes, `tevir/src/runtime.rs` | active connections by peer, pending activation, agent connection, application pending, clipboard applications | the `select!` loops of `run_controller` and `run_agent_connection`, connection workers, reconnection | late news of a replaced connection is ignored; nothing held survives control; no session rejects what the other sends; deliveries go on |
| Injection service, `platform/src/service.rs` | active generation, held input | begin session, apply batch, warp, release all, display poll | only the current generation injects; the previous one's keys are released first |
| Capture service, `platform/src/service.rs`, `native_input.rs` | enabled edges, accepting input, held input, the portal's activation | configure, release, native events | capture is given up with every key released; without a session input comes back |
| Clipboard sessions, `session/src/clipboard.rs`, and the application queue of the runtime | offered and remote generations, incomplete inbound one, native application in flight | local change, receive offer/payload/applied, confirm | the newest generation wins, one application at a time, no echo |
| Topology, geometry, displays, `domain/`, and the edge functions of the runtime | none (values) | validation, transition across an edge, armed edges, activation targets, resizing a screen | a crossing lands on the desktop it touches and can be taken back; an edge is armed exactly where it leads somewhere |
| Transport, `transport/` | replay guard, deadlines, streams | handshake, framing, control and clipboard streams, heartbeats | either end knows whose connection it uses, both agree on what they negotiated, no replay inside the window, a connection in time lasts |
| Wire protocol, `protocol/` | none | encode, decode, limits | a decoded message is the one encoded |
| Discovery, `discovery/` | bounded registry of nearby nodes | announce, resolve, remove | one entry per node, bounded |
| Identity and trust, `identity/` | trusted peers in memory and on disk | load, pair, remove | a certificate belongs to one node; removed stays removed; memory is on the disk |
| Configuration, `tevir/src/config.rs`, `settings.rs` | a file | load, validate, save | what runs is what was saved |
| Application, `tevir/src/app.rs`, `desktop.rs` | session state, session handle, native host, arrangement editor | start, stop, reconfigure, pair, remove, edit, draw | the user sees what runs; an agent comes back after its service closed |
| Telemetry, `telemetry/` | bounded in-memory log | record, rotate | bounded |

How they interact. The controller's loop (`run_controller`) owns the controller
session; nothing else touches it. It takes, one at a time and to the end,
commands of the application, accepted connections, network events and the input
tick, which drains all captured events and then flushes. The actions a session
call returns are carried out before anything else is taken. Each connection has a
worker with an outbound queue; everything inbound goes through one network queue,
tagged with the connection's session id. An agent has at most one connection at a
time; its loop reads the next message only when no batch is under native
application, and polls the injection service for confirmations and display
changes. The injection service is a thread with a command queue and an event
queue; it outlives connections, and a *generation* per connection tells the
commands of one from those of the next. The clipboard service is another such thread,
on every node; its `Applied` report names no generation, so that a runtime has one
native application in flight and a queue behind it. Every connection has a clipboard
session at each end.

Around these, the UI thread of the application posts commands into a bounded queue
of the runtime's thread, takes its events once per frame, and joins it to stop it.
It owns the trust store, the saved configuration, the arrangement editor and the
native service, which outlives sessions. On the controller, capture is a third
service thread, fed by two tasks that read the compositor's portal and its input
stream.

What is hard here: input that waits behind an unacknowledged batch while focus or
the topology changes; a display that changes on one side while focus or input is
on its way from the other; a connection lost at any point and replaced before its
end is noticed; confirmations and commands of an older connection or of an
abandoned batch; a runtime that ends half way through a list of actions; clipboard
offers and texts on streams that nothing orders, and one queue of native applications
that outlives the connections they came from; an activation of a barrier that races
the release of capture or the end of the session; two places that resize the same
arrangement on their own; deadlines that run while an agent is busy; files cut off by
a crash; a UI that waits for the thread it has to stop. These are the hazards listed
in `PROJECT.json`, each at its line.

## 2. Modules

| Module | Models |
|---|---|
| `SessionMessages` | the protocol messages and the data the properties tell apart |
| `ControllerSession` | `ControllerSession` and `EventBuffer`: one action per method |
| `AgentSession` | `AgentSession`, one per agent: one action per message kind, confirmation and display change |
| `InputDelivery` | abstract specification: keys are injected where focus was, in order, once |
| `InputPath` | composes both sessions (its module extends theirs) with the runtimes, connections and injection services |
| `ClipboardSession` | `ClipboardSession`, one per end of a connection: one action per method |
| `ClipboardPath` | composes the sessions of both ends with the runtimes, their queues of applications, the streams and the native clipboard services |
| `CaptureService` | the capture service's thread and the portal's two tasks: one action per command and per native event |
| `CapturePath` | composes the capture service with the controller's runtime as its client: drains, activations, the switch delay, the emergency shortcut, reconfiguration, sessions one after another |
| `Desktop` | layouts, topologies, transitions, armed edges and resizing as operators |
| `TopologyEditor` | the running topology, the editor's screens, and the two queues between them |
| `TrustStore` | the identity, the peer files and their copy in memory: one action per operation and per failure |
| `Application` | composes the trust store with the UI thread, the saved configuration, the native host and the runtime's thread |
| `ReplayGuard` | the bounded memory of admitted hellos |
| `Transport` | composes the guard with the handshake, control messages, heartbeats, clipboard workers and their deadlines |
| `ClipboardSession_proofs` | theorems about a clipboard session |
| `InputPath_proofs` | theorems about `ControllerSession`, about `InputPath` with everything that can be lost, and about `AgentSession` |
| `SteadyPath_proofs` | theorems about `InputPath` while connections and displays hold, and its refinement of `InputDelivery` |
| `ClipboardPath_proofs` | theorems about `ClipboardPath` over first connections |
| `CapturePath_proofs` | theorems about `CaptureService` and `CapturePath` |
| `TopologyEditor_proofs` | theorems about the operators of `Desktop`, and about `TopologyEditor` |
| `Application_proofs` | theorems about `TrustStore` and `Application`, and the refinement between them |
| `Transport_proofs` | theorems about `ReplayGuard` and `Transport`, and the refinement between them |
| `MC...` | TLC instances: model values and symmetry |

### Correspondence

*Sessions.* The variables are the fields of the structs. A method that returns a
list of actions puts it in `outbox`/`release` (controller) or `actions` (agent);
`Idle` makes every call wait until the caller has carried the list out, as both
runtimes do. A method that returns an error sets `error` and the session takes no
further call, since every caller gives it up with `?`. `checked_add` overflow of
epochs and sequences (u64) is not reached; the bounds `MaxEpoch`, `MaxSequence`,
`MaxKeys` cut the exploration instead.

*Abstractions.* Desktops have one dimension, an extent; all that is lost is which
desktops touch, so any crossing to any placed desktop is possible, which includes
what the code can do. Pointer motion is one kind of event that coalesces with
adjacent motion; a key transition carries its number in the order of capture, so
that loss, duplication and reordering show. Events also carry the epoch they were
captured in; the code does not, and no guard reads it.

*Input path.* `Captured` is one captured event inside a tick (`draining`),
`EndTick` the flush at its end; `ReturnLocal` is the command and the emergency
shortcut. `AcceptControllerPeer`, `DisplayReported`, `Acknowledged`,
`DisconnectControllerPeer` and `IgnoreNetworkEvent` are the arms of
`handle_controller_network` and `accept_controller_peer`. A connection is a pair of
FIFO sequences with the queues at both ends: `down[s]` and `up[s]`. `Lose` keeps a
prefix of each, which is what an ordered stream may still deliver.
`ConnectionWorkerEnds` reports the end. A message for an absent peer is dropped; one
for a peer whose worker has ended but whose end is still queued finds the outbound
queue closed, which is an error that ends the runtime. On the agent's side,
`Connect` is `run_agent_connection` up to its loop, and `ApplyAgentAction` carries
out one action, so that a loss can come between two of them.

*Clipboard sessions.* The variables are the fields of the struct, in one record per
end, so that a property speaks of a session as the code does. `receive_offer` and
`receive_transfer` are the same steps on two fields of the incoming clipboard and are
one operator with the field as parameter. `checked_add` is modelled by what it does:
sequences end at `LastSequence`, after which the session has none to give. A generation
is kept by its sequence alone, since every comparison in the code is made after the
owner was checked. An offer stands for the text its length and digest were taken from,
so that a mismatch is a different text.

*Clipboard path.* `Send` and `QueueApplication` carry out one returned action, and the
last one ends with `start_next_clipboard_application`, as both runtimes do. `Connect` is
the agent's new session with no applications; `AcceptPeer` is the controller's new
session, which keeps them. `NativeChanged` and `OfferChange` are the two halves of a
change that is offered on one connection after the other. The control stream is one FIFO
sequence per direction and session; the transfer streams another, which nothing orders
with the first. A loss keeps any prefix of each. The native service is the union of the
two implementations: the Wayland one reports what it reads whenever it is signalled, the
Windows one reports what it has not seen before, and both may notice a copy late, when
something else has been written. An application carries the connection it came on as
history, and `written` remembers what reached the native clipboard; no guard reads
either.

*Capture service.* `signals` and `eis` are what the compositor has sent to the two
tasks, `native` the queue between them and the worker. The portal task remembers the
activation in `active`, under a lock, when it reads the signal, and the worker takes
it away when it releases: the two race, as in the code, and a release without a
remembered activation asks nothing of the portal. `NativeReleaseFails` is a portal
that refuses: the activation has been forgotten by then. `held` is `HeldInput`, and
`reported` is what a reader of all events so far takes to be down; every event carries
it as `down`, for the properties.

*Capture path.* A drain is one turn of the loop, `session = "drain"`; commands and
network events wait for `"select"`. Focus is what the session makes of it, without
epochs and batches; a topology is the function from edges to the nodes they lead to.
`End` posts what `run_worker` does after any end, as far as it fits into the queue.

*Desktops.* Rectangles, monitors, placements and offsets are the code's, in pixels and
small. `Transition` is `Topology::transition`; `EdgeTarget` and `PositionTarget` are
`activation_target` without and with a position, which the code computes in `f64` and
the model in whole percents. The loops that stop at the first screen, segment or pair that
fits take the least index of those that fit (`FirstOf`), the one of `resize_topology_screen`
the last neighbour attached on an axis. `ResizeScreen` returns an empty topology for an extent that
`Topology::new` refuses.

*Editor.* `screens` are the editor's fields (coordinates as numbers), `running` the
controller's topology, `desktop` what the window system says. `commands` carries saved
topologies to the runtime, `events` its `DisplayChanged` and `LocalDesktopChanged` back.
Which of two equally close places a dropped screen takes depends on the order of the
screens, and is left open.

*Trust store.* Files are created anew and then written: a failure or a crash leaves
nothing, a part, or the whole. Memory follows the disk when a peer is paired and
precedes it when one is removed. `removed` is history: the peers reported as removed
and not paired since.

*Application.* `worker` is where the runtime's thread is; its inner workings are those
of `InputPath`, reduced to which peers are connected, where focus is, whether the agent is
controlled and how many attempts failed. `after` is what the UI thread does once the
join is over; while it waits it takes no event and no action of the user. `Emit` waits
for room in the event queue, as `send_event` does. `Poll` is one frame: all events, then
the native service. `Exit` is the end of the process at any point, `Launch` the next start.

*Transport.* An agent is told by its certificate, and its name is said four times over:
`paired` is the node of its peer file on the controller, `node` its own, which its hello
carries, and `expects` the `controller_node` under which it paired the controller, whose
answer carries `Controller`. Nothing before the handshake compares them: the pairing code covers the
certificate only (`pairing.rs:34-37`). What the two ends write is in `hello` and
`response`, with every field they check or keep; `Reject` and `Accept` read nothing of the agent but its hello
and what its certificate is known by, `Established` and `Refused` nothing of the server
but its answer, in the order of the code's checks.
Time passes in ticks. `age` is how long an end has been reading, `control`
the ages of the messages under way to it, `busy` how long a batch has been under
application, `worker` how long a clipboard worker has been accepting. `Tick` waits for
what is bounded to happen (`Keeps`): messages are delivered within `MaxLatency`, a
batch is applied within `MaxBusy`, unless `Stall` has struck the connection.

## 3. Runs

| Run | Asks | Result |
|---|---|---|
| `ControllerSession_full` | two agents, all calls in every order with topology changes: `TypeOK`, `DeliveryWindow`, `PointerOnFocusedDesktop`, `FocusChangeIsAnnounced` | holds |
| `AgentSession` | an agent that receives any message and any report at any time: `ControlledInNewestEpoch`, `PendingBatchIsNext`, `LosingControlReleasesInput` | holds |
| `InputPath_steady` | two connected agents: the sessions never reject each other's messages, events keep their epoch, keys are injected where focus was and never dropped, the whole path implements `InputDelivery`, and with fairness every captured key is settled | holds |
| `InputPath_lossy` | one agent, connections lost and replaced at any point, and a display that changes: keys once and in order, held keys of one epoch, acknowledgements of the connection in use, newest connection in use, control only in an epoch that gave it focus | holds |
| `InputPath_held` | a lost connection releases what is held | violated (finding 1) |
| `ClipboardSession` | one end whose peer sends any offer, text or acknowledgement, and whose caller confirms anything, at any time: one verified application at a time and only the newest behind it, in increasing order; the newest local change pending until it is acknowledged; the code's `StateInvariant` error never met | holds |
| `ClipboardPath` | two nodes over one connection, users who copy at any time, a loss and a failing service: acknowledged means written, nothing is sent back to its owner, sessions agree while nothing is lost or fails, and with fairness the newest change is acknowledged | holds |
| `CapturePath` | barriers, keys, motion, zone changes, refusals and failures of the portal, topologies, peers and sessions that come and go: capture is given up with every key released; the emergency shortcut follows the keys that are down; with fairness, input comes back to the local desktop once no session runs | holds |
| `TopologyEditor` | screens added, dragged, dropped, aligned, resized, removed and saved, while the local and the agents' desktops change: every crossing can be taken back; through an edge that is not armed the pointer leaves at no pixel and no position, and where the runtime falls back on without a position it crosses to the node that is meant; a dropped screen attaches | holds |
| `TopologyEditor_drift` | while the user edits nothing, the editor shows the running arrangement | violated (finding 2) |
| `Application` | pairing, removing, saving, loading, changing roles, failing writes, crashes and restarts around sessions that connect, lose peers and fail: one node per certificate; the user sees the connections, the focus and the control there are; a removed peer is trusted by no store and no session; with fairness, an agent whose service closed comes back | holds |
| `Transport` | an agent and a controller under any names, of their own and in the pairings; connections accepted, refused, replayed, stalled and closed, batches and texts at any time: the server takes a connection for the node whose certificate was presented, the client for its controller, and both agree on session, capabilities and frame limit; no hello is admitted twice within the guard's capacity; a connection in time never meets a deadline | holds |

`CHECK_DEADLOCK FALSE` is in every configuration but `Application`'s because those systems
really stop: an error ends a session, and so do the bounds on epochs, keys, sequences,
connections and happenings. The application can always be restarted, so TLC looks for
deadlocks there.

*Bounds of the sessions and paths.* Two agents and four epochs (`ControllerSession_full`)
let focus go away and come back, with a batch for each in flight; `MaxBatch` 2 reaches
every branch of `route_input`'s buffer: not full, filled by this event, full and flushed,
full and blocked. Extents 1 and 2 let a desktop shrink under the pointer; where the only
extent is 1 (`InputPath_steady`, `_lossy`) the pointer cannot move inside a desktop, so
motion as an event is exercised by `ControllerSession_full`. Four keys in
`InputPath_steady` are one in flight, two waiting and one refused or captured in another
epoch; sequences go as far as the keys. In `InputPath_lossy` two connections per agent are
a connection and its replacement; a third would meet the same checks against `session_id`
and generation; four epochs with two keys and a display change, made while the first connection is the last (`MaxDisplaySessions`), let
an epoch end with a key held and another begin. Agents do not interact except through the controller's session,
which `ControllerSession_full` and `InputPath_steady` run with two; the other runs use one.
`ClipboardSession` has three sequences, an older one, one under application and a newer
one, and its exhaustion is within reach; two texts make every conflict and mismatch.
`ClipboardPath` has one copy on the controller and two on the agent: copies that cross, and
a newer one behind one under application. Its one connection may be lost, but is not
replaced: with a second one, `MaxSessions` 2, two of its properties fail (section 4).

*Bounds of the others.* `CapturePath` has one edge, one modifier that stands for Control
and Alt (the runtime's two flags never meet except at Escape), Escape itself, one peer, and four
happenings (what the compositor, the user, the portal's refusals, peers and the application
do); what the service and the runtime make of them is unbounded. Four are enough for a
session, an activation, a key and a return, or a second session. Its command queue is
longer than what those can fill; the code's has 32 places. `TopologyEditor` starts from
every valid topology of one to three desktops on coordinates 0 and 1, one of which has two
monitors and an empty corner, and allows two changes, as many as the two
sides need to disagree. `Application` has two peers and two certificates, a directory that
is empty or full, three configurations (two controllers that differ in their topology, so
that one is applied live, and an agent), two happenings and two operations of the user,
before and after an `Exit`; the queues do not fill, and section 4 tells what happens when they do.
`Transport` keeps the code's ratio of the heartbeat interval (5 s) to the deadline
(10 s) in ticks of a second, with a delivery within one tick and an application within two;
its guard has room for one hello, so that eviction happens with two nonces, and three connections
are an old one, its replacement and a replay. It has one agent and three names: the agent's
own, the one it is paired under and the one it knows its controller by are each any of the
three, so that each may be right, be the other end's or be a third (the two that are not the
controller's own are symmetric). The agent's frame limit is smaller than the controller's,
and each has a capability that the other lacks. What an end takes from a handshake does not
depend on other agents; the theorems cover any number of them (section 5).

*Fairness.* `FairSteadySpec` assumes weak fairness of what runs in a task or
thread of its own and is only ever waiting for its next item (an agent's loop, the
injection service, carrying out returned actions) and strong fairness of `EndTick`
and `Acknowledged`: they compete with other arms of the controller's
`tokio::select!`, which polls its ready arms in random order, and a tick's drain of
captured events ends because the capture queue is bounded. No fairness is assumed of
the user (captured events, return to local), of losses or of reconnection. `FairSpec`
of `ClipboardPath` assumes weak fairness of each runtime's step as a whole, of each
native service's thread and of accepting a connection, each of which runs whenever it
has something to take; not of users, losses or failures. `FairPathSpec` assumes weak
fairness of the capture service's worker and its two tasks together, which are runnable
whenever something waits for them; of the runtime nothing, since the property is about
times without one. `FairAppSpec` assumes weak fairness of the runtime's thread, of frames
(the UI thread), and of a native service that has begun to close; not of users, peers,
losses or failures.

## 4. Findings

1. *Keys stay held* (`InputPath_held`). If the acknowledgement of an applied batch
   cannot be sent, the error leaves `run_agent` without `release_all`. The injection
   service belongs to the application and lives on, holding the keys. ROADMAP.md:20-21
   promises that focus loss, disconnect and backend failure release every held key.
2. *The editor shows an arrangement that does not run* (`TopologyEditor_drift`). When the
   local desktop changes, `resize_topology_screen` moves its screen to keep it attached;
   the editor does the same and then moves all screens so that the local one stays where
   it was. The next report of an agent's display brings the running position of the
   agent's screen, which `update_screen` takes over as it is, next to screens that have
   been moved. docs/architecture.md:112-115 says that the controller publishes the live
   placement to the desktop UI. A save then applies what the editor shows.

More places where the code does other than a document says. Each is a property of a module
that TLC refutes with the specification and constants named, and none is among the runs:

- *Stranded events*: `KeysAreNeverDropped` (docs/architecture.md:156-157) under the `Spec`
  of `ControllerSession`, with the constants of `ControllerSession_full`.
  `reconcile_topology` unplaces the focused peer while events wait behind its batch in
  flight; the next `flush` drops them and returns `InputWhileLocal`, which ends the runtime.
- *A confirmation taken for an error*: `ConfirmationsAreExpected` under `DisplaySpec` of
  `InputPath`, with the constants of `InputPath_lossy` and `MaxSessions` 1.
  `reconcile_display` forgets the batch under application, the service applies
  it all the same, and its `Applied` event meets `NoInputApplicationPending`.
- *Focus is not restored*: `FocusFollowsReport` under `FairDisplaySpec` of `InputPath`,
  with the same constants. When
  the size is unchanged, the controller answers a report with the focus in the current
  epoch, which the agent takes for a repetition (docs/architecture.md:115-118).
- *Acknowledged before it is written*: `AcknowledgedAfterWrite` of `ClipboardPath` with
  `MaxSessions` 2. A replaced connection's native application stays pending while the new
  session numbers its generations from 1 again; the late `Applied` of the old text is matched
  with the new session's, which still waits in the queue (docs/architecture.md:128-129).
- *A text goes back to its owner*: `NothingIsSentBack` of `ClipboardPath` with `MaxSessions` 2.
  Only the session remembers which text is the peer's. An agent that reconnects has a new
  session, while the notification of a text applied before is still queued by the native
  service: the text is offered to the controller it came from (docs/architecture.md:129-130).
- *A display change that keeps focus remote*: `DisplayChangeEndsFocus` of `CapturePath`. A
  change of the controller's own desktop reconciles the topology and leaves focus where it
  is (docs/architecture.md:111-112).

Consequences about which the documents say nothing:

- Clipboard: after its native service failed, the controller keeps its clipboard sessions,
  and the next remote text ends its runtime. A clipboard worker accepts a stream under the
  ten seconds of an operation (`endpoint.rs:484`), so that it stops on a connection on which
  nothing is copied for that long; a clipboard message that arrives afterwards counts as not
  negotiated and ends the runtime. `select!` drops an accept when a text is to be sent, and
  an inbound stream with it. Users who copy on both nodes at the same time leave each
  clipboard with the other's text: generations of two owners have no order among them.
- Capture: `NativeCapture::release` forgets the activation before it asks the portal, so
  that after a refusal nothing asks again, and the pointer stays captured until the service
  ends. `InputComesBack` excludes this (`refused`). At the end of a session the errors of
  `release` and `configure(&[])` are ignored: with a full command queue the edges stay armed.
- Application: with `CommandCapacity` 1 instead of 4 TLC finds a deadlock of `Application`:
  a command of the user fills the queue, a save finds no room for `Stop` and joins
  the runtime's thread, which nobody told to stop. Four commands do the same in the code. A
  runtime that waits for room in the event queue (256) while the UI joins it is another way there.
  Several failures of one batch end one session each. `Disconnected` shows "Listening"
  although another peer is connected. A crash while a file is written leaves an identity or a
  trust store that does not open until the file is removed by hand.
- Agent: a connection that is lost while the agent sends, instead of while it reads, ends
  its runtime instead of reconnecting. A batch that takes longer than the deadline stops the answers
  to heartbeats and with them the connection.
- Transport: the handshake announces heartbeats every 10,000 ms (`endpoint.rs:36`), as
  long as the deadline of a read; the runtime sends them every 5 s. `TimelyConnectionsLast`
  fails with the announced interval.

Some properties hold only where the code makes them hold, and are checked only there:

- `EventsKeepTheirEpoch` needs a topology that stays. `reconcile_topology` advances the
  epoch although events of the old one wait, and they are sent in the new one;
  `change_focus` waits in the same situation. No document promises the former.
- `SessionsAgree` of `InputPath` needs that nothing is lost, that no display changes, and that agents
  have been told of the first epoch. A focus message, or a batch of the focus just given
  up, that was on its way when a display changed is an error of the agent's session; and
  a connection replaced while its agent has focus starts with no active epoch, so that
  input sent before the controller answers its first report ends it. In both cases the
  agent's runtime ends instead of reporting and going on.
- `DroppedScreenAttaches` needs desktops of one monitor: the editor looks at outlines,
  `Topology::new` at monitors, and a screen can be dropped at an empty corner.
- `RemovedPeersAreCutOff` is about removals that were reported as done. One whose file
  could not be removed is forgotten until the next start and cannot be paired again before.

## 5. Proofs

Assumptions: those of the modules (`ASSUME`): `Local \in Nodes`, extents, limits, the heartbeat
interval and the batch size are positive naturals, queue capacities and exploration bounds
naturals, `MaxEpoch` is at least 1 (agents start connected in the first epoch), the
values for absence differ from real ones, an agent's configuration has one controller,
hellos are pairs of an agent and a nonce, the nodes of the clipboard path are finitely
many (so that their bounds on copies have a greatest one), desktops and their monitors have
positive extents, coordinates are integers, and every configured topology places the local
node. Everything else is arbitrary. Three groups of
theorems have a condition besides, named where they are listed: a topology or connections
that last, first connections, and delays that fit into the deadline. Invariants were checked
by TLC as such before they were proved.

### Controller session (`InputPath_proofs`, first part)

- `TypeCorrect`: `TypeOK` is inductive.
- `DeliveryWindowHolds`, `PointerStaysOnDesktop`: inductive relative to `TypeOK`. The
  window is stated over both counters and the pending set, so it is its own
  strengthening: a batch is counted only when nothing is pending, an acknowledgement
  past the last one can only name the pending sequence.
- `FocusChangesAreAnnounced`: an action property, from `TypeOK` alone.
- `EventsKeepEpoch`, `KeysAreKept`: for a fixed topology. `EventsKeepTheirEpoch` alone
  is not inductive: an event left in the buffer while focus is local would be
  carried into the next epoch. `EpochInv` adds `NothingWaitsLocally`; topology changes
  break exactly this part.

### Agent session (`InputPath_proofs`, last part)

For `AgentSessionSpec`, which asks nothing of `InputPath`: any controller, any reports, in
any order.

- `AgentTypeCorrect`: `AgentTypeOK`, which no run checks by itself.
- `ControlIsCurrent`, `PendingIsNext`: from `ControlInv`, the two properties together.
  Neither is inductive by itself: that a pending batch belongs to the active epoch needs
  that a newer focus is refused while one is pending, and the active epoch to be the
  highest.
- `ControlEndsWithRelease`: an action property, from the type invariant.

### Input path with losses (`InputPath_proofs`, second part)

For `PathSpec`: any number of agents and connections, lost and replaced at any point, and
displays that change. `PathType` carries the types and that connections are opened in order.

- `NewestConnection`, from `PeersAreNewest`: the connection in use is the newest the
  controller has taken, and no worker of a later one has begun. The property speaks of
  one agent's connection; the invariant has to say of all of an agent's connections which
  of them the accept queue may still bring.
- `ControlledOnlyInOwnEpoch`, from `FocusInv`: every focus message, in the outbox or in a
  stream, and every epoch an agent takes to be active names the node that had focus in it
  (`focused_in`, a history). A message may be read long after focus has moved, so that the
  property about agents alone is not inductive.
- `AcknowledgedOnlyWhenApplied`, from `OwnedInv` and `AckInv`. `OwnedInv`: connections,
  generations, commands and reports of an agent are of connections it opened itself.
  `AckInv`: an acknowledgement on its way, and a report of the service, are of something
  applied on their own connection; commands of one generation are in the order of their
  sequences and not behind what was applied; and the session is at most one batch behind the
  service, the one it waits for.
- `HeldWithinOneEpoch`, from `HeldInvAll`: `CommandsAreCurrent` (a generation in the
  command queue begins with its `BeginSession`, and the last command is of the connection
  in use) and `HeldInv`, which links the held keys to the oldest command, each command to
  the next, and the newest one to the session's active epoch, unless a release is about to be
  sent. The property alone says nothing of what the next batch brings.
- `KeysInjectedOnce`, from `KeysInvAll`: the keys of an agent pass six stages (injected,
  commands, actions, stream, outbox, buffer); in each they are in order, and all of a stage
  come before all of the next. A step drops keys from a stage or moves the oldest of one
  to the end of the one before. What an abandoned connection left with the service is
  older than everything sent later, although sequences start over.

### Input path while connections last (`SteadyPath_proofs`)

For `SteadySpec`: each agent connected once, told of the first epoch, and displays that keep
their size, any number of agents, keys and epochs.

- `SessionsAlwaysAgree`, `InjectedOnlyWhereFocused`, `SentEventsKeepEpoch`,
  `KeysNeverDropped`, from `SteadyInv`. Its parts: `Connected` (the one connection of each
  agent); `SessionInv` (the controller's session, with `EpochInv` and the window);
  `FollowInv` (what is on its way to an agent carries its epoch on from the highest it knows
  to the current one, a batch after the announcement of its epoch and before the next);
  `InFlightInv` (the one unacknowledged batch is on its way or under application, and the three
  counters differ by at most that); `ApplicationInv` (a batch under application is in one
  place only: the action, the command or the report, and nothing follows it); `InjectedInv`;
  and `SessionsAgree` itself. No smaller part is inductive: that an agent refuses no batch needs
  the order of messages, which needs that a focus message never overtakes a batch under
  application, which needs that the runtime reads no message meanwhile.
- `SteadyPathDelivers`: the path implements `InputDelivery`. The mapping takes as owed to an
  agent the keys in its queues, `Owed`, which is `Underway(a) \o Waiting(a)`: commands,
  actions, stream and outbox, then the buffer if it has focus. Each stage hands keys on unchanged,
  so that most steps stutter; calls of the controller's session are `Capture`, `Move` or
  `Return`, and `Inject` is `Deliver` or a stutter. The keys of a queue are computed with
  `FlattenSeq` and `SelectSeq`; that these distribute over concatenation is proved by
  counting positions (`Counting`, from `LeastNumber`), since the induction theorems of the
  library cannot be instantiated.

### Clipboard session (`ClipboardSession_proofs`)

For arbitrary ends, texts and `LastSequence`, exhaustion included.

- `TypeCorrect`.
- `NewestWaitsForApplication`, `StateInvariantHolds`, `NewestChangePending`: from
  `ClipboardInv`, which joins `TypeOK`, `NewestGenerationWaits`, `NeverStateInvariant`
  and `PendingUntilAcknowledged` with the fact that the next sequence follows the last
  one sent. That `StateInvariant` is never returned needs that what is incoming is the
  newest known generation: only then does a part that is neither ignored nor of the
  generation under application belong to the incoming one. That a new change makes
  exactly itself pending needs that it is newer than all acknowledged ones, hence the
  link between the next sequence and the last.
- `GenerationsApplyInOrder`: an action property, from the same invariant.

### Clipboard path (`ClipboardPath_proofs`)

For any number of agents, copies, losses and failures. The first two hold as long as no agent
has connected a second time (`FirstConnections`); without this condition both are false
(section 4).

- `AcknowledgedTextsAreWritten`, from `WrittenInv`. An acknowledgement follows the writing
  wherever it is (in the session, in an action, in a stream). That a confirmation is of the
  text it is taken for, although the report names none, needs `WithService`: one text at
  a time is with the service, as a command or as a report, and it is the pending one; or
  nothing is left of earlier ones; or the runtime has given up its service or its session
  (`GivenUp`), after which it confirms nothing.
- `NothingGoesBack`, from `SentBackInv`, in three parts. `OriginInv`: texts that come in
  through an end (`Through`) are never in what that end sends; it fixes for every queue
  which texts can be in it. `OrderInv`: a listed application is the one its session has
  under application, or an older one, so that what is confirmed becomes the remote text.
  `KnownInv`: whenever an end will be told of a text that came in through it, by
  a notice that is queued or one the service may yet give, that text is the session's remote
  text by then, that is: it is already, or the report of its writing comes before
  the notice. The property looks only at what is being sent; the notices are what makes it
  hard, since they are late, repeated, and cross with other copies.
- `RuntimesAgree`: `SessionsAgree`, from `CalmInv`, which says of every run without losses and
  failures what each error of a session or a runtime would need, and that it is not there
  (`AgreeInv`):
  `QuietInv`, every end has at most one connection, which lives, and no message on its streams
  tells of a loss or a failure; `SoundInv`, what is under application is complete and what comes
  in is of the newest generation known;
  `NumbersInv`, the generations sent, the one being offered and the changes still unread are
  together at most the copies made, so that sequences are not exhausted before the copies are;
  `BooksInv`, for every end there is a book that gives each generation one text, and all that is
  under way from it or kept of it at the other end agrees with the book, whichever of the two
  streams it came on, so that no part conflicts with another;
  `AnswersInv`, only what was sent is acknowledged;
  `OnceInv`, the generation under application is with the runtime exactly once, as the last
  action a session returned, in the queue or with the service, so that every confirmation is
  of a text its session still has under application.
  That the service confirms only the pending text is `WithService` above; this run has first
  connections only, because none is lost. The last sequence of the model lies above the
  bound on copies, as `u64::MAX` does above what a user can copy.

### Capture (`CapturePath_proofs`)

- `CaptureReleasesKeys`, for a client that does anything. That a
  `Released` finds no key down needs that the worker's held keys are what a reader of all
  events so far takes to be down, and that the events still queued tell of them in order.
- `ShortcutNeedsItsKeys`, `PathReleasesKeys`: from `PathInv`. What the runtime has `seen` and
  the events that wait form a chain (`Chained`): each event's keys follow from those before it,
  and the last are those reported. The flags of the shortcut are about what the runtime
  has read so far, which the invariant of the service alone does not mention.

### Topology (`TopologyEditor_proofs`)

For any nodes, desktops of any number of monitors, coordinates and edits.

- `PointersComeBack`, `ArmedEdgesAreRight`: from `TopologyInv`. The running topology and every
  saved one that waits is valid and places the local node (`Arrangements`), since both ways a
  topology comes about, `Build` and `ResizeScreen`, end in `Topology::new`; the editor's fields,
  which need not be valid, are well formed, so that what is built from them is. What is to
  be shown is then about valid topologies alone.
- A crossing comes back (`CrossingBack`): the screen that was left touches the one that was
  entered along the opposite edge and has a monitor at the pixel of departure, so it is a
  candidate of the way back. It is the only one (`OneIsEntered`): two screens behind one edge that
  contain the same pixel would overlap (`SameSide`), and `Topology::new` refuses that. Hence it
  does not matter that `transition` takes the first in the list. That `Touches` does not ask for
  a monitor and `ContainsEdgeOffset` does is why both are needed.
- Armed edges (`ArmedLead`): a pixel through which the pointer leaves lies on a monitor of
  either side, so their segments overlap and the edge is armed (`SharedSomewhere`). Conversely the
  middle of the overlap that `shared_edge_offset` finds is a pixel of both
  (`SharedPixel`, from `Middle`), and by `OneIsEntered` it leads to the screen it was
  computed with, although the two loops over the screens ask different questions.

### Trust store and application (`Application_proofs`)

- `TypesHold`; `CertificatesAreOwned`, which needs that memory only
  holds what the files hold (`PairingsAreKept`) and that a certificate is compared with all
  others when a peer is paired and again when the files are read; `RemovalsLast`, which needs
  that the file of a removed peer is gone.
- `ApplicationKeepsTrust`: the application implements the trust store,
  step by step: every action is a step of `TrustStore` or leaves it alone. `TrustStore`'s
  theorems carry over (`ApplicationOwnsCertificates`). `RemovalsReachTheSession` adds that the
  trust a session was given lacks every removed peer, unless the UI thread is about to stop it.
- `UserSeesTheWorker`: `StateFollowsWorker`, for queues of any length and any peers, whatever
  replaces, ends or fails meanwhile. `ViewInv` speaks of `View`, the state the user will see
  once every event in the queue is applied, and of what the thread's other variables are
  where it stands: an agent has no connection but its controller's, so that one
  `Disconnected` empties the list; nobody is connected while no loop runs. What the fold
  over the queue makes of one more event (`SeenOne`) is proved by counting through its
  iterates. A reconfiguration says goodbye to a set of peers in whatever order `SetToSeq`
  takes (`SeenGoodbyes`).

### Replay guard and transport (`Transport_proofs`)

- `GuardRemembers`: the guard's order is the newest part of all
  admissions and its set the members of it; `HellosAreAdmittedOnce` is not inductive
  without it.
- `ConnectionsKeepAgreements`, an invariant of each connection by itself: a hello that is
  read is the one its agent writes, an answer that is read the one to that hello; a server that is
  established knows its peer by the name of its certificate, which is also the name the agent gives
  itself; a client knows its controller by the controller's own; and what either keeps is what
  both offer. The first half is about messages under way, of which `EndsAgree` does not
  speak; without `ClaimIsCertified` or `AnswerIsBound` the other half is not kept. `TransportBindsHandshakes`
  is `EndsAgree`, from this invariant.
- `TransportKeepsGuard`, the transport implements the guard, whose hellos are the node
  and the nonce of what was read; with `HellosAreAdmittedOnce` it gives `TransportAdmitsOnce`.
- `HeartbeatsKeepConnections`, if a heartbeat interval, two deliveries, one batch and one
  tick fit into the deadline, which the instance of the run meets with equality. That no deadline
  was met says nothing of the next tick; `TimelyInv` bounds how long each end has been
  waiting by the time since the last heartbeat, with the message, the answer or the batch
  that accounts for the difference.

### Only model-checked

- All liveness: it is out of the prover's reach, with `ENABLED`.
- `DroppedScreenAttaches` of `TopologyEditor`. That a place is free next to some screen
  is an argument about the outermost screen in one direction, and that all hang together
  afterwards is one over chains of screens, of what the recursive function in `Reached` of `Desktop`
  computes. Induction over data is out of reach; and at the limits of the coordinates, where
  places are cut off (`Saturated`), there need not be a free one.

## 6. Not modelled

- Encoding, framing, TLS and QUIC: no property here depends on how a message is written;
  a connection is ordered streams that may be lost, and a certificate tells which installation presents it.
- The native injection backends, the Windows backends and the code tables: bindings to
  operating systems. What they report (applied, failed, closed, a new desktop) is an input.
- Discovery: its registry is sequential, and nearby nodes are only shown to the user.
- Drawing, the pages, the tray and the log.
- Within modelled parts: queues that are full in `InputPath` and `ClipboardPath`, `Stopped`
  as distinct from `Failed` of the clipboard services, the portal's transfer requests, the
  capture service being dropped, percentages of the edge policy that are no whole number;
  in `InputPath` a display report that the topology rejects (`runtime.rs:1074-1085`), after
  which the controller goes on as before; in `CapturePath` an error of `route_input`, which
  ends the session; in `TopologyEditor` a node that is renamed; in `TrustStore` a
  machine that stops, so that a file is lost whose directory entry was not written out:
  `Exit` ends the process, and completed writes stay. In `Transport` the agents' names and pairings are
  chosen once, at the start, since both ends read them when they bind their endpoints.

`PROJECT.json` lists every component with its status and every hazard, with the property
that covers it or the reason why none does.
