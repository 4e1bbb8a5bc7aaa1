---------------------------- MODULE Application ----------------------------
(***************************************************************************)
(* The desktop application around one session: the UI thread with the      *)
(* trust store and the saved configuration, the native input service it    *)
(* keeps, and the session's runtime on a thread of its own (tevir/app.rs,  *)
(* tevir/runtime.rs, tevir/settings.rs).                                   *)
(*                                                                         *)
(* The UI thread posts commands into one bounded queue, takes the events   *)
(* of the other once per frame, and joins the runtime's thread to stop it. *)
(* What a session does with its peers is in InputPath; here it connects,   *)
(* loses them and moves focus as they and the user please.                 *)
(***************************************************************************)
EXTENDS TrustStore, Sequences, SequencesExt

CONSTANTS
  Configs,          \* configurations: [role, listen, peers]
  NoConfig,         \* stands for Rust's None
  Disks,            \* peer directories that an earlier run left
  Local,            \* the node itself
  CommandCapacity,  \* COMMAND_CAPACITY of the runtime
  EventCapacity,    \* EVENT_CAPACITY of the runtime
  MaxAttempts,      \* ReconnectPolicy.maximum_attempts
  MaxHappenings,    \* bound on what peers, services and the machine do
  MaxOperations     \* bound on what the user does

ASSUME ApplicationAssumption ==
  /\ \A config \in Configs : /\ config.role \in {"Controller", "Agent"}
                             /\ config.peers \in SUBSET Peers
                             /\ config.role = "Agent" =>
                                  Cardinality(config.peers) = 1
  /\ NoConfig \notin Configs /\ Local \notin Peers
  /\ {CommandCapacity, EventCapacity, MaxAttempts, MaxHappenings,
      MaxOperations} \subseteq Nat

VARIABLES
  config_file,   \* the remembered configuration file, or NoConfig
  saved_config, startup_config, editor_role,   \* fields of DesktopApp
  session_state,   \* SessionState
  after,         \* what the UI thread does once the runtime's thread ended
  up,            \* the application runs
  native,        \* NativeInputHost
  runtime,       \* the SessionRuntime's [config, trust], or NoConfig
  worker,        \* where the runtime's thread is
  peers,         \* the connection in use of every peer, 0 for none
  open,          \* connections whose end has not been handled
  screens, focus, controlled, attempt,   \* locals of run_controller, run_agent
  commands, events,   \* the two queues
  happenings, operations

app == <<config_file, saved_config, startup_config, editor_role>>
ui == <<up, app, session_state, after>>
session == <<runtime, worker, peers, open, screens, focus, controlled, attempt>>
queues == <<commands, events>>
appVars == <<trustVars, ui, native, session, queues, happenings, operations>>

NoPeers == [peer \in Peers |-> 0]

Happens ==
  /\ happenings < MaxHappenings /\ happenings' = happenings + 1
  /\ UNCHANGED operations
Operates ==
  /\ operations < MaxOperations /\ operations' = operations + 1
  /\ UNCHANGED happenings
Uneventful == UNCHANGED <<happenings, operations>>

(* NativeInputHost: where its thread is, has_been_ready, and the failures  *)
(* it reported that nobody took.                                           *)
NoHost == [role |-> "none", state |-> "none", ever |-> FALSE, unread |-> <<>>]
NewHost(role) == [NoHost EXCEPT !.role = role, !.state = "opening"]

(***************************************************************************)
(* What the user sees.                                                     *)
(***************************************************************************)
DefaultState ==
  [phase |-> "Stopped", role |-> "none", connected |-> NoPeers,
   focus |-> "none", agent_controlled |-> FALSE, error |-> FALSE]

Event(kind) == [kind |-> kind]
Connected(peer, id) == [kind |-> "Connected", peer |-> peer, id |-> id]
Disconnected(peer) == [kind |-> "Disconnected", peer |-> peer]
FocusChanged(node) == [kind |-> "FocusChanged", node |-> node]
AgentControl(active) == [kind |-> "AgentControl", active |-> active]
Starting(role) == [kind |-> "Starting", role |-> role]

(* SessionState.apply                                                      *)
Apply(state, event) ==
  CASE event.kind = "Starting" ->
         [DefaultState EXCEPT !.phase = "Starting", !.role = event.role]
    [] event.kind \in {"Listening", "Connecting"} ->
         [state EXCEPT !.phase = event.kind]
    [] event.kind = "Connected" ->
         [state EXCEPT !.connected[event.peer] = event.id,
                       !.phase = "Connected", !.error = FALSE]
    [] event.kind = "Disconnected" ->
         [state EXCEPT !.connected[event.peer] = 0,
                       !.agent_controlled = FALSE, !.error = TRUE,
                       !.phase = IF state.role = "Controller"
                                 THEN "Listening" ELSE "Connecting"]
    [] event.kind = "FocusChanged" -> [state EXCEPT !.focus = event.node]
    [] event.kind = "AgentControl" ->
         [state EXCEPT !.agent_controlled = event.active]
    [] event.kind = "Error" ->
         [state EXCEPT !.error = TRUE,
                       !.phase = IF @ = "Stopped" THEN "Failed" ELSE @]
    [] event.kind = "Stopped" ->
         [state EXCEPT !.connected = NoPeers, !.agent_controlled = FALSE,
                       !.phase = IF state.error THEN "Failed" ELSE "Stopped"]

(* is_controlling_remote                                                   *)
IsControllingRemote(state) ==
  state.focus \in Peers /\ state.connected[state.focus] # 0

(***************************************************************************)
(* The runtime's thread.  A full event queue stops it where it is.         *)
(***************************************************************************)
Emit(new) ==
  /\ Len(events) + Len(new) <= EventCapacity
  /\ events' = events \o new

Ends(new) ==
  /\ Emit(new \o <<Event("Stopped")>>)
  /\ worker' = "ended"
  /\ peers' = NoPeers /\ open' = {} /\ screens' = {}
  /\ focus' = Local /\ controlled' = FALSE /\ attempt' = 0
  /\ UNCHANGED runtime

Role == runtime.config.role
Controller == CHOOSE peer \in runtime.config.peers : TRUE
IsReady == native.state = "ready"
HostGone == native.state \in {"closing", "finished"}

(* run_controller up to its loop: binding the address or configuring the   *)
(* capture service may fail.                                               *)
StartController ==
  /\ worker = "starting" /\ Role = "Controller"
  /\ \/ Happens /\ Ends(<<Starting("Controller"), Event("Error")>>)
     \/ /\ HostGone /\ Uneventful
        /\ Ends(<<Starting("Controller"), Event("Listening"), Event("Error")>>)
     \/ /\ ~HostGone /\ Uneventful
        /\ Emit(<<Starting("Controller"), Event("Listening"),
                  FocusChanged(Local)>>)
        /\ worker' = "listening"
        /\ screens' = runtime.config.peers
        /\ focus' = Local
        /\ UNCHANGED <<runtime, peers, open, controlled, attempt>>
  /\ UNCHANGED <<trustVars, ui, native, commands>>

StartAgent ==
  /\ worker = "starting" /\ Role = "Agent"
  /\ \/ Happens /\ Ends(<<Starting("Agent"), Event("Error")>>)
     \/ /\ Uneventful
        /\ Emit(<<Starting("Agent"), Event("Connecting")>>)
        /\ worker' = "connecting"
        /\ attempt' = 0
        /\ UNCHANGED <<runtime, peers, open, screens, focus, controlled>>
  /\ UNCHANGED <<trustVars, ui, native, commands>>

Running == worker \in {"listening", "connecting", "connected", "delaying"}

(* The session of a new connection: a random number in the code, here one  *)
(* that no connection of the peer has whose end is still to be handled.    *)
Fresh(peer) ==
  CHOOSE id \in 1 .. MaxHappenings :
    /\ <<peer, id>> \notin open
    /\ \A lower \in 1 .. (id - 1) : <<peer, lower>> \in open

(* accept_controller_peer: a new connection replaces the one before it.    *)
AcceptPeer(peer) ==
  /\ worker = "listening" /\ Happens
  /\ runtime.trust[peer] # Missing
  /\ IF peer \in screens
     THEN /\ peers' = [peers EXCEPT ![peer] = Fresh(peer)]
          /\ open' = open \cup {<<peer, Fresh(peer)>>}
          /\ Emit(<<Connected(peer, Fresh(peer))>>)
     ELSE Emit(<<Event("Error")>>) /\ UNCHANGED <<peers, open>>
  /\ UNCHANGED <<trustVars, ui, native, commands, runtime, worker, screens,
                 focus, controlled, attempt>>

(* Mutant: the end of any connection of a peer ends the one in use.        *)
PeerEndsAnySession(peer, id) ==
  /\ worker = "listening" /\ Uneventful
  /\ <<peer, id>> \in open
  /\ open' = open \ {<<peer, id>>}
  /\ peers' = [peers EXCEPT ![peer] = 0]
  /\ UNCHANGED <<focus, events>>
  /\ UNCHANGED <<trustVars, ui, native, commands, runtime, worker, screens,
                 controlled, attempt>>

(* disconnect_controller_peer: nothing, for a connection that was replaced *)
(* or removed.                                                             *)
PeerEnds(peer, id) ==
  /\ worker = "listening" /\ Uneventful
  /\ <<peer, id>> \in open
  /\ open' = open \ {<<peer, id>>}
  /\ IF peers[peer] = id
     THEN /\ peers' = [peers EXCEPT ![peer] = 0]
          /\ focus' = IF focus = peer THEN Local ELSE focus
          /\ Emit(<<Disconnected(peer)>>
                  \o IF focus = peer THEN <<FocusChanged(Local)>> ELSE <<>>)
     ELSE UNCHANGED <<peers, focus, events>>
  /\ UNCHANGED <<trustVars, ui, native, commands, runtime, worker, screens,
                 controlled, attempt>>

(* Input is captured only with a ready service.  The first peer must be    *)
(* connected; from there the pointer moves to any desktop of the topology. *)
MoveFocus(node) ==
  /\ worker = "listening" /\ IsReady /\ Happens
  /\ node # focus
  /\ IF focus = Local THEN node \in screens /\ peers[node] # 0
                      ELSE node \in screens \cup {Local}
  /\ focus' = node
  /\ Emit(<<FocusChanged(node)>>)
  /\ UNCHANGED <<trustVars, ui, native, commands, runtime, worker, peers, open,
                 screens, controlled, attempt>>

(* The accept worker reports a connection that failed its handshake.       *)
RejectConnection ==
  /\ worker = "listening" /\ Happens
  /\ Emit(<<Event("Error")>>)
  /\ UNCHANGED <<trustVars, ui, native, session, commands>>

(* delay_before                                                            *)
RetryOrGiveUp(tried, lost) ==
  IF tried >= MaxAttempts THEN Ends(lost \o <<Event("Error")>>)
  ELSE /\ Emit(lost)
       /\ worker' = "delaying"
       /\ attempt' = tried + 1
       /\ peers' = NoPeers /\ open' = {} /\ controlled' = FALSE
       /\ UNCHANGED <<runtime, screens, focus>>

(* run_agent: an attempt to connect succeeds, and run_agent_connection     *)
(* first looks at what the injection service reported before.              *)
Connect ==
  /\ worker = "connecting" /\ Happens
  /\ runtime.trust[Controller] # Missing
  /\ LET connection == <<Connected(Controller, Fresh(Controller))>> IN
       IF HostGone \/ native.unread # <<>>
       THEN Ends(connection \o <<Event("Error")>>)
       ELSE /\ worker' = "connected" /\ attempt' = 0
            /\ peers' = [peers EXCEPT ![Controller] = Fresh(Controller)]
            /\ Emit(connection)
            /\ UNCHANGED <<runtime, open, screens, focus, controlled>>
  /\ native' = IF native.unread = <<>> THEN native
               ELSE [native EXCEPT !.unread = Tail(@)]
  /\ UNCHANGED <<trustVars, ui, commands>>

ConnectFails ==
  /\ worker = "connecting" /\ Uneventful
  /\ RetryOrGiveUp(attempt, <<Disconnected(Controller)>>)
  /\ UNCHANGED <<trustVars, ui, native, commands>>

Reconnect ==
  /\ worker = "delaying" /\ Uneventful
  /\ worker' = "connecting"
  /\ Emit(<<Event("Connecting")>>)
  /\ UNCHANGED <<trustVars, ui, native, commands, runtime, peers, open, screens,
                 focus, controlled, attempt>>

(* The controller takes or returns control of this agent.                  *)
ControlAgent ==
  /\ worker = "connected" /\ Happens
  /\ controlled' = ~controlled
  /\ Emit(<<AgentControl(controlled')>>)
  /\ UNCHANGED <<trustVars, ui, native, commands, runtime, worker, peers, open,
                 screens, focus, attempt>>

(* The connection is lost: reading finds out and it is made again, or      *)
(* sending does and the runtime ends.                                      *)
LoseController ==
  /\ worker = "connected" /\ Happens
  /\ \/ RetryOrGiveUp(0, <<Disconnected(Controller)>>)
     \/ Ends(<<Event("Error")>>)
  /\ UNCHANGED <<trustVars, ui, native, commands>>

(* A connected runtime takes what the native service reports: a failure or *)
(* the end of the service, which end it.  What was reported next is left   *)
(* to a later session.                                                     *)
TakeNativeEvent ==
  /\ worker \in {"listening", "connected"} /\ Uneventful
  /\ native.unread # <<>>
  /\ native' = [native EXCEPT !.unread = Tail(@)]
  /\ Ends(<<Event("Error")>>)
  /\ UNCHANGED <<trustVars, ui, commands>>

(* Commands of the UI thread.  An agent gives up an attempt to connect or  *)
(* a delay for any of them and starts the next attempt.                    *)
Command(kind) == [kind |-> kind, screens |-> {}]
ReconfigureController(placed) ==
  [kind |-> "ReconfigureController", screens |-> placed]

TakeStop ==
  /\ Head(commands).kind = "Stop"
  /\ Ends(<<>>)

TakeReturnLocal ==
  /\ Head(commands).kind = "ReturnLocal" /\ worker = "listening"
  /\ focus' = Local
  /\ Emit(<<FocusChanged(Local)>>)
  /\ UNCHANGED <<runtime, worker, peers, open, screens, controlled, attempt>>

(* The connections of peers without a place are told to end and dropped;   *)
(* configuring the capture service fails when it has gone.                 *)
TakeReconfigure ==
  /\ Head(commands).kind = "ReconfigureController" /\ worker = "listening"
  /\ LET placed == Head(commands).screens
         dropped == {peer \in Peers \ placed : peers[peer] # 0}
         goodbyes == SetToSeq({Disconnected(peer) : peer \in dropped})
         stays == IF focus \in placed THEN focus ELSE Local
     IN IF HostGone
        THEN Ends(goodbyes \o <<Event("Error")>>)
        ELSE /\ Emit(goodbyes \o <<FocusChanged(stays)>>)
             /\ screens' = placed
             /\ focus' = stays
             /\ peers' = [peer \in Peers |->
                            IF peer \in dropped THEN 0 ELSE peers[peer]]
             /\ UNCHANGED <<runtime, worker, open, controlled, attempt>>

TakeOther ==
  \/ /\ worker = "listening" /\ Head(commands).kind = "TestConnection"
     /\ UNCHANGED <<session, events>>
  \/ /\ worker = "connected" /\ Head(commands).kind # "Stop"
     /\ UNCHANGED <<session, events>>
  \/ /\ worker \in {"connecting", "delaying"} /\ Head(commands).kind # "Stop"
     /\ worker' = "connecting"
     /\ Emit(<<Event("Connecting")>>)
     /\ UNCHANGED <<runtime, peers, open, screens, focus, controlled, attempt>>

TakeCommand ==
  /\ Running /\ commands # <<>> /\ Uneventful
  /\ TakeStop \/ TakeReturnLocal \/ TakeReconfigure \/ TakeOther
  /\ commands' = Tail(commands)
  /\ UNCHANGED <<trustVars, ui, native>>

(***************************************************************************)
(* The native input service, as far as its owner can tell.                 *)
(***************************************************************************)
NativeOpens ==
  /\ native.state = "opening" /\ Uneventful
  /\ native' = [native EXCEPT !.state = "ready", !.ever = TRUE]
  /\ UNCHANGED <<trustVars, ui, session, queues>>

(* Input that cannot be injected is reported once per event.               *)
NativeFails ==
  /\ native.state = "ready" /\ native.role = "Agent" /\ Happens
  /\ native' = [native EXCEPT !.unread = Append(@, "Failed")]
  /\ UNCHANGED <<trustVars, ui, session, queues>>

NativeCloses ==
  /\ native.state \in {"opening", "ready"} /\ Happens
  /\ native' = [native EXCEPT !.state = "closing",
                  !.unread = Append(@, IF native.state = "opening"
                                       THEN "Failed" ELSE "Stopped")]
  /\ UNCHANGED <<trustVars, ui, session, queues>>

NativeFinishes ==
  /\ native.state = "closing" /\ Uneventful
  /\ native' = [native EXCEPT !.state = "finished"]
  /\ UNCHANGED <<trustVars, ui, session, queues>>

(***************************************************************************)
(* The UI thread.  Whatever stops the session posts Stop if the queue has  *)
(* room, waits for the runtime's thread either way, and goes on from       *)
(* there.                                                                  *)
(***************************************************************************)
Then(kind, what) == [kind |-> kind, what |-> what]
Nothing == Then("nothing", NoConfig)

HasRoom == worker # "ended" /\ Len(commands) < CommandCapacity

Post(command) == commands' = Append(commands, command)

StopThen(kind, what) ==
  /\ after' = Then(kind, what)
  /\ IF worker # "none" /\ HasRoom THEN Post(Command("Stop"))
                                   ELSE UNCHANGED commands

Carefree == after = Nothing /\ startup_config = NoConfig

NoSession(state) ==
  /\ session_state' = state
  /\ runtime' = NoConfig /\ worker' = "none"

(* validate_trust                                                          *)
Validates(config) ==
  /\ config.peers # {}
  /\ \A peer \in config.peers : trusted[peer] # Missing

(* prepare_native_input keeps a host of the role that is still running.    *)
IsPrepared(role) == native.role = role /\ native.state # "finished"

(* Starting another host may fail.                                         *)
PrepareNativeInput(role) ==
  /\ Uneventful
  /\ native' = IF IsPrepared(role) THEN native ELSE NewHost(role)

PreparationFails(role) ==
  /\ ~IsPrepared(role) /\ Happens
  /\ native' = NoHost

(* start_session after the stop.                                           *)
StartSession(config) ==
  \/ PreparationFails(config.role) /\ NoSession(DefaultState)
  \/ /\ PrepareNativeInput(config.role)
     /\ IF Validates(config)
        THEN /\ runtime' = [config |-> config, trust |-> trusted]
             /\ worker' = "starting"
             /\ session_state' = DefaultState
        ELSE NoSession([DefaultState EXCEPT !.phase = "Failed", !.error = TRUE])

Joined ==
  /\ after # Nothing /\ worker \in {"none", "ended"}
  /\ after' = Nothing
  /\ commands' = <<>> /\ events' = <<>>
  /\ \/ /\ after.kind = "stop"
        /\ NoSession(DefaultState) /\ Uneventful /\ UNCHANGED native
     \/ /\ after.kind = "host"
        /\ NoSession(DefaultState)
        /\ PrepareNativeInput(after.what) \/ PreparationFails(after.what)
     \/ after.kind = "start" /\ StartSession(after.what)
  /\ UNCHANGED <<trustVars, up, app, peers, open, screens, focus, controlled,
                 attempt>>

(* start_deferred_session, in the first frame.                             *)
StartDeferredSession ==
  /\ up /\ after = Nothing /\ startup_config # NoConfig /\ Uneventful
  /\ startup_config' = NoConfig
  /\ StopThen("start", startup_config)
  /\ UNCHANGED <<trustVars, up, config_file, saved_config, editor_role,
                 session_state, native, session, events>>

(* Mutant: a host is restarted only while it is ready.                     *)
RestartsReadyHost ==
  /\ worker \in {"none", "ended"}
  /\ native.state = "finished" /\ native.role = "Agent" /\ IsReady

(* should_restart_after_close, for a host without a session.               *)
RestartsNative ==
  /\ worker \in {"none", "ended"}
  /\ native.state = "finished" /\ native.role = "Agent" /\ native.ever

(* One frame: poll_session takes every event there is and drops a runtime  *)
(* that stopped, then poll_native_input restarts the service, or fails to  *)
(* and tries again later.                                                  *)
Poll ==
  /\ up /\ Carefree
  /\ session_state' = FoldLeft(Apply, session_state, events)
  /\ events' = <<>>
  /\ IF worker = "ended"
     THEN runtime' = NoConfig /\ worker' = "none" /\ commands' = <<>>
     ELSE UNCHANGED <<runtime, worker, commands>>
  /\ \/ ~RestartsNative /\ Uneventful /\ UNCHANGED <<native, after>>
     \/ RestartsNative /\ Happens /\ UNCHANGED <<native, after>>
     \/ /\ RestartsNative /\ Uneventful
        /\ native' = NewHost("Agent")
        /\ after' = IF saved_config # NoConfig /\ saved_config.role = "Agent"
                    THEN Then("start", saved_config) ELSE Nothing
  /\ UNCHANGED <<trustVars, up, app, peers, open, screens, focus, controlled,
                 attempt>>

UserActs ==
  /\ up /\ Carefree /\ identity /\ Operates
  /\ UNCHANGED <<up, native, session, events, session_state>>

(* save_config: a controller's topology is applied to the session that     *)
(* runs; everything else restarts it.                                      *)
AppliesLive(config) ==
  /\ runtime # NoConfig /\ session_state.role = "Controller"
  /\ saved_config # NoConfig
  /\ saved_config.role = "Controller" /\ config.role = "Controller"
  /\ saved_config.listen = config.listen

SaveConfig(config) ==
  /\ UserActs /\ config.role = editor_role
  /\ config_file' = config /\ saved_config' = config
  /\ IF AppliesLive(config) /\ HasRoom
     THEN Post(ReconfigureController(config.peers)) /\ UNCHANGED after
     ELSE StopThen("start", config)
  /\ UNCHANGED <<trustVars, startup_config, editor_role>>

(* The file is opened for writing before anything is written.              *)
SaveConfigFails ==
  /\ UserActs
  /\ config_file' \in {config_file, Partial}
  /\ UNCHANGED <<trustVars, saved_config, startup_config, editor_role, after,
                 commands>>

(* load_config: without a configuration the session goes on.               *)
LoadConfig(config) ==
  /\ UserActs
  /\ IF config = Partial
     THEN /\ saved_config' = NoConfig
          /\ UNCHANGED <<config_file, editor_role, after, commands>>
     ELSE /\ saved_config' = config /\ config_file' = config
          /\ editor_role' = config.role
          /\ StopThen("start", config)
  /\ UNCHANGED <<trustVars, startup_config>>

(* import_pairing restarts the session for the new peer to be accepted.    *)
ImportPairing(node, certificate) ==
  /\ UserActs
  /\ \/ Trust(node, certificate, certificate)
     \/ trusted[node] = certificate /\ UNCHANGED trustVars
  /\ IF /\ runtime # NoConfig \/ session_state.phase = "Failed"
        /\ saved_config # NoConfig
     THEN StopThen("start", saved_config)
     ELSE UNCHANGED <<after, commands>>
  /\ UNCHANGED app

ImportPairingFails(node, certificate) ==
  /\ UserActs
  /\ TrustFails(node, certificate, certificate)
  /\ UNCHANGED <<app, after, commands>>

(* remove_peer                                                             *)
RemovePeer(node) ==
  /\ UserActs
  /\ \/ RemoveTrusted(node) /\ StopThen("stop", NoConfig)
     \/ RemoveTrustedFails(node) /\ UNCHANGED <<after, commands>>
  /\ UNCHANGED app

(* return_control and test_connection; both report a full queue.           *)
SendCommand(kind) ==
  /\ UserActs
  /\ runtime # NoConfig /\ HasRoom
  /\ Post(Command(kind))
  /\ UNCHANGED <<trustVars, app, after>>

(* The other role is chosen in the editor.                                 *)
ChangeRole(role) ==
  /\ UserActs
  /\ editor_role # role /\ editor_role' = role
  /\ StopThen("host", role)
  /\ UNCHANGED <<trustVars, config_file, saved_config, startup_config>>

(* create_identity, which the setup page offers while there is none.       *)
CreateIdentity ==
  /\ up /\ Carefree /\ ~identity /\ Operates
  /\ \/ /\ LoadIdentity
        /\ saved_config' = NoConfig /\ editor_role' = "Controller"
        /\ StopThen("stop", NoConfig)
        /\ UNCHANGED <<config_file, startup_config>>
     \/ LoadIdentityFails /\ UNCHANGED <<app, after, commands>>
  /\ UNCHANGED <<up, session_state, native, session, events>>

(* The application ends, at any point, or is killed; the files stay.       *)
Exit ==
  /\ up /\ Happens
  /\ up' = FALSE
  /\ Carefree \/ UNCHANGED files
  /\ Crash \/ (~identity /\ UNCHANGED trustVars)
  /\ saved_config' = NoConfig /\ startup_config' = NoConfig
  /\ editor_role' = "Controller"
  /\ session_state' = DefaultState /\ after' = Nothing
  /\ native' = NoHost
  /\ runtime' = NoConfig /\ worker' = "none"
  /\ peers' = NoPeers /\ open' = {} /\ screens' = {} /\ focus' = Local
  /\ controlled' = FALSE /\ attempt' = 0
  /\ commands' = <<>> /\ events' = <<>>
  /\ UNCHANGED config_file

(* DesktopApp::load and run                                                *)
Launch ==
  /\ ~up /\ up' = TRUE
  /\ \/ /\ LoadIdentity
        /\ IF config_file \in Configs
           THEN /\ saved_config' = config_file /\ startup_config' = config_file
                /\ editor_role' = config_file.role
           ELSE UNCHANGED <<saved_config, startup_config, editor_role>>
     \/ LoadIdentityFails /\ UNCHANGED <<saved_config, startup_config, editor_role>>
  /\ PrepareNativeInput(editor_role') \/ PreparationFails(editor_role')
  /\ UNCHANGED <<config_file, session_state, after, session, queues>>

AppInit ==
  /\ TrustInit /\ files \in Disks
  /\ config_file \in IF credential = "missing" THEN {NoConfig}
                     ELSE Configs \cup {NoConfig}
  /\ saved_config = NoConfig /\ startup_config = NoConfig
  /\ editor_role = "Controller"
  /\ session_state = DefaultState /\ after = Nothing /\ up = FALSE
  /\ native = NoHost
  /\ runtime = NoConfig /\ worker = "none"
  /\ peers = NoPeers /\ open = {} /\ screens = {} /\ focus = Local
  /\ controlled = FALSE /\ attempt = 0
  /\ commands = <<>> /\ events = <<>>
  /\ happenings = 0 /\ operations = 0

WorkerStep ==
  StartController \/ StartAgent \/ TakeCommand \/ TakeNativeEvent
  \/ Connect \/ ConnectFails \/ Reconnect

FrameStep ==
  StartDeferredSession \/ Poll \/ Joined

AroundTheSession ==
  \/ \E peer \in Peers : AcceptPeer(peer)
  \/ \E end \in open : PeerEnds(end[1], end[2])
  \/ \E node \in Peers \cup {Local} : MoveFocus(node)
  \/ RejectConnection \/ ControlAgent \/ LoseController
  \/ NativeOpens \/ NativeFails \/ NativeCloses \/ NativeFinishes

UserStep ==
  \/ \E config \in Configs : SaveConfig(config)
  \/ SaveConfigFails
  \/ \E config \in Configs \cup {Partial} : LoadConfig(config)
  \/ \E node \in Peers, certificate \in Certificates :
       \/ ImportPairing(node, certificate)
       \/ ImportPairingFails(node, certificate)
  \/ \E node \in Peers : RemovePeer(node)
  \/ \E kind \in {"ReturnLocal", "TestConnection"} : SendCommand(kind)
  \/ \E role \in {"Controller", "Agent"} : ChangeRole(role)
  \/ CreateIdentity \/ Exit \/ Launch

AppNext == WorkerStep \/ FrameStep \/ AroundTheSession \/ UserStep

AppSpec == AppInit /\ [][AppNext]_appVars

(* Threads run, frames are drawn, and an attempt to connect ends.          *)
FairAppSpec ==
  AppSpec /\ WF_appVars(WorkerStep) /\ WF_appVars(FrameStep)
          /\ WF_appVars(NativeFinishes)

-----------------------------------------------------------------------------

(* Once every event is taken the user sees the connections that are in     *)
(* use, the desktop that has focus, and whether this one is controlled,    *)
(* although connections replace each other and end late                    *)
(* (app.rs:2379-2500, runtime.rs:627-685 and 1285-1318).                   *)
StateFollowsWorker ==
  LET seen == FoldLeft(Apply, session_state, events) IN
    /\ worker # "starting" => seen.connected = peers
    /\ worker = "listening" => seen.focus = focus
    /\ worker \in {"connecting", "connected", "delaying"} =>
         seen.agent_controlled = controlled

(* Nobody the user removed is trusted, neither by the store, not even      *)
(* after a restart, nor by the session that runs (app.rs:284-305,          *)
(* store.rs:192-200).                                                      *)
RemovedPeersAreCutOff ==
  /\ RemovedStaysRemoved
  /\ Carefree /\ runtime # NoConfig =>
       \A node \in removed : runtime.trust[node] = Missing

(* An agent whose native service closes after it was ready gets another    *)
(* one and its session back, unless its configuration no longer allows one *)
(* or the service cannot be prepared (app.rs:678-714).                     *)
AgentComesBack ==
  LET Wanted == /\ editor_role = "Agent"
                /\ saved_config # NoConfig /\ saved_config.role = "Agent"
                /\ Validates(saved_config)
  IN (Wanted /\ native.role = "Agent" /\ native.state = "finished" /\ native.ever)
       ~> \/ runtime # NoConfig /\ native.state # "finished"
          \/ native = NoHost \/ ~Wanted

============
