----------------------------- MODULE Transport -----------------------------
(***************************************************************************)
(* Connections between one controller's server and the clients of agents   *)
(* (crates/transport), and what the runtimes do to keep them: heartbeats,  *)
(* the tasks that read control messages and the clipboard workers.         *)
(*                                                                         *)
(* Time passes in ticks.  Every operation on a connection has a deadline,  *)
(* so an end that hears nothing for OperationTimeout ticks gives up.  The  *)
(* network delivers and an agent applies its input within fixed bounds,    *)
(* unless the connection has stalled.  TLS and QUIC are external: they     *)
(* tell either end which installation holds the other's certificate.  What *)
(* node that installation is, its pairing bundle said once and the         *)
(* messages of the handshake say again.  The code that users compare when  *)
(* they pair covers the certificate and not the name (pairing.rs:34-37),   *)
(* so nothing before the handshake tells that the two differ.              *)
(***************************************************************************)
EXTENDS ReplayGuard, FiniteSets

CONSTANTS
  Agents,             \* installations of agents, told by their certificates
  Nodes,              \* the names of nodes
  Controller,         \* the controller's own name, and its installation
  Unpaired,           \* stands for the name of a certificate that is not paired
  Nonces,             \* random in the code
  Limit,              \* every installation's maximum_control_frame_bytes
  Capabilities,       \* every installation's profile
  MaxConnections,     \* bound on the connections of a run
  HeartbeatInterval,  \* HEARTBEAT_INTERVAL of the runtime, in ticks
  OperationTimeout,   \* operation_timeout
  MaxLatency,         \* delivery, unless the connection has stalled
  MaxBusy,            \* native application of a batch, unless stalled
  MaxHappenings       \* bound on what users and the environment do

ASSUME TransportAssumption ==
  /\ Hellos = Nodes \X Nonces
  /\ Controller \in Nodes \ Agents /\ Unpaired \notin Nodes
  /\ \A owner \in Agents \cup {Controller} : Limit[owner] \in Nat \ {0}
  /\ {MaxConnections, MaxLatency, MaxBusy, MaxHappenings} \subseteq Nat
  /\ HeartbeatInterval \in Nat \ {0} /\ OperationTimeout \in Nat

VARIABLES
  paired,       \* peers_by_fingerprint: the node the controller knows an
                \* agent's certificate by
  node,         \* of every agent: its own name, LocalIdentity::node
  expects,      \* of every agent: the controller_node it connects to, if it
                \* has paired the controller's certificate under that name
  current,      \* of every agent: whether its protocol version is the same
  heartbeat,    \* ticks since the controller's last heartbeats
  connections,  \* of every connection, in the order they were opened
  happenings

settings == <<paired, node, expects, current>>
vars == <<guardVars, settings, heartbeat, connections, happenings>>

Ids == 1 .. MaxConnections
Ends == {"client", "server"}
Other(end) == IF end = "client" THEN "server" ELSE "client"
Min(m, n) == IF m <= n THEN m ELSE n

Happens == happenings < MaxHappenings /\ happenings' = happenings + 1

(* ConnectionInfo and the frame limit of a PeerConnection.                 *)
NoInfo == [peer |-> Controller, session |-> 0, capabilities |-> {}, limit |-> 0]

NoMessage == [type |-> "none"]

(* end: "none", "opening", "established" or "ended".  hello, response: the *)
(* client's first message and the server's answer.                         *)
(* age: ticks that an end has been reading.  control: ages of the messages *)
(* under way to an end.  unread, busy: messages the agent has not taken,   *)
(* and for how long a batch has been under application.  worker: ticks     *)
(* that an end's clipboard worker has been accepting, or Stopped.  texts:  *)
(* clipboard streams that were opened to an end.                           *)
Stopped == OperationTimeout + 1

NoConnection ==
  [agent |-> Controller, nonce |-> CHOOSE nonce \in Nonces : TRUE,
   end |-> [e \in Ends |-> "none"],
   hello |-> NoMessage, response |-> NoMessage, info |-> [e \in Ends |-> NoInfo],
   age |-> [e \in Ends |-> 0], control |-> [e \in Ends |-> <<>>],
   unread |-> 0, busy |-> 0,
   worker |-> [e \in Ends |-> Stopped], texts |-> [e \in Ends |-> 0],
   stalled |-> FALSE, deadline |-> FALSE]

(* What is left of a connection that both ends gave up.                    *)
Settle(c) ==
  IF \A e \in Ends : c.end[e] = "ended"
  THEN [NoConnection EXCEPT !.end = c.end, !.stalled = c.stalled,
                            !.deadline = c.deadline]
  ELSE c

Becomes(i, c) == connections' = [connections EXCEPT ![i] = Settle(c)]

Give(c, e) ==
  [c EXCEPT !.end[e] = "ended", !.worker[e] = Stopped]

(* A trust store has one certificate for a node.                           *)
OneAgentPerNode ==
  \A agent, other \in Agents :
    paired[agent] = paired[other] /\ paired[agent] # Unpaired => agent = other

(* An agent's configuration refuses its own name for the controller's.     *)
TransportInit ==
  /\ GuardInit
  /\ paired \in [Agents -> Nodes \cup {Unpaired}] /\ OneAgentPerNode
  /\ node \in [Agents -> Nodes]
  /\ expects \in [Agents -> Nodes \cup {Unpaired}]
  /\ \A agent \in Agents : node[agent] # expects[agent]
  /\ current \in [Agents -> BOOLEAN]
  /\ heartbeat = 0
  /\ connections = [i \in Ids |-> NoConnection]
  /\ happenings = 0

(***************************************************************************)
(* The handshake.                                                          *)
(***************************************************************************)
IsNext(i) ==
  /\ connections[i].end["client"] = "none"
  /\ \A j \in 1 .. (i - 1) : connections[j].end["client"] # "none"

(* What the client writes first.  The first message of another version of  *)
(* the protocol may be read as no Hello.                                   *)
Hello(agent, nonce) ==
  [type |-> "Hello", node |-> node[agent], nonce |-> nonce,
   current |-> current[agent], capabilities |-> Capabilities[agent],
   limit |-> Limit[agent]]

FirstMessages(agent, nonce) ==
  {Hello(agent, nonce)}
    \cup {message \in {[type |-> "unexpected"]} : ~current[agent]}

(* SecureClient::connect and SecureServer::accept up to the hello: both    *)
(* ends ask for the certificate they paired.                               *)
Connect(i, agent, nonce) ==
  /\ IsNext(i)
  /\ \A j \in Ids :
       connections[j].agent = agent =>
         connections[j].end["client"] \notin {"opening", "established"}
  /\ paired[agent] # Unpaired /\ expects[agent] # Unpaired
  /\ \E message \in FirstMessages(agent, nonce) :
       Becomes(i, [NoConnection EXCEPT !.agent = agent, !.nonce = nonce,
                     !.hello = message, !.end = [e \in Ends |-> "opening"]])
  /\ UNCHANGED <<guardVars, settings, heartbeat, happenings>>

(* Either end finds a certificate that it did not pair.                    *)
ConnectFails(i, agent) ==
  /\ IsNext(i)
  /\ paired[agent] = Unpaired \/ expects[agent] = Unpaired
  /\ Becomes(i, [NoConnection EXCEPT !.end = [e \in Ends |-> "ended"]])
  /\ UNCHANGED <<guardVars, settings, heartbeat, happenings>>

Reading(i) == connections[i].end["server"] = "opening"
Told(hello) == <<hello.node, hello.nonce>>

(* Mutant: whatever node a trusted installation claims to be.              *)
AnyClaim(c) == TRUE

(* The node that the hello claims is the one its certificate is known by.  *)
ClaimIsCertified(c) == c.hello.node = paired[c.agent]

Answer(i, reason) ==
  Becomes(i, [Give(connections[i], "server")
              EXCEPT !.response = [type |-> "Rejected", reason |-> reason]])

(* complete_handshake of the server on what is not a hello, is another     *)
(* node's, another version's or a replay, looked at in this order.         *)
Reject(i) ==
  LET c == connections[i]
      hello == c.hello
  IN /\ Reading(i)
     /\ \/ /\ hello.type # "Hello"
           /\ Becomes(i, Give(c, "server")) /\ UNCHANGED guardVars
        \/ /\ hello.type = "Hello" /\ ~ClaimIsCertified(c)
           /\ Answer(i, "AuthenticationFailed") /\ UNCHANGED guardVars
        \/ /\ hello.type = "Hello" /\ ClaimIsCertified(c) /\ ~hello.current
           /\ Answer(i, "VersionMismatch") /\ UNCHANGED guardVars
        \/ /\ hello.type = "Hello" /\ ClaimIsCertified(c) /\ hello.current
           /\ Answer(i, "ReplayDetected") /\ Replayed(Told(hello))
     /\ UNCHANGED <<settings, heartbeat, happenings>>

(* What the server answers a hello; sessions are numbered at random.       *)
Accepted(hello, session) ==
  [type |-> "Accepted", controller |-> Controller,
   client_nonce |-> hello.nonce, session |-> session,
   capabilities |-> Capabilities[Controller] \cap hello.capabilities,
   limit |-> Min(Limit[Controller], hello.limit)]

(* What an end keeps of an answer, with the peer it takes the other for.   *)
Info(peer, accepted) ==
  [peer |-> peer, session |-> accepted.session, limit |-> accepted.limit,
   capabilities |-> accepted.capabilities]

Transfers(info) == "clipboard" \in info.capabilities

Establish(c, e, info) ==
  [c EXCEPT !.end[e] = "established", !.info[e] = info, !.age[e] = 0,
            !.worker[e] = IF Transfers(info) THEN 0 ELSE Stopped]

(* complete_handshake of the server on a hello it admits.                  *)
Accept(i) ==
  LET c == connections[i]
      answer == Accepted(c.hello, i)
  IN /\ Reading(i)
     /\ c.hello.type = "Hello" /\ ClaimIsCertified(c) /\ c.hello.current
     /\ Admit(Told(c.hello))
     /\ Becomes(i, [Establish(c, "server", Info(c.hello.node, answer))
                    EXCEPT !.response = answer])
     /\ UNCHANGED <<settings, heartbeat, happenings>>

(* Mutant: whatever controller answers, as long as it answers this hello.  *)
AnyController(c) == c.response.client_nonce = c.nonce

(* The controller that answers is the one the client connected to, and it  *)
(* answers this client's hello.                                            *)
AnswerIsBound(c) ==
  /\ c.response.controller = expects[c.agent]
  /\ c.response.client_nonce = c.nonce

Acceptable(c) ==
  /\ c.response.type = "Accepted"
  /\ AnswerIsBound(c)
  /\ c.response.limit \in 1 .. Limit[c.agent]

(* complete_handshake of the client.  The agent then reports its display.  *)
Established(i) ==
  LET c == connections[i] IN
    /\ c.end["client"] = "opening" /\ ~c.stalled /\ Acceptable(c)
    /\ c.end["server"] # "ended"
    /\ Becomes(i, [Establish(c, "client", Info(expects[c.agent], c.response))
                   EXCEPT !.control["server"] = Append(@, 0)])
    /\ UNCHANGED <<guardVars, settings, heartbeat, happenings>>

(* complete_handshake of the client on any other answer: it gives up.      *)
Refused(i) ==
  LET c == connections[i] IN
    /\ c.end["client"] = "opening" /\ ~c.stalled
    /\ c.response # NoMessage /\ ~Acceptable(c)
    /\ Becomes(i, Give(c, "client"))
    /\ UNCHANGED <<guardVars, settings, heartbeat, happenings>>

(* A deadline of the handshake.                                            *)
HandshakeFails(i, e) ==
  /\ connections[i].end[e] = "opening"
  /\ \/ Happens
     \/ connections[i].stalled /\ UNCHANGED happenings
  /\ Becomes(i, Give(connections[i], e))
  /\ UNCHANGED <<guardVars, settings, heartbeat>>

(***************************************************************************)
(* Control messages: heartbeats and their acknowledgements.                *)
(***************************************************************************)
Up(i, e) == connections[i].end[e] = "established"

(* The task that reads control messages starts a read with every message.  *)
Receive(i, e) ==
  LET c == connections[i] IN
    /\ Up(i, e) /\ c.control[e] # <<>>
    /\ Becomes(i, [c EXCEPT !.control[e] = Tail(@), !.age[e] = 0,
                     !.unread = IF e = "client" THEN @ + 1 ELSE @])
    /\ UNCHANGED <<guardVars, settings, heartbeat, happenings>>

(* The agent takes a heartbeat, unless a batch is under application.       *)
Acknowledge(i) ==
  LET c == connections[i] IN
    /\ Up(i, "client") /\ c.unread > 0 /\ c.busy = 0
    /\ Becomes(i, [c EXCEPT !.unread = @ - 1,
                            !.control["server"] = Append(@, 0)])
    /\ UNCHANGED <<guardVars, settings, heartbeat, happenings>>

(* A batch is the next message: no heartbeat was read before it.           *)
BeginBatch(i) ==
  LET c == connections[i] IN
  /\ Up(i, "client") /\ ~c.stalled /\ c.busy = 0 /\ c.unread = 0 /\ c.control["client"] = <<>>
  /\ Happens
  /\ Becomes(i, [c EXCEPT !.busy = 1, !.age["client"] = 0])
  /\ UNCHANGED <<guardVars, settings, heartbeat>>

(* application_pending is cleared when the application is confirmed.       *)
EndBatch(i) ==
  /\ Up(i, "client") /\ connections[i].busy > 0
  /\ Becomes(i, [connections[i] EXCEPT !.busy = 0])
  /\ UNCHANGED <<guardVars, settings, heartbeat, happenings>>

(* The network or the native service of the agent stops: nothing that is   *)
(* sent from here on is heard before a deadline.                           *)
Stall(i) ==
  /\ ~connections[i].stalled /\ \E e \in Ends : Up(i, e)
  /\ Happens
  /\ Becomes(i, [connections[i] EXCEPT !.stalled = TRUE, !.unread = 0, !.busy = 0,
                    !.control = NoConnection.control,
                    !.texts = NoConnection.texts])
  /\ UNCHANGED <<guardVars, settings, heartbeat>>

(* An end closes the connection: its runtime stops or replaces it.         *)
Close(i, e) ==
  /\ Up(i, e) /\ Happens
  /\ Becomes(i, Give(connections[i], e))
  /\ UNCHANGED <<guardVars, settings, heartbeat>>

(* The other end finds out.                                                *)
Closed(i, e) ==
  /\ Up(i, e) \/ (connections[i].end[e] = "opening"
                    /\ connections[i].response.type # "Rejected")
  /\ connections[i].end[Other(e)] = "ended"
  /\ Becomes(i, Give(connections[i], e))
  /\ UNCHANGED <<guardVars, settings, heartbeat, happenings>>

(***************************************************************************)
(* The clipboard worker of an end opens a stream for every text it sends,  *)
(* and accepts one at a time between them.                                 *)
(***************************************************************************)
WorkerOf(i, e) == connections[i].worker[e] # Stopped

(* select! drops an accept that another stream was being taken by.         *)
SendText(i, e) ==
  LET c == connections[i] IN
    /\ Up(i, e) /\ WorkerOf(i, e) /\ ~c.stalled /\ Happens
    /\ \E dropped \in {0, Min(1, c.texts[e])} :
         Becomes(i, [c EXCEPT !.worker[e] = 0,
                       !.texts[Other(e)] = @ + 1, !.texts[e] = @ - dropped])
    /\ UNCHANGED <<guardVars, settings, heartbeat>>

ReceiveText(i, e) ==
  LET c == connections[i] IN
    /\ Up(i, e) /\ WorkerOf(i, e) /\ c.texts[e] > 0
    /\ Becomes(i, [c EXCEPT !.worker[e] = 0, !.texts[e] = @ - 1])
    /\ UNCHANGED <<guardVars, settings, heartbeat, happenings>>

(* Opening or writing a stream fails, and the worker stops with it.        *)
TextFails(i, e) ==
  LET c == connections[i] IN
    /\ Up(i, e) /\ WorkerOf(i, e) /\ c.stalled
    /\ Becomes(i, [c EXCEPT !.worker[e] = Stopped])
    /\ UNCHANGED <<guardVars, settings, heartbeat, happenings>>

(***************************************************************************)
(* Time.                                                                   *)
(***************************************************************************)
Keeps(c) ==
  \/ c.stalled
  \/ /\ \A e \in Ends : c.end[e] # "opening"
     /\ \A e \in Ends : c.end[e] = "ended" => c.end[Other(e)] = "ended"
     /\ \A e \in Ends : \A k \in DOMAIN c.control[e] :
          c.control[e][k] < MaxLatency
     /\ \A e \in Ends : c.texts[e] = 0 \/ c.worker[e] = Stopped
     /\ c.busy <= MaxBusy
     /\ c.unread = 0 \/ c.busy > 0

Older(ages) == [k \in DOMAIN ages |-> Min(ages[k] + 1, MaxLatency)]

(* Every read, accept, message and application is a tick older.            *)
Aged(c) ==
  [c EXCEPT
     !.age = [e \in Ends |-> IF c.end[e] = "established" THEN @[e] + 1 ELSE 0],
     !.control = [e \in Ends |-> Older(@[e])],
     !.busy = IF @ = 0 THEN 0 ELSE Min(@ + 1, MaxBusy + 1),
     !.worker = [e \in Ends |-> Min(@[e] + 1, Stopped)]]

(* operation: a read that reached its deadline ends the connection.  An    *)
(* accept that did stops the clipboard worker only: an accept that began   *)
(* OperationTimeout ticks ago reaches Stopped with the next one.           *)
Expire(c) ==
  LET late == {e \in Ends : c.age[e] > OperationTimeout} IN
    IF late = {} THEN c
    ELSE [c EXCEPT
            !.end = [e \in Ends |-> IF e \in late THEN "ended" ELSE @[e]],
            !.worker = [e \in Ends |-> IF e \in late THEN Stopped ELSE @[e]],
            !.deadline = TRUE]

(* Mutant: heartbeats as far apart as the handshake announces.             *)
HeartbeatsAsAnnounced == heartbeat + 1 >= OperationTimeout

HeartbeatsAreDue == heartbeat + 1 >= HeartbeatInterval

(* send_controller_heartbeats                                              *)
Beat(c) ==
  IF HeartbeatsAreDue /\ c.end["server"] = "established" /\ ~c.stalled
  THEN [c EXCEPT !.control["client"] = Append(@, 0)]
  ELSE c

Tick ==
  /\ \A i \in Ids : Keeps(connections[i])
  /\ \E i \in Ids, e \in Ends : Up(i, e)
  /\ heartbeat' = IF HeartbeatsAreDue THEN 0 ELSE heartbeat + 1
  /\ connections' =
       [i \in Ids |-> Settle(Beat(Expire(Aged(connections[i]))))]
  /\ UNCHANGED <<guardVars, settings, happenings>>

TransportNext ==
  \/ \E i \in Ids :
       \/ \E agent \in Agents :
            \/ \E nonce \in Nonces : Connect(i, agent, nonce)
            \/ ConnectFails(i, agent)
       \/ Reject(i) \/ Accept(i) \/ Established(i) \/ Refused(i)
       \/ Acknowledge(i) \/ BeginBatch(i) \/ EndBatch(i) \/ Stall(i)
       \/ \E e \in Ends :
            \/ HandshakeFails(i, e) \/ Receive(i, e) \/ Close(i, e)
            \/ Closed(i, e) \/ SendText(i, e) \/ ReceiveText(i, e)
            \/ TextFails(i, e)
  \/ Tick

TransportSpec == TransportInit /\ [][TransportNext]_vars

-----------------------------------------------------------------------------

(* Whoever uses a connection knows whose it is: the server takes it for    *)
(* the node whose certificate was presented, if that node also goes by     *)
(* this name; the client for its controller, by the controller's own name. *)
(* Two ends that use one agree on its session, on what they can do and on  *)
(* the largest frame, which neither would refuse (endpoint.rs:138-145,     *)
(* 162-209 and 314-367).                                                   *)
EndsAgree ==
  \A i \in Ids :
    LET c == connections[i]
        client == c.info["client"]
        server == c.info["server"]
    IN /\ Up(i, "server") =>
            server.peer = paired[c.agent] /\ server.peer = node[c.agent]
       /\ Up(i, "client") => client.peer = Controller
       /\ Up(i, "client") /\ Up(i, "server") =>
            /\ client = [server EXCEPT !.peer = Controller]
            /\ client.limit <= Limit[c.agent] /\ client.limit <= Limit[Controller]

(* The heartbeats keep a connection whose two ends keep time from running  *)
(* into the deadline of a read, with a batch under application or without  *)
(* (runtime.rs:568-570 and 1568-1580, endpoint.rs:539-550).                *)
TimelyConnectionsLast ==
  \A i \in Ids : connections[i].deadline => connections[i].stalled
=============================================================================
