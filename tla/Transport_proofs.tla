-------------------------- MODULE Transport_proofs --------------------------
(***************************************************************************)
(* The replay guard, for any hellos and any capacity, and handshakes, for  *)
(* any agents, frame limits, capabilities and deadlines; and the deadlines *)
(* themselves, for any timeout that leaves room for a heartbeat and its    *)
(* acknowledgement.                                                        *)
(***************************************************************************)
EXTENDS Transport, TLAPS

(* The guard remembers exactly the newest hellos it admitted, as many as   *)
(* it has room for.  AdmittedOnce alone is not inductive: whether a hello  *)
(* is admitted again depends on what is remembered.                        *)
GuardInv ==
  /\ order \in Seq(Hellos)
  /\ admitted \in Seq(Hellos)
  /\ Len(order) <= Capacity
  /\ Len(order) <= Len(admitted)
  /\ Len(order) < Capacity => Len(order) = Len(admitted)
  /\ \A k \in 1 .. Len(order) :
       order[k] = admitted[Len(admitted) - Len(order) + k]
  /\ entries = {order[k] : k \in 1 .. Len(order)}
  /\ AdmittedOnce

(* A hello that is not remembered was last admitted Capacity others ago.   *)
LEMMA ForgottenLongAgo ==
  ASSUME GuardInv, NEW hello, hello \notin entries,
         NEW i \in 1 .. Len(admitted), admitted[i] = hello
  PROVE  Len(admitted) + 1 - i > Capacity
<1>1. Len(order) \in Nat /\ Len(admitted) \in Nat /\ Capacity \in Nat
  BY ReplayAssumption DEF GuardInv
<1>2. SUFFICES ASSUME Len(admitted) + 1 - i <= Capacity
               PROVE  FALSE
  BY <1>1
<1>3. i > Len(admitted) - Len(order)
  BY <1>1, <1>2 DEF GuardInv
<1>4. PICK k \in 1 .. Len(order) : i = Len(admitted) - Len(order) + k
  <2>1. i - (Len(admitted) - Len(order)) \in 1 .. Len(order)
    BY <1>1, <1>3
  <2> QED
    BY <1>1, <2>1
<1>5. order[k] = hello
  BY <1>4 DEF GuardInv
<1> QED
  BY <1>5 DEF GuardInv

(* Admitting keeps what is remembered the newest of what was admitted.     *)
LEMMA AdmitKeepsGuard ==
  ASSUME GuardInv, NEW hello \in Hellos, Admit(hello)
  PROVE  GuardInv'
<1> DEFINE longer == Append(order, hello)
<1> DEFINE full == Len(longer) > Capacity
<1>1. /\ order \in Seq(Hellos) /\ admitted \in Seq(Hellos)
      /\ Len(order) \in Nat /\ Len(admitted) \in Nat /\ Capacity \in Nat
  BY ReplayAssumption DEF GuardInv
<1>2. /\ longer \in Seq(Hellos) /\ Len(longer) = Len(order) + 1
      /\ \A k \in 1 .. Len(order) : longer[k] = order[k]
      /\ longer[Len(order) + 1] = hello
  BY <1>1
<1>3. /\ admitted' \in Seq(Hellos) /\ Len(admitted') = Len(admitted) + 1
      /\ \A k \in 1 .. Len(admitted) : admitted'[k] = admitted[k]
      /\ admitted'[Len(admitted) + 1] = hello
  BY <1>1 DEF Admit
<1>4. \A k \in 1 .. Len(longer) :
        longer[k] = admitted'[Len(admitted') - Len(longer) + k]
  <2> SUFFICES ASSUME NEW k \in 1 .. Len(longer)
               PROVE  longer[k] = admitted'[Len(admitted) - Len(order) + k]
    BY <1>1, <1>2, <1>3
  <2>1. CASE k \in 1 .. Len(order)
    <3>1. Len(admitted) - Len(order) + k \in 1 .. Len(admitted)
      BY <1>1, <2>1 DEF GuardInv
    <3> QED
      BY <1>2, <1>3, <2>1, <3>1 DEF GuardInv
  <2>2. CASE k = Len(order) + 1
    BY <1>1, <1>2, <1>3, <2>2
  <2> QED
    BY <1>1, <1>2, <2>1, <2>2
<1>5. AdmittedOnce'
  <2> SUFFICES ASSUME NEW i \in 1 .. Len(admitted'), NEW j \in 1 .. Len(admitted'),
                      i < j, admitted'[i] = admitted'[j]
               PROVE  j - i > Capacity
    BY DEF AdmittedOnce
  <2>1. i \in 1 .. Len(admitted) /\ admitted'[i] = admitted[i]
    BY <1>1, <1>3
  <2>2. CASE j \in 1 .. Len(admitted)
    BY <1>3, <2>1, <2>2 DEF GuardInv, AdmittedOnce
  <2>3. CASE j = Len(admitted) + 1
    <3>1. admitted[i] = hello /\ hello \notin entries
      BY <1>3, <2>1, <2>3 DEF Admit
    <3> QED
      BY <2>1, <2>3, <3>1, ForgottenLongAgo
  <2> QED
    BY <1>1, <1>3, <2>2, <2>3
<1>6. entries \cup {hello} = {longer[k] : k \in 1 .. Len(longer)}
  BY <1>1, <1>2 DEF GuardInv
(* What is remembered differs: two equal hellos would be too close.        *)
<1>7. ASSUME NEW k \in 1 .. Len(longer), NEW m \in 1 .. Len(longer),
             longer[k] = longer[m], k < m
      PROVE  FALSE
  <2> DEFINE i == Len(admitted') - Len(longer) + k
             j == Len(admitted') - Len(longer) + m
  <2>1. /\ i \in 1 .. Len(admitted') /\ j \in 1 .. Len(admitted')
        /\ i < j /\ j - i <= Len(order)
    BY <1>1, <1>2, <1>3, <1>7, SMTT(60) DEF GuardInv
  <2>2. admitted'[i] = admitted'[j]
    BY <1>4, <1>7
  <2> HIDE DEF i, j
  <2>3. j - i > Capacity
    BY <1>5, <2>1, <2>2 DEF AdmittedOnce
  <2> QED
    BY <1>1, <2>1, <2>3 DEF GuardInv
<1>8. CASE ~full
  <2>1. order' = longer /\ entries' = entries \cup {hello}
    BY <1>8 DEF Admit
  <2>2. Len(order) = Len(admitted)
    BY <1>1, <1>2, <1>8 DEF GuardInv
  <2> HIDE DEF longer
  <2> QED
    BY <1>1, <1>2, <1>3, <1>4, <1>5, <1>6, <1>8, <2>1, <2>2, SMTT(60) DEF GuardInv
<1>9. CASE full
  <2>1. order' = Tail(longer) /\ entries' = (entries \cup {hello}) \ {longer[1]}
    BY <1>2, <1>9 DEF Admit
  <2>2. Len(order) = Capacity
    BY <1>1, <1>2, <1>9 DEF GuardInv
  <2> HIDE DEF longer
  <2>3. /\ order' \in Seq(Hellos) /\ Len(order') = Capacity
        /\ \A k \in 1 .. Capacity : order'[k] = longer[k + 1]
    BY <1>1, <1>2, <2>1, <2>2
  <2>4. \A k \in 1 .. Len(order') :
          order'[k] = admitted'[Len(admitted') - Len(order') + k]
    <3> SUFFICES ASSUME NEW k \in 1 .. Capacity
                 PROVE  order'[k] = admitted'[Len(admitted') - Capacity + k]
      BY <2>3
    <3>1. k + 1 \in 1 .. Len(longer)
      BY <1>1, <1>2, <2>2
    <3>2. longer[k + 1] = admitted'[Len(admitted') - Len(longer) + (k + 1)]
      BY <1>4, <3>1
    <3>3. Len(admitted') - Len(longer) + (k + 1) = Len(admitted') - Capacity + k
      BY <1>1, <1>2, <1>3, <2>2
    <3> QED
      BY <2>3, <3>2, <3>3
  <2>5. \A k \in 2 .. Len(longer) : longer[k] # longer[1]
    BY <1>1, <1>2, <1>7
  <2>6. entries' = {longer[k] : k \in 2 .. Len(longer)}
    BY <1>1, <1>2, <1>6, <2>1, <2>5
  <2>7. {longer[k] : k \in 2 .. Len(longer)} = {longer[k + 1] : k \in 1 .. Capacity}
    <3>1. \A k \in 2 .. Len(longer) : k - 1 \in 1 .. Capacity /\ k = (k - 1) + 1
      BY <1>1, <1>2, <2>2
    <3>2. \A k \in 1 .. Capacity : k + 1 \in 2 .. Len(longer)
      BY <1>1, <1>2, <2>2
    <3> QED
      BY <3>1, <3>2
  <2>8. entries' = {order'[k] : k \in 1 .. Len(order')}
    BY <2>3, <2>6, <2>7
  <2>9. Len(order') <= Len(admitted')
    BY <1>1, <1>3, <2>2, <2>3 DEF GuardInv
  <2> QED
    BY <1>1, <1>3, <1>5, <2>3, <2>4, <2>8, <2>9 DEF GuardInv
<1> QED
  BY <1>8, <1>9

(* The guard remembers the newest hellos it admitted.                      *)
THEOREM GuardRemembers == GuardSpec => []GuardInv
<1>1. GuardInit => GuardInv
  BY ReplayAssumption DEF GuardInit, GuardInv, AdmittedOnce
<1>2. GuardInv /\ [GuardNext]_guardVars => GuardInv'
  <2>1. ASSUME GuardInv, NEW hello \in Hellos, Replayed(hello)
        PROVE  GuardInv'
    BY <2>1 DEF Replayed, guardVars, GuardInv, AdmittedOnce
  <2>2. ASSUME GuardInv, UNCHANGED guardVars
        PROVE  GuardInv'
    BY <2>2 DEF guardVars, GuardInv, AdmittedOnce
  <2> QED
    BY <2>1, <2>2, AdmitKeepsGuard DEF GuardNext
<1> QED
  BY <1>1, <1>2, PTL DEF GuardSpec

(* A hello that was admitted is not admitted again before Capacity others. *)
THEOREM HellosAreAdmittedOnce == GuardSpec => []AdmittedOnce
<1>1. GuardInv => AdmittedOnce
  BY DEF GuardInv
<1> QED
  BY <1>1, GuardRemembers, PTL

-----------------------------------------------------------------------------
Live == {"opening", "established"}

Fields == {"agent", "nonce", "end", "hello", "response", "info", "age", "control",
           "unread", "busy", "worker", "texts", "stalled", "deadline"}

(* A connection has its fields, one value for either end where it has two. *)
Shaped(c) ==
  /\ c = [field \in Fields |-> c[field]]
  /\ c.end = [e \in Ends |-> c.end[e]]
  /\ c.info = [e \in Ends |-> c.info[e]]

(* What an end of connection i with the agent is to know of it.            *)
Expected(agent, peer, i) ==
  [peer |-> peer, session |-> i,
   limit |-> Min(Limit[Controller], Limit[agent]),
   capabilities |-> Capabilities[Controller] \cap Capabilities[agent]]

(* What the messages of a handshake say, and what the checks of either end *)
(* leave of it: a server that established the connection read the name its *)
(* peer's certificate is known by, and a client the name of the controller *)
(* it asked for.                                                           *)
Agreed(i, c) ==
  /\ Shaped(c)
  /\ \A e \in Ends : c.end[e] \in Live =>
       c.agent \in Agents /\ paired[c.agent] # Unpaired /\ c.nonce \in Nonces
  /\ c.end["server"] = "opening" => c.hello \in FirstMessages(c.agent, c.nonce)
  /\ c.end["client"] = "opening" /\ c.response.type = "Accepted" =>
       c.response = Accepted(Hello(c.agent, c.nonce), i)
  /\ c.end["server"] = "established" =>
       /\ node[c.agent] = paired[c.agent]
       /\ c.info["server"] = Expected(c.agent, paired[c.agent], i)
  /\ c.end["client"] = "established" =>
       c.info["client"] = Expected(c.agent, Controller, i)

TransportInv ==
  /\ paired \in [Agents -> Nodes \cup {Unpaired}] /\ node \in [Agents -> Nodes]
  /\ connections = [i \in Ids |-> connections[i]]
  /\ \A i \in Ids : Agreed(i, connections[i])

(* Each of what a step does to a connection keeps it agreed.               *)
LEMMA NothingAgreed ==
  ASSUME NEW i
  PROVE  Agreed(i, NoConnection)
BY DEF Agreed, Shaped, Fields, NoConnection, NoMessage, Live, Ends

LEMMA SettleAgrees ==
  ASSUME NEW i, NEW c, Agreed(i, c)
  PROVE  Agreed(i, Settle(c))
<1>1. CASE \A e \in Ends : c.end[e] = "ended"
  <2> DEFINE d == [NoConnection EXCEPT !.end = c.end, !.stalled = c.stalled,
                                       !.deadline = c.deadline]
  <2>1. Settle(c) = d
    BY <1>1 DEF Settle
  <2>2. /\ d = [field \in Fields |-> d[field]]
        /\ d.end = c.end /\ d.info = NoConnection.info
    BY NothingAgreed DEF Agreed, Shaped, Fields
  <2> HIDE DEF d
  <2>3. Shaped(d)
    BY <2>2, NothingAgreed DEF Agreed, Shaped
  <2>4. Agreed(i, d)
    BY <1>1, <2>2, <2>3 DEF Agreed, Live, Ends
  <2> QED
    BY <2>1, <2>4
<1>2. CASE ~ \A e \in Ends : c.end[e] = "ended"
  BY <1>2 DEF Settle
<1> QED
  BY <1>1, <1>2

LEMMA GiveAgrees ==
  ASSUME NEW i, NEW c, Agreed(i, c), NEW e \in Ends
  PROVE  Agreed(i, Give(c, e))
<1> DEFINE given == Give(c, e)
<1>1. /\ given = [field \in Fields |-> given[field]]
      /\ given.agent = c.agent /\ given.nonce = c.nonce /\ given.info = c.info
      /\ given.hello = c.hello /\ given.response = c.response
      /\ given.end = [c.end EXCEPT ![e] = "ended"]
  BY DEF Give, Agreed, Shaped, Fields
<1>2. given.end = [x \in Ends |-> IF x = e THEN "ended" ELSE c.end[x]]
  BY <1>1 DEF Agreed, Shaped
<1> HIDE DEF given
<1>3. Shaped(given)
  BY <1>1, <1>2 DEF Agreed, Shaped
<1>4. \A x \in Ends : given.end[x] = IF x = e THEN "ended" ELSE c.end[x]
  BY <1>2
<1>5. "server" \in Ends /\ "client" \in Ends
  BY DEF Ends
<1>6. Agreed(i, given)
  BY <1>1, <1>3, <1>4, <1>5 DEF Agreed, Live
<1> QED
  BY <1>6 DEF given

(* A connection that keeps its ends, and what they agreed on, is agreed.   *)
LEMMA OthersAgree ==
  ASSUME NEW i, NEW c, Agreed(i, c), NEW d, d = [field \in Fields |-> d[field]],
         d.agent = c.agent, d.nonce = c.nonce, d.info = c.info, d.end = c.end,
         d.hello = c.hello, d.response = c.response
  PROVE  Agreed(i, d)
BY DEF Agreed, Shaped

LEMMA AgedAgrees ==
  ASSUME NEW i, NEW c, Agreed(i, c)
  PROVE  Agreed(i, Aged(c))
<1> DEFINE aged == Aged(c)
<1>1. /\ aged = [field \in Fields |-> aged[field]]
      /\ aged.agent = c.agent /\ aged.nonce = c.nonce
      /\ aged.info = c.info /\ aged.end = c.end
      /\ aged.hello = c.hello /\ aged.response = c.response
  BY DEF Aged, Agreed, Shaped, Fields
<1> HIDE DEF aged
<1>2. Agreed(i, aged)
  BY <1>1, OthersAgree
<1> QED
  BY <1>2 DEF aged

LEMMA ExpireAgrees ==
  ASSUME NEW i, NEW c, Agreed(i, c)
  PROVE  Agreed(i, Expire(c))
<1> DEFINE late == {e \in Ends : c.age[e] > OperationTimeout}
           d == [c EXCEPT
                   !.end = [e \in Ends |-> IF e \in late THEN "ended" ELSE @[e]],
                   !.worker = [e \in Ends |-> IF e \in late THEN Stopped ELSE @[e]],
                   !.deadline = TRUE]
<1>1. Expire(c) = IF late = {} THEN c ELSE d
  BY DEF Expire
<1>2. /\ d = [field \in Fields |-> d[field]]
      /\ d.agent = c.agent /\ d.nonce = c.nonce /\ d.info = c.info
      /\ d.hello = c.hello /\ d.response = c.response
      /\ d.end = [e \in Ends |-> IF e \in late THEN "ended" ELSE c.end[e]]
  BY DEF Agreed, Shaped, Fields
<1> HIDE DEF d, late
<1>3. Shaped(d)
  BY <1>2 DEF Agreed, Shaped
<1>4. /\ \A e \in Ends : d.end[e] = IF e \in late THEN "ended" ELSE c.end[e]
      /\ "server" \in Ends /\ "client" \in Ends
  BY <1>2 DEF Ends
<1>5. Agreed(i, d)
  BY <1>2, <1>3, <1>4 DEF Agreed, Live
<1> QED
  BY <1>1, <1>5

LEMMA BeatAgrees ==
  ASSUME NEW i, NEW c, Agreed(i, c)
  PROVE  Agreed(i, Beat(c))
<1> DEFINE d == [c EXCEPT !.control["client"] = Append(@, 0)]
<1>1. Beat(c) = c \/ Beat(c) = d
  BY DEF Beat
<1>2. /\ d = [field \in Fields |-> d[field]]
      /\ d.agent = c.agent /\ d.nonce = c.nonce /\ d.info = c.info
      /\ d.hello = c.hello /\ d.response = c.response /\ d.end = c.end
  BY DEF Agreed, Shaped, Fields
<1> HIDE DEF d
<1>3. Agreed(i, d)
  BY <1>2, OthersAgree
<1> QED
  BY <1>1, <1>3

(* An action changes one connection and no setting.                        *)
LEMMA SettingsAgree ==
  ASSUME UNCHANGED settings,
         paired \in [Agents -> Nodes \cup {Unpaired}], node \in [Agents -> Nodes],
         connections' = [i \in Ids |-> connections'[i]],
         \A i \in Ids : Agreed(i, connections'[i])
  PROVE  TransportInv'
<1>1. paired' = paired /\ node' = node /\ current' = current
  BY DEF settings
<1>2. ASSUME NEW i \in Ids
      PROVE  Agreed(i, connections[i])'
  <2>1. Agreed(i, connections'[i])
    OBVIOUS
  <2>2. FirstMessages(connections[i].agent, connections[i].nonce)'
          = FirstMessages(connections'[i].agent, connections'[i].nonce)
    BY <1>1 DEF FirstMessages, Hello
  <2>3. Accepted(Hello(connections[i].agent, connections[i].nonce), i)'
          = Accepted(Hello(connections'[i].agent, connections'[i].nonce), i)
    BY <1>1 DEF Accepted, Hello
  <2> QED
    BY <1>1, <2>1, <2>2, <2>3, SMTT(60) DEF Agreed, Shaped, Expected
<1> QED
  BY <1>1, <1>2 DEF TransportInv

LEMMA BecomesAgrees ==
  ASSUME TransportInv, NEW i \in Ids, NEW c, Agreed(i, c), Becomes(i, c),
         UNCHANGED settings
  PROVE  TransportInv'
<1>1. connections' = [j \in Ids |-> IF j = i THEN Settle(c) ELSE connections[j]]
  BY DEF Becomes, TransportInv
<1>2. \A j \in Ids : Agreed(j, connections'[j])
  BY <1>1, SettleAgrees DEF TransportInv
<1>3. connections' = [j \in Ids |-> connections'[j]]
  BY <1>1
<1> QED
  BY <1>2, <1>3, SettingsAgree DEF TransportInv

LEMMA TickAgrees ==
  ASSUME TransportInv, Tick
  PROVE  TransportInv'
<1>1. UNCHANGED settings
  BY DEF Tick
<1>2. connections' =
        [j \in Ids |-> Settle(Beat(Expire(Aged(connections[j]))))]
  BY DEF Tick
<1>3. \A j \in Ids : Agreed(j, connections'[j])
  BY <1>2, AgedAgrees, ExpireAgrees, BeatAgrees, SettleAgrees DEF TransportInv
<1>4. connections' = [j \in Ids |-> connections'[j]]
  BY <1>2
<1> QED
  BY <1>1, <1>3, <1>4, SettingsAgree DEF TransportInv

(* What an end keeps of the answer to an agent's hello.                    *)
LEMMA InfoIsExpected ==
  ASSUME NEW agent, NEW nonce, NEW peer, NEW i
  PROVE  Info(peer, Accepted(Hello(agent, nonce), i)) = Expected(agent, peer, i)
BY DEF Info, Accepted, Hello, Expected

(* Only a hello is answered with Accepted, and it is the client's.         *)
LEMMA FirstIsHello ==
  ASSUME NEW agent, NEW nonce, NEW message \in FirstMessages(agent, nonce),
         message.type = "Hello"
  PROVE  message = Hello(agent, nonce)
BY DEF FirstMessages

LEMMA EstablishKeeps ==
  ASSUME NEW c, Shaped(c), NEW e \in Ends, NEW info
  PROVE  LET d == Establish(c, e, info) IN
           /\ Shaped(d) /\ d.agent = c.agent /\ d.nonce = c.nonce
           /\ d.hello = c.hello /\ d.response = c.response
           /\ \A x \in Ends :
                /\ d.end[x] = IF x = e THEN "established" ELSE c.end[x]
                /\ d.info[x] = IF x = e THEN info ELSE c.info[x]
<1> DEFINE d == Establish(c, e, info)
<1>1. /\ d = [field \in Fields |-> d[field]]
      /\ d.agent = c.agent /\ d.nonce = c.nonce
      /\ d.hello = c.hello /\ d.response = c.response
      /\ d.end = [c.end EXCEPT ![e] = "established"]
      /\ d.info = [c.info EXCEPT ![e] = info]
  BY DEF Establish, Shaped, Fields
<1>2. /\ d.end = [x \in Ends |-> IF x = e THEN "established" ELSE c.end[x]]
      /\ d.info = [x \in Ends |-> IF x = e THEN info ELSE c.info[x]]
  BY <1>1 DEF Shaped
<1> HIDE DEF d
<1>3. Shaped(d)
  BY <1>1, <1>2 DEF Shaped
<1>4. \A x \in Ends :
        /\ d.end[x] = IF x = e THEN "established" ELSE c.end[x]
        /\ d.info[x] = IF x = e THEN info ELSE c.info[x]
  BY <1>2
<1> QED
  BY <1>1, <1>3, <1>4 DEF d

(* A server takes an agent for the node that its hello and its certificate *)
(* both name.                                                              *)
LEMMA AcceptAgrees ==
  ASSUME TransportInv, NEW i \in Ids, Accept(i)
  PROVE  TransportInv'
<1> DEFINE c == connections[i]
           answer == Accepted(c.hello, i)
           info == Info(c.hello.node, answer)
           up == Establish(c, "server", info)
           d == [up EXCEPT !.response = answer]
<1>1. Agreed(i, c) /\ "server" \in Ends /\ "client" \in Ends
  BY DEF TransportInv, Ends
<1>2. /\ Becomes(i, d) /\ UNCHANGED settings /\ c.end["server"] = "opening"
      /\ c.hello.type = "Hello" /\ c.hello.node = paired[c.agent]
  BY DEF Accept, Reading, ClaimIsCertified
<1>3. /\ c.agent \in Agents /\ paired[c.agent] # Unpaired /\ c.nonce \in Nonces
      /\ c.hello \in FirstMessages(c.agent, c.nonce)
  BY <1>1, <1>2 DEF Agreed, Live
<1>4. c.hello = Hello(c.agent, c.nonce)
  BY <1>2, <1>3, FirstIsHello
<1>5. /\ answer = Accepted(Hello(c.agent, c.nonce), i)
      /\ info = Expected(c.agent, paired[c.agent], i)
      /\ node[c.agent] = paired[c.agent]
  <2>1. c.hello.node = node[c.agent]
    BY <1>4 DEF Hello
  <2>2. Info(c.hello.node, Accepted(c.hello, i)) = Expected(c.agent, c.hello.node, i)
    BY <1>4, InfoIsExpected
  <2> QED
    BY <1>2, <1>4, <2>1, <2>2
<1> HIDE DEF answer, info
<1>6. /\ Shaped(up) /\ up.agent = c.agent /\ up.nonce = c.nonce
      /\ \A x \in Ends :
           /\ up.end[x] = IF x = "server" THEN "established" ELSE c.end[x]
           /\ up.info[x] = IF x = "server" THEN info ELSE c.info[x]
  BY <1>1, EstablishKeeps DEF Agreed
<1> HIDE DEF up
<1>7. /\ d = [field \in Fields |-> d[field]] /\ d.end = up.end
      /\ d.agent = up.agent /\ d.nonce = up.nonce
      /\ d.info = up.info /\ d.response = answer
  BY <1>6 DEF Shaped, Fields
<1> HIDE DEF d
<1>8. Shaped(d)
  BY <1>6, <1>7 DEF Shaped
<1>9. /\ d.end["server"] = "established" /\ d.end["client"] = c.end["client"]
      /\ d.info["server"] = info /\ d.info["client"] = c.info["client"]
      /\ d.agent = c.agent /\ d.nonce = c.nonce
  BY <1>1, <1>6, <1>7
<1>10. Agreed(i, d)
  BY <1>1, <1>3, <1>5, <1>7, <1>8, <1>9 DEF Agreed
<1> QED
  BY <1>2, <1>10, BecomesAgrees

(* A client takes the answer of the controller it asked for, and of no     *)
(* other.                                                                  *)
LEMMA EstablishedAgrees ==
  ASSUME TransportInv, NEW i \in Ids, Established(i)
  PROVE  TransportInv'
<1> DEFINE c == connections[i]
           info == Info(expects[c.agent], c.response)
           up == Establish(c, "client", info)
           d == [up EXCEPT !.control["server"] = Append(@, 0)]
<1>1. Agreed(i, c) /\ "server" \in Ends /\ "client" \in Ends
  BY DEF TransportInv, Ends
<1>2. /\ Becomes(i, d) /\ UNCHANGED settings /\ c.end["client"] = "opening"
      /\ c.response.type = "Accepted"
      /\ c.response.controller = expects[c.agent]
  BY DEF Established, Acceptable, AnswerIsBound
<1>3. /\ c.agent \in Agents /\ paired[c.agent] # Unpaired /\ c.nonce \in Nonces
      /\ c.response = Accepted(Hello(c.agent, c.nonce), i)
  BY <1>1, <1>2 DEF Agreed, Live
<1>4. info = Expected(c.agent, Controller, i)
  <2>1. \A hello : Accepted(hello, i).controller = Controller
    BY DEF Accepted
  <2>2. expects[c.agent] = Controller
    BY <1>2, <1>3, <2>1
  <2> QED
    BY <1>3, <2>2, InfoIsExpected
<1> HIDE DEF info
<1>5. /\ Shaped(up) /\ up.agent = c.agent /\ up.nonce = c.nonce
      /\ up.hello = c.hello /\ up.response = c.response
      /\ \A x \in Ends :
           /\ up.end[x] = IF x = "client" THEN "established" ELSE c.end[x]
           /\ up.info[x] = IF x = "client" THEN info ELSE c.info[x]
  BY <1>1, EstablishKeeps DEF Agreed
<1> HIDE DEF up
<1>6. Agreed(i, up)
  <2>1. /\ up.end["client"] = "established" /\ up.end["server"] = c.end["server"]
        /\ up.info["client"] = info /\ up.info["server"] = c.info["server"]
    BY <1>1, <1>5
  <2> QED
    BY <1>1, <1>3, <1>4, <1>5, <2>1 DEF Agreed
<1>7. /\ d = [field \in Fields |-> d[field]] /\ d.agent = up.agent
      /\ d.nonce = up.nonce /\ d.info = up.info /\ d.end = up.end
      /\ d.hello = up.hello /\ d.response = up.response
  BY <1>5 DEF Shaped, Fields
<1> HIDE DEF d
<1>8. Agreed(i, d)
  BY <1>6, <1>7, OthersAgree
<1> QED
  BY <1>2, <1>8, BecomesAgrees

(* A refused hello leaves an answer that no client takes for Accepted.     *)
LEMMA RejectAgrees ==
  ASSUME TransportInv, NEW i \in Ids, Reject(i)
  PROVE  TransportInv'
<1> DEFINE c == connections[i]
           given == Give(c, "server")
<1>1. Agreed(i, given)
  BY GiveAgrees DEF TransportInv, Ends
<1>2. UNCHANGED settings
  BY DEF Reject
<1>3. CASE Becomes(i, given)
  BY <1>1, <1>2, <1>3, BecomesAgrees
<1>4. ASSUME NEW reason, Answer(i, reason)
      PROVE  TransportInv'
  <2> DEFINE d == [given EXCEPT !.response = [type |-> "Rejected", reason |-> reason]]
  <2>1. Becomes(i, d)
    BY <1>4 DEF Answer
  <2> HIDE DEF given
  <2>2. /\ d = [field \in Fields |-> d[field]]
        /\ d.agent = given.agent /\ d.nonce = given.nonce
        /\ d.hello = given.hello /\ d.response.type = "Rejected"
        /\ d.info = given.info /\ d.end = given.end
    BY <1>1 DEF Agreed, Shaped, Fields
  <2> HIDE DEF d
  <2>3. Agreed(i, d)
    BY <1>1, <2>2 DEF Agreed, Shaped
  <2> QED
    BY <1>2, <2>1, <2>3, BecomesAgrees
<1> QED
  BY <1>3, <1>4 DEF Reject

LEMMA HandshakeAgrees ==
  ASSUME TransportInv, NEW i \in Ids,
         \/ \E agent \in Agents :
              \/ \E nonce \in Nonces : Connect(i, agent, nonce)
              \/ ConnectFails(i, agent)
         \/ Reject(i) \/ Accept(i) \/ Established(i) \/ Refused(i)
         \/ \E e \in Ends : HandshakeFails(i, e)
  PROVE  TransportInv'
<1> DEFINE c == connections[i]
<1>1. Agreed(i, c)
  BY DEF TransportInv
<1>2. ASSUME NEW agent \in Agents, NEW nonce \in Nonces,
             Connect(i, agent, nonce)
      PROVE  TransportInv'
  <2>1. PICK message \in FirstMessages(agent, nonce) :
          Becomes(i, [NoConnection EXCEPT !.agent = agent, !.nonce = nonce,
                        !.hello = message, !.end = [e \in Ends |-> "opening"]])
    BY <1>2 DEF Connect
  <2> DEFINE d == [NoConnection EXCEPT !.agent = agent, !.nonce = nonce,
                     !.hello = message, !.end = [e \in Ends |-> "opening"]]
  <2>2. paired[agent] # Unpaired /\ UNCHANGED settings /\ Becomes(i, d)
    BY <1>2, <2>1 DEF Connect
  <2>3. /\ d = [field \in Fields |-> d[field]]
        /\ d.agent = agent /\ d.nonce = nonce /\ d.hello = message
        /\ d.end = [e \in Ends |-> "opening"] /\ d.info = NoConnection.info
        /\ d.response.type = "none"
    BY DEF Fields, NoConnection, NoMessage
  <2> HIDE DEF d
  <2>4. Shaped(d)
    BY <2>3, NothingAgreed DEF Agreed, Shaped
  <2>5. Agreed(i, d)
    BY <2>2, <2>3, <2>4 DEF Agreed, Ends
  <2> QED
    BY <2>2, <2>5, BecomesAgrees
<1>3. ASSUME NEW agent \in Agents, ConnectFails(i, agent)
      PROVE  TransportInv'
  <2> DEFINE d == [NoConnection EXCEPT !.end = [e \in Ends |-> "ended"]]
  <2>1. Becomes(i, d) /\ UNCHANGED settings
    BY <1>3 DEF ConnectFails
  <2>2. /\ d = [field \in Fields |-> d[field]]
        /\ d.end = [e \in Ends |-> "ended"]
        /\ d.info = NoConnection.info
    BY NothingAgreed DEF Agreed, Shaped, Fields
  <2> HIDE DEF d
  <2>3. Shaped(d)
    BY <2>2, NothingAgreed DEF Agreed, Shaped
  <2>4. Agreed(i, d)
    BY <2>2, <2>3 DEF Agreed, Live, Ends
  <2> QED
    BY <2>1, <2>4, BecomesAgrees
<1>4. ASSUME NEW e \in Ends, HandshakeFails(i, e)
      PROVE  TransportInv'
  <2>1. Becomes(i, Give(c, e)) /\ UNCHANGED settings
    BY <1>4 DEF HandshakeFails
  <2> QED
    BY <1>1, <2>1, GiveAgrees, BecomesAgrees
<1>5. ASSUME Refused(i)
      PROVE  TransportInv'
  <2>1. Becomes(i, Give(c, "client")) /\ UNCHANGED settings
    BY <1>5 DEF Refused
  <2> QED
    BY <1>1, <2>1, GiveAgrees, BecomesAgrees DEF Ends
<1> QED
  BY <1>2, <1>3, <1>4, <1>5, RejectAgrees, AcceptAgrees, EstablishedAgrees

(* Everything else on a connection leaves alone what its ends agreed on,   *)
(* or ends one of them.                                                    *)
LEMMA UseAgrees ==
  ASSUME TransportInv, NEW i \in Ids, NEW d, Becomes(i, d), UNCHANGED settings,
         d = [field \in Fields |-> d[field]],
         d.agent = connections[i].agent, d.nonce = connections[i].nonce,
         d.info = connections[i].info, d.end = connections[i].end,
         d.hello = connections[i].hello, d.response = connections[i].response
  PROVE  TransportInv'
<1>1. Agreed(i, connections[i])
  BY DEF TransportInv
<1>2. Agreed(i, d)
  BY <1>1, OthersAgree
<1> QED
  BY <1>2, BecomesAgrees

LEMMA MessagesAgree ==
  ASSUME TransportInv, NEW i \in Ids,
         \/ Acknowledge(i) \/ BeginBatch(i) \/ EndBatch(i) \/ Stall(i)
         \/ \E e \in Ends : Receive(i, e) \/ Close(i, e) \/ Closed(i, e)
  PROVE  TransportInv'
<1> DEFINE c == connections[i]
<1>1. Agreed(i, c) /\ DOMAIN c = Fields
  BY DEF TransportInv, Agreed, Shaped
<1>2. c = [field \in Fields |-> c[field]]
  BY <1>1 DEF Agreed, Shaped
<1>3. ASSUME Acknowledge(i)
      PROVE  TransportInv'
  <2> DEFINE d == [c EXCEPT !.unread = @ - 1,
                            !.control["server"] = Append(@, 0)]
  <2>1. Becomes(i, d) /\ UNCHANGED settings
    BY <1>3 DEF Acknowledge
  <2>2. /\ d = [field \in Fields |-> d[field]] /\ d.agent = c.agent
        /\ d.nonce = c.nonce /\ d.info = c.info /\ d.end = c.end
        /\ d.hello = c.hello /\ d.response = c.response
    BY <1>2 DEF Fields
  <2> HIDE DEF d
  <2> QED
    BY <2>1, <2>2, UseAgrees
<1>4. ASSUME BeginBatch(i)
      PROVE  TransportInv'
  <2> DEFINE d == [c EXCEPT !.busy = 1, !.age["client"] = 0]
  <2>1. Becomes(i, d) /\ UNCHANGED settings
    BY <1>4 DEF BeginBatch
  <2>2. /\ d = [field \in Fields |-> d[field]] /\ d.agent = c.agent
        /\ d.nonce = c.nonce /\ d.info = c.info /\ d.end = c.end
        /\ d.hello = c.hello /\ d.response = c.response
    BY <1>2 DEF Fields
  <2> HIDE DEF d
  <2> QED
    BY <2>1, <2>2, UseAgrees
<1>5. ASSUME EndBatch(i)
      PROVE  TransportInv'
  <2> DEFINE d == [c EXCEPT !.busy = 0]
  <2>1. Becomes(i, d) /\ UNCHANGED settings
    BY <1>5 DEF EndBatch
  <2>2. /\ d = [field \in Fields |-> d[field]] /\ d.agent = c.agent
        /\ d.nonce = c.nonce /\ d.info = c.info /\ d.end = c.end
        /\ d.hello = c.hello /\ d.response = c.response
    BY <1>2 DEF Fields
  <2> HIDE DEF d
  <2> QED
    BY <2>1, <2>2, UseAgrees
<1>6. ASSUME Stall(i)
      PROVE  TransportInv'
  <2> DEFINE d == [c EXCEPT !.stalled = TRUE, !.unread = 0, !.busy = 0,
                     !.control = NoConnection.control,
                     !.texts = NoConnection.texts]
  <2>1. Becomes(i, d) /\ UNCHANGED settings
    BY <1>6 DEF Stall
  <2>2. /\ d = [field \in Fields |-> d[field]] /\ d.agent = c.agent
        /\ d.nonce = c.nonce /\ d.info = c.info /\ d.end = c.end
        /\ d.hello = c.hello /\ d.response = c.response
    BY <1>2 DEF Fields
  <2> HIDE DEF d
  <2> QED
    BY <2>1, <2>2, UseAgrees
<1>7. ASSUME NEW e \in Ends, Receive(i, e)
      PROVE  TransportInv'
  <2> DEFINE d == [c EXCEPT !.control[e] = Tail(@), !.age[e] = 0,
                     !.unread = IF e = "client" THEN @ + 1 ELSE @]
  <2>1. Becomes(i, d) /\ UNCHANGED settings
    BY <1>7 DEF Receive
  <2>2. /\ d = [field \in Fields |-> d[field]] /\ d.agent = c.agent
        /\ d.nonce = c.nonce /\ d.info = c.info /\ d.end = c.end
        /\ d.hello = c.hello /\ d.response = c.response
    BY <1>2 DEF Fields
  <2> HIDE DEF d
  <2> QED
    BY <2>1, <2>2, UseAgrees
<1>8. ASSUME NEW e \in Ends, Close(i, e) \/ Closed(i, e)
      PROVE  TransportInv'
  <2>1. Becomes(i, Give(c, e)) /\ UNCHANGED settings
    BY <1>8 DEF Close, Closed
  <2> QED
    BY <1>1, <2>1, GiveAgrees, BecomesAgrees
<1> QED
  BY <1>3, <1>4, <1>5, <1>6, <1>7, <1>8

LEMMA TextsAgree ==
  ASSUME TransportInv, NEW i \in Ids, NEW e \in Ends,
         SendText(i, e) \/ ReceiveText(i, e) \/ TextFails(i, e)
  PROVE  TransportInv'
<1> DEFINE c == connections[i]
<1>1. c = [field \in Fields |-> c[field]]
  BY DEF TransportInv, Agreed, Shaped
<1>2. ASSUME SendText(i, e)
      PROVE  TransportInv'
  <2>1. PICK dropped :
          Becomes(i, [c EXCEPT !.worker[e] = 0,
                        !.texts[Other(e)] = @ + 1, !.texts[e] = @ - dropped])
    BY <1>2 DEF SendText
  <2> DEFINE d == [c EXCEPT !.worker[e] = 0,
                     !.texts[Other(e)] = @ + 1, !.texts[e] = @ - dropped]
  <2>2. UNCHANGED settings
    BY <1>2 DEF SendText
  <2>3. /\ d = [field \in Fields |-> d[field]] /\ d.agent = c.agent
        /\ d.nonce = c.nonce /\ d.info = c.info /\ d.end = c.end
        /\ d.hello = c.hello /\ d.response = c.response
    BY <1>1 DEF Fields
  <2>4. Becomes(i, d)
    BY <2>1
  <2> HIDE DEF d
  <2> QED
    BY <2>2, <2>3, <2>4, UseAgrees
<1>3. ASSUME ReceiveText(i, e)
      PROVE  TransportInv'
  <2> DEFINE d == [c EXCEPT !.worker[e] = 0, !.texts[e] = @ - 1]
  <2>1. Becomes(i, d) /\ UNCHANGED settings
    BY <1>3 DEF ReceiveText
  <2>2. /\ d = [field \in Fields |-> d[field]] /\ d.agent = c.agent
        /\ d.nonce = c.nonce /\ d.info = c.info /\ d.end = c.end
        /\ d.hello = c.hello /\ d.response = c.response
    BY <1>1 DEF Fields
  <2> HIDE DEF d
  <2> QED
    BY <2>1, <2>2, UseAgrees
<1>4. ASSUME TextFails(i, e)
      PROVE  TransportInv'
  <2> DEFINE d == [c EXCEPT !.worker[e] = Stopped]
  <2>1. Becomes(i, d) /\ UNCHANGED settings
    BY <1>4 DEF TextFails
  <2>2. /\ d = [field \in Fields |-> d[field]] /\ d.agent = c.agent
        /\ d.nonce = c.nonce /\ d.info = c.info /\ d.end = c.end
        /\ d.hello = c.hello /\ d.response = c.response
    BY <1>1 DEF Fields
  <2> HIDE DEF d
  <2> QED
    BY <2>1, <2>2, UseAgrees
<1> QED
  BY <1>2, <1>3, <1>4

(* Whoever uses a connection knows whose it is, and its two ends agree.    *)
LEMMA AgreedEndsAgree == TransportInv => EndsAgree
<1> SUFFICES ASSUME TransportInv, NEW i \in Ids
             PROVE  LET c == connections[i]
                        client == c.info["client"]
                        server == c.info["server"]
                    IN /\ Up(i, "server") =>
                            server.peer = paired[c.agent] /\ server.peer = node[c.agent]
                       /\ Up(i, "client") => client.peer = Controller
                       /\ Up(i, "client") /\ Up(i, "server") =>
                            /\ client = [server EXCEPT !.peer = Controller]
                            /\ client.limit <= Limit[c.agent]
                            /\ client.limit <= Limit[Controller]
  BY DEF EndsAgree
<1> DEFINE c == connections[i]
<1>1. ASSUME Up(i, "server")
      PROVE  /\ c.info["server"] = Expected(c.agent, paired[c.agent], i)
             /\ c.info["server"].peer = paired[c.agent]
             /\ c.info["server"].peer = node[c.agent]
  <2>1. /\ node[c.agent] = paired[c.agent]
        /\ c.info["server"] = Expected(c.agent, paired[c.agent], i)
    BY <1>1 DEF TransportInv, Agreed, Up
  <2> QED
    BY <2>1 DEF Expected
<1>2. ASSUME Up(i, "client")
      PROVE  /\ c.agent \in Agents
             /\ c.info["client"] = Expected(c.agent, Controller, i)
             /\ c.info["client"].peer = Controller
  <2>1. c.agent \in Agents /\ c.info["client"] = Expected(c.agent, Controller, i)
    BY <1>2 DEF TransportInv, Agreed, Live, Ends, Up
  <2> QED
    BY <2>1 DEF Expected
<1>3. ASSUME Up(i, "client"), Up(i, "server")
      PROVE  /\ c.info["client"] = [c.info["server"] EXCEPT !.peer = Controller]
             /\ c.info["client"].limit <= Limit[c.agent]
             /\ c.info["client"].limit <= Limit[Controller]
  <2>1. Limit[c.agent] \in Nat /\ Limit[Controller] \in Nat
    BY <1>2, <1>3, TransportAssumption
  <2>2. /\ Min(Limit[Controller], Limit[c.agent]) <= Limit[c.agent]
        /\ Min(Limit[Controller], Limit[c.agent]) <= Limit[Controller]
    BY <2>1 DEF Min
  <2>3. Expected(c.agent, Controller, i)
          = [Expected(c.agent, paired[c.agent], i) EXCEPT !.peer = Controller]
    BY DEF Expected
  <2>4. Expected(c.agent, Controller, i).limit
          = Min(Limit[Controller], Limit[c.agent])
    BY DEF Expected
  <2> QED
    BY <1>1, <1>2, <1>3, <2>2, <2>3, <2>4
<1> QED
  BY <1>1, <1>2, <1>3

(* The connections of a transport keep to what their messages said and     *)
(* their ends checked, whatever is paired, sent, lost and timed out.       *)
THEOREM ConnectionsKeepAgreements == TransportSpec => []TransportInv
<1>1. TransportInit => TransportInv
  <2> SUFFICES ASSUME TransportInit PROVE TransportInv
    OBVIOUS
  <2>1. /\ connections = [i \in Ids |-> NoConnection]
        /\ paired \in [Agents -> Nodes \cup {Unpaired}]
        /\ node \in [Agents -> Nodes]
    BY DEF TransportInit
  <2>2. /\ connections = [i \in Ids |-> connections[i]]
        /\ \A i \in Ids : connections[i] = NoConnection
    BY <2>1
  <2> QED
    BY <2>1, <2>2, NothingAgreed DEF TransportInv
<1>2. TransportInv /\ [TransportNext]_vars => TransportInv'
  <2>1. ASSUME TransportInv, UNCHANGED vars
        PROVE  TransportInv'
    <3>1. connections' = connections /\ UNCHANGED settings
      BY <2>1 DEF vars
    <3> QED
      BY <2>1, <3>1, SettingsAgree DEF TransportInv
  <2> QED
    BY <2>1, TickAgrees, HandshakeAgrees, MessagesAgree, TextsAgree
       DEF TransportNext
<1> QED
  BY <1>1, <1>2, PTL DEF TransportSpec

(* The server takes a connection for the node whose certificate was        *)
(* presented, and the client for the controller it asked for, by the names *)
(* that these go by; and the two agree on what they negotiated, within the *)
(* limits of both (endpoint.rs:138-145, 162-209 and 314-367).              *)
THEOREM TransportBindsHandshakes == TransportSpec => []EndsAgree
BY AgreedEndsAgree, ConnectionsKeepAgreements, PTL

(* The transport uses its replay guard as ReplayGuard says: the handshake  *)
(* admits only hellos, one at a time, and nothing else touches the guard   *)
(* (endpoint.rs:151-161).                                                  *)
THEOREM TransportKeepsGuard == TransportSpec => GuardSpec
<1>1. TransportInit => GuardInit
  BY DEF TransportInit
<1>2. ASSUME TransportInv, [TransportNext]_vars
      PROVE  [GuardNext]_guardVars
  <2>1. ASSUME NEW i \in Ids, Accept(i)
        PROVE  GuardNext
    <3> DEFINE c == connections[i]
    <3>1. /\ c.hello.type = "Hello" /\ Admit(Told(c.hello))
          /\ c.end["server"] = "opening"
      BY <2>1 DEF Accept, Reading
    <3>2. /\ c.agent \in Agents /\ c.nonce \in Nonces
          /\ c.hello \in FirstMessages(c.agent, c.nonce)
      BY <1>2, <3>1 DEF TransportInv, Agreed, Live, Ends
    <3>3. c.hello = Hello(c.agent, c.nonce)
      BY <3>1, <3>2, FirstIsHello
    <3>4. Told(c.hello) = <<node[c.agent], c.nonce>> /\ node[c.agent] \in Nodes
      BY <1>2, <3>2, <3>3 DEF Told, Hello, TransportInv
    <3>5. Told(c.hello) \in Hellos
      BY <3>2, <3>4, TransportAssumption
    <3> QED
      BY <3>1, <3>5 DEF GuardNext
  <2>2. ASSUME NEW i \in Ids, Reject(i)
        PROVE  UNCHANGED guardVars
    BY <2>2 DEF Reject, Replayed
  <2>3. CASE \E i \in Ids :
               \/ \E agent \in Agents :
                    \/ \E nonce \in Nonces : Connect(i, agent, nonce)
                    \/ ConnectFails(i, agent)
               \/ Established(i) \/ Refused(i)
               \/ Acknowledge(i) \/ BeginBatch(i) \/ EndBatch(i) \/ Stall(i)
    BY <2>3 DEF Connect, ConnectFails, Established, Refused, Acknowledge,
                BeginBatch, EndBatch, Stall
  <2>4. CASE \E i \in Ids, e \in Ends :
               \/ HandshakeFails(i, e) \/ Receive(i, e) \/ Close(i, e)
               \/ Closed(i, e) \/ SendText(i, e) \/ ReceiveText(i, e)
               \/ TextFails(i, e)
    BY <2>4 DEF HandshakeFails, Receive, Close, Closed, SendText, ReceiveText,
                TextFails
  <2>5. CASE Tick \/ UNCHANGED vars
    BY <2>5 DEF Tick, vars
  <2> QED
    BY <1>2, <2>1, <2>2, <2>3, <2>4, <2>5 DEF TransportNext
<1> QED
  BY <1>1, <1>2, ConnectionsKeepAgreements, PTL DEF TransportSpec, GuardSpec

(* A server admits no hello twice before Capacity others, over its whole   *)
(* run and whatever else happens to its connections (replay.rs:22-34,      *)
(* endpoint.rs:151-161).                                                   *)
THEOREM TransportAdmitsOnce == TransportSpec => []AdmittedOnce
BY HellosAreAdmittedOnce, TransportKeepsGuard, PTL

-----------------------------------------------------------------------------
(* How long an end of a connection that keeps time has heard nothing.  A   *)
(* message under way to the client, the oldest first, was sent an interval *)
(* after the one before it.  The server waits for the acknowledgement of a *)
(* heartbeat that was delivered and then held back by a batch, at most.    *)
Slack == HeartbeatInterval + MaxLatency + MaxBusy + 1

ClientHeard(c, since) ==
  /\ c.control["client"] # <<>> =>
       c.age["client"] <= HeartbeatInterval + c.control["client"][1]
  /\ c.control["client"] = <<>> => c.age["client"] <= since

ServerHeard(c, since) ==
  /\ c.control["server"] # <<>> =>
       c.age["server"] <= Slack + c.control["server"][1]
  /\ c.control["server"] = <<>> /\ c.unread # 0 =>
       /\ c.age["server"] <= Slack
       /\ c.busy # 0 => c.age["server"] <= HeartbeatInterval + MaxLatency + c.busy
  /\ c.control["server"] = <<>> /\ c.unread = 0 =>
       /\ c.control["client"] # <<>> =>
            c.age["server"] <= HeartbeatInterval + c.control["client"][1]
       /\ c.control["client"] = <<>> => c.age["server"] <= since

Clocks(c) ==
  /\ c.age \in [Ends -> Nat]
  /\ c.control \in [Ends -> Seq(0 .. MaxLatency)]
  /\ c.unread \in Nat /\ c.busy \in 0 .. (MaxBusy + 1)

(* Nothing is sent on a connection before the client is established, and   *)
(* the client is established after the server.                             *)
Steps(c) ==
  /\ c.end["server"] \in Live => c.end["client"] \in Live \cup {"ended"}
  /\ c.response.type = "Accepted" => c.end["server"] \in {"established", "ended"}
  /\ c.end["client"] = "established" => c.end["server"] \in {"established", "ended"}
  /\ c.end["client"] = "opening" =>
       /\ c.age["server"] = 0
       /\ \A e \in Ends : c.control[e] = <<>>

BothUp(c) == \A e \in Ends : c.end[e] = "established"

Timely(c, since) ==
  ~c.stalled =>
    /\ ~c.deadline /\ Clocks(c) /\ Steps(c)
    /\ BothUp(c) => ClientHeard(c, since) /\ ServerHeard(c, since)

(* TimelyConnectionsLast says that no deadline was met; to be inductive it *)
(* needs how far from one either end is.                                   *)
TimelyInv ==
  /\ heartbeat \in 0 .. (HeartbeatInterval - 1)
  /\ \A i \in Ids : Timely(connections[i], heartbeat)

LEMMA NothingTimely ==
  ASSUME NEW since
  PROVE  Timely(NoConnection, since)
<1> DEFINE d == NoConnection
<1>1. /\ ~d.deadline /\ d.age = [e \in Ends |-> 0]
      /\ d.control = [e \in Ends |-> <<>>] /\ d.unread = 0 /\ d.busy = 0
      /\ d.end = [e \in Ends |-> "none"] /\ d.response.type = "none"
  BY DEF NoConnection, NoMessage
<1> HIDE DEF d
<1>2. Clocks(d)
  <2>1. <<>> \in Seq(0 .. MaxLatency)
    OBVIOUS
  <2> QED
    BY <1>1, <2>1, TransportAssumption DEF Clocks
<1>3. Timely(d, since)
  BY <1>1, <1>2 DEF Timely, Steps, BothUp, Ends, Live
<1> QED
  BY <1>3 DEF d

(* A connection is as timely as another with the same clocks and steps.    *)
LEMMA OthersTimely ==
  ASSUME NEW since, NEW c, Timely(c, since), NEW d, d.stalled = c.stalled,
         d.deadline = c.deadline, d.age = c.age, d.control = c.control,
         d.unread = c.unread, d.busy = c.busy, d.end = c.end,
         d.response = c.response
  PROVE  Timely(d, since)
BY DEF Timely, Clocks, Steps, BothUp, ClientHeard, ServerHeard

LEMMA SettleTimely ==
  ASSUME NEW since, NEW c, Timely(c, since), Shaped(c)
  PROVE  Timely(Settle(c), since)
<1>1. CASE \A e \in Ends : c.end[e] = "ended"
  <2> DEFINE d == [NoConnection EXCEPT !.end = c.end, !.stalled = c.stalled,
                                       !.deadline = c.deadline]
  <2>1. /\ d.deadline = c.deadline /\ d.stalled = c.stalled
        /\ d.age = [e \in Ends |-> 0]
        /\ d.control = [e \in Ends |-> <<>>] /\ d.unread = 0 /\ d.busy = 0
        /\ d.end = c.end /\ d.response.type = "none"
    BY DEF NoConnection, NoMessage
  <2>2. Settle(c) = d
    BY <1>1 DEF Settle
  <2> HIDE DEF d
  <2>3. Clocks(d)
    <3>1. <<>> \in Seq(0 .. MaxLatency)
      OBVIOUS
    <3> QED
      BY <2>1, <3>1, TransportAssumption DEF Clocks
  <2>4. Timely(d, since)
    BY <1>1, <2>1, <2>3 DEF Timely, Steps, BothUp, Ends, Live
  <2> QED
    BY <2>2, <2>4
<1>2. CASE ~ \A e \in Ends : c.end[e] = "ended"
  BY <1>2 DEF Settle
<1> QED
  BY <1>1, <1>2

LEMMA GiveTimely ==
  ASSUME NEW since, NEW c, Timely(c, since), Shaped(c), NEW e \in Ends
  PROVE  Timely(Give(c, e), since)
<1> DEFINE d == Give(c, e)
<1>1. /\ d.stalled = c.stalled
      /\ d.deadline = c.deadline /\ d.age = c.age /\ d.control = c.control
      /\ d.unread = c.unread /\ d.busy = c.busy /\ d.response = c.response
      /\ d.end = [c.end EXCEPT ![e] = "ended"]
  BY DEF Give, Shaped, Fields
<1>2. \A x \in Ends : d.end[x] = IF x = e THEN "ended" ELSE c.end[x]
  BY <1>1 DEF Shaped
<1> HIDE DEF d
<1>3. Timely(d, since)
  BY <1>1, <1>2 DEF Timely, Clocks, Steps, BothUp, ClientHeard, ServerHeard, Ends, Live
<1> QED
  BY <1>3 DEF d

LEMMA BecomesTimely ==
  ASSUME TransportInv, TimelyInv, NEW i \in Ids, NEW c, Shaped(c),
         Timely(c, heartbeat), Becomes(i, c), heartbeat' = heartbeat
  PROVE  TimelyInv'
<1>1. connections' = [j \in Ids |-> IF j = i THEN Settle(c) ELSE connections[j]]
  BY DEF Becomes, TransportInv
<1>2. \A j \in Ids : Timely(connections'[j], heartbeat)
  BY <1>1, SettleTimely DEF TimelyInv
<1>3. \A j \in Ids : Timely(connections[j], heartbeat)'
  BY <1>2 DEF Timely, Clocks, Steps, BothUp, ClientHeard, ServerHeard
<1> QED
  BY <1>3 DEF TimelyInv

(* The handshake keeps the clocks: it is the client's part of it that      *)
(* starts them.                                                            *)
LEMMA EstablishedTimely ==
  ASSUME TransportInv, TimelyInv, NEW i \in Ids, Established(i)
  PROVE  TimelyInv'
<1> DEFINE c == connections[i]
           info == Info(expects[c.agent], c.response)
           up == Establish(c, "client", info)
           d == [up EXCEPT !.control["server"] = Append(@, 0)]
<1>1. /\ Becomes(i, d) /\ heartbeat' = heartbeat /\ ~c.stalled
      /\ c.end["client"] = "opening" /\ c.response.type = "Accepted"
      /\ c.end["server"] # "ended"
  BY DEF Established, Acceptable
<1>2. Shaped(c) /\ Timely(c, heartbeat)
  BY DEF TransportInv, Agreed, TimelyInv
<1>3. /\ Clocks(c) /\ ~c.deadline /\ c.age["server"] = 0
      /\ \A e \in Ends : c.control[e] = <<>>
      /\ c.end["server"] = "established"
  BY <1>1, <1>2 DEF Timely, Steps
<1> HIDE DEF info
<1>4. /\ up = [field \in Fields |-> up[field]]
      /\ up.age = [c.age EXCEPT !["client"] = 0]
      /\ up.control = c.control /\ up.unread = c.unread /\ up.busy = c.busy
      /\ up.end = [c.end EXCEPT !["client"] = "established"]
      /\ up.info = [c.info EXCEPT !["client"] = info]
      /\ up.stalled = c.stalled /\ up.deadline = c.deadline
      /\ up.response = c.response
  BY <1>2 DEF Establish, Shaped, Fields
<1> HIDE DEF up
<1>5. /\ d = [field \in Fields |-> d[field]]
      /\ d.age = up.age /\ d.unread = up.unread /\ d.busy = up.busy
      /\ d.control = [up.control EXCEPT !["server"] = Append(@, 0)]
      /\ d.end = up.end /\ d.info = up.info
      /\ d.stalled = up.stalled /\ d.deadline = up.deadline
      /\ d.response = up.response
  BY <1>4 DEF Fields
<1> HIDE DEF d
<1>6. Shaped(d)
  BY <1>2, <1>4, <1>5 DEF Shaped
<1>7. /\ d.age = [e \in Ends |-> IF e = "client" THEN 0 ELSE c.age[e]]
      /\ d.age["client"] = 0 /\ d.age["server"] = 0
  BY <1>3, <1>4, <1>5 DEF Clocks, Ends
<1>8. /\ d.control = [e \in Ends |-> IF e = "server" THEN <<0>> ELSE <<>>]
      /\ d.control["client"] = <<>> /\ d.control["server"] = <<0>>
  <2>1. d.control = [c.control EXCEPT !["server"] = Append(@, 0)]
    BY <1>4, <1>5
  <2>2. /\ c.control = [e \in Ends |-> c.control[e]]
        /\ c.control["server"] = <<>> /\ c.control["client"] = <<>>
    BY <1>3 DEF Clocks, Ends
  <2>3. Append(<<>>, 0) = <<0>>
    OBVIOUS
  <2>4. d.control = [e \in Ends |-> IF e = "server" THEN <<0>> ELSE c.control[e]]
    BY <2>1, <2>2, <2>3
  <2> QED
    BY <2>2, <2>4 DEF Ends
<1>9. d.control["server"] # <<>> /\ d.control["server"][1] = 0
  <2>1. \A queue : queue = <<0>> => Len(queue) = 1 /\ queue[1] = 0
    OBVIOUS
  <2>2. \A queue : queue = <<>> => Len(queue) = 0
    OBVIOUS
  <2> QED
    BY <1>8, <2>1, <2>2
<1>10. d.end["server"] = "established" /\ d.end["client"] = "established"
  BY <1>2, <1>3, <1>4, <1>5, ZenonT(60) DEF Shaped, Ends
<1>11. Clocks(d)
  <2>1. <<>> \in Seq(0 .. MaxLatency) /\ <<0>> \in Seq(0 .. MaxLatency)
    BY TransportAssumption
  <2>2. d.control \in [Ends -> Seq(0 .. MaxLatency)]
    BY <1>3, <1>8, <1>9, <2>1 DEF Ends
  <2>3. d.age \in [Ends -> Nat]
    BY <1>3, <1>7 DEF Ends
  <2> QED
    BY <1>3, <1>4, <1>5, <2>2, <2>3 DEF Clocks
<1>12. ClientHeard(d, heartbeat) /\ ServerHeard(d, heartbeat)
  <2>1. /\ 0 <= heartbeat /\ heartbeat \in Nat /\ Slack \in Nat
    BY TransportAssumption DEF TimelyInv, Slack
  <2>2. d.age["client"] <= heartbeat
    BY <1>7, <2>1
  <2>3. d.age["server"] <= Slack + d.control["server"][1]
    BY <1>7, <1>9, <2>1
  <2> QED
    BY <1>8, <1>9, <2>2, <2>3 DEF ClientHeard, ServerHeard
<1>13. Timely(d, heartbeat)
  BY <1>1, <1>3, <1>4, <1>5, <1>10, <1>11, <1>12 DEF Timely, Steps, BothUp, Ends, Live
<1> QED
  BY <1>1, <1>6, <1>13, BecomesTimely

LEMMA HandshakeTimely ==
  ASSUME TransportInv, TimelyInv, NEW i \in Ids,
         \/ \E agent \in Agents :
              \/ \E nonce \in Nonces : Connect(i, agent, nonce)
              \/ ConnectFails(i, agent)
         \/ Reject(i) \/ Accept(i) \/ Established(i) \/ Refused(i)
         \/ \E e \in Ends : HandshakeFails(i, e)
  PROVE  TimelyInv'
<1> DEFINE c == connections[i]
<1>1. Shaped(c) /\ Timely(c, heartbeat)
  BY DEF TransportInv, Agreed, TimelyInv
<1>2. ASSUME NEW d, d = [field \in Fields |-> d[field]],
             d.info = NoConnection.info,
             d.end = [e \in Ends |-> "opening"] \/ d.end = [e \in Ends |-> "ended"],
             d.age = NoConnection.age, d.control = NoConnection.control,
             d.unread = 0, d.busy = 0, d.deadline = FALSE,
             d.response.type = "none"
      PROVE  Shaped(d) /\ Timely(d, heartbeat)
  <2>1. Shaped(d)
    BY <1>2 DEF Shaped, NoConnection
  <2>2. /\ d.age = [e \in Ends |-> 0] /\ d.control = [e \in Ends |-> <<>>]
        /\ d.unread = 0 /\ d.busy = 0
    BY <1>2 DEF NoConnection
  <2>3. Clocks(d)
    <3>1. <<>> \in Seq(0 .. MaxLatency)
      OBVIOUS
    <3> QED
      BY <2>2, <3>1, TransportAssumption DEF Clocks
  <2>4. Steps(d) /\ ~BothUp(d)
    BY <1>2, <2>2 DEF Steps, BothUp, Ends, Live
  <2> QED
    BY <1>2, <2>1, <2>3, <2>4 DEF Timely
<1>3. ASSUME NEW agent \in Agents, NEW nonce \in Nonces,
             Connect(i, agent, nonce)
      PROVE  TimelyInv'
  <2>3. PICK message \in FirstMessages(agent, nonce) :
          Becomes(i, [NoConnection EXCEPT !.agent = agent, !.nonce = nonce,
                        !.hello = message, !.end = [e \in Ends |-> "opening"]])
    BY <1>3 DEF Connect
  <2> DEFINE d == [NoConnection EXCEPT !.agent = agent, !.nonce = nonce,
                     !.hello = message, !.end = [e \in Ends |-> "opening"]]
  <2>1. Becomes(i, d) /\ heartbeat' = heartbeat
    BY <1>3, <2>3 DEF Connect
  <2>2. /\ d = [field \in Fields |-> d[field]]
        /\ d.info = NoConnection.info /\ d.end = [e \in Ends |-> "opening"]
        /\ d.age = NoConnection.age /\ d.control = NoConnection.control
        /\ d.unread = 0 /\ d.busy = 0 /\ d.deadline = FALSE
        /\ d.response.type = "none"
    BY DEF NoConnection, NoMessage, Fields
  <2> HIDE DEF d
  <2> QED
    BY <1>2, <2>1, <2>2, BecomesTimely
<1>4. ASSUME NEW agent \in Agents, ConnectFails(i, agent)
      PROVE  TimelyInv'
  <2> DEFINE d == [NoConnection EXCEPT !.end = [e \in Ends |-> "ended"]]
  <2>1. Becomes(i, d) /\ heartbeat' = heartbeat
    BY <1>4 DEF ConnectFails
  <2>2. /\ d = [field \in Fields |-> d[field]]
        /\ d.info = NoConnection.info /\ d.end = [e \in Ends |-> "ended"]
        /\ d.age = NoConnection.age /\ d.control = NoConnection.control
        /\ d.unread = NoConnection.unread /\ d.busy = NoConnection.busy
        /\ d.deadline = NoConnection.deadline
        /\ d.response = NoConnection.response
    BY NothingAgreed DEF Agreed, Shaped, Fields
  <2>3. /\ NoConnection.unread = 0 /\ NoConnection.busy = 0
        /\ NoConnection.deadline = FALSE
        /\ NoConnection.response.type = "none"
    BY DEF NoConnection, NoMessage
  <2> HIDE DEF d
  <2> QED
    BY <1>2, <2>1, <2>2, <2>3, BecomesTimely
<1>5. ASSUME Reject(i)
      PROVE  TimelyInv'
  <2> DEFINE given == Give(c, "server")
  <2>1. Timely(given, heartbeat) /\ Shaped(given) /\ heartbeat' = heartbeat
    <3>1. Agreed(i, given)
      BY GiveAgrees DEF TransportInv, Ends
    <3> QED
      BY <1>1, <1>5, <3>1, GiveTimely DEF Ends, Agreed, Reject
  <2>2. CASE Becomes(i, given)
    BY <2>1, <2>2, BecomesTimely
  <2>3. ASSUME NEW reason, Answer(i, reason)
        PROVE  TimelyInv'
    <3> DEFINE d == [given EXCEPT !.response = [type |-> "Rejected", reason |-> reason]]
    <3>1. Becomes(i, d)
      BY <2>3 DEF Answer
    <3> HIDE DEF given
    <3>2. /\ d = [field \in Fields |-> d[field]]
          /\ d.info = given.info /\ d.end = given.end /\ d.age = given.age
          /\ d.control = given.control /\ d.unread = given.unread
          /\ d.busy = given.busy /\ d.stalled = given.stalled
          /\ d.deadline = given.deadline /\ d.response.type = "Rejected"
      BY <2>1 DEF Shaped, Fields
    <3> HIDE DEF d
    <3>3. Shaped(d) /\ Timely(d, heartbeat)
      BY <2>1, <3>2, ZenonT(60) DEF Shaped, Timely, Clocks, Steps, BothUp, ClientHeard, ServerHeard
    <3> QED
      BY <2>1, <3>1, <3>3, BecomesTimely
  <2> QED
    BY <1>5, <2>2, <2>3 DEF Reject
<1>6. ASSUME Accept(i)
      PROVE  TimelyInv'
  <2> DEFINE answer == Accepted(c.hello, i)
             info == Info(c.hello.node, answer)
             up == Establish(c, "server", info)
             d == [up EXCEPT !.response = answer]
  <2>1. Becomes(i, d) /\ heartbeat' = heartbeat /\ c.end["server"] = "opening"
    BY <1>6 DEF Accept, Reading
  <2> HIDE DEF answer, info
  <2>2. /\ d = [field \in Fields |-> d[field]]
        /\ d.info = [c.info EXCEPT !["server"] = info]
        /\ d.end = [c.end EXCEPT !["server"] = "established"]
        /\ d.age = [c.age EXCEPT !["server"] = 0] /\ d.control = c.control
        /\ d.unread = c.unread /\ d.busy = c.busy /\ d.stalled = c.stalled
        /\ d.deadline = c.deadline
    BY <1>1 DEF Shaped, Fields, Establish
  <2> HIDE DEF d
  <2>3. Shaped(d)
    BY <1>1, <2>2 DEF Shaped
  <2>4. \A e \in Ends : d.end[e] = IF e = "server" THEN "established" ELSE c.end[e]
    BY <1>1, <2>2 DEF Shaped
  <2>5. CASE c.stalled
    BY <2>1, <2>2, <2>3, <2>5, BecomesTimely DEF Timely
  <2>6. CASE ~c.stalled
    <3>1. Clocks(c) /\ Steps(c) /\ ~c.deadline
      BY <1>1, <2>6 DEF Timely
    <3>2. /\ d.age \in [Ends -> Nat] /\ d.age["server"] = 0
          /\ d.age["client"] = c.age["client"]
      BY <2>2, <3>1 DEF Clocks, Ends
    <3>3. c.end["client"] # "established"
      BY <2>1, <3>1 DEF Steps
    <3>4. Timely(d, heartbeat)
      <4>1. Clocks(d)
        BY <2>2, <3>1, <3>2 DEF Clocks
      <4>2. Steps(d)
        BY <2>1, <2>2, <2>4, <3>1, <3>2 DEF Steps, Ends, Live
      <4>3. ~BothUp(d)
        BY <2>4, <3>3 DEF BothUp, Ends
      <4> QED
        BY <2>2, <3>1, <4>1, <4>2, <4>3 DEF Timely
    <3> QED
      BY <2>1, <2>3, <3>4, BecomesTimely
  <2> QED
    BY <2>5, <2>6
<1>7. ASSUME NEW e \in Ends, HandshakeFails(i, e)
      PROVE  TimelyInv'
  <2>1. Becomes(i, Give(c, e)) /\ heartbeat' = heartbeat
    BY <1>7 DEF HandshakeFails
  <2>2. Shaped(Give(c, e))
    BY GiveAgrees DEF TransportInv, Agreed
  <2> QED
    BY <1>1, <2>1, <2>2, GiveTimely, BecomesTimely
<1>8. ASSUME Refused(i)
      PROVE  TimelyInv'
  <2>1. Becomes(i, Give(c, "client")) /\ heartbeat' = heartbeat
    BY <1>8 DEF Refused
  <2>2. Shaped(Give(c, "client"))
    BY GiveAgrees DEF TransportInv, Agreed, Ends
  <2> QED
    BY <1>1, <2>1, <2>2, GiveTimely, BecomesTimely DEF Ends
<1> QED
  BY <1>3, <1>4, <1>5, <1>6, <1>7, <1>8, EstablishedTimely

(* Everything else on a connection but a message it delivers, takes or     *)
(* answers.                                                                *)
LEMMA UseTimely ==
  ASSUME TransportInv, TimelyInv, NEW i \in Ids, NEW d, Becomes(i, d),
         heartbeat' = heartbeat, d = [field \in Fields |-> d[field]],
         d.info = connections[i].info, d.end = connections[i].end,
         Timely(d, heartbeat)
  PROVE  TimelyInv'
<1>1. Shaped(d)
  BY DEF TransportInv, Agreed, Shaped
<1> QED
  BY <1>1, BecomesTimely

(* What a queue of messages holds without its oldest, or with a new one.   *)
LEMMA QueueRest ==
  ASSUME NEW Ages, NEW queue \in Seq(Ages), queue # <<>>
  PROVE  Tail(queue) \in Seq(Ages) /\ queue[1] \in Ages
<1>1. Len(queue) \in Nat \ {0}
  OBVIOUS
<1>2. queue[1] \in Ages
  BY <1>1
<1>3. Tail(queue) \in Seq(Ages)
  BY <1>1
<1> QED
  BY <1>2, <1>3

LEMMA QueueHead ==
  ASSUME NEW queue \in Seq(0 .. MaxLatency)
  PROVE  /\ Append(queue, 0) \in Seq(0 .. MaxLatency) /\ Append(queue, 0) # <<>>
         /\ Append(queue, 0)[1] = IF queue = <<>> THEN 0 ELSE queue[1]
<1>1. 0 \in 0 .. MaxLatency
  BY TransportAssumption
<1>2. CASE queue = <<>>
  <2>1. Append(<<>>, 0) = <<0>> /\ <<0>> \in Seq(0 .. MaxLatency)
    BY <1>1
  <2>2. <<0>>[1] = 0 /\ Len(<<0>>) = 1
    OBVIOUS
  <2>3. \A empty : empty = <<>> => Len(empty) = 0
    OBVIOUS
  <2> QED
    BY <1>2, <2>1, <2>2, <2>3
<1>3. CASE queue # <<>>
  <2> DEFINE longer == Append(queue, 0)
  <2>1. Len(queue) \in Nat \ {0}
    BY <1>3
  <2>2. longer \in Seq(0 .. MaxLatency) /\ Len(longer) = Len(queue) + 1
    BY <1>1
  <2>3. longer[1] = queue[1]
    BY <2>1
  <2>4. \A empty : empty = <<>> => Len(empty) = 0
    OBVIOUS
  <2> HIDE DEF longer
  <2>5. longer # <<>>
    BY <2>1, <2>2, <2>4
  <2>6. /\ longer \in Seq(0 .. MaxLatency) /\ longer # <<>>
        /\ longer[1] = IF queue = <<>> THEN 0 ELSE queue[1]
    BY <1>3, <2>2, <2>3, <2>5
  <2> QED
    BY <2>6 DEF longer
<1> QED
  BY <1>2, <1>3

(* The clocks of a connection, bounded above.                              *)
LEMMA TimelyBounds ==
  ASSUME TimelyInv, NEW i \in Ids, ~connections[i].stalled
  PROVE  LET c == connections[i] IN
           /\ Clocks(c) /\ Steps(c) /\ ~c.deadline
           /\ \A e \in Ends : c.age[e] \in Nat /\ c.control[e] \in Seq(0 .. MaxLatency)
           /\ c.unread \in Nat /\ c.busy \in Nat /\ c.busy <= MaxBusy + 1
           /\ heartbeat \in Nat /\ heartbeat + 1 <= HeartbeatInterval
           /\ MaxLatency \in Nat /\ MaxBusy \in Nat
           /\ HeartbeatInterval \in Nat /\ Slack \in Nat
           /\ Slack = HeartbeatInterval + MaxLatency + MaxBusy + 1
           /\ BothUp(c) => ClientHeard(c, heartbeat) /\ ServerHeard(c, heartbeat)
<1>1. Timely(connections[i], heartbeat)
  BY DEF TimelyInv
<1>2. Clocks(connections[i]) /\ Steps(connections[i]) /\ ~connections[i].deadline
      /\ (BothUp(connections[i]) => /\ ClientHeard(connections[i], heartbeat)
                                    /\ ServerHeard(connections[i], heartbeat))
  BY <1>1 DEF Timely
<1>3. /\ heartbeat \in Nat /\ heartbeat + 1 <= HeartbeatInterval
      /\ MaxLatency \in Nat /\ MaxBusy \in Nat /\ HeartbeatInterval \in Nat
      /\ Slack \in Nat /\ Slack = HeartbeatInterval + MaxLatency + MaxBusy + 1
  BY TransportAssumption DEF TimelyInv, Slack
<1>4. /\ \A e \in Ends : connections[i].age[e] \in Nat
                         /\ connections[i].control[e] \in Seq(0 .. MaxLatency)
      /\ connections[i].unread \in Nat /\ connections[i].busy \in Nat
      /\ connections[i].busy <= MaxBusy + 1
  BY <1>2, <1>3 DEF Clocks
<1> QED
  BY <1>2, <1>3, <1>4

(* A message is read: the end that reads it has heard something.           *)
LEMMA ReceiveTimely ==
  ASSUME TransportInv, TimelyInv, NEW i \in Ids, NEW e \in Ends, Receive(i, e)
  PROVE  TimelyInv'
<1> DEFINE c == connections[i]
           d == [c EXCEPT !.control[e] = Tail(@), !.age[e] = 0,
                          !.unread = IF e = "client" THEN @ + 1 ELSE @]
<1>1. /\ Becomes(i, d) /\ heartbeat' = heartbeat
      /\ c.end[e] = "established" /\ c.control[e] # <<>>
  BY DEF Receive, Up
<1>2. c = [field \in Fields |-> c[field]]
  BY DEF TransportInv, Agreed, Shaped
<1>3. /\ d = [field \in Fields |-> d[field]]
      /\ d.info = c.info /\ d.end = c.end /\ d.response = c.response
      /\ d.stalled = c.stalled /\ d.deadline = c.deadline /\ d.busy = c.busy
      /\ d.control = [c.control EXCEPT ![e] = Tail(@)]
      /\ d.age = [c.age EXCEPT ![e] = 0]
      /\ d.unread = IF e = "client" THEN c.unread + 1 ELSE c.unread
  BY <1>2 DEF Fields
<1> HIDE DEF d
<1>4. CASE c.stalled
  BY <1>1, <1>3, <1>4, UseTimely DEF Timely
<1>5. CASE ~c.stalled
  <2>1. /\ Clocks(c) /\ Steps(c) /\ ~c.deadline
        /\ \A x \in Ends : c.age[x] \in Nat /\ c.control[x] \in Seq(0 .. MaxLatency)
        /\ c.unread \in Nat /\ c.busy \in Nat /\ c.busy <= MaxBusy + 1
        /\ heartbeat \in Nat /\ heartbeat + 1 <= HeartbeatInterval
        /\ MaxLatency \in Nat /\ MaxBusy \in Nat
        /\ HeartbeatInterval \in Nat /\ Slack \in Nat
        /\ Slack = HeartbeatInterval + MaxLatency + MaxBusy + 1
        /\ BothUp(c) => ClientHeard(c, heartbeat) /\ ServerHeard(c, heartbeat)
    BY <1>5, TimelyBounds
  <2> HIDE DEF c
  <2>9. /\ heartbeat \in Nat /\ MaxLatency \in Nat /\ MaxBusy \in Nat
        /\ HeartbeatInterval \in Nat /\ Slack \in Nat
        /\ Slack = HeartbeatInterval + MaxLatency + MaxBusy + 1
    BY <2>1
  <2>10. \A n \in 0 .. MaxLatency : n \in Nat /\ n <= MaxLatency
    BY <2>9
  <2>2. Tail(c.control[e]) \in Seq(0 .. MaxLatency)
    BY <1>1, <2>1, QueueRest
  <2>3. /\ d.control = [x \in Ends |-> IF x = e THEN Tail(c.control[x]) ELSE c.control[x]]
        /\ d.age = [x \in Ends |-> IF x = e THEN 0 ELSE c.age[x]]
    BY <1>3, <2>1 DEF Clocks
  <2>4. \A x \in Ends : d.control[x] \in Seq(0 .. MaxLatency) /\ d.age[x] \in Nat
    BY <2>1, <2>2, <2>3, SMTT(60)
  <2>5. Clocks(d)
    <3>1. d.control \in [Ends -> Seq(0 .. MaxLatency)] /\ d.age \in [Ends -> Nat]
      BY <2>3, <2>4
    <3>2. d.unread \in Nat
      BY <1>3, <2>1, SMTT(60)
    <3>3. d.busy \in 0 .. (MaxBusy + 1)
      BY <1>3, <2>1 DEF Clocks
    <3> QED
      BY <3>1, <3>2, <3>3 DEF Clocks
  <2>6. Steps(d)
    BY <1>1, <1>3, <2>1, <2>3 DEF Steps, Ends
  <2>7. ASSUME BothUp(d)
        PROVE  ClientHeard(d, heartbeat) /\ ServerHeard(d, heartbeat)
    <3>1. ClientHeard(c, heartbeat) /\ ServerHeard(c, heartbeat)
      BY <1>3, <2>1, <2>7 DEF BothUp
    <3>2. \A x \in Ends : d.control[x] # <<>> => d.control[x][1] \in 0 .. MaxLatency
      BY <2>4, QueueRest
    <3>3. \A x \in Ends : c.control[x] # <<>> => c.control[x][1] \in 0 .. MaxLatency
      BY <2>1, QueueRest
    <3>4. CASE e = "client"
      <4>1. /\ d.age["client"] = 0 /\ d.age["server"] = c.age["server"]
            /\ d.control["server"] = c.control["server"]
            /\ d.unread = c.unread + 1
        BY <1>3, <2>3, <3>4 DEF Ends
      <4>2. ClientHeard(d, heartbeat)
        <5>1. d.control["client"] # <<>> => d.control["client"][1] \in Nat
          BY <2>10, <3>2 DEF Ends
        <5> QED
          BY <2>9, <4>1, <5>1 DEF ClientHeard
      <4>3. CASE c.control["server"] # <<>>
        BY <3>1, <4>1, <4>2, <4>3 DEF ServerHeard
      <4>4. CASE c.control["server"] = <<>>
        <5>1. c.control["client"] # <<>> /\ c.control["client"][1] \in 0 .. MaxLatency
          BY <1>1, <3>3, <3>4 DEF Ends
        <5>2. d.age["server"] \in Nat /\ d.unread # 0 /\ c.busy \in Nat
          BY <2>1, <2>4, <4>1 DEF Ends
        <5>3. CASE c.unread # 0
          <6>1. /\ c.age["server"] <= Slack
                /\ c.busy # 0 => c.age["server"] <= HeartbeatInterval + MaxLatency + c.busy
            BY <3>1, <4>4, <5>3 DEF ServerHeard
          <6> QED
            BY <1>3, <4>1, <4>2, <4>4, <5>2, <6>1 DEF ServerHeard
        <5>4. CASE c.unread = 0
          <6>1. c.age["server"] <= HeartbeatInterval + c.control["client"][1]
            BY <3>1, <4>4, <5>1, <5>4 DEF ServerHeard
          <6>3. c.control["client"][1] \in Nat /\ c.control["client"][1] <= MaxLatency
            BY <2>10, <5>1
          <6>2. /\ c.age["server"] <= Slack
                /\ c.age["server"] <= HeartbeatInterval + MaxLatency + c.busy
            BY <2>9, <4>1, <5>2, <6>1, <6>3
          <6> QED
            BY <1>3, <4>1, <4>2, <4>4, <5>2, <6>2 DEF ServerHeard
        <5> QED
          BY <5>3, <5>4
      <4> QED
        BY <4>2, <4>3, <4>4
    <3>5. CASE e = "server"
      <4>1. /\ d.age["server"] = 0 /\ d.age["client"] = c.age["client"]
            /\ d.control["client"] = c.control["client"] /\ d.unread = c.unread
        BY <1>3, <2>3, <3>5 DEF Ends
      <4>2. ClientHeard(d, heartbeat)
        BY <3>1, <4>1 DEF ClientHeard
      <4>3. ServerHeard(d, heartbeat)
        <5>1. /\ d.control["server"] # <<>> => d.control["server"][1] \in Nat
              /\ d.control["client"] # <<>> => d.control["client"][1] \in Nat
              /\ d.busy \in Nat
          <6>1. d.busy \in Nat
            BY <1>3, <2>1
          <6> QED
            BY <2>10, <3>2, <6>1 DEF Ends
        <5>2. /\ Slack \in Nat /\ HeartbeatInterval \in Nat /\ MaxLatency \in Nat
              /\ heartbeat \in Nat
          BY <2>1
        <5> QED
          BY <4>1, <5>1, <5>2 DEF ServerHeard
      <4> QED
        BY <4>2, <4>3
    <3> QED
      BY <3>4, <3>5 DEF Ends
  <2>8. Timely(d, heartbeat)
    BY <1>3, <2>1, <2>5, <2>6, <2>7 DEF Timely
  <2> QED
    BY <1>1, <1>3, <2>8, UseTimely DEF c
<1> QED
  BY <1>4, <1>5

(* The agent answers a heartbeat, begins or ends a batch: only the bound   *)
(* of the server's clock changes.                                          *)
LEMMA AnswerTimely ==
  ASSUME TransportInv, TimelyInv, NEW i \in Ids,
         Acknowledge(i) \/ BeginBatch(i) \/ EndBatch(i)
  PROVE  TimelyInv'
<1> DEFINE c == connections[i]
<1>1. c = [field \in Fields |-> c[field]]
  BY DEF TransportInv, Agreed, Shaped
<1>2. ~c.stalled =>
        /\ Clocks(c) /\ Steps(c) /\ ~c.deadline
        /\ \A x \in Ends : c.age[x] \in Nat /\ c.control[x] \in Seq(0 .. MaxLatency)
        /\ c.unread \in Nat /\ c.busy \in Nat /\ c.busy <= MaxBusy + 1
        /\ heartbeat \in Nat /\ heartbeat + 1 <= HeartbeatInterval
        /\ MaxLatency \in Nat /\ MaxBusy \in Nat
        /\ HeartbeatInterval \in Nat /\ Slack \in Nat
        /\ Slack = HeartbeatInterval + MaxLatency + MaxBusy + 1
        /\ BothUp(c) => ClientHeard(c, heartbeat) /\ ServerHeard(c, heartbeat)
  BY TimelyBounds
<1>3. ASSUME Acknowledge(i)
      PROVE  TimelyInv'
  <2> DEFINE d == [c EXCEPT !.unread = @ - 1,
                            !.control["server"] = Append(@, 0)]
  <2>1. /\ Becomes(i, d) /\ heartbeat' = heartbeat /\ c.unread > 0 /\ c.busy = 0
        /\ c.end["client"] = "established"
    BY <1>3 DEF Acknowledge, Up
  <2>2. /\ d = [field \in Fields |-> d[field]]
        /\ d.info = c.info /\ d.end = c.end /\ d.response = c.response
        /\ d.stalled = c.stalled /\ d.deadline = c.deadline /\ d.busy = c.busy
        /\ d.control = [c.control EXCEPT !["server"] = Append(@, 0)]
        /\ d.age = c.age /\ d.unread = c.unread - 1
    BY <1>1 DEF Fields
  <2> HIDE DEF d
  <2>3. CASE c.stalled
    BY <2>1, <2>2, <2>3, UseTimely DEF Timely
  <2>4. CASE ~c.stalled
    <3> DEFINE queue == c.control["server"]
    <3>1. /\ Append(queue, 0) \in Seq(0 .. MaxLatency) /\ Append(queue, 0) # <<>>
          /\ Append(queue, 0)[1] = IF queue = <<>> THEN 0 ELSE queue[1]
      BY <1>2, <2>4, QueueHead DEF Ends
    <3>2. /\ d.control = [x \in Ends |-> IF x = "server" THEN Append(queue, 0)
                                         ELSE c.control[x]]
          /\ d.control["server"] = Append(queue, 0)
          /\ d.control["client"] = c.control["client"]
      BY <1>2, <2>2, <2>4 DEF Clocks, Ends
    <3>3. d.control \in [Ends -> Seq(0 .. MaxLatency)]
      BY <1>2, <2>4, <3>1, <3>2
    <3>4. d.unread \in Nat
      BY <1>2, <2>1, <2>2, <2>4, SMTT(60)
    <3>5. Clocks(d)
      BY <1>2, <2>2, <2>4, <3>3, <3>4 DEF Clocks
    <3>6. Steps(d)
      BY <1>2, <2>1, <2>2, <2>4 DEF Steps
    <3>7. ASSUME BothUp(d)
          PROVE  ClientHeard(d, heartbeat) /\ ServerHeard(d, heartbeat)
      <4>1. ClientHeard(c, heartbeat) /\ ServerHeard(c, heartbeat)
        BY <1>2, <2>2, <2>4, <3>7 DEF BothUp
      <4>2. ClientHeard(d, heartbeat)
        BY <2>2, <3>2, <4>1 DEF ClientHeard
      <4>3. c.age["server"] <= Slack + Append(queue, 0)[1]
        <5>1. CASE queue = <<>>
          <6>1. c.age["server"] <= Slack
            BY <1>2, <2>1, <2>4, <4>1, <5>1 DEF ServerHeard
          <6> QED
            BY <1>2, <2>4, <3>1, <5>1, <6>1
        <5>2. CASE queue # <<>>
          BY <3>1, <4>1, <5>2 DEF ServerHeard
        <5> QED
          BY <5>1, <5>2
      <4>4. d.age["server"] = c.age["server"] /\ d.control["server"] # <<>>
        BY <2>2, <3>1, <3>2
      <4>5. d.age["server"] <= Slack + d.control["server"][1]
        BY <3>2, <4>3, <4>4
      <4> QED
        BY <4>2, <4>4, <4>5 DEF ServerHeard
    <3>8. Timely(d, heartbeat)
      BY <1>2, <2>2, <2>4, <3>5, <3>6, <3>7 DEF Timely
    <3> QED
      BY <2>1, <2>2, <3>8, UseTimely
  <2> QED
    BY <2>3, <2>4
<1>4. ASSUME BeginBatch(i)
      PROVE  TimelyInv'
  <2> DEFINE d == [c EXCEPT !.busy = 1, !.age["client"] = 0]
  <2>1. /\ Becomes(i, d) /\ heartbeat' = heartbeat /\ c.unread = 0 /\ ~c.stalled
        /\ c.end["client"] = "established"
    BY <1>4 DEF BeginBatch, Up
  <2>2. /\ d = [field \in Fields |-> d[field]]
        /\ d.info = c.info /\ d.end = c.end /\ d.response = c.response
        /\ d.stalled = c.stalled /\ d.deadline = c.deadline /\ d.busy = 1
        /\ d.control = c.control
        /\ d.age = [c.age EXCEPT !["client"] = 0] /\ d.unread = c.unread
    BY <1>1 DEF Fields
  <2> HIDE DEF d
  <2>3. d.age["client"] = 0 /\ d.age["server"] = c.age["server"] /\ d.age \in [Ends -> Nat]
    BY <1>2, <2>1, <2>2 DEF Clocks, Ends
  <2>4. Clocks(d)
    <3>1. 1 \in 0 .. (MaxBusy + 1)
      BY <1>2, <2>1
    <3> QED
      BY <1>2, <2>1, <2>2, <2>3, <3>1 DEF Clocks
  <2>5. Steps(d)
    BY <1>2, <2>1, <2>2 DEF Steps
  <2>6. ASSUME BothUp(d)
        PROVE  ClientHeard(d, heartbeat) /\ ServerHeard(d, heartbeat)
    <3>1. ServerHeard(c, heartbeat)
      BY <1>2, <2>1, <2>2, <2>6 DEF BothUp
    <3>2. ServerHeard(d, heartbeat)
      BY <2>1, <2>2, <2>3, <3>1 DEF ServerHeard
    <3>3. d.control["client"] # <<>> => d.control["client"][1] \in 0 .. MaxLatency
      BY <1>2, <2>1, <2>2, QueueRest DEF Ends
    <3>4. heartbeat \in Nat /\ HeartbeatInterval \in Nat /\ MaxLatency \in Nat
      BY <1>2, <2>1
    <3>5. ClientHeard(d, heartbeat)
      BY <2>3, <3>3, <3>4 DEF ClientHeard
    <3> QED
      BY <3>2, <3>5
  <2>7. Timely(d, heartbeat)
    BY <1>2, <2>1, <2>2, <2>4, <2>5, <2>6 DEF Timely
  <2> QED
    BY <2>1, <2>2, <2>7, UseTimely
<1>5. ASSUME EndBatch(i)
      PROVE  TimelyInv'
  <2> DEFINE d == [c EXCEPT !.busy = 0]
  <2>1. Becomes(i, d) /\ heartbeat' = heartbeat
    BY <1>5 DEF EndBatch
  <2>2. /\ d = [field \in Fields |-> d[field]]
        /\ d.info = c.info /\ d.end = c.end /\ d.response = c.response
        /\ d.stalled = c.stalled /\ d.deadline = c.deadline /\ d.busy = 0
        /\ d.control = c.control /\ d.age = c.age /\ d.unread = c.unread
    BY <1>1 DEF Fields
  <2> HIDE DEF d
  <2>3. CASE c.stalled
    BY <2>1, <2>2, <2>3, UseTimely DEF Timely
  <2>4. CASE ~c.stalled
    <3>1. Clocks(d)
      <4>1. 0 \in 0 .. (MaxBusy + 1)
        BY <1>2, <2>4
      <4> QED
        BY <1>2, <2>2, <2>4, <4>1 DEF Clocks
    <3>2. Steps(d)
      BY <1>2, <2>2, <2>4 DEF Steps
    <3>3. ASSUME BothUp(d)
          PROVE  ClientHeard(d, heartbeat) /\ ServerHeard(d, heartbeat)
      <4>1. ClientHeard(c, heartbeat) /\ ServerHeard(c, heartbeat)
        BY <1>2, <2>2, <2>4, <3>3 DEF BothUp
      <4> QED
        BY <2>2, <4>1 DEF ClientHeard, ServerHeard
    <3>4. Timely(d, heartbeat)
      BY <1>2, <2>2, <2>4, <3>1, <3>2, <3>3 DEF Timely
    <3> QED
      BY <2>1, <2>2, <3>4, UseTimely
  <2> QED
    BY <2>3, <2>4
<1> QED
  BY <1>3, <1>4, <1>5

(* Closing, losing and clipboard texts leave the clocks alone.             *)
LEMMA OtherUseTimely ==
  ASSUME TransportInv, TimelyInv, NEW i \in Ids,
         \/ Stall(i)
         \/ \E e \in Ends : \/ Close(i, e) \/ Closed(i, e)
                            \/ SendText(i, e) \/ ReceiveText(i, e) \/ TextFails(i, e)
  PROVE  TimelyInv'
<1> DEFINE c == connections[i]
<1>1. c = [field \in Fields |-> c[field]] /\ Shaped(c) /\ Timely(c, heartbeat)
  BY DEF TransportInv, Agreed, Shaped, TimelyInv
<1>2. ASSUME Stall(i)
      PROVE  TimelyInv'
  <2> DEFINE d == [c EXCEPT !.stalled = TRUE, !.unread = 0, !.busy = 0,
                     !.control = NoConnection.control,
                     !.texts = NoConnection.texts]
  <2>1. Becomes(i, d) /\ heartbeat' = heartbeat
    BY <1>2 DEF Stall
  <2>2. /\ d = [field \in Fields |-> d[field]]
        /\ d.info = c.info /\ d.end = c.end /\ d.stalled
    BY <1>1 DEF Fields
  <2> HIDE DEF d
  <2> QED
    BY <2>1, <2>2, UseTimely DEF Timely
<1>3. ASSUME NEW e \in Ends, Close(i, e) \/ Closed(i, e)
      PROVE  TimelyInv'
  <2>1. Becomes(i, Give(c, e)) /\ heartbeat' = heartbeat
    BY <1>3 DEF Close, Closed
  <2>2. Shaped(Give(c, e))
    BY GiveAgrees DEF TransportInv, Agreed
  <2> QED
    BY <1>1, <2>1, <2>2, GiveTimely, BecomesTimely
<1>4. ASSUME NEW e \in Ends,
             SendText(i, e) \/ ReceiveText(i, e) \/ TextFails(i, e)
      PROVE  TimelyInv'
  <2>1. \E worker, texts :
          Becomes(i, [c EXCEPT !.worker = worker, !.texts = texts])
    <3>1. CASE SendText(i, e)
      <4>1. PICK dropped :
              Becomes(i, [c EXCEPT !.worker[e] = 0,
                            !.texts[Other(e)] = @ + 1, !.texts[e] = @ - dropped])
        BY <3>1 DEF SendText
      <4> QED
        BY <4>1
    <3>2. CASE ReceiveText(i, e)
      <4>1. Becomes(i, [c EXCEPT !.worker[e] = 0, !.texts[e] = @ - 1])
        BY <3>2 DEF ReceiveText
      <4> QED
        BY <4>1
    <3>3. CASE TextFails(i, e)
      <4>1. Becomes(i, [c EXCEPT !.worker[e] = Stopped, !.texts = @])
        BY <1>1, <3>3 DEF TextFails, Fields
      <4> QED
        BY <4>1
    <3> QED
      BY <1>4, <3>1, <3>2, <3>3
  <2>2. PICK worker, texts :
          Becomes(i, [c EXCEPT !.worker = worker, !.texts = texts])
    BY <2>1
  <2> DEFINE d == [c EXCEPT !.worker = worker, !.texts = texts]
  <2>3. Becomes(i, d) /\ heartbeat' = heartbeat
    BY <1>4, <2>2 DEF SendText, ReceiveText, TextFails
  <2>4. /\ d = [field \in Fields |-> d[field]]
        /\ d.info = c.info /\ d.end = c.end /\ d.response = c.response
        /\ d.stalled = c.stalled /\ d.deadline = c.deadline /\ d.busy = c.busy
        /\ d.control = c.control /\ d.age = c.age /\ d.unread = c.unread
    BY <1>1 DEF Fields
  <2> HIDE DEF d
  <2>5. Timely(d, heartbeat)
    BY <1>1, <2>4, OthersTimely
  <2> QED
    BY <2>3, <2>4, <2>5, UseTimely
<1> QED
  BY <1>2, <1>3, <1>4

(* A tick: every message under way is a tick older.                        *)
LEMMA OlderQueue ==
  ASSUME NEW queue \in Seq(0 .. MaxLatency)
  PROVE  /\ Older(queue) \in Seq(0 .. MaxLatency)
         /\ (Older(queue) = <<>>) <=> (queue = <<>>)
         /\ queue # <<>> /\ queue[1] < MaxLatency => Older(queue)[1] = queue[1] + 1
<1> DEFINE older == Older(queue)
<1>1. /\ Len(queue) \in Nat /\ DOMAIN queue = 1 .. Len(queue)
      /\ \A k \in 1 .. Len(queue) : queue[k] \in 0 .. MaxLatency
      /\ MaxLatency \in Nat
  BY TransportAssumption
<1>2. older = [k \in 1 .. Len(queue) |-> Min(queue[k] + 1, MaxLatency)]
  BY <1>1 DEF Older
<1>3. \A k \in 1 .. Len(queue) : Min(queue[k] + 1, MaxLatency) \in 0 .. MaxLatency
  BY <1>1 DEF Min
<1>4. older \in [1 .. Len(queue) -> 0 .. MaxLatency]
  BY <1>2, <1>3
<1>5. older \in Seq(0 .. MaxLatency) /\ Len(older) = Len(queue)
  BY <1>1, <1>4
<1>6. queue # <<>> /\ queue[1] < MaxLatency => older[1] = queue[1] + 1
  <2>1. queue # <<>> => 1 \in 1 .. Len(queue)
    BY <1>1
  <2> QED
    BY <1>1, <1>2, <2>1 DEF Min
<1> HIDE DEF older
<1>7. (older = <<>>) <=> (queue = <<>>)
  BY <1>1, <1>5
<1> QED
  BY <1>5, <1>6, <1>7 DEF older

(* What a tick makes of a connection that keeps time.                      *)
LEMMA AgedClocks ==
  ASSUME NEW c, Shaped(c), Clocks(c), ~c.stalled, Keeps(c)
  PROVE  LET d == Aged(c) IN
           /\ Shaped(d) /\ Clocks(d)
           /\ d.end = c.end /\ d.response = c.response
           /\ d.stalled = c.stalled /\ d.deadline = c.deadline
           /\ d.unread = c.unread /\ (c.unread # 0 => c.busy # 0)
           /\ \A e \in Ends :
                /\ d.age[e] = IF c.end[e] = "established" THEN c.age[e] + 1 ELSE 0
                /\ (d.control[e] = <<>>) <=> (c.control[e] = <<>>)
                /\ c.control[e] # <<>> =>
                     /\ d.control[e][1] = c.control[e][1] + 1
                     /\ c.control[e][1] + 1 \in 0 .. MaxLatency
           /\ d.busy = IF c.busy = 0 THEN 0 ELSE c.busy + 1
<1> DEFINE d == Aged(c)
<1>1. /\ d = [field \in Fields |-> d[field]]
      /\ d.info = c.info /\ d.end = c.end /\ d.response = c.response
      /\ d.stalled = c.stalled /\ d.deadline = c.deadline
      /\ d.unread = c.unread
      /\ d.age = [e \in Ends |-> IF c.end[e] = "established" THEN c.age[e] + 1 ELSE 0]
      /\ d.control = [e \in Ends |-> Older(c.control[e])]
      /\ d.busy = IF c.busy = 0 THEN 0 ELSE Min(c.busy + 1, MaxBusy + 1)
  BY DEF Aged, Shaped, Fields
<1> HIDE DEF d
<1>2. Shaped(d)
  BY <1>1 DEF Shaped
<1>3. /\ \A e \in Ends : c.age[e] \in Nat /\ c.control[e] \in Seq(0 .. MaxLatency)
      /\ c.unread \in Nat /\ c.busy \in Nat /\ MaxLatency \in Nat /\ MaxBusy \in Nat
  BY TransportAssumption DEF Clocks
<1>4. /\ c.busy <= MaxBusy /\ (c.unread = 0 \/ c.busy > 0)
      /\ \A e \in Ends : \A k \in DOMAIN c.control[e] : c.control[e][k] < MaxLatency
  BY DEF Keeps
<1>5. d.busy = IF c.busy = 0 THEN 0 ELSE c.busy + 1
  BY <1>1, <1>3, <1>4 DEF Min
<1>6. d.busy \in 0 .. (MaxBusy + 1)
  BY <1>3, <1>4, <1>5
<1>7. \A e \in Ends : d.age[e] \in Nat /\ d.control[e] \in Seq(0 .. MaxLatency)
  <2>1. \A e \in Ends : d.control[e] \in Seq(0 .. MaxLatency)
    BY <1>1, <1>3, OlderQueue
  <2>2. \A e \in Ends : d.age[e] \in Nat
    BY <1>1, <1>3, SMTT(60)
  <2> QED
    BY <2>1, <2>2
<1>8. Clocks(d)
  <2>1. d.age \in [Ends -> Nat] /\ d.control \in [Ends -> Seq(0 .. MaxLatency)]
    BY <1>1, <1>7
  <2> QED
    BY <1>1, <1>3, <1>6, <2>1 DEF Clocks
<1>9. ASSUME NEW e \in Ends
      PROVE  /\ d.age[e] = IF c.end[e] = "established" THEN c.age[e] + 1 ELSE 0
             /\ (d.control[e] = <<>>) <=> (c.control[e] = <<>>)
             /\ c.control[e] # <<>> =>
                  /\ d.control[e][1] = c.control[e][1] + 1
                  /\ c.control[e][1] + 1 \in 0 .. MaxLatency
  <2>1. d.control[e] = Older(c.control[e]) /\ c.control[e] \in Seq(0 .. MaxLatency)
    BY <1>1, <1>3
  <2>2. c.control[e] # <<>> => 1 \in DOMAIN c.control[e]
    BY <2>1
  <2>3. c.control[e] # <<>> => c.control[e][1] < MaxLatency /\ c.control[e][1] \in 0 .. MaxLatency
    BY <1>4, <2>1, <2>2, QueueRest
  <2>4. c.control[e] # <<>> => c.control[e][1] + 1 \in 0 .. MaxLatency
    BY <1>3, <2>3
  <2> QED
    BY <1>1, <2>1, <2>3, <2>4, OlderQueue
<1>10. c.unread # 0 => c.busy # 0
  BY <1>3, <1>4
<1> QED
  BY <1>1, <1>2, <1>5, <1>8, <1>9, <1>10 DEF d

(* The timeout leaves room for a heartbeat interval, a heartbeat, a batch  *)
(* and an acknowledgement.                                                 *)
EnoughTime == Slack + MaxLatency <= OperationTimeout

LEMMA TickTimely ==
  ASSUME EnoughTime, TransportInv, TimelyInv, NEW i \in Ids, Keeps(connections[i]),
         NEW since, since = IF HeartbeatsAreDue THEN 0 ELSE heartbeat + 1
  PROVE  Timely(Settle(Beat(Expire(Aged(connections[i])))), since)
<1> DEFINE c == connections[i]
           aged == Aged(c)
           beat == Beat(Expire(aged))
<1>1. Agreed(i, c) /\ Timely(c, heartbeat)
  BY DEF TransportInv, TimelyInv
<1>2. Agreed(i, aged) /\ Agreed(i, Expire(aged)) /\ Agreed(i, beat)
  BY <1>1, AgedAgrees, ExpireAgrees, BeatAgrees
<1>3. SUFFICES Timely(beat, since)
  BY <1>2, SettleTimely DEF Agreed
<1>4. CASE c.stalled
  <2>1. aged.stalled = c.stalled
    BY <1>1 DEF Aged, Agreed, Shaped, Fields
  <2> HIDE DEF aged
  <2>2. Expire(aged).stalled = c.stalled
    BY <1>2, <2>1 DEF Expire, Agreed, Shaped, Fields
  <2>3. beat.stalled
    BY <1>4, <2>2 DEF Beat
  <2> QED
    BY <2>3 DEF Timely
<1>5. CASE ~c.stalled
  <2>1. /\ Clocks(c) /\ Steps(c) /\ ~c.deadline
        /\ \A x \in Ends : c.age[x] \in Nat /\ c.control[x] \in Seq(0 .. MaxLatency)
        /\ c.unread \in Nat /\ c.busy \in Nat /\ c.busy <= MaxBusy + 1
        /\ heartbeat \in Nat /\ heartbeat + 1 <= HeartbeatInterval
        /\ MaxLatency \in Nat /\ MaxBusy \in Nat
        /\ HeartbeatInterval \in Nat /\ Slack \in Nat
        /\ Slack = HeartbeatInterval + MaxLatency + MaxBusy + 1
        /\ BothUp(c) => ClientHeard(c, heartbeat) /\ ServerHeard(c, heartbeat)
    BY <1>5, TimelyBounds
  <2>2. Shaped(c) /\ Keeps(c)
    BY <1>1 DEF Agreed
  <2> HIDE DEF c
  <2>3. /\ Shaped(aged) /\ Clocks(aged)
        /\ aged.end = c.end /\ aged.response = c.response
        /\ aged.stalled = c.stalled /\ aged.deadline = c.deadline
        /\ aged.unread = c.unread /\ (c.unread # 0 => c.busy # 0)
        /\ \A e \in Ends :
             /\ aged.age[e] = IF c.end[e] = "established" THEN c.age[e] + 1 ELSE 0
             /\ (aged.control[e] = <<>>) <=> (c.control[e] = <<>>)
             /\ c.control[e] # <<>> =>
                  /\ aged.control[e][1] = c.control[e][1] + 1
                  /\ c.control[e][1] + 1 \in 0 .. MaxLatency
        /\ aged.busy = IF c.busy = 0 THEN 0 ELSE c.busy + 1
    BY <1>5, <2>1, <2>2, AgedClocks
  <2> HIDE DEF aged
  <2>4. OperationTimeout \in Nat
    BY TransportAssumption
  <2>7. /\ heartbeat \in Nat /\ heartbeat + 1 <= HeartbeatInterval
        /\ MaxLatency \in Nat /\ MaxBusy \in Nat
        /\ HeartbeatInterval \in Nat /\ Slack \in Nat
        /\ Slack = HeartbeatInterval + MaxLatency + MaxBusy + 1
    BY <2>1
  <2>8. \A n \in 0 .. MaxLatency : n \in Nat /\ n <= MaxLatency
    BY <2>7
  <2>5. CASE ~BothUp(c)
    <3>1. \A e \in Ends : c.end[e] # "established"
      BY <1>5, <2>1, <2>2, <2>5 DEF Keeps, Steps, BothUp, Ends, Other, Live
    <3>2. \A e \in Ends : aged.age[e] = 0
      BY <2>3, <3>1
    <3>3. \A e \in Ends : ~(aged.age[e] > OperationTimeout)
      BY <2>4, <3>2
    <3>4. Expire(aged) = aged
      BY <3>3 DEF Expire
    <3>5. beat = aged
      BY <2>3, <3>1, <3>4 DEF Beat, Ends
    <3>6. Steps(aged)
      BY <1>5, <2>1, <2>2, <2>3 DEF Steps, Keeps, Ends
    <3> QED
      BY <2>1, <2>3, <2>5, <3>5, <3>6 DEF Timely, BothUp
  <2>6. CASE BothUp(c)
    <3>1. /\ c.end["client"] = "established" /\ c.end["server"] = "established"
          /\ ClientHeard(c, heartbeat) /\ ServerHeard(c, heartbeat)
      BY <2>1, <2>6 DEF BothUp, Ends
    <3>2. /\ aged.age["client"] = c.age["client"] + 1
          /\ aged.age["server"] = c.age["server"] + 1
          /\ c.age["client"] \in Nat /\ c.age["server"] \in Nat
      BY <2>1, <2>3, <3>1 DEF Ends
    <3>3. /\ c.control["client"] # <<>> =>
               /\ aged.age["client"] <= HeartbeatInterval + aged.control["client"][1]
               /\ aged.control["client"][1] \in 0 .. MaxLatency
          /\ c.control["client"] = <<>> => aged.age["client"] <= heartbeat + 1
      <4>1. CASE c.control["client"] # <<>>
        <5>1. /\ c.age["client"] <= HeartbeatInterval + c.control["client"][1]
              /\ aged.control["client"][1] = c.control["client"][1] + 1
              /\ c.control["client"][1] + 1 \in 0 .. MaxLatency
              /\ c.control["client"][1] \in 0 .. MaxLatency
          BY <2>1, <2>3, <3>1, <4>1, QueueRest DEF ClientHeard, Ends
        <5>2. c.control["client"][1] \in Nat
          BY <2>8, <5>1
        <5>3. aged.age["client"] <= HeartbeatInterval + (c.control["client"][1] + 1)
          <6>1. c.age["client"] <= HeartbeatInterval + c.control["client"][1]
            BY <5>1
          <6> QED
            BY <2>7, <3>2, <5>2, <6>1
        <5> QED
          BY <4>1, <5>1, <5>3, Zenon
      <4>2. CASE c.control["client"] = <<>>
        <5>1. c.age["client"] <= heartbeat
          BY <3>1, <4>2 DEF ClientHeard
        <5> QED
          BY <2>7, <3>2, <4>2, <5>1
      <4> QED
        BY <4>1, <4>2
    <3>4. /\ c.control["server"] # <<>> =>
               /\ aged.age["server"] <= Slack + aged.control["server"][1]
               /\ aged.control["server"][1] \in 0 .. MaxLatency
          /\ c.control["server"] = <<>> /\ c.unread # 0 =>
               /\ aged.age["server"] <= Slack
               /\ aged.age["server"] <= HeartbeatInterval + MaxLatency + aged.busy
          /\ c.control["server"] = <<>> /\ c.unread = 0 =>
               /\ c.control["client"] # <<>> =>
                    aged.age["server"] <= HeartbeatInterval + aged.control["client"][1]
               /\ c.control["client"] = <<>> => aged.age["server"] <= heartbeat + 1
      <4>1. CASE c.control["server"] # <<>>
        <5>1. /\ c.age["server"] <= Slack + c.control["server"][1]
              /\ aged.control["server"][1] = c.control["server"][1] + 1
              /\ c.control["server"][1] + 1 \in 0 .. MaxLatency
              /\ c.control["server"][1] \in 0 .. MaxLatency
          BY <2>1, <2>3, <3>1, <4>1, QueueRest DEF ServerHeard, Ends
        <5>2. c.control["server"][1] \in Nat
          BY <2>8, <5>1
        <5>3. aged.age["server"] <= Slack + (c.control["server"][1] + 1)
          <6>1. c.age["server"] <= Slack + c.control["server"][1]
            BY <5>1
          <6> QED
            BY <2>7, <3>2, <5>2, <6>1
        <5> QED
          BY <4>1, <5>1, <5>3, Zenon
      <4>2. CASE c.control["server"] = <<>> /\ c.unread # 0
        <5>1. /\ c.busy # 0 /\ aged.busy = c.busy + 1 /\ c.busy <= MaxBusy
              /\ c.age["server"] <= HeartbeatInterval + MaxLatency + c.busy
              /\ c.busy \in Nat
          BY <1>5, <2>1, <2>2, <2>3, <3>1, <4>2 DEF ServerHeard, Keeps
        <5>2. aged.age["server"] <= HeartbeatInterval + MaxLatency + aged.busy
          BY <2>7, <3>2, <5>1
        <5>3. aged.age["server"] <= Slack
          <6>1. /\ c.busy \in Nat /\ c.busy <= MaxBusy
                /\ c.age["server"] <= HeartbeatInterval + MaxLatency + c.busy
            BY <5>1
          <6> QED
            BY <2>7, <3>2, <6>1
        <5> QED
          BY <4>2, <5>2, <5>3, Zenon
      <4>3. CASE c.control["server"] = <<>> /\ c.unread = 0
        <5>1. CASE c.control["client"] # <<>>
          <6>1. /\ c.age["server"] <= HeartbeatInterval + c.control["client"][1]
                /\ aged.control["client"][1] = c.control["client"][1] + 1
                /\ c.control["client"][1] \in 0 .. MaxLatency
            BY <2>1, <2>3, <3>1, <4>3, <5>1, QueueRest DEF ServerHeard, Ends
          <6>2. c.control["client"][1] \in Nat
            BY <2>8, <6>1
          <6>3. aged.age["server"] <= HeartbeatInterval + (c.control["client"][1] + 1)
            <7>1. c.age["server"] <= HeartbeatInterval + c.control["client"][1]
              BY <6>1
            <7> QED
              BY <2>7, <3>2, <6>2, <7>1
          <6> QED
            BY <4>3, <5>1, <6>1, <6>3, Zenon
        <5>2. CASE c.control["client"] = <<>>
          <6>1. c.age["server"] <= heartbeat
            BY <3>1, <4>3, <5>2 DEF ServerHeard
          <6> QED
            BY <2>7, <3>2, <4>3, <5>2, <6>1
        <5> QED
          BY <5>1, <5>2
      <4> QED
        BY <4>1, <4>2, <4>3
    <3>5. /\ aged.age["client"] \in Nat /\ aged.age["client"] <= OperationTimeout
          /\ aged.age["server"] \in Nat /\ aged.age["server"] <= OperationTimeout
      <4>1. aged.age["client"] <= HeartbeatInterval + MaxLatency
        <5>1. CASE c.control["client"] # <<>>
          <6>1. /\ aged.age["client"] <= HeartbeatInterval + aged.control["client"][1]
                /\ aged.control["client"][1] \in Nat
                /\ aged.control["client"][1] <= MaxLatency
            BY <2>8, <3>3, <5>1
          <6> QED
            BY <2>7, <3>2, <6>1
        <5>2. CASE c.control["client"] = <<>>
          <6>1. aged.age["client"] <= heartbeat + 1
            BY <3>3, <5>2
          <6> QED
            BY <2>7, <3>2, <6>1
        <5> QED
          BY <5>1, <5>2
      <4>2. aged.age["server"] <= Slack + MaxLatency
        <5>1. CASE c.control["server"] # <<>>
          <6>1. /\ aged.age["server"] <= Slack + aged.control["server"][1]
                /\ aged.control["server"][1] \in Nat
                /\ aged.control["server"][1] <= MaxLatency
            BY <2>8, <3>4, <5>1
          <6> QED
            BY <2>7, <3>2, <6>1
        <5>2. CASE c.control["server"] = <<>> /\ c.unread # 0
          BY <2>7, <3>2, <3>4, <5>2
        <5>3. CASE c.control["server"] = <<>> /\ c.unread = 0
          <6>1. CASE c.control["client"] # <<>>
            <7>1. /\ aged.age["server"] <= HeartbeatInterval + aged.control["client"][1]
                  /\ aged.control["client"][1] \in Nat
                  /\ aged.control["client"][1] <= MaxLatency
              BY <2>8, <3>3, <3>4, <5>3, <6>1
            <7> QED
              BY <2>7, <3>2, <7>1
          <6>2. CASE c.control["client"] = <<>>
            <7>1. aged.age["server"] <= heartbeat + 1
              BY <3>4, <5>3, <6>2
            <7> QED
              BY <2>7, <3>2, <7>1
          <6> QED
            BY <6>1, <6>2
        <5> QED
          BY <5>1, <5>2, <5>3
      <4> QED
        <5>1. HeartbeatInterval + MaxLatency <= OperationTimeout
          BY <2>4, <2>7 DEF EnoughTime
        <5> QED
          BY <2>4, <2>7, <3>2, <4>1, <4>2, <5>1 DEF EnoughTime
    <3>6. Expire(aged) = aged
      <4>1. \A e \in Ends : ~(aged.age[e] > OperationTimeout)
        BY <2>4, <3>5 DEF Ends
      <4> QED
        BY <4>1 DEF Expire
    <3>7. Steps(aged)
      BY <2>1, <2>3, <3>1 DEF Steps, Ends
    <3>8. CASE HeartbeatsAreDue
      <4> DEFINE queue == aged.control["client"]
                 d == [aged EXCEPT !.control["client"] = Append(@, 0)]
      <4>1. beat = d /\ since = 0
        BY <1>5, <2>3, <3>1, <3>6, <3>8 DEF Beat
      <4>2. /\ d.end = aged.end /\ d.response = aged.response /\ d.age = aged.age
            /\ d.stalled = aged.stalled /\ d.deadline = aged.deadline
            /\ d.unread = aged.unread /\ d.busy = aged.busy
            /\ d.control = [aged.control EXCEPT !["client"] = Append(@, 0)]
        BY <2>3 DEF Shaped, Fields
      <4> HIDE DEF d
      <4>3. /\ Append(queue, 0) \in Seq(0 .. MaxLatency) /\ Append(queue, 0) # <<>>
            /\ Append(queue, 0)[1] = IF queue = <<>> THEN 0 ELSE queue[1]
        BY <2>3, QueueHead DEF Clocks, Ends
      <4>4. /\ d.control \in [Ends -> Seq(0 .. MaxLatency)]
            /\ d.control["client"] = Append(queue, 0)
            /\ d.control["server"] = aged.control["server"]
        <5>1. aged.control \in [Ends -> Seq(0 .. MaxLatency)]
          BY <2>3 DEF Clocks
        <5> QED
          BY <4>2, <4>3, <5>1 DEF Ends
      <4>5. Clocks(d)
        BY <2>3, <4>2, <4>4 DEF Clocks
      <4>6. Steps(d)
        BY <2>3, <3>1, <4>2 DEF Steps
      <4>7. heartbeat + 1 >= HeartbeatInterval
        BY <3>8 DEF HeartbeatsAreDue
      <4>8. /\ d.control["client"] # <<>>
            /\ d.age["client"] <= HeartbeatInterval + d.control["client"][1]
        <5>1. CASE queue = <<>>
          <6>1. aged.age["client"] <= heartbeat + 1 /\ d.control["client"][1] = 0
            BY <2>3, <3>3, <4>3, <4>4, <5>1 DEF Ends
          <6>2. d.age["client"] <= HeartbeatInterval + d.control["client"][1]
            BY <2>7, <3>5, <4>2, <6>1
          <6> QED
            BY <4>3, <4>4, <6>2
        <5>2. CASE queue # <<>>
          BY <2>3, <3>3, <4>2, <4>3, <4>4, <5>2 DEF Ends
        <5> QED
          BY <5>1, <5>2
      <4>9. ServerHeard(d, since)
        <5>1. CASE c.control["server"] # <<>>
          BY <2>3, <3>4, <4>2, <4>4, <5>1 DEF ServerHeard, Ends
        <5>2. CASE c.control["server"] = <<>> /\ c.unread # 0
          BY <2>3, <3>4, <4>2, <4>4, <5>2 DEF ServerHeard, Ends
        <5>3. CASE c.control["server"] = <<>> /\ c.unread = 0
          <6>1. d.age["server"] <= HeartbeatInterval + d.control["client"][1]
            <7>1. CASE queue = <<>>
              <8>1. aged.age["server"] <= heartbeat + 1 /\ d.control["client"][1] = 0
                BY <2>3, <3>4, <4>3, <4>4, <5>3, <7>1 DEF Ends
              <8> QED
                BY <2>7, <3>5, <4>2, <8>1
            <7>2. CASE queue # <<>>
              BY <2>3, <3>4, <4>2, <4>3, <4>4, <5>3, <7>2 DEF Ends
            <7> QED
              BY <7>1, <7>2
          <6> QED
            BY <2>3, <4>2, <4>4, <4>8, <5>3, <6>1 DEF ServerHeard, Ends
        <5> QED
          BY <5>1, <5>2, <5>3
      <4>10. ClientHeard(d, since)
        BY <4>8 DEF ClientHeard
      <4> QED
        BY <1>5, <2>1, <2>3, <4>1, <4>2, <4>5, <4>6, <4>9, <4>10 DEF Timely
    <3>9. CASE ~HeartbeatsAreDue
      <4>1. beat = aged /\ since = heartbeat + 1
        BY <3>6, <3>9 DEF Beat
      <4>2. ClientHeard(aged, since)
        BY <2>3, <3>3, <4>1 DEF ClientHeard, Ends
      <4>3. ServerHeard(aged, since)
        BY <2>3, <3>4, <4>1 DEF ServerHeard, Ends
      <4> QED
        BY <1>5, <2>1, <2>3, <3>7, <4>1, <4>2, <4>3 DEF Timely
    <3> QED
      BY <3>8, <3>9
  <2> QED
    BY <2>5, <2>6
<1> QED
  BY <1>4, <1>5

(* The heartbeats keep a connection whose two ends keep time from running  *)
(* into the deadline of a read (runtime.rs:568-570 and 1568-1580,          *)
(* endpoint.rs:539-550), whatever the delays are, as long as the timeout   *)
(* covers a heartbeat interval, the two ways and one batch.                *)
THEOREM HeartbeatsKeepConnections ==
  ASSUME HeartbeatInterval + 2 * MaxLatency + MaxBusy + 1 <= OperationTimeout
  PROVE  TransportSpec => []TimelyConnectionsLast
<1>1. EnoughTime
  BY TransportAssumption DEF EnoughTime, Slack
<1>2. TransportInit => TimelyInv
  <2> SUFFICES ASSUME TransportInit PROVE TimelyInv
    OBVIOUS
  <2>1. connections = [i \in Ids |-> NoConnection] /\ heartbeat = 0
    BY DEF TransportInit
  <2>2. \A i \in Ids : Timely(connections[i], heartbeat)
    BY <2>1, NothingTimely
  <2>3. heartbeat \in 0 .. (HeartbeatInterval - 1)
    BY <2>1, TransportAssumption
  <2> QED
    BY <2>2, <2>3 DEF TimelyInv
<1>3. TransportInv /\ TimelyInv /\ [TransportNext]_vars => TimelyInv'
  <2>1. ASSUME TransportInv, TimelyInv, UNCHANGED vars
        PROVE  TimelyInv'
    BY <2>1 DEF vars, TimelyInv, Timely, Clocks, Steps, BothUp, ClientHeard,
                ServerHeard
  <2>2. ASSUME TransportInv, TimelyInv, Tick
        PROVE  TimelyInv'
    <3>1. /\ \A i \in Ids : Keeps(connections[i])
          /\ heartbeat' = IF HeartbeatsAreDue THEN 0 ELSE heartbeat + 1
          /\ connections' =
               [i \in Ids |-> Settle(Beat(Expire(Aged(connections[i]))))]
      BY <2>2 DEF Tick
    <3>2. \A i \in Ids : Timely(connections'[i], heartbeat')
      <4> SUFFICES ASSUME NEW i \in Ids
                   PROVE  Timely(connections'[i], heartbeat')
        OBVIOUS
      <4>1. connections'[i] = Settle(Beat(Expire(Aged(connections[i]))))
        BY <3>1
      <4> DEFINE since == IF HeartbeatsAreDue THEN 0 ELSE heartbeat + 1
      <4>2. Keeps(connections[i])
        BY <3>1
      <4>3. Timely(Settle(Beat(Expire(Aged(connections[i])))), since)
        BY <1>1, <2>2, <4>2, TickTimely
      <4> QED
        BY <3>1, <4>1, <4>3
    <3>3. heartbeat' \in 0 .. (HeartbeatInterval - 1)
      BY <2>2, <3>1, TransportAssumption DEF TimelyInv, HeartbeatsAreDue
    <3>4. \A i \in Ids : Timely(connections[i], heartbeat)'
      BY <3>2 DEF Timely, Clocks, Steps, BothUp, ClientHeard, ServerHeard
    <3> QED
      BY <3>3, <3>4 DEF TimelyInv
  <2> QED
    BY <2>1, <2>2, HandshakeTimely, ReceiveTimely, AnswerTimely, OtherUseTimely
       DEF TransportNext
<1>4. TimelyInv => TimelyConnectionsLast
  BY DEF TimelyInv, Timely, TimelyConnectionsLast
<1> QED
  BY <1>2, <1>3, <1>4, ConnectionsKeepAgreements, PTL DEF TransportSpec

=============================================================================
