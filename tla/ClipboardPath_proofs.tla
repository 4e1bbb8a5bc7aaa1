------------------------ MODULE ClipboardPath_proofs ------------------------
(***************************************************************************)
(* Proofs about ClipboardPath for any number of agents and every bound on  *)
(* copies, connections, losses and failures: as long as no agent has       *)
(* connected a second time, an acknowledgement means that the text was     *)
(* written, and no text goes back to the node it came from; as long as     *)
(* nothing is lost and no service fails, no runtime meets an error.        *)
(***************************************************************************)
EXTENDS ClipboardPath, FiniteSetTheorems, TLAPS

(* No agent has opened a second connection.                                *)
FirstConnections == \A a \in Agents : opened[a] <= 1

-----------------------------------------------------------------------------
(* The types.  A sequence is any number: that it stays within its range is *)
(* ClipboardSession's.                                                     *)

Entries(queue) == {queue[i] : i \in 1 .. Len(queue)}

Words == Texts \cup {NoText}

Clips == [sequence : Nat, offer : Words, transfer : Words]

SessionStates ==
  [next : Nat, sent : Nat, acknowledged : Nat, pending : Nat, applied : Nat,
   highest : Nat, incoming : Clips, applying : Clips, remote_text : Words]

Contents == [type : {"SendOffer", "SendTransfer"}, sequence : Nat, text : Texts]
Acknowledgements == [type : {"SendApplied"}, sequence : Nat]
Applies == [type : {"ApplyRemote"}, sequence : Nat, text : Texts]

Applications == [end : Ends, session : Nat, sequence : Nat, text : Texts]

Lists == [pending : Applications \cup {NoApplication}, queued : Seq(Applications)]
Listed(list) == Entries(list.queued) \cup ({list.pending} \ {NoApplication})

NativeEvents == [type : {"Changed"}, text : Texts] \cup {Applied, Failed}

Returned == Contents \cup Acknowledgements \cup Applies

SessionType ==
  /\ session \in [Ends -> SessionStates]
  /\ actions \in [Ends -> Seq(Returned)]
  /\ error \in [Ends -> S!Errors]

RuntimeType ==
  /\ inUse \in [Ends -> Nat] /\ open \in [Ends -> BOOLEAN]
  /\ offering \in [Nodes -> [ends : SUBSET Ends, text : Words]]
  /\ applications \in [Nodes -> Lists]
  /\ service \in [Nodes -> BOOLEAN] /\ ended \in [Nodes -> BOOLEAN]

ServiceType ==
  /\ native \in [Nodes -> Words] /\ changed \in [Nodes -> BOOLEAN]
  /\ copies \in [Nodes -> Nat]
  /\ commands \in [Nodes -> Seq(Applications)]
  /\ events \in [Nodes -> Seq(NativeEvents)]
  /\ \A n \in Nodes : changed[n] => native[n] \in Texts
  /\ \A n \in Nodes : offering[n].ends # {} => offering[n].text \in Texts

StreamType ==
  /\ control \in [Ends -> [Sessions -> Seq(Contents \cup Acknowledgements \cup {Disconnected})]]
  /\ transfers \in [Ends -> [Sessions -> Seq(Contents \cup {ClipboardFailed})]]

(* The connections an end has had.                                         *)
Started(e) == IF Node(e) = Local THEN accepted[e[2]] ELSE opened[e[1]]

(* The connections an end has used are those its agent has opened.         *)
ConnectionType ==
  /\ opened \in [Agents -> Nat] /\ accepted \in [Agents -> Nat]
  /\ \A a \in Agents : accepted[a] <= opened[a] /\ opened[a] <= MaxSessions
  /\ \A e \in Ends : inUse[e] <= Started(e)

(* A runtime has work only for its own ends, and for those that have a     *)
(* connection.                                                             *)
WorkType ==
  /\ \A e \in Ends :
       inUse[e] = NoSession =>
         ~open[e] /\ actions[e] = <<>> /\ e \notin offering[Node(e)].ends
  /\ \A n \in Nodes : offering[n].ends \subseteq EndsOf(n)
  /\ \A n \in Nodes : \A application \in Listed(applications[n]) :
       /\ application.end \in EndsOf(n)
       /\ application.session \in 1 .. Started(application.end)

PathType ==
  SessionType /\ RuntimeType /\ ServiceType /\ StreamType /\ ConnectionType /\ WorkType

-----------------------------------------------------------------------------
(* Acknowledged means written.                                             *)

(* The text of generation n that e received was written.                   *)
Wrote(e, n) == \E w \in written : w.end = e /\ w.session = 1 /\ w.sequence = n

(* An acknowledgement follows the writing, wherever it is.                 *)
AcknowledgementsInv ==
  /\ \A e \in Ends :
       session[e].acknowledged > 0 => Wrote(Opposite(e), session[e].acknowledged)
  /\ \A e \in Ends : \A action \in Entries(actions[e]) :
       action.type = "SendApplied" => Wrote(e, action.sequence)
  /\ \A e \in Ends, s \in Sessions : \A message \in Entries(control[e][s]) :
       message.type = "SendApplied" => Wrote(e, message.sequence)

(* Nothing is left of the applications of n, or n takes no more of them:   *)
(* the controller has no service, the agent no clipboard session.          *)
Unused(n) == commands[n] = <<>> /\ Applied \notin Entries(events[n])

GivenUp(n) ==
  \/ n = Local /\ ~service[n]
  \/ /\ n # Local /\ opened[n] >= 1 /\ ~open[<<n, Local>>]
     /\ actions[<<n, Local>>] = <<>> /\ offering[n].ends = {}
     /\ applications[n].queued = <<>>

(* One text at a time is with the service, as a command or as the report   *)
(* of its writing.                                                         *)
OneApplied(n) ==
  \A i, j \in 1 .. Len(events[n]) : events[n][i] = Applied /\ events[n][j] = Applied => i = j

WithService(n) ==
  LET pending == applications[n].pending IN
  \/ /\ pending # NoApplication
     /\ commands[n] = <<pending>> \/ commands[n] = <<>>
     /\ Applied \in Entries(events[n]) => commands[n] = <<>> /\ pending \in written
     /\ OneApplied(n)
  \/ pending = NoApplication /\ (Unused(n) \/ GivenUp(n))

ApplicationsInv == \A n \in Nodes : WithService(n)

WrittenInv == FirstConnections => AcknowledgementsInv /\ ApplicationsInv

-----------------------------------------------------------------------------
(* Nothing is sent back.                                                   *)

(* The texts that come in through e: an agent's own through its end at the *)
(* controller, and all others through the agent's.                         *)
Through(e) == {text \in Texts : IF Node(e) = Local THEN text[1] = e[2] ELSE text[1] # e[1]}

(* The texts a session keeps of what its peer sent.                        *)
TextsOf(s) == {s.incoming.offer, s.incoming.transfer, s.applying.offer, s.applying.transfer}

(* Where a text came from.                                                 *)
OriginInv ==
  /\ \A e \in Ends :
       /\ TextsOf(session[e]) \cup {session[e].remote_text} \subseteq Through(e) \cup {NoText}
       /\ \A action \in Entries(actions[e]) :
            /\ action \in Contents => action.text \notin Through(e)
            /\ action \in Applies => action.text \in Through(e)
       /\ \A s \in Sessions :
            /\ \A message \in Entries(control[e][s]) :
                 message \in Contents => message.text \notin Through(e)
            /\ \A message \in Entries(transfers[e][s]) :
                 message \in Contents => message.text \notin Through(e)
  /\ \A n \in Nodes :
       \A application \in Listed(applications[n]) \cup Entries(commands[n]) :
         application.end \in EndsOf(n) /\ application.text \in Through(application.end)

(* The order of generations that a session keeps to.                       *)
Ordered(s) ==
  /\ S!IsApplying(s) => s.applied < s.applying.sequence /\ s.applying.sequence <= s.highest
  /\ s.incoming # S!NoClip =>
       /\ s.applied < s.incoming.sequence /\ s.incoming.sequence <= s.highest
       /\ S!IsApplying(s) => s.applying.sequence < s.incoming.sequence

(* A text to be applied is the one the session has under application, or   *)
(* was.                                                                    *)
AgreesWith(s, n, text) ==
  /\ n <= s.applied \/ (S!IsApplying(s) /\ n <= s.applying.sequence)
  /\ S!IsApplying(s) /\ n = s.applying.sequence => text = s.applying.transfer

OrderInv ==
  /\ \A e \in Ends : Ordered(session[e])
  /\ \A e \in Ends : \A action \in Entries(actions[e]) :
       action \in Applies => AgreesWith(session[e], action.sequence, action.text)
  /\ \A n \in Nodes : \A application \in Listed(applications[n]) :
       AgreesWith(session[application.end], application.sequence, application.text)

(* An end that is told of changes, now or once it has a connection.        *)
Watched(e) == open[e] \/ Started(e) = 0

(* A text that came in through e is known as such when e is told of it,    *)
(* with the last-th of the events in `queue`: it is the session's remote   *)
(* text already, or the application under way, to be confirmed before.     *)
Known(queue, told, pending, remote, e, last, text) ==
  /\ (\A i \in 1 .. last : queue[i] # Applied) =>
       /\ remote = text
       /\ e \in told.ends => told.text = text
       /\ \A i \in 1 .. last : queue[i].type = "Changed" => queue[i].text = text
  /\ \A i \in 1 .. last :
       queue[i] = Applied /\ pending # NoApplication =>
         /\ pending.end = e /\ pending.text = text
         /\ \A j \in i .. last : queue[j].type = "Changed" => queue[j].text = text

(* So is every such text that e is being told of, that the runtime will    *)
(* hear of, and `held`, which the service may yet report.                  *)
AllKnown(queue, told, pending, remote, e, held) ==
  /\ e \in told.ends /\ told.text \in Through(e) => remote = told.text
  /\ \A i \in 1 .. Len(queue) :
       queue[i].type = "Changed" /\ queue[i].text \in Through(e) =>
         Known(queue, told, pending, remote, e, i, queue[i].text)
  /\ held \in Through(e) => Known(queue, told, pending, remote, e, Len(queue), held)

Held(n) == IF service[n] THEN native[n] ELSE NoText

KnownAt(e) ==
  LET n == Node(e) IN
  Watched(e) /\ ~Ended(n) =>
    AllKnown(events[n], offering[n], applications[n].pending, session[e].remote_text, e,
             Held(n))

KnownInv ==
  /\ \A e \in Ends : e \in offering[Node(e)].ends => open[e]
  /\ \A e \in Ends : Started(e) = 0 => session[e].remote_text = NoText
  /\ \A e \in Ends : KnownAt(e)

BackInv == OriginInv /\ OrderInv /\ KnownInv

SentBackInv == FirstConnections => BackInv

-----------------------------------------------------------------------------
(* Ends and queues.                                                        *)

LEMMA EndFacts ==
  ASSUME NEW e \in Ends
  PROVE  /\ Node(e) \in Nodes /\ e \in EndsOf(Node(e)) /\ Node(e) = e[1]
         /\ Opposite(e) \in Ends /\ Opposite(e) # e /\ Opposite(Opposite(e)) = e
         /\ AgentOf(e) \in Agents
         /\ Node(e) = Local => e = <<Local, AgentOf(e)>> /\ e[2] = AgentOf(e)
         /\ Node(e) # Local => e = <<AgentOf(e), Local>> /\ e[1] = AgentOf(e)
BY ClipboardPathAssumption DEF Ends, Node, EndsOf, Opposite, AgentOf, Agents

LEMMA AgentEnds ==
  ASSUME NEW a \in Agents
  PROVE  /\ a \in Nodes /\ a # Local
         /\ <<a, Local>> \in Ends /\ <<Local, a>> \in Ends /\ <<a, Local>> # <<Local, a>>
         /\ Node(<<a, Local>>) = a /\ Node(<<Local, a>>) = Local
         /\ EndsOf(a) = {<<a, Local>>}
         /\ Started(<<a, Local>>) = opened[a] /\ Started(<<Local, a>>) = accepted[a]
<1>1. a \in Nodes /\ a # Local
  BY DEF Agents
<1>2. <<a, Local>> \in Ends /\ <<Local, a>> \in Ends /\ <<a, Local>> # <<Local, a>>
  BY <1>1 DEF Ends
<1>3. Node(<<a, Local>>) = a /\ Node(<<Local, a>>) = Local
  BY DEF Node
<1>4. EndsOf(a) = {<<a, Local>>}
  BY <1>1, <1>2 DEF Ends, EndsOf, Node
<1>5. Started(<<a, Local>>) = opened[a] /\ Started(<<Local, a>>) = accepted[a]
  BY <1>1, <1>3 DEF Started
<1> QED
  BY <1>1, <1>2, <1>3, <1>4, <1>5

LEMMA EndOfNode ==
  ASSUME NEW n \in Nodes, NEW e \in EndsOf(n)
  PROVE  e \in Ends /\ Node(e) = n
BY DEF EndsOf

LEMMA EmptyQueue == ASSUME NEW T PROVE <<>> \in Seq(T) /\ Entries(<<>>) = {}
BY DEF Entries

LEMMA OneEntry ==
  ASSUME NEW T, NEW m \in T
  PROVE  <<m>> \in Seq(T) /\ Entries(<<m>>) = {m} /\ Len(<<m>>) = 1 /\ Head(<<m>>) = m
BY DEF Entries

LEMMA TwoEntries == ASSUME NEW x, NEW y PROVE <<x>> \o <<y>> = <<x, y>>
<1> DEFINE both == <<x>> \o <<y>>
<1>1. both \in Seq({x, y}) /\ Len(both) = 2 /\ both[1] = x /\ both[2] = y
  OBVIOUS
<1>2. both = [i \in 1 .. 2 |-> both[i]] /\ <<x, y>> = [i \in 1 .. 2 |-> <<x, y>>[i]]
  BY <1>1
<1>3. \A i \in 1 .. 2 : both[i] = <<x, y>>[i]
  BY <1>1
<1> HIDE DEF both
<1>4. both = <<x, y>>
  BY <1>2, <1>3
<1> QED
  BY <1>4 DEF both

LEMMA ShortQueues ==
  ASSUME NEW x, NEW y PROVE Entries(<<x>>) = {x} /\ Entries(<<x, y>>) = {x, y}
BY DEF Entries

LEMMA AppendQueue ==
  ASSUME NEW T, NEW q \in Seq(T), NEW m \in T
  PROVE  /\ Append(q, m) \in Seq(T) /\ Append(q, m) # <<>>
         /\ Entries(Append(q, m)) = Entries(q) \cup {m}
         /\ Len(Append(q, m)) = Len(q) + 1 /\ Len(q) \in Nat
         /\ \A i \in 1 .. Len(q) : Append(q, m)[i] = q[i]
         /\ Append(q, m)[Len(q) + 1] = m
<1>1. /\ Append(q, m) \in Seq(T)
      /\ Len(Append(q, m)) = Len(q) + 1 /\ Len(q) \in Nat
      /\ \A i \in 1 .. Len(q) : Append(q, m)[i] = q[i]
      /\ Append(q, m)[Len(q) + 1] = m
  OBVIOUS
<1>2. 1 .. Len(q) + 1 = (1 .. Len(q)) \cup {Len(q) + 1}
  BY <1>1
<1>3. Entries(Append(q, m)) = Entries(q) \cup {m}
  BY <1>1, <1>2 DEF Entries
<1>4. Append(q, m) # <<>>
  BY <1>1
<1> QED
  BY <1>1, <1>3, <1>4

LEMMA TailQueue ==
  ASSUME NEW T, NEW q \in Seq(T), q # <<>>
  PROVE  /\ Tail(q) \in Seq(T) /\ Head(q) \in T
         /\ Entries(q) = Entries(Tail(q)) \cup {Head(q)}
         /\ Len(q) \in Nat /\ Len(q) >= 1 /\ Len(Tail(q)) = Len(q) - 1
         /\ Head(q) = q[1]
         /\ \A i \in 1 .. Len(q) - 1 : Tail(q)[i] = q[i + 1]
<1>1. /\ Tail(q) \in Seq(T) /\ Head(q) \in T
      /\ Len(q) \in Nat /\ Len(q) >= 1 /\ Len(Tail(q)) = Len(q) - 1
      /\ Head(q) = q[1]
      /\ \A i \in 1 .. Len(q) - 1 : Tail(q)[i] = q[i + 1]
  OBVIOUS
<1>2. Entries(Tail(q)) \cup {Head(q)} \subseteq Entries(q)
  BY <1>1 DEF Entries
<1>3. ASSUME NEW i \in 1 .. Len(q) PROVE q[i] \in Entries(Tail(q)) \cup {Head(q)}
  <2>1. CASE i = 1
    BY <1>1, <2>1
  <2>2. CASE i # 1
    <3>1. i - 1 \in 1 .. Len(Tail(q)) /\ Tail(q)[i - 1] = q[i]
      BY <1>1, <2>2
    <3> QED
      BY <3>1 DEF Entries
  <2> QED
    BY <2>1, <2>2
<1> QED
  BY <1>1, <1>2, <1>3 DEF Entries

LEMMA PrefixOf ==
  ASSUME NEW T, NEW q \in Seq(T), NEW r \in Prefixes(q)
  PROVE  /\ r \in Seq(T) /\ Len(r) <= Len(q) /\ Len(r) \in Nat /\ Len(q) \in Nat
         /\ \A i \in 1 .. Len(r) : r[i] = q[i]
         /\ Entries(r) \subseteq Entries(q)
<1>1. PICK i \in 0 .. Len(q) : r = SubSeq(q, 1, i)
  BY DEF Prefixes
<1>2. /\ r \in Seq(T) /\ Len(r) = i /\ Len(q) \in Nat
      /\ \A j \in 1 .. i : r[j] = q[j]
  BY <1>1
<1>3. Entries(r) \subseteq Entries(q)
  BY <1>1, <1>2 DEF Entries
<1> QED
  BY <1>1, <1>2, <1>3

LEMMA TextTypes ==
  /\ Texts \subseteq Words /\ NoText \in Words /\ NoText \notin Texts
  /\ \A t \in Texts : t[1] \in Nodes /\ t \in CopiesOf(t[1])
<1>1. ASSUME NEW t \in Texts
      PROVE  t[1] \in Nodes /\ t \in CopiesOf(t[1]) /\ t # NoText
  <2>1. PICK n \in Nodes : t \in CopiesOf(n)
    BY DEF Texts
  <2>2. PICK i \in 1 .. MaxCopies[n] : t = <<n, i>>
    BY <2>1 DEF CopiesOf
  <2>3. MaxCopies[n] \in Nat
    BY ClipboardPathAssumption
  <2>4. i # 0
    BY <2>3
  <2> QED
    BY <2>1, <2>2, <2>4 DEF NoText
<1> QED
  BY <1>1 DEF Words

LEMMA ReturnedTypes ==
  ASSUME NEW n \in Nat, NEW text \in Texts
  PROVE  /\ S!SendOffer(n, text) \in Contents /\ S!SendTransfer(n, text) \in Contents
         /\ S!SendApplied(n) \in Acknowledgements /\ S!ApplyRemote(n, text) \in Applies
BY DEF Contents, Acknowledgements, Applies, S!SendOffer, S!SendTransfer, S!SendApplied,
       S!ApplyRemote

(* What each of the three kinds is not.                                    *)
LEMMA KindsDiffer ==
  /\ \A m \in Contents : /\ m \notin Acknowledgements /\ m \notin Applies
                         /\ m.type \in {"SendOffer", "SendTransfer"}
                         /\ m.sequence \in Nat /\ m.text \in Texts
                         /\ m # Disconnected /\ m # ClipboardFailed
  /\ \A m \in Acknowledgements : /\ m \notin Contents /\ m \notin Applies
                                 /\ m.type = "SendApplied" /\ m.sequence \in Nat
                                 /\ m # Disconnected /\ m # ClipboardFailed
  /\ \A m \in Applies : /\ m \notin Contents /\ m \notin Acknowledgements
                        /\ m.type = "ApplyRemote" /\ m.sequence \in Nat /\ m.text \in Texts
  /\ Disconnected \notin Contents /\ Disconnected \notin Acknowledgements
  /\ Disconnected.type = "Disconnected"
BY DEF Contents, Acknowledgements, Applies, Disconnected, ClipboardFailed

-----------------------------------------------------------------------------
(* The calls of the clipboard session.                                     *)

OthersKept(e) ==
  \A f \in Ends \ {e} :
    session'[f] = session[f] /\ actions'[f] = actions[f] /\ error'[f] = error[f]

LEMMA StartCall ==
  ASSUME SessionType, NEW e \in Ends, S!Start(e)
  PROVE  /\ SessionType' /\ OthersKept(e)
         /\ actions'[e] = <<>> /\ error'[e] = "none" /\ session'[e] = S!NewSession
<1>1. S!NewSession \in SessionStates
  BY DEF S!NewSession, S!NoClip, S!Clip, SessionStates, Clips, Words
<1>2. <<>> \in Seq(Returned) /\ "none" \in S!Errors
  BY EmptyQueue DEF S!Errors
<1> QED
  BY <1>1, <1>2 DEF SessionType, S!Start, OthersKept

LEMMA TakeCall ==
  ASSUME SessionType, NEW e \in Ends, S!TakeAction(e)
  PROVE  /\ SessionType' /\ OthersKept(e)
         /\ actions[e] \in Seq(Returned) /\ actions[e] # <<>>
         /\ actions'[e] = Tail(actions[e]) /\ error'[e] = error[e]
         /\ session'[e] = session[e] /\ Head(actions[e]) \in Entries(actions[e])
         /\ Head(actions[e]) \in Returned
         /\ Entries(actions'[e]) \subseteq Entries(actions[e])
<1>1. actions[e] \in Seq(Returned) /\ actions[e] # <<>>
  BY DEF SessionType, S!TakeAction
<1>2. /\ Tail(actions[e]) \in Seq(Returned) /\ Head(actions[e]) \in Returned
      /\ Entries(actions[e]) = Entries(Tail(actions[e])) \cup {Head(actions[e])}
  BY <1>1, TailQueue
<1>3. /\ actions' = [actions EXCEPT ![e] = Tail(actions[e])]
      /\ session' = session /\ error' = error
  BY DEF S!TakeAction
<1> QED
  BY <1>1, <1>2, <1>3 DEF SessionType, OthersKept

LEMMA FailCall ==
  ASSUME SessionType, NEW e \in Ends, NEW reason \in S!Errors, S!Fail(e, reason)
  PROVE  /\ SessionType' /\ OthersKept(e)
         /\ session' = session /\ actions' = actions /\ error'[e] = reason
BY DEF SessionType, S!Fail, OthersKept

LEMMA ReturnCall ==
  ASSUME SessionType, NEW e \in Ends, NEW after \in SessionStates, NEW list \in Seq(Returned),
         S!Return(e, after, list)
  PROVE  /\ SessionType' /\ OthersKept(e)
         /\ session'[e] = after /\ actions'[e] = list /\ error'[e] = error[e]
BY DEF SessionType, S!Return, OthersKept

LEMMA UnchangedCall ==
  ASSUME SessionType, NEW e \in Ends, UNCHANGED S!vars
  PROVE  /\ SessionType' /\ OthersKept(e)
         /\ session' = session /\ actions' = actions /\ error' = error
BY DEF SessionType, S!vars, OthersKept

(* A change is offered, unless it is the text that came from the peer.     *)
LEMMA OfferCall ==
  ASSUME SessionType, NEW e \in Ends, NEW text \in Texts, S!LocalChanged(e, text)
  PROVE  /\ SessionType' /\ OthersKept(e) /\ actions[e] = <<>>
         /\ session'[e].acknowledged = session[e].acknowledged
         /\ session'[e].applied = session[e].applied
         /\ session'[e].highest = session[e].highest
         /\ session'[e].incoming = session[e].incoming
         /\ session'[e].applying = session[e].applying
         /\ \/ session'[e].remote_text = session[e].remote_text /\ actions'[e] = <<>>
            \/ /\ session[e].remote_text # text /\ session'[e].remote_text = NoText
               /\ \A action \in Entries(actions'[e]) : action \in Contents /\ action.text = text
<1> DEFINE s == session[e]
           after == [s EXCEPT !.next = S!Successor(s.next), !.sent = s.next,
                              !.pending = s.next, !.remote_text = NoText]
           list == <<S!SendOffer(s.next, text), S!SendTransfer(s.next, text)>>
<1>1. s \in SessionStates /\ actions[e] = <<>>
  BY DEF SessionType, S!LocalChanged, S!Idle
<1>2. CASE UNCHANGED S!vars
  BY <1>1, <1>2, UnchangedCall
<1>3. CASE S!Fail(e, "LocalSequenceExhausted")
  <2>1. "LocalSequenceExhausted" \in S!Errors
    BY DEF S!Errors
  <2> QED
    BY <1>1, <1>3, <2>1, FailCall
<1>4. CASE ~S!Echo(s, text) /\ S!Return(e, after, list)
  <2>1. S!Successor(s.next) \in Nat /\ s.next \in Nat /\ NoText \in Words
    BY <1>1, TextTypes DEF S!Successor, SessionStates
  <2>2. after \in SessionStates
    BY <1>1, <2>1 DEF SessionStates
  <2>3. /\ after.acknowledged = s.acknowledged /\ after.applied = s.applied
        /\ after.highest = s.highest /\ after.incoming = s.incoming
        /\ after.applying = s.applying /\ after.remote_text = NoText
    BY <1>1 DEF SessionStates
  <2>4. /\ S!SendOffer(s.next, text) \in Contents /\ S!SendTransfer(s.next, text) \in Contents
        /\ S!SendOffer(s.next, text).text = text /\ S!SendTransfer(s.next, text).text = text
    BY <2>1, ReturnedTypes DEF S!SendOffer, S!SendTransfer
  <2>5. list \in Seq(Returned)
    BY <2>4 DEF Returned
  <2>6. \A action \in Entries(list) : action \in Contents /\ action.text = text
    BY <2>4 DEF Entries
  <2>7. /\ SessionType' /\ OthersKept(e) /\ session'[e] = after /\ actions'[e] = list
    <3> HIDE DEF after, list
    <3> QED
      BY <1>4, <2>2, <2>5, ReturnCall
  <2>8. s.remote_text # text
    BY <1>4 DEF S!Echo
  <2> QED
    BY <1>1, <2>3, <2>6, <2>7, <2>8
<1> QED
  BY <1>2, <1>3, <1>4 DEF S!LocalChanged

LEMMA AcknowledgementCall ==
  ASSUME SessionType, NEW e \in Ends, NEW n \in Nat, S!ReceiveAcknowledgement(e, e[1], n)
  PROVE  /\ SessionType' /\ OthersKept(e) /\ actions[e] = <<>> /\ actions'[e] = <<>>
         /\ session'[e].applied = session[e].applied
         /\ session'[e].highest = session[e].highest
         /\ session'[e].incoming = session[e].incoming
         /\ session'[e].applying = session[e].applying
         /\ session'[e].remote_text = session[e].remote_text
         /\ session'[e].acknowledged \in {session[e].acknowledged, n}
<1> DEFINE s == session[e]
           after == [s EXCEPT !.acknowledged = n, !.pending = S!PendingAfter(s, n)]
<1>1. s \in SessionStates /\ actions[e] = <<>>
  BY DEF SessionType, S!ReceiveAcknowledgement, S!Idle
<1>2. CASE UNCHANGED S!vars
  BY <1>1, <1>2, UnchangedCall
<1>3. ASSUME NEW reason \in S!Errors, S!Fail(e, reason)
      PROVE  /\ SessionType' /\ OthersKept(e) /\ session' = session /\ actions' = actions
  BY <1>3, FailCall
<1>4. CASE S!Return(e, after, <<>>)
  <2>1. S!PendingAfter(s, n) \in Nat
    BY <1>1 DEF S!PendingAfter, SessionStates
  <2>2. after \in SessionStates
    BY <1>1, <2>1 DEF SessionStates
  <2>3. /\ after.acknowledged = n /\ after.applied = s.applied /\ after.highest = s.highest
        /\ after.incoming = s.incoming /\ after.applying = s.applying
        /\ after.remote_text = s.remote_text
    BY <1>1 DEF SessionStates
  <2>4. SessionType' /\ OthersKept(e) /\ session'[e] = after /\ actions'[e] = <<>>
    <3> HIDE DEF after
    <3>1. <<>> \in Seq(Returned)
      BY EmptyQueue
    <3> QED
      BY <1>4, <2>2, <3>1, ReturnCall
  <2> QED
    BY <1>1, <2>3, <2>4
<1>5. "UnexpectedGenerationOwner" \in S!Errors /\ "AcknowledgementBeyondSent" \in S!Errors
  BY DEF S!Errors
<1>6. \/ UNCHANGED S!vars
      \/ S!Fail(e, "UnexpectedGenerationOwner") \/ S!Fail(e, "AcknowledgementBeyondSent")
      \/ S!Return(e, after, <<>>)
  BY DEF S!ReceiveAcknowledgement
<1> HIDE DEF after
<1> QED
  BY <1>1, <1>2, <1>3, <1>4, <1>5, <1>6

LEMMA FinishCall ==
  ASSUME SessionType, NEW e \in Ends, NEW clip \in Clips, actions[e] = <<>>,
         S!FinishIncoming(e, clip)
  PROVE  /\ SessionType' /\ OthersKept(e)
         /\ session'[e].acknowledged = session[e].acknowledged
         /\ session'[e].applied = session[e].applied
         /\ session'[e].remote_text = session[e].remote_text
         /\ session'[e].highest =
              IF clip.sequence > session[e].highest THEN clip.sequence ELSE session[e].highest
         /\ \/ /\ session'[e].applying = session[e].applying /\ session'[e].incoming = clip
               /\ actions'[e] = <<>>
            \/ /\ ~S!IsApplying(session[e]) /\ S!Begins(clip)
               /\ session'[e].applying = clip /\ session'[e].incoming = S!NoClip
               /\ clip.transfer \in Texts
               /\ actions'[e] = <<S!ApplyRemote(clip.sequence, clip.transfer)>>
<1> DEFINE s == session[e]
           top == IF clip.sequence > s.highest THEN clip.sequence ELSE s.highest
           base == [s EXCEPT !.highest = top]
           starting == [base EXCEPT !.incoming = S!NoClip, !.applying = clip]
           waiting == [base EXCEPT !.incoming = clip]
<1>1. s \in SessionStates /\ clip.sequence \in Nat /\ s.highest \in Nat /\ top \in Nat
  BY DEF SessionType, SessionStates, Clips
<1>2. /\ base \in SessionStates /\ base.acknowledged = s.acknowledged
      /\ base.applied = s.applied /\ base.remote_text = s.remote_text /\ base.highest = top
      /\ base.applying = s.applying
  <2> HIDE DEF top
  <2> QED
    BY <1>1 DEF SessionStates
<1>3. S!NoClip \in Clips
  BY TextTypes DEF S!NoClip, S!Clip, Clips
<1> HIDE DEF base
<1>4. /\ starting \in SessionStates /\ starting.acknowledged = s.acknowledged
      /\ starting.applied = s.applied /\ starting.remote_text = s.remote_text
      /\ starting.highest = top /\ starting.applying = clip /\ starting.incoming = S!NoClip
  BY <1>2, <1>3 DEF SessionStates
<1>5. /\ waiting \in SessionStates /\ waiting.acknowledged = s.acknowledged
      /\ waiting.applied = s.applied /\ waiting.remote_text = s.remote_text
      /\ waiting.highest = top /\ waiting.applying = s.applying /\ waiting.incoming = clip
  BY <1>2 DEF SessionStates
<1>6. \/ ~S!IsApplying(base) /\ S!Begins(clip) /\ S!Return(e, starting, S!Application(clip))
      \/ S!Return(e, waiting, <<>>)
  BY DEF S!FinishIncoming, base
<1>7. ~S!IsApplying(base) => ~S!IsApplying(s)
  BY <1>2 DEF S!IsApplying
<1> HIDE DEF starting, waiting
<1>8. CASE ~S!IsApplying(base) /\ S!Begins(clip) /\ S!Return(e, starting, S!Application(clip))
  <2>1. clip.transfer \in Texts
    BY <1>8 DEF S!Begins, S!Ready, Clips, Words
  <2>2. S!Application(clip) = <<S!ApplyRemote(clip.sequence, clip.transfer)>>
    BY DEF S!Application
  <2>3. S!ApplyRemote(clip.sequence, clip.transfer) \in Returned
    BY <1>1, <2>1, ReturnedTypes DEF Returned
  <2>4. S!Application(clip) \in Seq(Returned)
    BY <2>2, <2>3, OneEntry
  <2>5. /\ SessionType' /\ OthersKept(e) /\ session'[e] = starting
        /\ actions'[e] = S!Application(clip)
    BY <1>4, <1>8, <2>4, ReturnCall
  <2> QED
    BY <1>4, <1>7, <1>8, <2>1, <2>2, <2>5
<1>9. CASE S!Return(e, waiting, <<>>)
  <2>1. <<>> \in Seq(Returned)
    BY EmptyQueue
  <2>2. waiting \in SessionStates
    BY <1>5
  <2>3. SessionType' /\ OthersKept(e) /\ session'[e] = waiting /\ actions'[e] = <<>>
    BY <1>9, <2>1, <2>2, ReturnCall
  <2> QED
    BY <1>5, <2>3
<1> QED
  BY <1>6, <1>8, <1>9

(* An offer or a text of the peer.                                         *)
LEMMA PartCall ==
  ASSUME SessionType, NEW e \in Ends, NEW part \in S!Parts, NEW n \in Nat, NEW text \in Texts,
         S!ReceivePart(e, part, e[2], n, text)
  PROVE  /\ SessionType' /\ OthersKept(e) /\ actions[e] = <<>>
         /\ session'[e].acknowledged = session[e].acknowledged
         /\ session'[e].applied = session[e].applied
         /\ session'[e].remote_text = session[e].remote_text
         /\ Ordered(session[e]) => Ordered(session'[e])
         /\ TextsOf(session'[e]) \subseteq TextsOf(session[e]) \cup {text, NoText}
         /\ \/ session'[e].applying = session[e].applying /\ actions'[e] = <<>>
            \/ /\ ~S!IsApplying(session[e]) /\ S!IsApplying(session'[e])
               /\ session'[e].applying.transfer \in Texts
               /\ Ordered(session[e]) => session[e].applied < session'[e].applying.sequence
               /\ actions'[e] = <<S!ApplyRemote(session'[e].applying.sequence,
                                               session'[e].applying.transfer)>>
<1> DEFINE s == session[e]
           clip == S!Staged(s, n)
           reason == S!StagingError(clip, part, n, text)
           new == [clip EXCEPT ![part] = text]
<1>1. /\ s \in SessionStates /\ actions[e] = <<>> /\ s.incoming \in Clips /\ s.applying \in Clips
      /\ s.applied \in Nat /\ s.highest \in Nat
  BY DEF SessionType, S!ReceivePart, S!Idle, SessionStates
<1>2. /\ clip \in Clips
      /\ {clip.offer, clip.transfer} \subseteq {s.incoming.offer, s.incoming.transfer, NoText}
  BY <1>1, TextTypes DEF S!Staged, S!Clip, Clips
<1>3. CASE session' = session /\ actions' = actions /\ SessionType' /\ OthersKept(e)
  BY <1>1, <1>3
<1>4. ASSUME S!Fail(e, reason) \/ S!Fail(e, S!Conflict(part))
              \/ S!Fail(e, "UnexpectedGenerationOwner")
      PROVE  session' = session /\ actions' = actions /\ SessionType' /\ OthersKept(e)
  <2>1. /\ reason \in S!Errors /\ S!Conflict(part) \in S!Errors
        /\ "UnexpectedGenerationOwner" \in S!Errors
    BY DEF S!StagingError, S!Conflict, S!Errors
  <2> HIDE DEF reason
  <2> QED
    BY <1>4, <2>1, FailCall
<1>5. ASSUME ~S!Ignored(s, n), ~S!ApplyingThis(s, n), reason = "none", clip[part] = NoText,
             S!FinishIncoming(e, new)
      PROVE  /\ SessionType' /\ OthersKept(e) /\ actions[e] = <<>>
             /\ session'[e].acknowledged = session[e].acknowledged
             /\ session'[e].applied = session[e].applied
             /\ session'[e].remote_text = session[e].remote_text
             /\ Ordered(session[e]) => Ordered(session'[e])
             /\ TextsOf(session'[e]) \subseteq TextsOf(session[e]) \cup {text, NoText}
             /\ \/ session'[e].applying = session[e].applying /\ actions'[e] = <<>>
                \/ /\ ~S!IsApplying(session[e]) /\ S!IsApplying(session'[e])
                   /\ session'[e].applying.transfer \in Texts
                   /\ Ordered(session[e]) => session[e].applied < session'[e].applying.sequence
                   /\ actions'[e] = <<S!ApplyRemote(session'[e].applying.sequence,
                                                   session'[e].applying.transfer)>>
  <2>1. clip.sequence = n
    BY <1>5 DEF S!StagingError
  <2>2. /\ new \in Clips /\ new.sequence = n
        /\ {new.offer, new.transfer} \subseteq {clip.offer, clip.transfer, text}
    BY <1>2, <2>1, TextTypes DEF Clips, S!Parts
  <2>3. n > s.applied /\ n >= s.highest
    BY <1>1, <1>5 DEF S!Ignored
  <2>4. S!IsApplying(s) => s.applying.sequence # n
    BY <1>5 DEF S!ApplyingThis
  <2> HIDE DEF clip, reason, new
  <2>5. /\ SessionType' /\ OthersKept(e)
        /\ session'[e].acknowledged = s.acknowledged
        /\ session'[e].applied = s.applied
        /\ session'[e].remote_text = s.remote_text
        /\ session'[e].highest = IF n > s.highest THEN n ELSE s.highest
        /\ \/ /\ session'[e].applying = s.applying /\ session'[e].incoming = new
              /\ actions'[e] = <<>>
           \/ /\ ~S!IsApplying(s) /\ S!Begins(new)
              /\ session'[e].applying = new /\ session'[e].incoming = S!NoClip
              /\ new.transfer \in Texts
              /\ actions'[e] = <<S!ApplyRemote(n, new.transfer)>>
    BY <1>1, <1>5, <2>2, FinishCall
  <2>6. session'[e].highest = n
    BY <1>1, <2>3, <2>5
  <2>7. {S!NoClip.offer, S!NoClip.transfer} \subseteq {NoText}
    BY DEF S!NoClip, S!Clip
  <2>8. CASE /\ session'[e].applying = s.applying /\ session'[e].incoming = new
             /\ actions'[e] = <<>>
    <3>1. TextsOf(session'[e]) \subseteq TextsOf(s) \cup {text, NoText}
      BY <1>2, <2>2, <2>8 DEF TextsOf
    <3>2. Ordered(s) => Ordered(session'[e])
      <4>1. s.applying.sequence \in Nat
        BY <1>1 DEF Clips
      <4> QED
        BY <1>1, <2>2, <2>3, <2>4, <2>5, <2>6, <2>8, <4>1 DEF Ordered, S!IsApplying
    <3> QED
      BY <1>1, <2>5, <2>8, <3>1, <3>2
  <2>9. CASE /\ ~S!IsApplying(s) /\ S!Begins(new)
             /\ session'[e].applying = new /\ session'[e].incoming = S!NoClip
             /\ new.transfer \in Texts
             /\ actions'[e] = <<S!ApplyRemote(n, new.transfer)>>
    <3>1. TextsOf(session'[e]) \subseteq TextsOf(s) \cup {text, NoText}
      BY <1>2, <2>2, <2>7, <2>9 DEF TextsOf
    <3>2. Ordered(session'[e])
      BY <1>1, <2>2, <2>3, <2>5, <2>6, <2>9 DEF Ordered
    <3>3. S!IsApplying(session'[e])
      <4>1. new # S!NoClip
        BY <2>9, TextTypes DEF S!NoClip, S!Clip
      <4> QED
        BY <2>9, <4>1 DEF S!IsApplying
    <3> QED
      BY <1>1, <2>2, <2>3, <2>5, <2>9, <3>1, <3>2, <3>3
  <2> QED
    BY <2>5, <2>8, <2>9
<1>6. \/ UNCHANGED S!vars
      \/ S!Fail(e, reason) \/ S!Fail(e, S!Conflict(part))
      \/ S!Fail(e, "UnexpectedGenerationOwner")
      \/ /\ ~S!Ignored(s, n) /\ ~S!ApplyingThis(s, n) /\ reason = "none" /\ clip[part] = NoText
         /\ S!FinishIncoming(e, new)
  BY DEF S!ReceivePart
<1>7. UNCHANGED S!vars =>
        session' = session /\ actions' = actions /\ SessionType' /\ OthersKept(e)
  BY UnchangedCall
<1> HIDE DEF reason, new, clip
<1> QED
  BY <1>1, <1>3, <1>4, <1>5, <1>6, <1>7

(* What the native service confirms.                                       *)
LEMMA ConfirmCall ==
  ASSUME SessionType, NEW e \in Ends, NEW n \in Nat, S!ConfirmApplied(e, e[2], n)
  PROVE  /\ SessionType' /\ OthersKept(e) /\ actions[e] = <<>>
         /\ \/ error'[e] # "none" /\ session' = session /\ actions' = actions
            \/ /\ S!IsApplying(session[e]) /\ n = session[e].applying.sequence
               /\ session'[e].acknowledged = session[e].acknowledged
               /\ session'[e].applied = n
               /\ session'[e].remote_text = session[e].applying.transfer
               /\ Ordered(session[e]) => Ordered(session'[e])
               /\ TextsOf(session'[e]) \subseteq TextsOf(session[e]) \cup {NoText}
               /\ \/ /\ session'[e].applying = S!NoClip
                     /\ actions'[e] = <<S!SendApplied(n)>>
                  \/ /\ S!IsApplying(session'[e]) /\ session'[e].applying.transfer \in Texts
                     /\ session'[e].applying = session[e].incoming
                     /\ actions'[e] = <<S!SendApplied(n),
                                       S!ApplyRemote(session'[e].applying.sequence,
                                                     session'[e].applying.transfer)>>
<1> DEFINE s == session[e]
           reason == S!ConfirmationError(s, e[2], e[2], n)
           after == [s EXCEPT !.applied = n, !.remote_text = s.applying.transfer]
           next == [after EXCEPT !.applying = s.incoming, !.incoming = S!NoClip]
           idle == [after EXCEPT !.applying = S!NoClip]
           m == s.incoming.sequence
           text == s.incoming.transfer
<1>1. /\ s \in SessionStates /\ actions[e] = <<>> /\ s.incoming \in Clips /\ s.applying \in Clips
      /\ s.applied \in Nat /\ s.highest \in Nat /\ s.applying.transfer \in Words
      /\ m \in Nat /\ s.applying.sequence \in Nat
  BY DEF SessionType, S!ConfirmApplied, S!Idle, SessionStates, Clips
<1>2. /\ after \in SessionStates /\ after.acknowledged = s.acknowledged
      /\ after.applied = n /\ after.remote_text = s.applying.transfer
      /\ after.highest = s.highest /\ after.incoming = s.incoming
  BY <1>1 DEF SessionStates
<1>3. S!NoClip \in Clips /\ {S!NoClip.offer, S!NoClip.transfer} \subseteq {NoText}
  BY TextTypes DEF S!NoClip, S!Clip, Clips
<1>4. \/ reason # "none" /\ S!Fail(e, reason)
      \/ /\ reason = "none" /\ S!Begins(s.incoming)
         /\ S!Return(e, next, <<S!SendApplied(n)>> \o S!Application(s.incoming))
      \/ /\ reason = "none" /\ ~S!Begins(s.incoming)
         /\ S!Return(e, idle, <<S!SendApplied(n)>>)
  BY DEF S!ConfirmApplied, S!Peer
<1>5. reason \in S!Errors
  BY DEF S!ConfirmationError, S!Errors
<1>6. reason = "none" => S!IsApplying(s) /\ n = s.applying.sequence
  BY DEF S!ConfirmationError, S!SameGeneration
<1> HIDE DEF reason, after
<1>7. /\ next \in SessionStates /\ next.acknowledged = s.acknowledged
      /\ next.applied = n /\ next.remote_text = s.applying.transfer
      /\ next.highest = s.highest /\ next.applying = s.incoming /\ next.incoming = S!NoClip
  BY <1>1, <1>2, <1>3 DEF SessionStates
<1>8. /\ idle \in SessionStates /\ idle.acknowledged = s.acknowledged
      /\ idle.applied = n /\ idle.remote_text = s.applying.transfer
      /\ idle.highest = s.highest /\ idle.applying = S!NoClip /\ idle.incoming = s.incoming
  BY <1>1, <1>2, <1>3 DEF SessionStates
<1>9. S!SendApplied(n) \in Returned
  BY DEF Returned, Acknowledgements, S!SendApplied
<1> HIDE DEF next, idle
<1>10. CASE reason # "none" /\ S!Fail(e, reason)
  BY <1>1, <1>5, <1>10, FailCall
<1>11. CASE /\ reason = "none" /\ S!Begins(s.incoming)
            /\ S!Return(e, next, <<S!SendApplied(n)>> \o S!Application(s.incoming))
  <2> DEFINE list == <<S!SendApplied(n), S!ApplyRemote(m, text)>>
  <2>1. text \in Texts /\ s.incoming # S!NoClip
    BY <1>1, <1>3, <1>11, TextTypes DEF S!Begins, S!Ready, Clips, Words
  <2>2. S!ApplyRemote(m, text) \in Returned
    BY <1>1, <2>1, ReturnedTypes DEF Returned
  <2>3. <<S!SendApplied(n)>> \o S!Application(s.incoming) = list
    <3>1. S!Application(s.incoming) = <<S!ApplyRemote(m, text)>>
      BY DEF S!Application
    <3> QED
      BY <3>1, TwoEntries
  <2>4. list \in Seq(Returned)
    BY <1>9, <2>2
  <2>5. SessionType' /\ OthersKept(e) /\ session'[e] = next /\ actions'[e] = list
    <3> HIDE DEF list
    <3> QED
      BY <1>7, <1>11, <2>3, <2>4, ReturnCall, ZenonT(60)
  <2>6. Ordered(s) => Ordered(next)
    BY <1>1, <1>6, <1>7, <1>11, <2>1 DEF Ordered, S!IsApplying
  <2>7. TextsOf(next) \subseteq TextsOf(s) \cup {NoText}
    BY <1>3, <1>7 DEF TextsOf
  <2>8. S!IsApplying(next)
    BY <1>7, <2>1 DEF S!IsApplying
  <2> QED
    BY <1>1, <1>6, <1>7, <1>11, <2>1, <2>5, <2>6, <2>7, <2>8
<1>12. CASE /\ reason = "none" /\ ~S!Begins(s.incoming)
            /\ S!Return(e, idle, <<S!SendApplied(n)>>)
  <2>1. <<S!SendApplied(n)>> \in Seq(Returned)
    BY <1>9, OneEntry
  <2>2. SessionType' /\ OthersKept(e) /\ session'[e] = idle /\ actions'[e] = <<S!SendApplied(n)>>
    BY <1>8, <1>12, <2>1, ReturnCall
  <2>3. Ordered(s) => Ordered(idle)
    BY <1>1, <1>6, <1>8, <1>12 DEF Ordered, S!IsApplying
  <2>4. TextsOf(idle) \subseteq TextsOf(s) \cup {NoText}
    BY <1>3, <1>8 DEF TextsOf
  <2> QED
    BY <1>1, <1>6, <1>8, <1>12, <2>2, <2>3, <2>4
<1> QED
  BY <1>4, <1>10, <1>11, <1>12

-----------------------------------------------------------------------------
(* Sequences flattened.                                                    *)

(* Sets of numbers have a least one.                                       *)
LEMMA LeastNumber ==
  ASSUME NEW T, T \subseteq Nat, T # {}
  PROVE  \E x \in T : \A y \in T : x <= y
<1> DEFINE Below(n) == 1 .. n
           R == StrictSubsetOrdering(Nat)
           Finite == FiniteSubsetsOf(Nat)
           TT == {Below(n) : n \in T}
<1>1. IsWellFoundedOn(R, Finite)
  BY FS_StrictSubsetOrderingWellFounded
<1>2. TT \subseteq Finite /\ TT # {}
  <2>1. \A n \in Nat : IsFiniteSet(1 .. n) /\ 1 .. n \subseteq Nat
    BY FS_Interval
  <2> QED
    BY <2>1 DEF FiniteSubsetsOf
<1>3. \E x \in TT : \A y \in TT : ~ (<<y, x>> \in R)
  <2> HIDE DEF R, Finite, TT
  <2> QED
    BY <1>1, <1>2, WFMin
<1>4. PICK m \in T : \A n \in T : <<Below(n), Below(m)>> \notin R
  BY <1>3
<1>5. ASSUME NEW n \in T, n < m PROVE FALSE
  <2>1. /\ Below(n) \subseteq Below(m) /\ Below(n) \subseteq Nat /\ Below(m) \subseteq Nat
        /\ m \in Below(m) /\ m \notin Below(n)
    BY <1>5
  <2>2. <<Below(n), Below(m)>> \in R
    <3> HIDE DEF Below
    <3> QED
      BY <2>1 DEF StrictSubsetOrdering
  <2> QED
    BY <1>4, <2>2
<1> QED
  BY <1>5

(* The partial joins of pieces, up to the n-th of them.                    *)
Joins(pieces, n, join) ==
  join = [i \in 1 .. n |-> IF i = 1 THEN pieces[i] ELSE join[i - 1] \o pieces[i]]

(* What holds of zero and of every number after one that it holds of.      *)
LEMMA Counting ==
  ASSUME NEW N \in Nat, NEW T, 0 \in T, \A i \in 0 .. N : i \in T /\ i < N => i + 1 \in T
  PROVE  0 .. N \subseteq T
<1> DEFINE Rest == (0 .. N) \ T
<1> SUFFICES ASSUME Rest # {} PROVE FALSE
  OBVIOUS
<1>1. Rest \subseteq Nat
  OBVIOUS
<1>2. PICK least \in Rest : \A i \in Rest : least <= i
  BY <1>1, LeastNumber
<1>3. least \in Nat /\ least # 0 /\ least <= N /\ least \notin T
  OBVIOUS
<1>4. least - 1 \in 0 .. N /\ least - 1 < N /\ ~(least <= least - 1)
  BY <1>3
<1>5. least - 1 \in T
  BY <1>2, <1>4
<1> QED
  BY <1>3, <1>4, <1>5

LEMMA JoinsExist ==
  ASSUME NEW pieces, NEW N \in Nat
  PROVE  \E join : Joins(pieces, N, join)
<1> DEFINE T == {n \in 0 .. N : \E join : Joins(pieces, n, join)}
<1>1. 0 \in T
  <2> DEFINE first == [i \in 1 .. 0 |-> <<>>]
  <2>1. \A i \in 1 .. 0 : FALSE
    OBVIOUS
  <2>2. Joins(pieces, 0, first)
    BY <2>1, Zenon DEF Joins
  <2>3. 0 \in 0 .. N
    OBVIOUS
  <2> QED
    BY <2>2, <2>3
<1>2. ASSUME NEW n \in 0 .. N, n \in T, n < N PROVE n + 1 \in T
  <2>1. PICK join : Joins(pieces, n, join)
    BY <1>2
  <2>2. \A i \in 1 .. n : join[i] = IF i = 1 THEN pieces[i] ELSE join[i - 1] \o pieces[i]
    BY <2>1, Zenon DEF Joins
  <2> DEFINE Value(i) == IF i = 1 THEN pieces[i] ELSE join[i - 1] \o pieces[i]
             next == [i \in 1 .. n + 1 |-> IF i = n + 1 THEN Value(i) ELSE join[i]]
  <2>3. \A i \in 1 .. n + 1 :
          next[i] = IF i = 1 THEN pieces[i] ELSE next[i - 1] \o pieces[i]
    <3> SUFFICES ASSUME NEW i \in 1 .. n + 1
                 PROVE  next[i] = IF i = 1 THEN pieces[i] ELSE next[i - 1] \o pieces[i]
      OBVIOUS
    <3>1. CASE i = 1
      <4>1. next[i] = pieces[i]
        BY <2>2, <3>1
      <4> QED
        BY <3>1, <4>1
    <3>2. CASE i # 1
      <4>1. i - 1 \in 1 .. n + 1 /\ i - 1 # n + 1 /\ (i # n + 1 => i \in 1 .. n)
        BY <3>2
      <4>2. next[i - 1] = join[i - 1]
        BY <4>1
      <4>3. next[i] = join[i - 1] \o pieces[i]
        <5>1. CASE i = n + 1
          BY <3>2, <5>1
        <5>2. CASE i # n + 1
          <6>1. next[i] = join[i]
            BY <5>2
          <6> HIDE DEF next
          <6> QED
            BY <2>2, <3>2, <4>1, <5>2, <6>1
        <5> QED
          BY <5>1, <5>2
      <4> HIDE DEF next
      <4> QED
        BY <3>2, <4>2, <4>3
    <3> QED
      BY <3>1, <3>2
  <2>4. next = [i \in 1 .. n + 1 |-> next[i]]
    <3>1. \A Dom : \A F : F = [i \in Dom |-> IF i = n + 1 THEN Value(i) ELSE join[i]]
             => F = [i \in Dom |-> F[i]]
      BY Zenon
    <3> QED
      BY <3>1, Zenon
  <2> HIDE DEF next
  <2>5. Joins(pieces, n + 1, next)
    BY <2>3, <2>4, Zenon DEF Joins
  <2>6. n + 1 \in 0 .. N
    BY <1>2
  <2> QED
    BY <2>5, <2>6
<1>3. N \in T
  <2> HIDE DEF T
  <2>1. \A n \in 0 .. N : n \in T /\ n < N => n + 1 \in T
    BY <1>2
  <2>2. 0 .. N \subseteq T
    BY <1>1, <2>1, Counting
  <2> QED
    BY <2>2
<1> QED
  BY <1>3

LEMMA FlattenIs ==
  ASSUME NEW pieces, NEW N \in Nat, Len(pieces) = N, N # 0
  PROVE  \E join : Joins(pieces, N, join) /\ FlattenSeq(pieces) = join[N]
<1> DEFINE flat == CHOOSE join : Joins(pieces, N, join)
<1>1. Joins(pieces, N, flat)
  BY JoinsExist
<1>2. FlattenSeq(pieces) = flat[N]
  BY DEF FlattenSeq, Joins
<1> QED
  BY <1>1, <1>2

LEMMA FlattenType ==
  ASSUME NEW T, NEW pieces \in Seq(Seq(T))
  PROVE  FlattenSeq(pieces) \in Seq(T)
<1> DEFINE N == Len(pieces)
<1>1. N \in Nat /\ \A i \in 1 .. N : pieces[i] \in Seq(T)
  OBVIOUS
<1>2. CASE N = 0
  BY <1>2 DEF FlattenSeq
<1>3. CASE N # 0
  <2>1. PICK flat : Joins(pieces, N, flat) /\ FlattenSeq(pieces) = flat[N]
    BY <1>1, <1>3, FlattenIs
  <2>2. \A i \in 1 .. N : flat[i] = IF i = 1 THEN pieces[i] ELSE flat[i - 1] \o pieces[i]
    BY <2>1, Zenon DEF Joins
  <2> DEFINE D == {i \in 0 .. N : i = 0 \/ flat[i] \in Seq(T)}
  <2>3. \A i \in 0 .. N : i \in D /\ i < N => i + 1 \in D
    <3> SUFFICES ASSUME NEW i \in 0 .. N, i \in D, i < N PROVE i + 1 \in D
      OBVIOUS
    <3>1. i + 1 \in 1 .. N /\ i + 1 \in 0 .. N /\ (i + 1) - 1 = i
      BY <1>1
    <3>2. CASE i = 0
      <4>1. flat[i + 1] = pieces[i + 1]
        BY <2>2, <3>1, <3>2
      <4> QED
        BY <1>1, <3>1, <4>1
    <3>3. CASE i # 0
      <4>1. flat[i + 1] = flat[i] \o pieces[i + 1]
        <5>1. i + 1 # 1
          BY <3>3
        <5>2. flat[i + 1] = flat[(i + 1) - 1] \o pieces[i + 1]
          BY <2>2, <3>1, <5>1
        <5> QED
          BY <3>1, <5>2
      <4>2. flat[i] \in Seq(T) /\ pieces[i + 1] \in Seq(T)
        BY <1>1, <3>1, <3>3
      <4>3. flat[i] \o pieces[i + 1] \in Seq(T)
        BY <4>2
      <4> QED
        BY <3>1, <4>1, <4>3
    <3> QED
      BY <3>2, <3>3
  <2>4. 0 .. N \subseteq D
    <3>1. 0 \in D
      BY <1>1
    <3> HIDE DEF D
    <3> QED
      BY <1>1, <2>3, <3>1, Counting
  <2>5. N \in 0 .. N
    BY <1>1
  <2> QED
    BY <1>3, <2>1, <2>4, <2>5
<1> QED
  BY <1>2, <1>3

-----------------------------------------------------------------------------
(* The runtimes' lists of applications, and the streams.                   *)

LEMMA ApplicationTypes ==
  /\ NoApplication \notin Applications
  /\ \A x \in Applications : /\ x.end \in Ends /\ x.session \in Nat /\ x.sequence \in Nat
                             /\ x.text \in Texts
  /\ NoApplications \in Lists /\ Listed(NoApplications) = {}
  /\ NoApplications.pending = NoApplication /\ NoApplications.queued = <<>>
<1>1. <<>> \notin Ends
  <2>1. \A e \in Ends : Len(e) = 2
    BY DEF Ends
  <2> QED
    BY <2>1
<1>2. NoApplication \notin Applications
  BY <1>1 DEF NoApplication, Application, Applications
<1>3. \A x \in Applications : /\ x.end \in Ends /\ x.session \in Nat /\ x.sequence \in Nat
                              /\ x.text \in Texts
  BY DEF Applications
<1>4. NoApplications \in Lists /\ Listed(NoApplications) = {}
  BY EmptyQueue DEF NoApplications, Lists, Listed
<1> QED
  BY <1>2, <1>3, <1>4 DEF NoApplications

LEMMA ListTypes ==
  ASSUME NEW list \in Lists
  PROVE  /\ list.queued \in Seq(Applications)
         /\ Listed(list) \subseteq Applications
         /\ list.pending # NoApplication =>
              list.pending \in Applications /\ list.pending \in Listed(list)
<1>1. list.queued \in Seq(Applications) /\ list.pending \in Applications \cup {NoApplication}
  BY DEF Lists
<1>2. Entries(list.queued) \subseteq Applications
  BY <1>1 DEF Entries
<1> QED
  BY <1>1, <1>2 DEF Listed

(* start_next_clipboard_application leaves the list, starts the first in   *)
(* the queue, or ends the runtime for want of a service.                   *)
LEMMA StartEffect ==
  ASSUME NEW n \in Nodes, NEW list \in Lists, StartNext(n, list),
         applications \in [Nodes -> Lists], commands \in [Nodes -> Seq(Applications)],
         ended \in [Nodes -> BOOLEAN]
  PROVE  /\ applications' \in [Nodes -> Lists] /\ commands' \in [Nodes -> Seq(Applications)]
         /\ ended' \in [Nodes -> BOOLEAN]
         /\ \A m \in Nodes \ {n} : /\ applications'[m] = applications[m]
                                   /\ commands'[m] = commands[m] /\ ended'[m] = ended[m]
         /\ Listed(applications'[n]) \subseteq Listed(list) \cup Listed(applications[n])
         /\ \/ /\ list.pending # NoApplication \/ list.queued = <<>>
               /\ applications'[n] = list /\ commands' = commands /\ ended' = ended
            \/ /\ list.pending = NoApplication /\ list.queued # <<>> /\ service[n]
               /\ applications'[n].pending \in Listed(list)
               /\ applications'[n].pending \in Applications
               /\ Entries(applications'[n].queued) \subseteq Entries(list.queued)
               /\ commands'[n] = Append(commands[n], applications'[n].pending)
               /\ ended' = ended
            \/ /\ list.pending = NoApplication /\ list.queued # <<>> /\ ~service[n]
               /\ applications' = applications /\ commands' = commands /\ ended'[n] = TRUE
<1>1. CASE /\ list.pending # NoApplication \/ list.queued = <<>>
           /\ applications' = [applications EXCEPT ![n] = list]
           /\ UNCHANGED <<commands, ended>>
  <2>1. applications'[n] = list
    BY <1>1
  <2> QED
    BY <1>1, <2>1
<1>2. CASE /\ list.pending = NoApplication /\ list.queued # <<>> /\ service[n]
           /\ applications' = [applications EXCEPT ![n] =
                                 [pending |-> Head(list.queued), queued |-> Tail(list.queued)]]
           /\ commands' = [commands EXCEPT ![n] = Append(@, Head(list.queued))]
           /\ UNCHANGED ended
  <2> DEFINE first == Head(list.queued)
             rest == Tail(list.queued)
             new == [pending |-> first, queued |-> rest]
  <2>1. list.queued \in Seq(Applications)
    BY ListTypes
  <2>2. /\ rest \in Seq(Applications) /\ first \in Applications
        /\ Entries(list.queued) = Entries(rest) \cup {first}
    BY <1>2, <2>1, TailQueue
  <2> HIDE DEF first, rest
  <2>3. new \in Lists /\ new.pending = first /\ new.queued = rest
    BY <2>2 DEF Lists
  <2>4. Listed(new) \subseteq Listed(list) /\ first \in Listed(list)
    BY <2>2, <2>3 DEF Listed
  <2>5. applications' = [applications EXCEPT ![n] = new]
    BY <1>2 DEF first, rest
  <2>6. commands' = [commands EXCEPT ![n] = Append(@, first)]
    BY <1>2 DEF first
  <2>7. Append(commands[n], first) \in Seq(Applications)
    BY <2>2
  <2> HIDE DEF new
  <2> QED
    BY <1>2, <2>2, <2>3, <2>4, <2>5, <2>6, <2>7, ZenonT(120)
<1>3. CASE /\ list.pending = NoApplication /\ list.queued # <<>> /\ ~service[n]
           /\ EndRuntime(n)
  BY <1>3 DEF EndRuntime
<1> QED
  BY <1>1, <1>2, <1>3 DEF StartNext

LEMMA PutEffect ==
  ASSUME NEW T, NEW streams \in [Ends -> [Sessions -> Seq(T)]], NEW e \in Ends, NEW m \in T
  PROVE  /\ Put(streams, e, m) \in [Ends -> [Sessions -> Seq(T)]]
         /\ \A f \in Ends, s \in Sessions :
              Entries(Put(streams, e, m)[f][s]) \subseteq Entries(streams[f][s]) \cup {m}
<1> DEFINE queue == Append(streams[e][inUse[e]], m)
           row == [streams[e] EXCEPT ![inUse[e]] = queue]
<1>1. Put(streams, e, m) = [streams EXCEPT ![e] = row]
  BY DEF Put
<1>2. ASSUME inUse[e] \in Sessions
      PROVE  queue \in Seq(T) /\ Entries(queue) = Entries(streams[e][inUse[e]]) \cup {m}
  BY <1>2, AppendQueue
<1> HIDE DEF queue
<1>3. /\ row \in [Sessions -> Seq(T)]
      /\ \A s \in Sessions : Entries(row[s]) \subseteq Entries(streams[e][s]) \cup {m}
  BY <1>2
<1> HIDE DEF row
<1> QED
  BY <1>1, <1>3

LEMMA TakenEffect ==
  ASSUME NEW T, NEW streams \in [Ends -> [Sessions -> Seq(T)]], NEW e \in Ends,
         inUse[e] \in Sessions \cup {NoSession}, Arriving(streams, e) # <<>>
  PROVE  /\ inUse[e] \in Sessions /\ inUse[e] # NoSession
         /\ Arriving(streams, e) = streams[Opposite(e)][inUse[e]]
         /\ Arriving(streams, e) \in Seq(T)
         /\ Head(Arriving(streams, e)) \in T
         /\ Head(Arriving(streams, e)) \in Entries(streams[Opposite(e)][inUse[e]])
         /\ Taken(streams, e) \in [Ends -> [Sessions -> Seq(T)]]
         /\ \A f \in Ends, s \in Sessions : Entries(Taken(streams, e)[f][s]) \subseteq Entries(streams[f][s])
<1>1. inUse[e] \in Sessions /\ Arriving(streams, e) = streams[Opposite(e)][inUse[e]]
  BY DEF Arriving
<1> DEFINE queue == streams[Opposite(e)][inUse[e]]
           rest == Tail(queue)
           row == [streams[Opposite(e)] EXCEPT ![inUse[e]] = rest]
<1>2. queue \in Seq(T) /\ queue # <<>> /\ Opposite(e) \in Ends
  BY <1>1, EndFacts
<1>3. rest \in Seq(T) /\ Head(queue) \in T /\ Entries(queue) = Entries(rest) \cup {Head(queue)}
  BY <1>2, TailQueue
<1>4. Taken(streams, e) = [streams EXCEPT ![Opposite(e)] = row]
  BY DEF Taken
<1> HIDE DEF rest
<1>5. /\ row \in [Sessions -> Seq(T)]
      /\ \A s \in Sessions : Entries(row[s]) \subseteq Entries(streams[Opposite(e)][s])
  BY <1>1, <1>2, <1>3
<1> HIDE DEF row
<1>6. /\ Taken(streams, e) \in [Ends -> [Sessions -> Seq(T)]]
      /\ \A f \in Ends, s \in Sessions : Entries(Taken(streams, e)[f][s]) \subseteq Entries(streams[f][s])
  BY <1>2, <1>4, <1>5
<1>7. inUse[e] # NoSession
  BY <1>1 DEF Sessions, NoSession
<1> QED
  BY <1>1, <1>2, <1>3, <1>6, <1>7

LEMMA CutEffect ==
  ASSUME NEW T, NEW streams \in [Ends -> [Sessions -> Seq(T)]], NEW a \in Agents,
         NEW s \in Sessions, NEW kept \in KeptOf(streams, a, s), NEW last \in T
  PROVE  /\ Cut(streams, a, s, kept, last) \in [Ends -> [Sessions -> Seq(T)]]
         /\ \A f \in Ends, t \in Sessions :
              Entries(Cut(streams, a, s, kept, last)[f][t]) \subseteq Entries(streams[f][t]) \cup {last}
<1> DEFINE d == <<a, Local>>
           e == <<Local, a>>
           up == Append(kept[1], last)
           down == Append(kept[2], last)
           upRow == [streams[d] EXCEPT ![s] = up]
           downRow == [streams[e] EXCEPT ![s] = down]
<1>1. d \in Ends /\ e \in Ends /\ d # e
  BY AgentEnds
<1>2. streams[d][s] \in Seq(T) /\ streams[e][s] \in Seq(T)
  BY <1>1
<1>3. kept[1] \in Prefixes(streams[d][s]) /\ kept[2] \in Prefixes(streams[e][s])
  BY DEF KeptOf
<1>4. /\ kept[1] \in Seq(T) /\ Entries(kept[1]) \subseteq Entries(streams[d][s])
      /\ kept[2] \in Seq(T) /\ Entries(kept[2]) \subseteq Entries(streams[e][s])
  <2> HIDE DEF d, e
  <2> QED
    BY <1>2, <1>3, PrefixOf
<1>5. /\ up \in Seq(T) /\ Entries(up) \subseteq Entries(streams[d][s]) \cup {last}
      /\ down \in Seq(T) /\ Entries(down) \subseteq Entries(streams[e][s]) \cup {last}
  <2>1. ASSUME NEW q \in Seq(T)
        PROVE  Append(q, last) \in Seq(T) /\ Entries(Append(q, last)) = Entries(q) \cup {last}
    BY AppendQueue
  <2> HIDE DEF d, e
  <2> QED
    BY <1>4, <2>1
<1>6. Cut(streams, a, s, kept, last) = [streams EXCEPT ![d] = upRow, ![e] = downRow]
  BY <1>1 DEF Cut
<1> HIDE DEF up, down, d, e
<1>7. /\ upRow \in [Sessions -> Seq(T)] /\ downRow \in [Sessions -> Seq(T)]
      /\ \A t \in Sessions : /\ Entries(upRow[t]) \subseteq Entries(streams[d][t]) \cup {last}
                             /\ Entries(downRow[t]) \subseteq Entries(streams[e][t]) \cup {last}
  BY <1>1, <1>5
<1> HIDE DEF upRow, downRow
<1> QED
  BY <1>1, <1>6, <1>7

-----------------------------------------------------------------------------
(* Every step keeps the types.                                             *)

LEMMA StartedFacts ==
  ASSUME ConnectionType, NEW e \in Ends
  PROVE  /\ Started(e) \in Nat /\ Started(e) <= opened[AgentOf(e)]
         /\ Started(e) <= MaxSessions /\ MaxSessions \in Nat
<1>1. AgentOf(e) \in Agents /\ (Node(e) = Local => e[2] = AgentOf(e))
      /\ (Node(e) # Local => e[1] = AgentOf(e))
  BY EndFacts
<1>2. MaxSessions \in Nat
  BY ClipboardPathAssumption
<1>3. /\ opened[AgentOf(e)] \in Nat /\ accepted[AgentOf(e)] \in Nat
      /\ accepted[AgentOf(e)] <= opened[AgentOf(e)] /\ opened[AgentOf(e)] <= MaxSessions
  BY <1>1 DEF ConnectionType
<1> QED
  BY <1>1, <1>2, <1>3 DEF Started

LEMMA InUseFacts ==
  ASSUME ConnectionType, RuntimeType, NEW e \in Ends
  PROVE  inUse[e] \in Sessions \cup {NoSession}
<1>1. inUse[e] \in Nat /\ inUse[e] <= Started(e)
  BY DEF ConnectionType, RuntimeType
<1> QED
  BY <1>1, StartedFacts DEF Sessions, NoSession

LEMMA SameStarted ==
  ASSUME UNCHANGED <<opened, accepted>>, NEW e
  PROVE  Started(e)' = Started(e)
BY DEF Started

LEMMA SameConnections ==
  ASSUME ConnectionType, UNCHANGED <<opened, accepted, inUse>>
  PROVE  ConnectionType'
BY SameStarted DEF ConnectionType

(* The work that is left is work there was, or for an end that has a       *)
(* connection.                                                             *)
LEMMA WorkKept ==
  ASSUME RuntimeType, ConnectionType, WorkType, UNCHANGED <<opened, accepted, inUse>>,
         \A e \in Ends : open'[e] => open[e],
         \A e \in Ends : actions'[e] = <<>> \/ actions[e] # <<>> \/ inUse[e] # NoSession,
         \A n \in Nodes : offering'[n].ends \subseteq offering[n].ends \cup Informed(n),
         \A n \in Nodes : \A x \in Listed(applications'[n]) :
           \/ x \in Listed(applications[n])
           \/ /\ x.end \in EndsOf(n) /\ x.session = inUse[x.end] /\ inUse[x.end] # NoSession
  PROVE  WorkType'
<1>1. ASSUME NEW e \in Ends, inUse'[e] = NoSession
      PROVE  ~open'[e] /\ actions'[e] = <<>> /\ e \notin offering'[Node(e)].ends
  <2>1. ~open[e] /\ actions[e] = <<>> /\ e \notin offering[Node(e)].ends
    BY <1>1 DEF WorkType
  <2>2. ~open'[e]
    BY <2>1
  <2>3. Node(e) \in Nodes /\ e \notin Informed(Node(e))
    BY <2>1, EndFacts DEF Informed
  <2>4. offering'[Node(e)].ends \subseteq offering[Node(e)].ends \cup Informed(Node(e))
    BY <2>3
  <2> QED
    BY <1>1, <2>1, <2>2, <2>3, <2>4
<1>2. ASSUME NEW n \in Nodes PROVE offering'[n].ends \subseteq EndsOf(n)
  BY DEF WorkType, Informed
<1>3. ASSUME NEW n \in Nodes, NEW x \in Listed(applications'[n])
      PROVE  x.end \in EndsOf(n) /\ x.session \in 1 .. Started(x.end)'
  <2>1. Started(x.end)' = Started(x.end)
    BY SameStarted
  <2>2. CASE x \in Listed(applications[n])
    BY <2>1, <2>2 DEF WorkType
  <2>3. CASE /\ x.end \in EndsOf(n) /\ x.session = inUse[x.end] /\ inUse[x.end] # NoSession
    <3>1. x.end \in Ends
      BY <2>3 DEF EndsOf
    <3>2. inUse[x.end] \in Nat /\ inUse[x.end] <= Started(x.end) /\ Started(x.end) \in Nat
      BY <3>1, StartedFacts DEF RuntimeType, ConnectionType
    <3> QED
      BY <2>1, <2>3, <3>2 DEF NoSession
  <2> QED
    BY <1>3, <2>2, <2>3
<1> QED
  BY <1>1, <1>2, <1>3 DEF WorkType

LEMMA SendType == ASSUME PathType, NEW e \in Ends, Send(e) PROVE PathType'
<1> DEFINE n == Node(e)
           message == Head(actions[e])
<1>1. n \in Nodes
  BY EndFacts
<1>2. /\ S!TakeAction(e) /\ message.type # "ApplyRemote"
      /\ UNCHANGED <<inUse, open, offering, service, serviceVars, events, connectionVars>>
  BY DEF Send
<1>3. /\ SessionType' /\ OthersKept(e) /\ actions[e] # <<>> /\ message \in Returned
      /\ Head(actions[e]) \in Entries(actions[e])
  BY <1>2, TakeCall DEF PathType
<1>4. message \in Contents \cup Acknowledgements
  BY <1>2, <1>3, KindsDiffer DEF Returned
<1>5. StreamType'
  <2>1. CASE message.type = "SendTransfer" /\ transfers' = Put(transfers, e, message)
             /\ UNCHANGED control
    <3>1. message \in Contents \cup {ClipboardFailed}
      BY <1>4, <2>1, KindsDiffer
    <3>2. transfers' \in [Ends -> [Sessions -> Seq(Contents \cup {ClipboardFailed})]]
      BY <2>1, <3>1, PutEffect DEF PathType, StreamType
    <3> QED
      BY <2>1, <3>2 DEF PathType, StreamType
  <2>2. CASE control' = Put(control, e, message) /\ UNCHANGED transfers
    <3>1. message \in Contents \cup Acknowledgements \cup {Disconnected}
      BY <1>4
    <3>2. control' \in [Ends -> [Sessions -> Seq(Contents \cup Acknowledgements \cup {Disconnected})]]
      BY <2>2, <3>1, PutEffect DEF PathType, StreamType
    <3> QED
      BY <2>2, <3>2 DEF PathType, StreamType
  <2>3. CASE UNCHANGED streamVars
    BY <2>3 DEF PathType, StreamType, streamVars
  <2> QED
    BY <2>1, <2>2, <2>3 DEF Send
<1>6. /\ applications' \in [Nodes -> Lists] /\ commands' \in [Nodes -> Seq(Applications)]
      /\ ended' \in [Nodes -> BOOLEAN]
      /\ \A m \in Nodes : Listed(applications'[m]) \subseteq Listed(applications[m])
  <2>1. CASE StartNext(n, applications[n])
    BY <1>1, <2>1, StartEffect DEF PathType, RuntimeType, ServiceType
  <2>2. CASE UNCHANGED <<applications, commands, ended>>
    BY <2>2 DEF PathType, RuntimeType, ServiceType
  <2>3. CASE EndRuntime(n)
    BY <2>3 DEF PathType, RuntimeType, ServiceType, EndRuntime
  <2> QED
    BY <2>1, <2>2, <2>3 DEF Send
<1>7. RuntimeType' /\ ServiceType'
  BY <1>2, <1>6 DEF PathType, RuntimeType, ServiceType, serviceVars
<1>8. ConnectionType'
  BY <1>2, SameConnections DEF PathType, connectionVars
<1>9. WorkType'
  <2>1. \A f \in Ends : actions'[f] = <<>> \/ actions[f] # <<>>
    BY <1>3 DEF OthersKept
  <2> QED
    BY <1>2, <1>6, <2>1, WorkKept DEF PathType, connectionVars
<1> QED
  BY <1>3, <1>5, <1>7, <1>8, <1>9 DEF PathType

LEMMA QueueApplicationType == ASSUME PathType, NEW e \in Ends, QueueApplication(e) PROVE PathType'
<1> DEFINE n == Node(e)
           action == Head(actions[e])
           application == Application(e, inUse[e], action.sequence, action.text)
           list == [applications[n] EXCEPT !.queued = Append(@, application)]
<1>1. n \in Nodes /\ e \in EndsOf(n)
  BY EndFacts
<1>2. /\ S!TakeAction(e) /\ action.type = "ApplyRemote" /\ StartNext(n, list)
      /\ UNCHANGED <<inUse, open, offering, service, serviceVars, events, connectionVars,
                     streamVars>>
  BY DEF QueueApplication
<1>3. SessionType' /\ OthersKept(e) /\ actions[e] # <<>> /\ action \in Returned
  BY <1>2, TakeCall DEF PathType
<1>4. action \in Applies /\ action.sequence \in Nat /\ action.text \in Texts
  BY <1>2, <1>3, KindsDiffer DEF Returned
<1>5. /\ application \in Applications /\ application.end = e /\ application.session = inUse[e]
  BY <1>4 DEF Application, Applications, PathType, RuntimeType
<1> HIDE DEF application
<1>6. list \in Lists /\ Listed(list) = Listed(applications[n]) \cup {application}
  <2>1. applications[n] \in Lists /\ applications[n].queued \in Seq(Applications)
    BY <1>1, ListTypes DEF PathType, RuntimeType
  <2>2. /\ Append(applications[n].queued, application) \in Seq(Applications)
        /\ Entries(Append(applications[n].queued, application))
             = Entries(applications[n].queued) \cup {application}
    BY <1>5, <2>1, AppendQueue
  <2>3. list \in Lists /\ list.pending = applications[n].pending
        /\ list.queued = Append(applications[n].queued, application)
    BY <2>1, <2>2 DEF Lists
  <2> QED
    BY <2>2, <2>3 DEF Listed
<1> HIDE DEF list
<1>7. /\ applications' \in [Nodes -> Lists] /\ commands' \in [Nodes -> Seq(Applications)]
      /\ ended' \in [Nodes -> BOOLEAN]
      /\ \A m \in Nodes : Listed(applications'[m]) \subseteq
                            Listed(applications[m]) \cup (IF m = n THEN {application} ELSE {})
  BY <1>1, <1>2, <1>6, StartEffect DEF PathType, RuntimeType, ServiceType
<1>8. RuntimeType' /\ ServiceType'
  BY <1>2, <1>7 DEF PathType, RuntimeType, ServiceType, serviceVars
<1>9. ConnectionType' /\ StreamType'
  BY <1>2, SameConnections DEF PathType, connectionVars, streamVars, StreamType
<1>10. WorkType'
  <2>1. \A f \in Ends : actions'[f] = <<>> \/ actions[f] # <<>>
    BY <1>3 DEF OthersKept
  <2>2. inUse[e] # NoSession
    BY <1>3 DEF PathType, WorkType
  <2>3. ASSUME NEW m \in Nodes, NEW x \in Listed(applications'[m])
        PROVE  \/ x \in Listed(applications[m])
               \/ x.end \in EndsOf(m) /\ x.session = inUse[x.end] /\ inUse[x.end] # NoSession
    BY <1>1, <1>5, <1>7, <2>2
  <2> QED
    BY <1>2, <2>1, <2>3, WorkKept DEF PathType, connectionVars
<1> QED
  BY <1>3, <1>8, <1>9, <1>10 DEF PathType

LEMMA EventTypes ==
  /\ Applied \in NativeEvents /\ Failed \in NativeEvents
  /\ Applied.type = "Applied" /\ Failed.type = "Failed" /\ Applied # Failed
  /\ \A x \in NativeEvents : x.type = "Applied" => x = Applied
  /\ \A x \in NativeEvents : x.type = "Changed" => x.text \in Texts /\ x # Applied
  /\ \A text \in Texts : /\ Changed(text) \in NativeEvents /\ Changed(text) # Applied
                         /\ Changed(text).type = "Changed" /\ Changed(text).text = text
BY DEF NativeEvents, Applied, Failed, Changed

LEMMA NativeTaken ==
  ASSUME PathType, NEW n \in Nodes, NEW type, TakeNativeEvent(n, type)
  PROVE  /\ ~Ended(n) /\ offering[n].ends = {} /\ \A e \in EndsOf(n) : actions[e] = <<>>
         /\ events[n] \in Seq(NativeEvents) /\ events[n] # <<>>
         /\ Head(events[n]) \in NativeEvents /\ Head(events[n]).type = type
         /\ Tail(events[n]) \in Seq(NativeEvents)
BY TailQueue DEF TakeNativeEvent, Free, PathType, ServiceType

LEMMA NativeChangedType == ASSUME PathType, NEW n \in Nodes, NativeChanged(n) PROVE PathType'
<1>1. /\ events[n] \in Seq(NativeEvents) /\ Head(events[n]) \in NativeEvents
      /\ Head(events[n]).type = "Changed" /\ Tail(events[n]) \in Seq(NativeEvents)
  BY NativeTaken DEF NativeChanged
<1> DEFINE text == Head(events[n]).text
           told == [ends |-> Informed(n), text |-> text]
<1>2. text \in Texts /\ text \in Words
  BY <1>1, EventTypes, TextTypes
<1>3. /\ events' = [events EXCEPT ![n] = Tail(events[n])]
      /\ offering' = [offering EXCEPT ![n] = told]
      /\ UNCHANGED <<sessionVars, inUse, open, applications, ended, service, serviceVars,
                     commands, connectionVars, streamVars>>
  BY DEF NativeChanged
<1>4. Informed(n) \subseteq Ends
  BY DEF Informed, EndsOf
<1>5. /\ told \in [ends : SUBSET Ends, text : Words] /\ told.ends = Informed(n)
      /\ told.text = text
  BY <1>2, <1>4
<1> HIDE DEF text, told
<1>6. RuntimeType'
  BY <1>3, <1>5 DEF PathType, RuntimeType
<1>7. ServiceType'
  <2>1. \A m \in Nodes : offering'[m].ends # {} => offering'[m].text \in Texts
    BY <1>2, <1>3, <1>5 DEF PathType, RuntimeType, ServiceType
  <2> QED
    BY <1>1, <1>3, <2>1 DEF PathType, ServiceType, serviceVars
<1>8. SessionType' /\ ConnectionType' /\ StreamType'
  BY <1>3, SameConnections DEF PathType, connectionVars, streamVars, StreamType, sessionVars,
                               SessionType
<1>9. WorkType'
  <2>1. \A m \in Nodes : offering'[m].ends \subseteq offering[m].ends \cup Informed(m)
    BY <1>3, <1>5 DEF PathType, RuntimeType
  <2>2. \A e \in Ends : actions'[e] = <<>> \/ actions[e] # <<>> \/ inUse[e] # NoSession
    BY <1>3 DEF sessionVars
  <2> QED
    BY <1>3, <2>1, <2>2, WorkKept DEF PathType, connectionVars
<1> QED
  BY <1>6, <1>7, <1>8, <1>9 DEF PathType

LEMMA OfferChangeType == ASSUME PathType, NEW e \in Ends, OfferChange(e) PROVE PathType'
<1> DEFINE n == Node(e)
           rest == offering[n].ends \ {e}
           left == IF rest = {} THEN NotOffering ELSE [offering[n] EXCEPT !.ends = rest]
<1>1. /\ n \in Nodes /\ offering[n] \in [ends : SUBSET Ends, text : Words]
      /\ offering[n].text \in Texts /\ e \in offering[n].ends
  <2>1. n \in Nodes
    BY EndFacts
  <2> QED
    BY <2>1 DEF OfferChange, PathType, RuntimeType, ServiceType
<1>2. /\ S!LocalChanged(e, offering[n].text)
      /\ offering' = [offering EXCEPT ![n] = left]
      /\ UNCHANGED <<inUse, open, applications, ended, service, serviceVars, commands, events,
                     connectionVars, streamVars>>
  BY DEF OfferChange
<1>3. SessionType' /\ OthersKept(e) /\ actions[e] = <<>>
  BY <1>1, <1>2, OfferCall DEF PathType
<1>4. /\ left \in [ends : SUBSET Ends, text : Words] /\ left.ends \subseteq offering[n].ends
      /\ left.ends # {} => left.text \in Texts
  <2>1. CASE rest = {}
    BY <2>1, TextTypes DEF NotOffering
  <2>2. CASE rest # {}
    <3>1. left = [offering[n] EXCEPT !.ends = rest]
      BY <2>2
    <3> HIDE DEF left
    <3> QED
      BY <1>1, <3>1
  <2> QED
    BY <2>1, <2>2
<1> HIDE DEF left
<1>5. RuntimeType'
  BY <1>2, <1>4 DEF PathType, RuntimeType
<1>6. ServiceType'
  <2>1. \A m \in Nodes : offering'[m].ends # {} => offering'[m].text \in Texts
    BY <1>2, <1>4 DEF PathType, RuntimeType, ServiceType
  <2> QED
    BY <1>2, <2>1 DEF PathType, ServiceType, serviceVars
<1>7. ConnectionType' /\ StreamType'
  BY <1>2, SameConnections DEF PathType, connectionVars, streamVars, StreamType
<1>8. WorkType'
  <2>1. \A m \in Nodes : offering'[m].ends \subseteq offering[m].ends \cup Informed(m)
    BY <1>2, <1>4 DEF PathType, RuntimeType
  <2>2. \A f \in Ends : actions'[f] = <<>> \/ actions[f] # <<>> \/ inUse[f] # NoSession
    BY <1>1, <1>3 DEF OthersKept, PathType, WorkType
  <2> QED
    BY <1>2, <2>1, <2>2, WorkKept DEF PathType, connectionVars
<1> QED
  BY <1>3, <1>5, <1>6, <1>7, <1>8 DEF PathType

LEMMA NativeAppliedType == ASSUME PathType, NEW n \in Nodes, NativeApplied(n) PROVE PathType'
<1> DEFINE list == applications[n]
           e == list.pending.end
           rest == [list EXCEPT !.pending = NoApplication]
<1>1. /\ TakeNativeEvent(n, "Applied")
      /\ events' = [events EXCEPT ![n] = Tail(@)]
      /\ UNCHANGED <<inUse, open, offering, service, serviceVars, connectionVars, streamVars>>
  BY DEF NativeApplied
<1>2. /\ list \in Lists /\ rest \in Lists /\ rest.pending = NoApplication
      /\ Listed(rest) \subseteq Listed(list)
  <2>1. list \in Lists
    BY DEF PathType, RuntimeType
  <2>2. rest \in Lists /\ rest.pending = NoApplication /\ rest.queued = list.queued
    <3> HIDE DEF list
    <3> QED
      BY <2>1 DEF Lists
  <2> HIDE DEF rest
  <2> QED
    BY <2>1, <2>2 DEF Listed
<1>3. /\ SessionType'
      /\ \A f \in Ends : actions'[f] = <<>> \/ actions[f] # <<>> \/ inUse[f] # NoSession
      /\ applications' \in [Nodes -> Lists] /\ commands' \in [Nodes -> Seq(Applications)]
      /\ ended' \in [Nodes -> BOOLEAN]
      /\ \A m \in Nodes : Listed(applications'[m]) \subseteq Listed(applications[m])
  <2>1. CASE EndRuntime(n) /\ UNCHANGED sessionVars
    BY <2>1 DEF EndRuntime, PathType, SessionType, RuntimeType, ServiceType, sessionVars
  <2>2. CASE StartNext(n, rest) /\ UNCHANGED sessionVars
    <3> HIDE DEF rest
    <3>1. /\ applications' \in [Nodes -> Lists] /\ commands' \in [Nodes -> Seq(Applications)]
          /\ ended' \in [Nodes -> BOOLEAN]
          /\ \A m \in Nodes : Listed(applications'[m]) \subseteq Listed(applications[m])
      BY <1>2, <2>2, StartEffect DEF PathType, RuntimeType, ServiceType
    <3> QED
      BY <2>2, <3>1 DEF PathType, SessionType, sessionVars
  <2>3. CASE /\ list.pending # NoApplication /\ open[e]
             /\ S!ConfirmApplied(e, e[2], list.pending.sequence)
             /\ applications' = [applications EXCEPT ![n] = rest]
             /\ UNCHANGED <<commands, ended>>
    <3>1. e \in Ends /\ list.pending.sequence \in Nat
      BY <1>2, <2>3, ListTypes, ApplicationTypes
    <3>2. SessionType' /\ OthersKept(e)
      <4> HIDE DEF e, list
      <4> QED
        BY <2>3, <3>1, ConfirmCall DEF PathType
    <3>3. inUse[e] # NoSession
      BY <2>3, <3>1 DEF PathType, WorkType
    <3>4. \A f \in Ends : actions'[f] = <<>> \/ actions[f] # <<>> \/ inUse[f] # NoSession
      BY <3>2, <3>3 DEF OthersKept
    <3> HIDE DEF rest
    <3> QED
      BY <1>2, <2>3, <3>2, <3>4 DEF PathType, RuntimeType, ServiceType
  <2> QED
    BY <2>1, <2>2, <2>3 DEF NativeApplied
<1>4. Tail(events[n]) \in Seq(NativeEvents)
  BY <1>1, NativeTaken
<1>5. RuntimeType' /\ ServiceType'
  BY <1>1, <1>3, <1>4 DEF PathType, RuntimeType, ServiceType, serviceVars
<1>6. ConnectionType' /\ StreamType'
  BY <1>1, SameConnections DEF PathType, connectionVars, streamVars, StreamType
<1>7. WorkType'
  BY <1>1, <1>3, WorkKept DEF PathType, connectionVars
<1> QED
  BY <1>3, <1>5, <1>6, <1>7 DEF PathType

LEMMA NativeFailedType == ASSUME PathType, NEW n \in Nodes, NativeFailed(n) PROVE PathType'
<1>1. /\ TakeNativeEvent(n, "Failed")
      /\ applications' = [applications EXCEPT ![n] = NoApplications]
      /\ UNCHANGED <<sessionVars, inUse, offering, ended, serviceVars, commands,
                     connectionVars, streamVars>>
  BY DEF NativeFailed
<1>2. events[n] \in Seq(NativeEvents) /\ Tail(events[n]) \in Seq(NativeEvents)
  BY <1>1, NativeTaken
<1>3. /\ service' \in [Nodes -> BOOLEAN] /\ open' \in [Ends -> BOOLEAN]
      /\ events' \in [Nodes -> Seq(NativeEvents)] /\ \A e \in Ends : open'[e] => open[e]
  <2>1. CASE /\ service' = [service EXCEPT ![n] = FALSE]
             /\ \E kept \in Prefixes(Tail(events[n])) : events' = [events EXCEPT ![n] = kept]
             /\ UNCHANGED open
    <3>1. PICK kept \in Prefixes(Tail(events[n])) : events' = [events EXCEPT ![n] = kept]
      BY <2>1
    <3>2. kept \in Seq(NativeEvents)
      BY <1>2, PrefixOf
    <3> QED
      BY <2>1, <3>1, <3>2 DEF PathType, RuntimeType, ServiceType
  <2>2. CASE /\ open' = [e \in Ends |-> open[e] /\ Node(e) # n]
             /\ events' = [events EXCEPT ![n] = Tail(@)]
             /\ UNCHANGED service
    BY <1>2, <2>2 DEF PathType, RuntimeType, ServiceType
  <2> QED
    BY <2>1, <2>2 DEF NativeFailed
<1>4. /\ applications' \in [Nodes -> Lists]
      /\ \A m \in Nodes : Listed(applications'[m]) \subseteq Listed(applications[m])
  BY <1>1, ApplicationTypes DEF PathType, RuntimeType
<1>5. RuntimeType' /\ ServiceType' /\ SessionType'
  BY <1>1, <1>3, <1>4 DEF PathType, RuntimeType, ServiceType, SessionType, serviceVars, sessionVars
<1>6. ConnectionType' /\ StreamType'
  BY <1>1, SameConnections DEF PathType, connectionVars, streamVars, StreamType
<1>7. WorkType'
  BY <1>1, <1>3, <1>4, WorkKept DEF PathType, connectionVars, sessionVars
<1> QED
  BY <1>5, <1>6, <1>7 DEF PathType

LEMMA TakeControlType == ASSUME PathType, NEW e \in Ends, TakeControl(e) PROVE PathType'
<1> DEFINE n == Node(e)
           message == Head(Arriving(control, e))
<1>1. n \in Nodes /\ e = <<e[1], e[2]>>
  BY EndFacts DEF Node, Ends
<1>2. /\ Arriving(control, e) # <<>> /\ control' = Taken(control, e)
      /\ UNCHANGED <<offering, service, serviceVars, events, connectionVars, transfers>>
      /\ \A f \in EndsOf(n) : actions[f] = <<>>
      /\ offering[n].ends = {}
  BY DEF TakeControl, Free
<1>3. inUse[e] \in Sessions \cup {NoSession}
  BY InUseFacts DEF PathType
<1>4. /\ message \in Contents \cup Acknowledgements \cup {Disconnected}
      /\ control' \in [Ends -> [Sessions -> Seq(Contents \cup Acknowledgements \cup {Disconnected})]]
      /\ inUse[e] # NoSession
  <2> DEFINE T == Contents \cup Acknowledgements \cup {Disconnected}
  <2>1. control \in [Ends -> [Sessions -> Seq(T)]]
    BY DEF PathType, StreamType
  <2> HIDE DEF T
  <2>2. ASSUME NEW streams \in [Ends -> [Sessions -> Seq(T)]], Arriving(streams, e) # <<>>
        PROVE  /\ Head(Arriving(streams, e)) \in T /\ inUse[e] # NoSession
               /\ Taken(streams, e) \in [Ends -> [Sessions -> Seq(T)]]
    BY <1>3, <2>2, TakenEffect
  <2>3. /\ Head(Arriving(control, e)) \in T /\ inUse[e] # NoSession
        /\ Taken(control, e) \in [Ends -> [Sessions -> Seq(T)]]
    BY <1>2, <2>1, <2>2
  <2> QED
    BY <1>2, <2>2, <2>3 DEF T
<1>5. StreamType'
  BY <1>2, <1>4 DEF PathType, StreamType
<1>6. CASE /\ message = Disconnected
           /\ inUse' = [inUse EXCEPT ![e] = NoSession] /\ open' = [open EXCEPT ![e] = FALSE]
           /\ UNCHANGED <<sessionVars, applications, commands, ended>>
  <2>1. SessionType' /\ RuntimeType' /\ ServiceType'
    BY <1>2, <1>6 DEF PathType, SessionType, RuntimeType, ServiceType, sessionVars, serviceVars,
                      NoSession
  <2>2. ConnectionType'
    <3>1. \A f \in Ends : Started(f)' = Started(f) /\ Started(f) \in Nat
      BY <1>2, SameStarted, StartedFacts DEF PathType, connectionVars
    <3>2. \A f \in Ends : inUse'[f] = inUse[f] \/ inUse'[f] = 0
      BY <1>6 DEF PathType, RuntimeType, NoSession
    <3>3. \A f \in Ends : inUse'[f] <= Started(f)'
      BY <3>1, <3>2 DEF PathType, ConnectionType
    <3> QED
      BY <1>2, <3>3 DEF PathType, ConnectionType, connectionVars
  <2>3. WorkType'
    <3>1. \A f \in Ends : Started(f)' = Started(f)
      BY <1>2, SameStarted DEF connectionVars
    <3>2. \A f \in Ends :
            inUse'[f] = NoSession =>
              ~open'[f] /\ actions'[f] = <<>> /\ f \notin offering'[Node(f)].ends
      <4>1. actions[e] = <<>> /\ e \notin offering[Node(e)].ends
        BY <1>2, EndFacts
      <4> QED
        BY <1>2, <1>6, <4>1 DEF PathType, WorkType, RuntimeType, sessionVars
    <3>3. \A m \in Nodes : \A x \in Listed(applications'[m]) :
            x.end \in EndsOf(m) /\ x.session \in 1 .. Started(x.end)'
      <4>1. \A m \in Nodes : \A x \in Listed(applications[m]) :
              /\ x.end \in EndsOf(m) /\ x.session \in 1 .. Started(x.end) /\ x.end \in Ends
        BY DEF PathType, WorkType, EndsOf
      <4> QED
        BY <1>6, <3>1, <4>1
    <3> QED
      BY <1>2, <1>6, <3>2, <3>3 DEF PathType, WorkType
  <2> QED
    BY <1>5, <2>1, <2>2, <2>3 DEF PathType
<1>7. CASE /\ message # Disconnected /\ UNCHANGED <<inUse, open>>
           /\ \/ EndRuntime(n) /\ UNCHANGED sessionVars
              \/ /\ open[e] /\ ReceiveControl(e, message)
                 /\ UNCHANGED <<applications, commands, ended>>
  <2>1. /\ SessionType'
        /\ \A f \in Ends : actions'[f] = <<>> \/ actions[f] # <<>> \/ inUse[f] # NoSession
    <3>1. CASE UNCHANGED sessionVars
      BY <3>1 DEF PathType, SessionType, sessionVars
    <3>2. CASE ReceiveControl(e, message)
      <4>1. CASE /\ message.type = "SendOffer"
                 /\ S!ReceiveOffer(e, e[2], message.sequence, message.text)
        <5>1. message \in Contents
          BY <1>4, <1>7, <4>1, KindsDiffer
        <5>2. message.sequence \in Nat /\ message.text \in Texts
          BY <5>1, KindsDiffer
        <5>3. S!ReceivePart(e, "offer", e[2], message.sequence, message.text)
          BY <4>1 DEF S!ReceiveOffer
        <5>4. "offer" \in S!Parts
          BY DEF S!Parts
        <5> HIDE DEF message
        <5>5. SessionType' /\ OthersKept(e)
          BY <5>2, <5>3, <5>4, PartCall DEF PathType
        <5> QED
          BY <1>4, <5>5 DEF OthersKept
      <4>2. CASE /\ message.type = "SendApplied"
                 /\ S!ReceiveAcknowledgement(e, e[1], message.sequence)
        <5>1. message.sequence \in Nat
          BY <1>4, <1>7, <4>2, KindsDiffer
        <5> HIDE DEF message
        <5>2. SessionType' /\ OthersKept(e)
          BY <4>2, <5>1, AcknowledgementCall DEF PathType
        <5> QED
          BY <1>4, <5>2 DEF OthersKept
      <4> QED
        BY <3>2, <4>1, <4>2 DEF ReceiveControl
    <3> QED
      BY <1>7, <3>1, <3>2
  <2>2. RuntimeType' /\ ServiceType'
    BY <1>1, <1>2, <1>7 DEF EndRuntime, PathType, RuntimeType, ServiceType, serviceVars
  <2>3. ConnectionType'
    BY <1>2, <1>7, SameConnections DEF PathType, connectionVars
  <2>4. WorkType'
    <3>1. applications' = applications
      BY <1>7 DEF EndRuntime
    <3> QED
      BY <1>2, <1>7, <2>1, <3>1, WorkKept DEF PathType, connectionVars
  <2> QED
    BY <1>5, <2>1, <2>2, <2>3, <2>4 DEF PathType
<1> QED
  BY <1>6, <1>7 DEF TakeControl

(* What is forgotten of a list is what was for e.                          *)
LEMMA WithoutPeerEffect ==
  ASSUME applications \in [Nodes -> Lists], NEW e \in Ends
  PROVE  /\ WithoutPeer(e) \in Lists
         /\ WithoutPeer(e).pending = applications[Node(e)].pending
         /\ Listed(WithoutPeer(e)) \subseteq Listed(applications[Node(e)])
<1> DEFINE list == applications[Node(e)]
           T == Entries(list.queued)
           Piece(i) == IF list.queued[i].end = e THEN <<>> ELSE <<list.queued[i]>>
           pieces == [i \in 1 .. Len(list.queued) |-> Piece(i)]
           kept == FlattenSeq(pieces)
<1>1. list \in Lists /\ list.queued \in Seq(Applications)
  BY EndFacts, ListTypes
<1>2. kept \in Seq(T)
  <2>1. ASSUME NEW i \in 1 .. Len(list.queued) PROVE Piece(i) \in Seq(T)
    <3>1. list.queued[i] \in T
      BY DEF Entries
    <3> HIDE DEF T
    <3>2. <<list.queued[i]>> \in Seq(T) /\ <<>> \in Seq(T)
      BY <3>1
    <3> QED
      BY <3>2
  <2> HIDE DEF Piece, T
  <2>2. pieces \in Seq(Seq(T))
    <3>1. Len(list.queued) \in Nat
      BY <1>1
    <3> QED
      BY <2>1, <3>1
  <2> HIDE DEF pieces
  <2> QED
    BY <2>2, FlattenType
<1>3. kept \in Seq(Applications) /\ Entries(kept) \subseteq T
  <2>1. T \subseteq Applications
    BY <1>1 DEF Entries
  <2> HIDE DEF T, kept
  <2> QED
    BY <1>2, <2>1 DEF Entries
<1> DEFINE new == [list EXCEPT !.queued = kept]
<1>4. WithoutPeer(e) = IF Node(e) = Local THEN new ELSE list
  BY DEF WithoutPeer
<1> HIDE DEF kept
<1>5. new \in Lists /\ new.pending = list.pending /\ new.queued = kept
  BY <1>1, <1>3 DEF Lists
<1>6. Listed(new) \subseteq Listed(list)
  BY <1>3, <1>5 DEF Listed
<1> HIDE DEF new
<1> QED
  BY <1>1, <1>4, <1>5, <1>6

LEMMA TransferTaken ==
  ASSUME PathType, NEW e \in Ends, Arriving(transfers, e) # <<>>
  PROVE  /\ inUse[e] \in Sessions /\ inUse[e] # NoSession
         /\ Head(Arriving(transfers, e)) \in Contents \cup {ClipboardFailed}
         /\ Head(Arriving(transfers, e)) \in Entries(transfers[Opposite(e)][inUse[e]])
         /\ Taken(transfers, e) \in [Ends -> [Sessions -> Seq(Contents \cup {ClipboardFailed})]]
         /\ \A f \in Ends, s \in Sessions :
              Entries(Taken(transfers, e)[f][s]) \subseteq Entries(transfers[f][s])
<1> DEFINE T == Contents \cup {ClipboardFailed}
<1>1. transfers \in [Ends -> [Sessions -> Seq(T)]] /\ inUse[e] \in Sessions \cup {NoSession}
  BY InUseFacts DEF PathType, StreamType
<1> HIDE DEF T
<1>2. ASSUME NEW streams \in [Ends -> [Sessions -> Seq(T)]], Arriving(streams, e) # <<>>
      PROVE  /\ inUse[e] \in Sessions /\ inUse[e] # NoSession
             /\ Head(Arriving(streams, e)) \in T
             /\ Head(Arriving(streams, e)) \in Entries(streams[Opposite(e)][inUse[e]])
             /\ Taken(streams, e) \in [Ends -> [Sessions -> Seq(T)]]
             /\ \A f \in Ends, s \in Sessions :
                  Entries(Taken(streams, e)[f][s]) \subseteq Entries(streams[f][s])
  BY <1>1, <1>2, TakenEffect
<1> QED
  BY <1>1, <1>2 DEF T

LEMMA TakeTransferType == ASSUME PathType, NEW e \in Ends, TakeTransfer(e) PROVE PathType'
<1> DEFINE n == Node(e)
           message == Head(Arriving(transfers, e))
<1>1. n \in Nodes
  BY EndFacts
<1>2. /\ Arriving(transfers, e) # <<>> /\ transfers' = Taken(transfers, e)
      /\ UNCHANGED <<inUse, offering, service, serviceVars, events, connectionVars, control>>
  BY DEF TakeTransfer
<1>3. /\ message \in Contents \cup {ClipboardFailed} /\ inUse[e] # NoSession
      /\ transfers' \in [Ends -> [Sessions -> Seq(Contents \cup {ClipboardFailed})]]
  BY <1>2, TransferTaken
<1>4. StreamType' /\ ConnectionType'
  BY <1>2, <1>3, SameConnections DEF PathType, StreamType, connectionVars
<1>5. /\ SessionType'
      /\ \A f \in Ends : actions'[f] = <<>> \/ actions[f] # <<>> \/ inUse[f] # NoSession
      /\ open' \in [Ends -> BOOLEAN] /\ \A f \in Ends : open'[f] => open[f]
      /\ applications' \in [Nodes -> Lists] /\ commands' = commands
      /\ ended' \in [Nodes -> BOOLEAN]
      /\ \A m \in Nodes : Listed(applications'[m]) \subseteq Listed(applications[m])
  <2>1. CASE /\ open' = [open EXCEPT ![e] = FALSE]
             /\ applications' = [applications EXCEPT ![n] = WithoutPeer(e)]
             /\ UNCHANGED <<sessionVars, commands, ended>>
    <3>1. /\ WithoutPeer(e) \in Lists
          /\ Listed(WithoutPeer(e)) \subseteq Listed(applications[n])
      BY WithoutPeerEffect DEF PathType, RuntimeType
    <3> QED
      BY <1>1, <2>1, <3>1 DEF PathType, SessionType, RuntimeType, sessionVars
  <2>2. CASE EndRuntime(n) /\ UNCHANGED <<sessionVars, open>>
    BY <1>1, <2>2 DEF EndRuntime, PathType, SessionType, RuntimeType, sessionVars
  <2>3. CASE /\ message # ClipboardFailed
             /\ S!ReceiveTransfer(e, e[2], message.sequence, message.text)
             /\ UNCHANGED <<open, applications, commands, ended>>
    <3>1. message.sequence \in Nat /\ message.text \in Texts
      BY <1>3, <2>3, KindsDiffer
    <3>2. S!ReceivePart(e, "transfer", e[2], message.sequence, message.text)
      BY <2>3 DEF S!ReceiveTransfer
    <3>3. "transfer" \in S!Parts
      BY DEF S!Parts
    <3> HIDE DEF message
    <3>4. SessionType' /\ OthersKept(e)
      BY <3>1, <3>2, <3>3, PartCall DEF PathType
    <3> QED
      BY <1>3, <2>3, <3>4 DEF OthersKept, PathType, RuntimeType
  <2> QED
    BY <2>1, <2>2, <2>3 DEF TakeTransfer
<1>6. RuntimeType' /\ ServiceType'
  BY <1>2, <1>5 DEF PathType, RuntimeType, ServiceType, serviceVars
<1>7. WorkType'
  BY <1>2, <1>5, WorkKept DEF PathType, connectionVars
<1> QED
  BY <1>4, <1>5, <1>6, <1>7 DEF PathType

LEMMA ConnectType == ASSUME PathType, NEW a \in Agents, Connect(a) PROVE PathType'
<1> DEFINE e == <<a, Local>>
           s == opened[a] + 1
<1>1. e \in Ends /\ a \in Nodes /\ Node(e) = a /\ a # Local /\ EndsOf(a) = {e}
  BY AgentEnds
<1>2. /\ S!Start(e) /\ opened[a] < MaxSessions
      /\ opened' = [opened EXCEPT ![a] = s]
      /\ inUse' = [inUse EXCEPT ![e] = s] /\ open' = [open EXCEPT ![e] = TRUE]
      /\ applications' = [applications EXCEPT ![a] = NoApplications]
      /\ UNCHANGED <<offering, ended, service, serviceVars, commands, events, accepted,
                     streamVars>>
  BY DEF Connect
<1> HIDE DEF e
<1>3. SessionType' /\ OthersKept(e) /\ actions'[e] = <<>>
  BY <1>1, <1>2, StartCall DEF PathType
<1>4. opened[a] \in Nat /\ s \in Nat /\ s >= 1 /\ MaxSessions \in Nat /\ s <= MaxSessions
  BY <1>2, ClipboardPathAssumption DEF PathType, ConnectionType
<1>5. /\ \A f \in Ends : Started(f) \in Nat /\ Started(f)' \in Nat /\ Started(f) <= Started(f)'
      /\ Started(e)' = s
  <2>1. ASSUME NEW f \in Ends
        PROVE  Started(f) \in Nat /\ Started(f)' \in Nat /\ Started(f) <= Started(f)'
    <3>1. CASE Node(f) = Local
      <4>1. Started(f) = accepted[f[2]] /\ Started(f)' = accepted'[f[2]]
        BY <3>1 DEF Started
      <4> QED
        BY <1>2, <4>1, StartedFacts DEF PathType
    <3>2. CASE Node(f) # Local
      <4>1. Started(f) = opened[f[1]] /\ Started(f)' = opened'[f[1]] /\ f[1] \in Agents
        BY <3>2, EndFacts DEF Started
      <4> QED
        BY <1>2, <1>4, <4>1 DEF PathType, ConnectionType
    <3> QED
      BY <3>1, <3>2
  <2>2. Started(e)' = opened'[a]
    <3>1. e[1] = a
      BY DEF e
    <3> QED
      BY <1>1, <3>1 DEF Started
  <2> QED
    BY <1>2, <2>1, <2>2 DEF PathType, ConnectionType
<1>6. RuntimeType' /\ ServiceType' /\ StreamType'
  BY <1>1, <1>2, <1>4, ApplicationTypes
  DEF PathType, RuntimeType, ServiceType, StreamType, serviceVars, streamVars
<1>7. ConnectionType'
  <2>1. ASSUME NEW f \in Ends PROVE inUse'[f] <= Started(f)'
    <3>1. CASE f = e
      BY <1>2, <1>4, <1>5, <3>1 DEF PathType, RuntimeType
    <3>2. CASE f # e
      <4>1. inUse'[f] = inUse[f] /\ inUse[f] \in Nat /\ inUse[f] <= Started(f)
        BY <1>2, <3>2 DEF PathType, RuntimeType, ConnectionType
      <4> QED
        BY <1>5, <4>1
    <3> QED
      BY <3>1, <3>2
  <2>2. \A b \in Agents : accepted[b] <= opened'[b] /\ opened'[b] <= MaxSessions
    BY <1>2, <1>4 DEF PathType, ConnectionType
  <2> QED
    BY <1>2, <1>4, <2>1, <2>2 DEF PathType, ConnectionType
<1>8. WorkType'
  <2>1. ASSUME NEW f \in Ends, inUse'[f] = NoSession
        PROVE  ~open'[f] /\ actions'[f] = <<>> /\ f \notin offering'[Node(f)].ends
    <3>1. f # e
      BY <1>2, <1>4, <2>1 DEF PathType, RuntimeType, NoSession
    <3> QED
      BY <1>2, <1>3, <2>1, <3>1 DEF OthersKept, PathType, RuntimeType, WorkType
  <2>2. ASSUME NEW n \in Nodes, NEW x \in Listed(applications'[n])
        PROVE  x.end \in EndsOf(n) /\ x.session \in 1 .. Started(x.end)'
    <3>1. x \in Listed(applications[n]) /\ applications[n] \in Lists
      BY <1>2, <2>2, ApplicationTypes DEF PathType, RuntimeType
    <3>2. x.end \in EndsOf(n) /\ x.session \in 1 .. Started(x.end) /\ x.end \in Ends
      BY <3>1 DEF PathType, WorkType, EndsOf
    <3> QED
      BY <1>5, <3>2
  <2> QED
    BY <1>2, <2>1, <2>2 DEF PathType, WorkType
<1> QED
  BY <1>3, <1>6, <1>7, <1>8 DEF PathType

LEMMA AcceptPeerType == ASSUME PathType, NEW a \in Agents, AcceptPeer(a) PROVE PathType'
<1> DEFINE e == <<Local, a>>
           s == accepted[a] + 1
<1>1. e \in Ends /\ Node(e) = Local /\ e[2] = a
  BY AgentEnds
<1>2. /\ S!Start(e) /\ accepted[a] < opened[a]
      /\ accepted' = [accepted EXCEPT ![a] = s]
      /\ inUse' = [inUse EXCEPT ![e] = s] /\ open' = [open EXCEPT ![e] = TRUE]
      /\ UNCHANGED <<offering, applications, ended, service, serviceVars, commands, events,
                     opened, streamVars>>
  BY DEF AcceptPeer
<1> HIDE DEF e
<1>3. SessionType' /\ OthersKept(e) /\ actions'[e] = <<>>
  BY <1>1, <1>2, StartCall DEF PathType
<1>4. accepted[a] \in Nat /\ s \in Nat /\ s >= 1 /\ opened[a] \in Nat /\ s <= opened[a]
  BY <1>2 DEF PathType, ConnectionType
<1>5. /\ \A f \in Ends : Started(f) \in Nat /\ Started(f)' \in Nat /\ Started(f) <= Started(f)'
      /\ Started(e)' = s
  <2>1. ASSUME NEW f \in Ends
        PROVE  Started(f) \in Nat /\ Started(f)' \in Nat /\ Started(f) <= Started(f)'
    <3>1. CASE Node(f) # Local
      <4>1. Started(f) = opened[f[1]] /\ Started(f)' = opened'[f[1]]
        BY <3>1 DEF Started
      <4> QED
        BY <1>2, <4>1, StartedFacts DEF PathType
    <3>2. CASE Node(f) = Local
      <4>1. Started(f) = accepted[f[2]] /\ Started(f)' = accepted'[f[2]] /\ f[2] \in Agents
        BY <3>2, EndFacts DEF Started
      <4> QED
        BY <1>2, <1>4, <4>1 DEF PathType, ConnectionType
    <3> QED
      BY <3>1, <3>2
  <2>2. Started(e)' = accepted'[a]
    BY <1>1 DEF Started
  <2> QED
    BY <1>2, <2>1, <2>2 DEF PathType, ConnectionType
<1>6. RuntimeType' /\ ServiceType' /\ StreamType'
  BY <1>1, <1>2, <1>4
  DEF PathType, RuntimeType, ServiceType, StreamType, serviceVars, streamVars
<1>7. ConnectionType'
  <2>1. ASSUME NEW f \in Ends PROVE inUse'[f] <= Started(f)'
    <3>1. CASE f = e
      BY <1>2, <1>4, <1>5, <3>1 DEF PathType, RuntimeType
    <3>2. CASE f # e
      <4>1. inUse'[f] = inUse[f] /\ inUse[f] \in Nat /\ inUse[f] <= Started(f)
        BY <1>2, <3>2 DEF PathType, RuntimeType, ConnectionType
      <4> QED
        BY <1>5, <4>1
    <3> QED
      BY <3>1, <3>2
  <2>2. \A b \in Agents : accepted'[b] <= opened[b] /\ opened[b] <= MaxSessions
    BY <1>2, <1>4 DEF PathType, ConnectionType
  <2> QED
    BY <1>2, <1>4, <2>1, <2>2 DEF PathType, ConnectionType
<1>8. WorkType'
  <2>1. ASSUME NEW f \in Ends, inUse'[f] = NoSession
        PROVE  ~open'[f] /\ actions'[f] = <<>> /\ f \notin offering'[Node(f)].ends
    <3>1. f # e
      BY <1>2, <1>4, <2>1 DEF PathType, RuntimeType, NoSession
    <3> QED
      BY <1>2, <1>3, <2>1, <3>1 DEF OthersKept, PathType, RuntimeType, WorkType
  <2>2. ASSUME NEW n \in Nodes, NEW x \in Listed(applications'[n])
        PROVE  x.end \in EndsOf(n) /\ x.session \in 1 .. Started(x.end)'
    <3>1. x.end \in EndsOf(n) /\ x.session \in 1 .. Started(x.end) /\ x.end \in Ends
      BY <1>2, <2>2 DEF PathType, WorkType, EndsOf
    <3> QED
      BY <1>5, <3>1
  <2> QED
    BY <1>2, <2>1, <2>2 DEF PathType, WorkType
<1> QED
  BY <1>3, <1>6, <1>7, <1>8 DEF PathType

LEMMA ControlTaken ==
  ASSUME PathType, NEW e \in Ends, Arriving(control, e) # <<>>
  PROVE  /\ inUse[e] \in Sessions /\ inUse[e] # NoSession
         /\ Head(Arriving(control, e)) \in Contents \cup Acknowledgements \cup {Disconnected}
         /\ Head(Arriving(control, e)) \in Entries(control[Opposite(e)][inUse[e]])
         /\ \A f \in Ends, s \in Sessions :
              Entries(Taken(control, e)[f][s]) \subseteq Entries(control[f][s])
<1> DEFINE T == Contents \cup Acknowledgements \cup {Disconnected}
<1>1. control \in [Ends -> [Sessions -> Seq(T)]] /\ inUse[e] \in Sessions \cup {NoSession}
  BY InUseFacts DEF PathType, StreamType
<1> HIDE DEF T
<1>2. ASSUME NEW streams \in [Ends -> [Sessions -> Seq(T)]], Arriving(streams, e) # <<>>
      PROVE  /\ inUse[e] \in Sessions /\ inUse[e] # NoSession
             /\ Head(Arriving(streams, e)) \in T
             /\ Head(Arriving(streams, e)) \in Entries(streams[Opposite(e)][inUse[e]])
             /\ \A f \in Ends, s \in Sessions :
                  Entries(Taken(streams, e)[f][s]) \subseteq Entries(streams[f][s])
  BY <1>1, <1>2, TakenEffect
<1> QED
  BY <1>1, <1>2 DEF T

(* A loss leaves of each stream some of what it held, and what ends it.    *)
LEMMA LoseEffect ==
  ASSUME PathType, NEW a \in Agents, NEW s \in Sessions, Lose(a, s)
  PROVE  /\ StreamType'
         /\ \A f \in Ends, t \in Sessions :
              /\ Entries(control'[f][t]) \subseteq Entries(control[f][t]) \cup {Disconnected}
              /\ Entries(transfers'[f][t]) \subseteq Entries(transfers[f][t]) \cup {ClipboardFailed}
<1> DEFINE T == Contents \cup Acknowledgements \cup {Disconnected}
           U == Contents \cup {ClipboardFailed}
<1>1. /\ control \in [Ends -> [Sessions -> Seq(T)]] /\ Disconnected \in T
      /\ transfers \in [Ends -> [Sessions -> Seq(U)]] /\ ClipboardFailed \in U
  BY DEF PathType, StreamType
<1>2. PICK kept \in KeptOf(control, a, s) : control' = Cut(control, a, s, kept, Disconnected)
  BY DEF Lose
<1>3. PICK left \in KeptOf(transfers, a, s) :
        transfers' = Cut(transfers, a, s, left, ClipboardFailed)
  BY DEF Lose
<1> HIDE DEF T, U
<1>4. ASSUME NEW V, NEW streams \in [Ends -> [Sessions -> Seq(V)]],
             NEW part \in KeptOf(streams, a, s), NEW last \in V
      PROVE  /\ Cut(streams, a, s, part, last) \in [Ends -> [Sessions -> Seq(V)]]
             /\ \A f \in Ends, t \in Sessions :
                  Entries(Cut(streams, a, s, part, last)[f][t])
                    \subseteq Entries(streams[f][t]) \cup {last}
  BY CutEffect
<1>5. /\ control' \in [Ends -> [Sessions -> Seq(T)]]
      /\ \A f \in Ends, t \in Sessions :
           Entries(control'[f][t]) \subseteq Entries(control[f][t]) \cup {Disconnected}
  BY <1>1, <1>2, <1>4
<1>6. /\ transfers' \in [Ends -> [Sessions -> Seq(U)]]
      /\ \A f \in Ends, t \in Sessions :
           Entries(transfers'[f][t]) \subseteq Entries(transfers[f][t]) \cup {ClipboardFailed}
  BY <1>1, <1>3, <1>4
<1> QED
  BY <1>5, <1>6 DEF T, U, StreamType

LEMMA LoseType ==
  ASSUME PathType, NEW a \in Agents, NEW s \in Sessions, Lose(a, s) PROVE PathType'
<1>1. UNCHANGED <<sessionVars, inUse, open, offering, applications, ended, service,
                  serviceVars, commands, events, opened, accepted>>
  BY DEF Lose
<1>2. SessionType' /\ RuntimeType' /\ ServiceType' /\ ConnectionType'
  BY <1>1, SameConnections
  DEF PathType, SessionType, RuntimeType, ServiceType, sessionVars, serviceVars
<1>3. WorkType'
  BY <1>1, WorkKept DEF PathType, sessionVars, WorkType
<1> QED
  BY <1>2, <1>3, LoseEffect DEF PathType

(* A step of the services and the users changes no session, no runtime and *)
(* no connection.                                                          *)
LEMMA ServiceSteps ==
  ASSUME PathType,
         UNCHANGED <<sessionVars, inUse, open, offering, applications, ended, service,
                     opened, accepted, streamVars>>,
         ServiceType'
  PROVE  PathType'
<1>1. SessionType' /\ RuntimeType' /\ StreamType' /\ ConnectionType'
  BY SameConnections DEF PathType, SessionType, RuntimeType, StreamType, sessionVars, streamVars
<1>2. WorkType'
  BY WorkKept DEF PathType, sessionVars, WorkType
<1> QED
  BY <1>1, <1>2 DEF PathType

(* What a service reports, if the runtime still has it.                    *)
LEMMA ReportEffect ==
  ASSUME PathType, NEW n \in Nodes, NEW event \in NativeEvents, Report(n, event)
  PROVE  /\ events' \in [Nodes -> Seq(NativeEvents)]
         /\ \A m \in Nodes \ {n} : events'[m] = events[m]
         /\ service[n] => events'[n] = Append(events[n], event)
         /\ ~service[n] => events'[n] = events[n]
<1>1. events \in [Nodes -> Seq(NativeEvents)]
  BY DEF PathType, ServiceType
<1>2. Append(events[n], event) \in Seq(NativeEvents)
  BY <1>1
<1> QED
  BY <1>1, <1>2 DEF Report

LEMMA UserCopiesType == ASSUME PathType, NEW n \in Nodes, UserCopies(n) PROVE PathType'
<1> DEFINE text == <<n, copies[n] + 1>>
<1>1. text \in Texts
  <2>1. copies[n] + 1 \in 1 .. MaxCopies[n]
    <3>1. copies[n] \in Nat /\ MaxCopies[n] \in Nat /\ copies[n] < MaxCopies[n]
      BY ClipboardPathAssumption DEF UserCopies, PathType, ServiceType
    <3> QED
      BY <3>1
  <2> QED
    BY <2>1 DEF Texts, CopiesOf
<1>2. ServiceType'
  <2>1. /\ native' = [native EXCEPT ![n] = text] /\ changed' = [changed EXCEPT ![n] = TRUE]
        /\ copies' = [copies EXCEPT ![n] = @ + 1] /\ UNCHANGED <<offering, commands, events>>
    BY DEF UserCopies
  <2> HIDE DEF text
  <2> QED
    BY <1>1, <2>1, TextTypes DEF PathType, ServiceType
<1> QED
  BY <1>2, ServiceSteps DEF UserCopies, connectionVars

LEMMA ServiceNoticesType == ASSUME PathType, NEW n \in Nodes, ServiceNotices(n) PROVE PathType'
<1>1. native[n] \in Texts /\ Changed(native[n]) \in NativeEvents
  BY EventTypes DEF ServiceNotices, PathType, ServiceType
<1>2. events' \in [Nodes -> Seq(NativeEvents)]
  <2>1. CASE Report(n, Changed(native[n]))
    BY <1>1, <2>1, ReportEffect
  <2>2. CASE UNCHANGED events
    BY <2>2 DEF PathType, ServiceType
  <2> QED
    BY <2>1, <2>2 DEF ServiceNotices
<1>3. ServiceType'
  BY <1>2 DEF ServiceNotices, PathType, ServiceType
<1> QED
  BY <1>3, ServiceSteps DEF ServiceNotices, connectionVars

LEMMA ServiceAppliesType == ASSUME PathType, NEW n \in Nodes, ServiceApplies(n) PROVE PathType'
<1> DEFINE application == Head(commands[n])
<1>1. /\ commands[n] \in Seq(Applications) /\ application \in Applications
      /\ Tail(commands[n]) \in Seq(Applications)
  BY TailQueue DEF ServiceApplies, PathType, ServiceType
<1>2. application.text \in Texts
  BY <1>1, ApplicationTypes
<1>3. events' \in [Nodes -> Seq(NativeEvents)]
  BY EventTypes, ReportEffect DEF ServiceApplies
<1>4. /\ commands' = [commands EXCEPT ![n] = Tail(@)]
      /\ native' = [native EXCEPT ![n] = application.text]
      /\ UNCHANGED <<changed, copies, offering>>
  BY DEF ServiceApplies
<1> HIDE DEF application
<1>5. ServiceType'
  BY <1>1, <1>2, <1>3, <1>4, TextTypes DEF PathType, ServiceType
<1> QED
  BY <1>5, ServiceSteps DEF ServiceApplies, connectionVars

LEMMA ServiceFailsType == ASSUME PathType, NEW n \in Nodes, ServiceFails(n) PROVE PathType'
<1>1. events' \in [Nodes -> Seq(NativeEvents)]
  BY EventTypes, ReportEffect DEF ServiceFails, FailureReported
<1>2. commands[n] # <<>> => Tail(commands[n]) \in Seq(Applications)
  BY DEF PathType, ServiceType
<1>3. /\ \/ changed' = [changed EXCEPT ![n] = FALSE] /\ UNCHANGED commands
         \/ /\ commands[n] # <<>> /\ commands' = [commands EXCEPT ![n] = Tail(@)]
            /\ UNCHANGED changed
      /\ UNCHANGED <<native, copies, offering>>
  BY DEF ServiceFails
<1>4. ServiceType'
  BY <1>1, <1>2, <1>3 DEF PathType, ServiceType
<1> QED
  BY <1>4, ServiceSteps DEF ServiceFails, connectionVars

LEMMA TypeInit == ASSUME Init PROVE PathType
<1>1. S!NewSession \in SessionStates /\ "none" \in S!Errors
  BY TextTypes DEF S!NewSession, S!NoClip, S!Clip, SessionStates, Clips, Words, S!Errors
<1>2. SessionType
  BY <1>1 DEF Init, S!Init, SessionType
<1>3. RuntimeType
  <2>1. NotOffering \in [ends : SUBSET Ends, text : Words]
    BY TextTypes DEF NotOffering
  <2> QED
    BY <2>1, ApplicationTypes DEF Init, RuntimeType, NoSession
<1>4. ServiceType
  <2>1. \A n \in Nodes : offering[n].ends = {}
    BY DEF Init, NotOffering
  <2> QED
    BY <2>1, TextTypes DEF Init, ServiceType
<1>5. StreamType
  BY DEF Init, StreamType
<1>6. ConnectionType
  <2>1. \A e \in Ends : Started(e) = 0
    BY EndFacts DEF Started, Init
  <2>2. MaxSessions \in Nat
    BY ClipboardPathAssumption
  <2> QED
    BY <2>1, <2>2 DEF Init, ConnectionType, NoSession
<1>7. WorkType
  <2>1. \A n \in Nodes : Listed(applications[n]) = {} /\ offering[n].ends = {}
    BY ApplicationTypes DEF Init, NotOffering
  <2>2. \A e \in Ends : ~open[e] /\ actions[e] = <<>> /\ Node(e) \in Nodes
    BY EndFacts DEF Init, S!Init
  <2> QED
    BY <2>1, <2>2 DEF WorkType
<1> QED
  BY <1>2, <1>3, <1>4, <1>5, <1>6, <1>7 DEF PathType

LEMMA TypeStep == ASSUME PathType, [Next]_vars PROVE PathType'
<1>1. CASE UNCHANGED vars
  <2>1. UNCHANGED <<sessionVars, inUse, open, offering, applications, ended, service,
                    opened, accepted, streamVars>>
    BY <1>1 DEF vars, connectionVars
  <2>2. ServiceType'
    BY <1>1 DEF vars, serviceVars, PathType, ServiceType
  <2> QED
    BY <2>1, <2>2, ServiceSteps
<1>2. ASSUME NEW n \in Nodes, RuntimeStep(n) PROVE PathType'
  BY <1>2, NativeChangedType, NativeAppliedType, NativeFailedType, SendType,
     QueueApplicationType, OfferChangeType, TakeControlType, TakeTransferType, EndOfNode
  DEF RuntimeStep
<1>3. ASSUME NEW n \in Nodes, ServiceStep(n) \/ ServiceFails(n) \/ UserCopies(n) PROVE PathType'
  BY <1>3, ServiceNoticesType, ServiceAppliesType, ServiceFailsType, UserCopiesType
  DEF ServiceStep
<1>4. ASSUME NEW a \in Agents,
             Connect(a) \/ AcceptPeer(a) \/ \E s \in Sessions : Lose(a, s)
      PROVE  PathType'
  BY <1>4, ConnectType, AcceptPeerType, LoseType
<1> QED
  BY <1>1, <1>2, <1>3, <1>4 DEF Next

-----------------------------------------------------------------------------
(* Acknowledged means written.                                             *)

(* With one connection by agent, what is used and listed is the first.     *)
LEMMA FirstOnly ==
  ASSUME PathType, FirstConnections
  PROVE  /\ \A e \in Ends : inUse[e] # NoSession => inUse[e] = 1
         /\ \A e \in Ends : Started(e) \in {0, 1}
         /\ \A n \in Nodes : \A x \in Listed(applications[n]) :
              x.session = 1 /\ x.end \in EndsOf(n) /\ Started(x.end) = 1
<1>1. ASSUME NEW e \in Ends PROVE Started(e) \in {0, 1}
  <2>1. Started(e) \in Nat /\ Started(e) <= opened[AgentOf(e)] /\ AgentOf(e) \in Agents
    BY StartedFacts, EndFacts DEF PathType
  <2>2. opened[AgentOf(e)] \in Nat /\ opened[AgentOf(e)] <= 1
    BY <2>1 DEF FirstConnections, PathType, ConnectionType
  <2> QED
    BY <2>1, <2>2
<1>2. ASSUME NEW e \in Ends, inUse[e] # NoSession PROVE inUse[e] = 1
  <2>1. inUse[e] \in Nat /\ inUse[e] <= Started(e)
    BY DEF PathType, ConnectionType, RuntimeType
  <2> QED
    BY <1>1, <1>2, <2>1 DEF NoSession
<1>3. ASSUME NEW n \in Nodes, NEW x \in Listed(applications[n])
      PROVE  x.session = 1 /\ x.end \in EndsOf(n) /\ Started(x.end) = 1
  <2>1. x.session \in 1 .. Started(x.end) /\ x.end \in EndsOf(n)
    BY DEF PathType, WorkType
  <2>2. Started(x.end) \in {0, 1}
    BY <1>1, <2>1, EndOfNode
  <2> QED
    BY <2>1, <2>2
<1> QED
  BY <1>1, <1>2, <1>3

LEMMA AcknowledgementsKept ==
  ASSUME AcknowledgementsInv, written \subseteq written',
         \A e \in Ends :
           \/ session'[e].acknowledged \in {0, session[e].acknowledged}
           \/ Wrote(Opposite(e), session'[e].acknowledged),
         \A e \in Ends : \A action \in Entries(actions'[e]) :
           \/ action \in Entries(actions[e]) \/ action.type # "SendApplied"
           \/ Wrote(e, action.sequence),
         \A e \in Ends, s \in Sessions : \A message \in Entries(control'[e][s]) :
           \/ message \in Entries(control[e][s]) \/ message.type # "SendApplied"
           \/ Wrote(e, message.sequence)
  PROVE  AcknowledgementsInv'
<1> DEFINE Now(e, n) == \E w \in written' : w.end = e /\ w.session = 1 /\ w.sequence = n
<1>1. \A e, n : Wrote(e, n) => Now(e, n)
  BY DEF Wrote
<1>2. ASSUME NEW e \in Ends, session'[e].acknowledged > 0
      PROVE  Wrote(Opposite(e), session'[e].acknowledged)
  <2>1. CASE session'[e].acknowledged = 0
    BY <1>2, <2>1
  <2>2. CASE session'[e].acknowledged = session[e].acknowledged
    BY <1>2, <2>2 DEF AcknowledgementsInv
  <2> QED
    BY <2>1, <2>2
<1>3. ASSUME NEW e \in Ends, NEW action \in Entries(actions'[e]), action.type = "SendApplied"
      PROVE  Wrote(e, action.sequence)
  BY <1>3 DEF AcknowledgementsInv
<1>4. ASSUME NEW e \in Ends, NEW s \in Sessions, NEW message \in Entries(control'[e][s]),
             message.type = "SendApplied"
      PROVE  Wrote(e, message.sequence)
  BY <1>4 DEF AcknowledgementsInv
<1>5. \A e \in Ends :
        session'[e].acknowledged > 0 => Now(Opposite(e), session'[e].acknowledged)
  BY <1>1, <1>2
<1>6. \A e \in Ends : \A action \in Entries(actions'[e]) :
        action.type = "SendApplied" => Now(e, action.sequence)
  BY <1>1, <1>3
<1>7. \A e \in Ends, s \in Sessions : \A message \in Entries(control'[e][s]) :
        message.type = "SendApplied" => Now(e, message.sequence)
  BY <1>1, <1>4
<1> QED
  BY <1>5, <1>6, <1>7 DEF AcknowledgementsInv, Wrote, Entries, Opposite

(* Reports of writings are not made up by taking or adding other events.   *)
LEMMA EventsKept ==
  ASSUME NEW n \in Nodes, events[n] \in Seq(NativeEvents),
         \/ events'[n] = events[n]
         \/ events[n] # <<>> /\ events'[n] = Tail(events[n])
         \/ \E x \in NativeEvents : x # Applied /\ events'[n] = Append(events[n], x)
  PROVE  /\ Applied \in Entries(events'[n]) => Applied \in Entries(events[n])
         /\ OneApplied(n) => OneApplied(n)'
<1> DEFINE old == events[n]
           new == events'[n]
<1>1. CASE new = old
  BY <1>1 DEF OneApplied
<1>2. CASE old # <<>> /\ new = Tail(old)
  <2>1. /\ Entries(old) = Entries(new) \cup {Head(old)}
        /\ Len(old) \in Nat /\ Len(old) >= 1 /\ Len(new) = Len(old) - 1
        /\ \A i \in 1 .. Len(old) - 1 : new[i] = old[i + 1]
    BY <1>2, TailQueue
  <2>2. ASSUME OneApplied(n), NEW i \in 1 .. Len(new), NEW j \in 1 .. Len(new),
               new[i] = Applied, new[j] = Applied
        PROVE  i = j
    <3>1. i + 1 \in 1 .. Len(old) /\ j + 1 \in 1 .. Len(old)
      BY <2>1
    <3>2. old[i + 1] = Applied /\ old[j + 1] = Applied
      BY <2>1, <2>2
    <3>3. i + 1 = j + 1
      BY <2>2, <3>1, <3>2 DEF OneApplied
    <3> QED
      BY <3>3
  <2> QED
    BY <2>1, <2>2 DEF OneApplied
<1>3. ASSUME NEW x \in NativeEvents, x # Applied, new = Append(old, x)
      PROVE  /\ Applied \in Entries(new) => Applied \in Entries(old)
             /\ OneApplied(n) => OneApplied(n)'
  <2>1. /\ Entries(new) = Entries(old) \cup {x} /\ Len(new) = Len(old) + 1 /\ Len(old) \in Nat
        /\ \A i \in 1 .. Len(old) : new[i] = old[i]
        /\ new[Len(old) + 1] = x
    BY <1>3, AppendQueue
  <2>2. \A i \in 1 .. Len(new) : new[i] = Applied => i \in 1 .. Len(old) /\ old[i] = Applied
    BY <1>3, <2>1
  <2> QED
    BY <1>3, <2>1, <2>2 DEF OneApplied
<1> QED
  BY <1>1, <1>2, <1>3

(* What was given up stays so while the service and the agent's session    *)
(* do not come back.                                                       *)
LEMMA StaysGivenUp ==
  ASSUME PathType, NEW n \in Nodes, GivenUp(n),
         service'[n] => service[n],
         n # Local => /\ opened'[n] >= opened[n] /\ opened'[n] \in Nat
                      /\ open'[<<n, Local>>] => open[<<n, Local>>]
                      /\ actions[<<n, Local>>] = <<>> => actions'[<<n, Local>>] = <<>>
                      /\ offering[n].ends = {} => offering'[n].ends = {}
                      /\ applications[n].queued = <<>> => applications'[n].queued = <<>>
  PROVE  GivenUp(n)'
<1>1. CASE n = Local
  BY <1>1 DEF GivenUp
<1>2. CASE n # Local
  <2>1. opened[n] \in Nat /\ opened[n] >= 1
    BY <1>2 DEF GivenUp, PathType, ConnectionType, Agents
  <2>2. opened'[n] >= 1
    BY <1>2, <2>1
  <2> QED
    BY <1>2, <2>2 DEF GivenUp
<1> QED
  BY <1>1, <1>2

(* WithService of one node, as long as its text under application stays.   *)
LEMMA ServiceKept ==
  ASSUME NEW n \in Nodes, WithService(n), written \subseteq written',
         applications'[n].pending = applications[n].pending, commands'[n] = commands[n],
         Applied \in Entries(events'[n]) => Applied \in Entries(events[n]),
         OneApplied(n) => OneApplied(n)',
         GivenUp(n) => GivenUp(n)'
  PROVE  WithService(n)'
BY DEF WithService, Unused

(* A node that a step leaves alone.                                        *)
LEMMA ServiceUntouched ==
  ASSUME PathType, PathType', NEW n \in Nodes, WithService(n), written \subseteq written',
         applications'[n] = applications[n], commands'[n] = commands[n],
         events'[n] = events[n], service'[n] => service[n],
         n # Local => /\ opened'[n] = opened[n]
                      /\ open'[<<n, Local>>] => open[<<n, Local>>]
                      /\ actions[<<n, Local>>] = <<>> => actions'[<<n, Local>>] = <<>>
                      /\ offering[n].ends = {} => offering'[n].ends = {}
  PROVE  WithService(n)'
<1>1. n # Local => opened[n] \in Nat
  BY DEF PathType, ConnectionType, Agents
<1>2. n # Local => opened'[n] >= opened[n] /\ opened'[n] \in Nat
  BY <1>1
<1>3. GivenUp(n) => GivenUp(n)'
  BY <1>2, StaysGivenUp
<1>4. OneApplied(n) => OneApplied(n)'
  BY DEF OneApplied
<1> QED
  BY <1>3, <1>4, ServiceKept

(* A text is started only where none is with the service.                  *)
LEMMA ServiceStarted ==
  ASSUME PathType, NEW n \in Nodes, commands[n] = <<>>, NEW first \in Applications,
         applications'[n].pending = first, commands'[n] = Append(commands[n], first),
         Applied \notin Entries(events'[n])
  PROVE  WithService(n)'
<1>1. first # NoApplication /\ Append(<<>>, first) = <<first>>
  BY ApplicationTypes
<1>2. OneApplied(n)'
  BY DEF OneApplied, Entries
<1> QED
  BY <1>1, <1>2 DEF WithService

LEMMA StartNextService ==
  ASSUME PathType, NEW n \in Nodes, NEW list \in Lists, StartNext(n, list), WithService(n),
         events'[n] = events[n], service' = service, written' = written,
         list.pending = applications[n].pending, GivenUp(n) => n = Local
  PROVE  WithService(n)'
<1>1. GivenUp(n) => n = Local /\ ~service[n] /\ GivenUp(n)'
  BY DEF GivenUp
<1>2. OneApplied(n) => OneApplied(n)'
  BY DEF OneApplied
<1>3. CASE applications'[n].pending = applications[n].pending /\ commands' = commands
  BY <1>1, <1>2, <1>3, ServiceKept
<1>4. CASE /\ list.pending = NoApplication /\ service[n]
           /\ applications'[n].pending \in Applications
           /\ commands'[n] = Append(commands[n], applications'[n].pending)
  <2>1. commands[n] = <<>> /\ Applied \notin Entries(events'[n])
    BY <1>1, <1>4 DEF WithService, Unused
  <2> QED
    BY <1>4, <2>1, ServiceStarted
<1>5. \/ applications'[n].pending = applications[n].pending /\ commands' = commands
      \/ /\ list.pending = NoApplication /\ service[n]
         /\ applications'[n].pending \in Applications
         /\ commands'[n] = Append(commands[n], applications'[n].pending)
  BY StartEffect DEF PathType, RuntimeType, ServiceType
<1> QED
  BY <1>3, <1>4, <1>5

LEMMA PutElsewhere ==
  ASSUME NEW streams, NEW e \in Ends, NEW m, NEW f \in DOMAIN streams, f # e
  PROVE  Put(streams, e, m)[f] = streams[f]
BY DEF Put

LEMMA ControlPut ==
  ASSUME PathType, NEW e \in Ends, NEW m \in Contents \cup Acknowledgements \cup {Disconnected}
  PROVE  /\ \A f \in Ends, s \in Sessions :
              Entries(Put(control, e, m)[f][s]) \subseteq Entries(control[f][s]) \cup {m}
         /\ \A f \in Ends \ {e} : Put(control, e, m)[f] = control[f]
<1> DEFINE T == Contents \cup Acknowledgements \cup {Disconnected}
<1>1. control \in [Ends -> [Sessions -> Seq(T)]] /\ m \in T
  BY DEF PathType, StreamType
<1> HIDE DEF T
<1>2. ASSUME NEW streams \in [Ends -> [Sessions -> Seq(T)]], NEW x \in T
      PROVE  /\ Put(streams, e, x) \in [Ends -> [Sessions -> Seq(T)]]
             /\ \A f \in Ends, s \in Sessions :
                  Entries(Put(streams, e, x)[f][s]) \subseteq Entries(streams[f][s]) \cup {x}
  BY PutEffect
<1>3. \A f \in Ends \ {e} : Put(control, e, m)[f] = control[f]
  BY <1>1, PutElsewhere
<1> QED
  BY <1>1, <1>2, <1>3

LEMMA TransferPut ==
  ASSUME PathType, NEW e \in Ends, NEW m \in Contents \cup {ClipboardFailed}
  PROVE  /\ \A f \in Ends, s \in Sessions :
              Entries(Put(transfers, e, m)[f][s]) \subseteq Entries(transfers[f][s]) \cup {m}
         /\ \A f \in Ends \ {e} : Put(transfers, e, m)[f] = transfers[f]
<1> DEFINE T == Contents \cup {ClipboardFailed}
<1>1. transfers \in [Ends -> [Sessions -> Seq(T)]] /\ m \in T
  BY DEF PathType, StreamType
<1> HIDE DEF T
<1>2. ASSUME NEW streams \in [Ends -> [Sessions -> Seq(T)]], NEW x \in T
      PROVE  /\ Put(streams, e, x) \in [Ends -> [Sessions -> Seq(T)]]
             /\ \A f \in Ends, s \in Sessions :
                  Entries(Put(streams, e, x)[f][s]) \subseteq Entries(streams[f][s]) \cup {x}
  BY PutEffect
<1>3. \A f \in Ends \ {e} : Put(transfers, e, m)[f] = transfers[f]
  BY <1>1, PutElsewhere
<1> QED
  BY <1>1, <1>2, <1>3

(* The end an agent has.                                                   *)
LEMMA AgentEnd ==
  ASSUME NEW n \in Nodes, n # Local
  PROVE  n \in Agents /\ <<n, Local>> \in Ends /\ EndsOf(n) = {<<n, Local>>}
BY AgentEnds DEF Agents

LEMMA SendWritten ==
  ASSUME PathType, PathType', AcknowledgementsInv, ApplicationsInv, NEW e \in Ends, Send(e)
  PROVE  AcknowledgementsInv' /\ ApplicationsInv'
<1> DEFINE n == Node(e)
           message == Head(actions[e])
<1>1. n \in Nodes /\ e \in EndsOf(n)
  BY EndFacts
<1>2. /\ S!TakeAction(e)
      /\ UNCHANGED <<inUse, open, offering, service, events, opened, written>>
  BY DEF Send, connectionVars
<1>3. /\ OthersKept(e) /\ actions[e] # <<>> /\ message \in Returned
      /\ message \in Entries(actions[e]) /\ session'[e] = session[e]
      /\ Entries(actions'[e]) \subseteq Entries(actions[e])
  BY <1>2, TakeCall DEF PathType
<1>4. AcknowledgementsInv'
  <2>1. \A f \in Ends : session'[f].acknowledged = session[f].acknowledged
    BY <1>3 DEF OthersKept
  <2>2. \A f \in Ends : \A action \in Entries(actions'[f]) : action \in Entries(actions[f])
    BY <1>3 DEF OthersKept
  <2>3. ASSUME NEW f \in Ends, NEW s \in Sessions, NEW m \in Entries(control'[f][s])
        PROVE  \/ m \in Entries(control[f][s]) \/ m.type # "SendApplied"
               \/ Wrote(f, m.sequence)
    <3>1. CASE UNCHANGED control
      BY <2>3, <3>1
    <3>2. CASE control' = Put(control, e, message) /\ message.type # "ApplyRemote"
      <4>1. message \in Contents \cup Acknowledgements \cup {Disconnected}
        BY <1>3, <3>2, KindsDiffer DEF Returned
      <4>2. /\ Entries(control'[f][s]) \subseteq Entries(control[f][s]) \cup {message}
            /\ f # e => control'[f][s] = control[f][s]
        BY <3>2, <4>1, ControlPut
      <4>3. message.type = "SendApplied" => Wrote(e, message.sequence)
        BY <1>3 DEF AcknowledgementsInv
      <4> QED
        BY <2>3, <4>2, <4>3
    <3> QED
      BY <3>1, <3>2 DEF Send, streamVars
  <2> QED
    BY <1>2, <2>1, <2>2, <2>3, AcknowledgementsKept
<1>5. GivenUp(n) => n = Local
  <2>1. n # Local => e = <<n, Local>>
    BY <1>1, AgentEnd
  <2> QED
    BY <1>3, <2>1 DEF GivenUp
<1>6. WithService(n)'
  <2>1. WithService(n) /\ applications[n] \in Lists
    BY <1>1 DEF ApplicationsInv, PathType, RuntimeType
  <2>2. CASE StartNext(n, applications[n])
    BY <1>1, <1>2, <1>5, <2>1, <2>2, StartNextService
  <2>3. CASE UNCHANGED <<applications, commands>>
    <3>1. n # Local => /\ opened'[n] = opened[n]
                       /\ open'[<<n, Local>>] => open[<<n, Local>>]
                       /\ actions[<<n, Local>>] = <<>> => actions'[<<n, Local>>] = <<>>
                       /\ offering[n].ends = {} => offering'[n].ends = {}
      <4>1. n # Local => e = <<n, Local>>
        BY <1>1, AgentEnd
      <4> QED
        BY <1>2, <1>3, <4>1
    <3> QED
      BY <1>1, <1>2, <2>1, <2>3, <3>1, ServiceUntouched
  <2> QED
    BY <2>2, <2>3 DEF Send, EndRuntime
<1>7. ASSUME NEW m \in Nodes, m # n PROVE WithService(m)'
  <2>1. applications'[m] = applications[m] /\ commands'[m] = commands[m]
    <3>1. CASE StartNext(n, applications[n])
      <4>1. applications[n] \in Lists
        BY <1>1 DEF PathType, RuntimeType
      <4> HIDE DEF n
      <4>2. \A k \in Nodes \ {n} :
              applications'[k] = applications[k] /\ commands'[k] = commands[k]
        BY <1>1, <3>1, <4>1, StartEffect DEF PathType, RuntimeType, ServiceType
      <4> QED
        BY <1>7, <4>2
    <3>2. CASE UNCHANGED <<applications, commands>>
      BY <3>2
    <3> QED
      BY <3>1, <3>2 DEF Send, EndRuntime
  <2>2. m # Local => <<m, Local>> \in Ends /\ <<m, Local>> # e
    BY <1>7, AgentEnd DEF Node
  <2>3. WithService(m)
    BY DEF ApplicationsInv
  <2>4. m # Local => actions'[<<m, Local>>] = actions[<<m, Local>>]
    BY <1>3, <2>2 DEF OthersKept
  <2> QED
    BY <1>2, <2>1, <2>3, <2>4, ServiceUntouched
<1> QED
  BY <1>4, <1>6, <1>7 DEF ApplicationsInv

(* A step of n leaves the other nodes as they were.                        *)
LEMMA OtherServices ==
  ASSUME PathType, PathType', ApplicationsInv, NEW n \in Nodes, written \subseteq written',
         \A m \in Nodes \ {n} : /\ applications'[m] = applications[m]
                                /\ commands'[m] = commands[m] /\ events'[m] = events[m]
                                /\ service'[m] = service[m] /\ offering'[m] = offering[m]
                                /\ opened'[m] = opened[m],
         \A e \in Ends : Node(e) # n => open'[e] = open[e] /\ actions'[e] = actions[e]
  PROVE  \A m \in Nodes \ {n} : WithService(m)'
<1> SUFFICES ASSUME NEW m \in Nodes, m # n PROVE WithService(m)'
  OBVIOUS
<1>1. WithService(m)
  BY DEF ApplicationsInv
<1>2. m # Local => /\ open'[<<m, Local>>] = open[<<m, Local>>]
                   /\ actions'[<<m, Local>>] = actions[<<m, Local>>]
  BY AgentEnd DEF Node
<1> QED
  BY <1>1, <1>2, ServiceUntouched

LEMMA StartNextElsewhere ==
  ASSUME PathType, NEW n \in Nodes, NEW list \in Lists, StartNext(n, list)
  PROVE  \A m \in Nodes \ {n} :
           applications'[m] = applications[m] /\ commands'[m] = commands[m]
BY StartEffect DEF PathType, RuntimeType, ServiceType

LEMMA QueueApplicationWritten ==
  ASSUME PathType, PathType', AcknowledgementsInv, ApplicationsInv, NEW e \in Ends,
         QueueApplication(e)
  PROVE  AcknowledgementsInv' /\ ApplicationsInv'
<1> DEFINE n == Node(e)
           action == Head(actions[e])
           application == Application(e, inUse[e], action.sequence, action.text)
           list == [applications[n] EXCEPT !.queued = Append(@, application)]
<1>1. n \in Nodes /\ e \in EndsOf(n)
  BY EndFacts
<1>2. /\ S!TakeAction(e) /\ action.type = "ApplyRemote" /\ StartNext(n, list)
      /\ UNCHANGED <<inUse, open, offering, service, events, opened, control, written>>
  BY DEF QueueApplication, connectionVars, streamVars
<1>3. /\ OthersKept(e) /\ actions[e] # <<>> /\ action \in Returned
      /\ session'[e] = session[e] /\ Entries(actions'[e]) \subseteq Entries(actions[e])
  BY <1>2, TakeCall DEF PathType
<1>4. AcknowledgementsInv'
  <2>1. \A f \in Ends : session'[f].acknowledged = session[f].acknowledged
    BY <1>3 DEF OthersKept
  <2>2. \A f \in Ends : \A x \in Entries(actions'[f]) : x \in Entries(actions[f])
    BY <1>3 DEF OthersKept
  <2> QED
    BY <1>2, <2>1, <2>2, AcknowledgementsKept
<1>5. GivenUp(n) => n = Local
  <2>1. n # Local => e = <<n, Local>>
    BY <1>1, AgentEnd
  <2> QED
    BY <1>3, <2>1 DEF GivenUp
<1>6. list \in Lists /\ list.pending = applications[n].pending
  <2>1. action.sequence \in Nat /\ action.text \in Texts
    BY <1>2, <1>3, KindsDiffer DEF Returned
  <2>2. application \in Applications
    BY <2>1 DEF Application, Applications, PathType, RuntimeType
  <2> HIDE DEF application
  <2>3. applications[n] \in Lists
    BY <1>1 DEF PathType, RuntimeType
  <2> QED
    BY <2>2, <2>3 DEF Lists
<1> HIDE DEF list, n
<1>7. WithService(n)'
  <2>1. WithService(n)
    BY <1>1 DEF ApplicationsInv
  <2> QED
    BY <1>1, <1>2, <1>5, <1>6, <2>1, StartNextService
<1>8. \A m \in Nodes \ {n} : WithService(m)'
  <2>1. \A m \in Nodes \ {n} : applications'[m] = applications[m] /\ commands'[m] = commands[m]
    BY <1>1, <1>2, <1>6, StartNextElsewhere
  <2>2. \A f \in Ends : Node(f) # n => actions'[f] = actions[f]
    BY <1>3 DEF OthersKept, n
  <2> QED
    BY <1>1, <1>2, <2>1, <2>2, OtherServices
<1> QED
  BY <1>4, <1>7, <1>8 DEF ApplicationsInv

LEMMA NativeChangedWritten ==
  ASSUME PathType, PathType', AcknowledgementsInv, ApplicationsInv, NEW n \in Nodes,
         NativeChanged(n)
  PROVE  AcknowledgementsInv' /\ ApplicationsInv'
<1>1. /\ UNCHANGED <<session, actions, control, open, applications, service, commands,
                     opened, written>>
      /\ events[n] # <<>> /\ events' = [events EXCEPT ![n] = Tail(@)]
      /\ \E text : offering' = [offering EXCEPT ![n] = [ends |-> Informed(n), text |-> text]]
  BY DEF NativeChanged, TakeNativeEvent, sessionVars, connectionVars, streamVars
<1>2. AcknowledgementsInv'
  BY <1>1, AcknowledgementsKept
<1>3. events[n] \in Seq(NativeEvents) /\ events'[n] = Tail(events[n])
  BY <1>1 DEF PathType, ServiceType
<1>4. offering'[n].ends = Informed(n)
  BY <1>1 DEF PathType, RuntimeType
<1>5. WithService(n)'
  <2>1. /\ Applied \in Entries(events'[n]) => Applied \in Entries(events[n])
        /\ OneApplied(n) => OneApplied(n)'
    BY <1>1, <1>3, EventsKept
  <2>2. GivenUp(n) => GivenUp(n)'
    <3>1. n # Local => opened[n] \in Nat
      BY DEF PathType, ConnectionType, Agents
    <3>2. ASSUME n # Local, ~open[<<n, Local>>] PROVE Informed(n) = {}
      BY <3>2, AgentEnd DEF Informed
    <3> QED
      BY <1>1, <1>4, <3>1, <3>2, StaysGivenUp DEF GivenUp
  <2> QED
    BY <1>1, <2>1, <2>2, ServiceKept DEF ApplicationsInv
<1>6. \A m \in Nodes \ {n} : WithService(m)'
  <2>1. \A m \in Nodes \ {n} : events'[m] = events[m] /\ offering'[m] = offering[m]
    BY <1>1
  <2> QED
    BY <1>1, <2>1, OtherServices
<1> QED
  BY <1>2, <1>5, <1>6 DEF ApplicationsInv

LEMMA OfferChangeWritten ==
  ASSUME PathType, PathType', AcknowledgementsInv, ApplicationsInv, NEW e \in Ends,
         OfferChange(e)
  PROVE  AcknowledgementsInv' /\ ApplicationsInv'
<1> DEFINE n == Node(e)
<1>1. n \in Nodes /\ e \in EndsOf(n)
  BY EndFacts
<1>2. /\ e \in offering[n].ends /\ S!LocalChanged(e, offering[n].text)
      /\ UNCHANGED <<open, applications, service, commands, events, opened, control, written>>
      /\ \A m \in Nodes \ {n} : offering'[m] = offering[m]
  BY DEF OfferChange, connectionVars, streamVars, PathType, RuntimeType
<1>3. offering[n].text \in Texts
  BY <1>1, <1>2 DEF PathType, ServiceType
<1>4. /\ OthersKept(e) /\ session'[e].acknowledged = session[e].acknowledged
      /\ \A action \in Entries(actions'[e]) : action.type # "SendApplied"
  BY <1>2, <1>3, OfferCall, KindsDiffer, EmptyQueue DEF PathType
<1>5. AcknowledgementsInv'
  <2>1. \A f \in Ends : session'[f].acknowledged = session[f].acknowledged
    BY <1>4 DEF OthersKept
  <2>2. \A f \in Ends : \A x \in Entries(actions'[f]) :
          x \in Entries(actions[f]) \/ x.type # "SendApplied"
    BY <1>4 DEF OthersKept
  <2> QED
    BY <1>2, <2>1, <2>2, AcknowledgementsKept
<1>6. WithService(n)'
  <2>1. GivenUp(n) => GivenUp(n)'
    <3>1. n # Local => e = <<n, Local>>
      BY <1>1, AgentEnd
    <3> QED
      BY <1>2, <3>1 DEF GivenUp
  <2>2. OneApplied(n) => OneApplied(n)'
    BY <1>2 DEF OneApplied
  <2> QED
    BY <1>1, <1>2, <2>1, <2>2, ServiceKept DEF ApplicationsInv
<1>7. \A m \in Nodes \ {n} : WithService(m)'
  <2>1. \A f \in Ends : Node(f) # n => actions'[f] = actions[f]
    BY <1>4 DEF OthersKept
  <2> QED
    BY <1>1, <1>2, <2>1, OtherServices
<1> QED
  BY <1>5, <1>6, <1>7 DEF ApplicationsInv

(* The report of a writing: a text was under application and is written,   *)
(* unless n takes no more of them.                                         *)
LEMMA AppliedTaken ==
  ASSUME PathType, NEW n \in Nodes, WithService(n), TakeNativeEvent(n, "Applied"),
         events'[n] = Tail(events[n])
  PROVE  /\ applications[n].pending = NoApplication => GivenUp(n)
         /\ applications[n].pending # NoApplication =>
              /\ commands[n] = <<>> /\ applications[n].pending \in written
              /\ Applied \notin Entries(events'[n])
<1>1. /\ events[n] \in Seq(NativeEvents) /\ events[n] # <<>> /\ Head(events[n]) = Applied
  BY NativeTaken, EventTypes
<1>2. /\ Entries(events[n]) = Entries(events'[n]) \cup {Applied}
      /\ Len(events[n]) \in Nat /\ Len(events[n]) >= 1 /\ Len(events'[n]) = Len(events[n]) - 1
      /\ events[n][1] = Applied
      /\ \A i \in 1 .. Len(events[n]) - 1 : events'[n][i] = events[n][i + 1]
  BY <1>1, TailQueue
<1>3. Applied \in Entries(events[n])
  BY <1>2
<1>4. ASSUME OneApplied(n), Applied \in Entries(events'[n]) PROVE FALSE
  <2>1. PICK i \in 1 .. Len(events'[n]) : events'[n][i] = Applied
    BY <1>4 DEF Entries
  <2>2. /\ i + 1 \in 1 .. Len(events[n]) /\ 1 \in 1 .. Len(events[n]) /\ i + 1 # 1
        /\ events[n][i + 1] = Applied
    BY <1>2, <2>1
  <2>3. i + 1 = 1
    BY <1>2, <1>4, <2>2 DEF OneApplied
  <2> QED
    BY <2>2, <2>3
<1> QED
  BY <1>3, <1>4 DEF WithService, Unused

LEMMA NativeAppliedWritten ==
  ASSUME PathType, PathType', FirstConnections, AcknowledgementsInv, ApplicationsInv,
         NEW n \in Nodes, NativeApplied(n)
  PROVE  AcknowledgementsInv' /\ ApplicationsInv'
<1> DEFINE list == applications[n]
           e == list.pending.end
           rest == [list EXCEPT !.pending = NoApplication]
<1>1. /\ TakeNativeEvent(n, "Applied")
      /\ UNCHANGED <<inUse, open, offering, service, opened, control, written>>
      /\ events'[n] = Tail(events[n])
      /\ \A m \in Nodes \ {n} : events'[m] = events[m]
  BY DEF NativeApplied, connectionVars, streamVars, PathType, ServiceType
<1>2. WithService(n)
  BY DEF ApplicationsInv
<1>3. /\ list.pending = NoApplication => GivenUp(n)
      /\ list.pending # NoApplication =>
           commands[n] = <<>> /\ list.pending \in written /\ Applied \notin Entries(events'[n])
  BY <1>1, <1>2, AppliedTaken
<1>4. /\ list \in Lists /\ rest \in Lists /\ rest.pending = NoApplication
      /\ rest.queued = list.queued
  BY DEF PathType, RuntimeType, Lists
<1>5. list.pending # NoApplication =>
        /\ e \in Ends /\ Node(e) = n /\ list.pending.session = 1
        /\ list.pending.sequence \in Nat
  <2>1. list.pending # NoApplication => list.pending \in Applications /\ list.pending \in Listed(list)
    BY <1>4, ListTypes
  <2>2. list.pending # NoApplication => e \in EndsOf(n) /\ list.pending.session = 1
    BY <2>1, FirstOnly
  <2> QED
    BY <2>1, <2>2, EndOfNode, ApplicationTypes
<1> HIDE DEF rest, e, list
<1>6. ASSUME UNCHANGED sessionVars PROVE AcknowledgementsInv'
  BY <1>1, <1>6, AcknowledgementsKept DEF sessionVars
<1>7. ASSUME \A m \in Nodes \ {n} : applications'[m] = applications[m] /\ commands'[m] = commands[m],
             \A f \in Ends : Node(f) # n => actions'[f] = actions[f]
      PROVE  \A m \in Nodes \ {n} : WithService(m)'
  BY <1>1, <1>7, OtherServices
<1>8. CASE list.pending = NoApplication /\ EndRuntime(n) /\ UNCHANGED sessionVars
  <2>1. UNCHANGED <<applications, commands, actions>>
    BY <1>8 DEF EndRuntime, sessionVars
  <2>2. GivenUp(n)'
    <3>1. n # Local => opened[n] \in Nat
      BY DEF PathType, ConnectionType, Agents
    <3>2. n # Local => opened'[n] >= opened[n] /\ opened'[n] \in Nat
      BY <1>1, <3>1
    <3>3. GivenUp(n) /\ service' = service /\ open' = open /\ offering' = offering
      BY <1>1, <1>3, <1>8
    <3> QED
      BY <2>1, <3>2, <3>3, StaysGivenUp
  <2>3. WithService(n)'
    BY <1>8, <2>1, <2>2 DEF WithService, list
  <2> QED
    BY <1>6, <1>7, <1>8, <2>1, <2>3 DEF ApplicationsInv
<1>9. CASE list.pending # NoApplication /\ StartNext(n, rest) /\ UNCHANGED sessionVars
  <2>1. WithService(n)'
    <3>1. CASE applications'[n] = rest /\ commands' = commands
      BY <1>3, <1>4, <1>9, <3>1 DEF WithService, Unused
    <3>2. CASE /\ applications'[n].pending \in Applications
               /\ commands'[n] = Append(commands[n], applications'[n].pending)
      BY <1>3, <1>9, <3>2, ServiceStarted
    <3>3. CASE applications' = applications /\ commands' = commands
      <4>1. OneApplied(n)'
        BY <1>3, <1>9 DEF OneApplied, Entries
      <4> QED
        BY <1>3, <1>9, <3>3, <4>1 DEF WithService, list
    <3> QED
      BY <1>4, <1>9, <3>1, <3>2, <3>3, StartEffect DEF PathType, RuntimeType, ServiceType
  <2>2. \A m \in Nodes \ {n} : applications'[m] = applications[m] /\ commands'[m] = commands[m]
    BY <1>4, <1>9, StartNextElsewhere
  <2> QED
    BY <1>6, <1>7, <1>9, <2>1, <2>2 DEF ApplicationsInv, sessionVars
<1>10. CASE /\ list.pending # NoApplication
            /\ S!ConfirmApplied(e, e[2], list.pending.sequence)
            /\ applications' = [applications EXCEPT ![n] = rest]
            /\ UNCHANGED <<commands, ended>>
  <2> DEFINE number == list.pending.sequence
  <2>1. e \in Ends /\ Node(e) = n /\ number \in Nat /\ Wrote(e, number)
    BY <1>3, <1>5, <1>10 DEF Wrote, e
  <2> HIDE DEF number
  <2>2. S!ConfirmApplied(e, e[2], number)
    BY <1>10 DEF number
  <2>3. /\ OthersKept(e)
        /\ session'[e].acknowledged = session[e].acknowledged
        /\ \/ actions'[e] = actions[e]
           \/ actions'[e] = <<S!SendApplied(number)>>
           \/ \E m, text : actions'[e] = <<S!SendApplied(number), S!ApplyRemote(m, text)>>
    BY <2>1, <2>2, ConfirmCall DEF PathType
  <2>4. ASSUME NEW x \in Entries(actions'[e])
        PROVE  x \in Entries(actions[e]) \/ x.type # "SendApplied" \/ Wrote(e, x.sequence)
    <3>1. CASE actions'[e] = actions[e]
      BY <2>4, <3>1
    <3>2. S!SendApplied(number).sequence = number
      BY DEF S!SendApplied
    <3>3. CASE actions'[e] = <<S!SendApplied(number)>>
      <4>1. x = S!SendApplied(number)
        BY <2>4, <3>3 DEF Entries
      <4> QED
        BY <2>1, <3>2, <4>1
    <3>4. ASSUME NEW m, NEW text,
                 actions'[e] = <<S!SendApplied(number), S!ApplyRemote(m, text)>>
          PROVE  x.type # "SendApplied" \/ Wrote(e, x.sequence)
      <4>1. x = S!SendApplied(number) \/ x = S!ApplyRemote(m, text)
        BY <2>4, <3>4 DEF Entries
      <4>2. S!ApplyRemote(m, text).type = "ApplyRemote"
        BY DEF S!ApplyRemote
      <4> QED
        BY <2>1, <3>2, <4>1, <4>2
    <3> QED
      BY <2>3, <3>1, <3>3, <3>4
  <2>5. AcknowledgementsInv'
    <3>1. \A f \in Ends : session'[f].acknowledged = session[f].acknowledged
      BY <2>3 DEF OthersKept
    <3>2. \A f \in Ends : \A x \in Entries(actions'[f]) :
            x \in Entries(actions[f]) \/ x.type # "SendApplied" \/ Wrote(f, x.sequence)
      BY <2>3, <2>4 DEF OthersKept
    <3> QED
      BY <1>1, <3>1, <3>2, AcknowledgementsKept
  <2>6. WithService(n)'
    <3>1. applications'[n] = rest /\ commands'[n] = <<>>
      BY <1>3, <1>10 DEF PathType, RuntimeType
    <3> QED
      BY <1>3, <1>4, <1>10, <3>1 DEF WithService, Unused
  <2>7. \A m \in Nodes \ {n} : WithService(m)'
    <3>1. \A f \in Ends : Node(f) # n => actions'[f] = actions[f]
      BY <2>1, <2>3 DEF OthersKept
    <3> QED
      BY <1>7, <1>10, <3>1
  <2> QED
    BY <2>5, <2>6, <2>7 DEF ApplicationsInv
<1>11. \/ list.pending = NoApplication /\ EndRuntime(n) /\ UNCHANGED sessionVars
       \/ list.pending # NoApplication /\ StartNext(n, rest) /\ UNCHANGED sessionVars
       \/ /\ list.pending # NoApplication
          /\ S!ConfirmApplied(e, e[2], list.pending.sequence)
          /\ applications' = [applications EXCEPT ![n] = rest]
          /\ UNCHANGED <<commands, ended>>
  BY DEF NativeApplied, rest, e, list
<1> QED
  BY <1>8, <1>9, <1>10, <1>11

LEMMA NativeFailedWritten ==
  ASSUME PathType, PathType', AcknowledgementsInv, ApplicationsInv,
         NEW n \in Nodes, NativeFailed(n)
  PROVE  AcknowledgementsInv' /\ ApplicationsInv'
<1>1. /\ TakeNativeEvent(n, "Failed")
      /\ UNCHANGED <<session, actions, inUse, offering, commands, opened, control, written>>
      /\ applications' = [applications EXCEPT ![n] = NoApplications]
  BY DEF NativeFailed, sessionVars, connectionVars, streamVars
<1>2. AcknowledgementsInv'
  BY <1>1, AcknowledgementsKept
<1>3. applications'[n].pending = NoApplication /\ applications'[n].queued = <<>>
  BY <1>1, ApplicationTypes DEF PathType, RuntimeType
<1>4. GivenUp(n)'
  <2>1. CASE n = Local
    <3>1. ~service'[n]
      BY <2>1 DEF NativeFailed, PathType, RuntimeType
    <3> QED
      BY <2>1, <3>1 DEF GivenUp
  <2>2. CASE n # Local
    <3>1. n \in Agents /\ <<n, Local>> \in Ends /\ EndsOf(n) = {<<n, Local>>}
      BY <2>2, AgentEnd
    <3>2. /\ inUse[<<n, Local>>] # NoSession /\ actions[<<n, Local>>] = <<>>
          /\ offering[n].ends = {}
      BY <1>1, <2>2, <3>1 DEF TakeNativeEvent, Free
    <3>3. opened'[n] >= 1
      <4>1. inUse[<<n, Local>>] \in Nat /\ inUse[<<n, Local>>] <= opened[n] /\ opened[n] \in Nat
        BY <3>1, AgentEnds, ZenonT(60) DEF PathType, ConnectionType, RuntimeType
      <4> QED
        BY <1>1, <3>2, <4>1 DEF NoSession
    <3>4. ~open'[<<n, Local>>]
      BY <2>2, <3>1 DEF NativeFailed, Node
    <3> QED
      BY <1>1, <1>3, <2>2, <3>2, <3>3, <3>4 DEF GivenUp
  <2> QED
    BY <2>1, <2>2
<1>5. WithService(n)'
  BY <1>3, <1>4 DEF WithService
<1>6. \A m \in Nodes \ {n} : WithService(m)'
  <2>1. \A m \in Nodes \ {n} : /\ applications'[m] = applications[m]
                               /\ events'[m] = events[m] /\ service'[m] = service[m]
    BY <1>1 DEF NativeFailed, PathType, RuntimeType, ServiceType
  <2>2. \A e \in Ends : Node(e) # n => open'[e] = open[e]
    BY DEF NativeFailed, PathType, RuntimeType
  <2> QED
    BY <1>1, <2>1, <2>2, OtherServices
<1> QED
  BY <1>2, <1>5, <1>6 DEF ApplicationsInv

(* A step of the runtime of e that leaves what is under application, and   *)
(* gives e no actions unless its session is open.                          *)
LEMMA ServicesSurvive ==
  ASSUME PathType, PathType', ApplicationsInv, NEW e \in Ends, OthersKept(e),
         UNCHANGED <<service, offering, commands, events, opened, written>>,
         \A m \in Nodes : m # Node(e) => applications'[m] = applications[m],
         applications'[Node(e)].pending = applications[Node(e)].pending,
         Node(e) # Local => applications'[Node(e)] = applications[Node(e)],
         actions'[e] = <<>> \/ open[e],
         \A f \in Ends : f # e => open'[f] = open[f], open'[e] => open[e]
  PROVE  ApplicationsInv'
<1> DEFINE n == Node(e)
<1>1. n \in Nodes /\ e \in EndsOf(n)
  BY EndFacts
<1>2. WithService(n)'
  <2>1. GivenUp(n) => GivenUp(n)'
    <3>1. n # Local => e = <<n, Local>> /\ opened[n] \in Nat
      BY <1>1, AgentEnd DEF PathType, ConnectionType
    <3>2. n # Local => opened'[n] >= opened[n] /\ opened'[n] \in Nat
      BY <3>1
    <3>3. n # Local /\ GivenUp(n) => ~open[e]
      BY <3>1 DEF GivenUp
    <3> QED
      BY <1>1, <3>1, <3>2, <3>3, StaysGivenUp
  <2>2. OneApplied(n) => OneApplied(n)'
    BY DEF OneApplied
  <2> QED
    BY <1>1, <2>1, <2>2, ServiceKept DEF ApplicationsInv
<1>3. \A m \in Nodes \ {n} : WithService(m)'
  BY <1>1, OtherServices DEF OthersKept
<1> QED
  BY <1>2, <1>3 DEF ApplicationsInv

LEMMA TakeControlWritten ==
  ASSUME PathType, PathType', FirstConnections, AcknowledgementsInv, ApplicationsInv,
         NEW e \in Ends, TakeControl(e)
  PROVE  AcknowledgementsInv' /\ ApplicationsInv'
<1> DEFINE message == Head(Arriving(control, e))
<1>1. /\ Arriving(control, e) # <<>> /\ control' = Taken(control, e)
      /\ UNCHANGED <<offering, service, events, opened, written>>
      /\ UNCHANGED <<applications, commands>>
  BY DEF TakeControl, EndRuntime, connectionVars
<1>2. actions[e] = <<>>
  BY EndFacts DEF TakeControl, Free
<1>3. /\ message \in Contents \cup Acknowledgements \cup {Disconnected}
      /\ message \in Entries(control[Opposite(e)][inUse[e]])
      /\ inUse[e] \in Sessions /\ Opposite(e) \in Ends
      /\ \A f \in Ends, s \in Sessions :
           Entries(control'[f][s]) \subseteq Entries(control[f][s])
  BY <1>1, ControlTaken, EndFacts
<1> HIDE DEF message
<1>4. /\ OthersKept(e)
      /\ actions'[e] = <<>> \/ open[e]
      /\ \A x \in Entries(actions'[e]) : x.type # "SendApplied"
      /\ \/ session'[e].acknowledged = session[e].acknowledged
         \/ Wrote(Opposite(e), session'[e].acknowledged)
  <2>1. CASE UNCHANGED sessionVars
    BY <1>2, <2>1, EmptyQueue DEF OthersKept, sessionVars
  <2>2. CASE /\ open[e] /\ message.type = "SendOffer" /\ message # Disconnected
             /\ S!ReceiveOffer(e, e[2], message.sequence, message.text)
    <3>1. message.sequence \in Nat /\ message.text \in Texts
      BY <1>3, <2>2, KindsDiffer
    <3>2. S!ReceivePart(e, "offer", e[2], message.sequence, message.text) /\ "offer" \in S!Parts
      BY <2>2 DEF S!ReceiveOffer, S!Parts
    <3>3. /\ OthersKept(e) /\ session'[e].acknowledged = session[e].acknowledged
          /\ actions'[e] = <<>> \/ \E m, text : actions'[e] = <<S!ApplyRemote(m, text)>>
      BY <3>1, <3>2, PartCall DEF PathType
    <3>4. \A x \in Entries(actions'[e]) : x.type # "SendApplied"
      <4>1. CASE actions'[e] = <<>>
        BY <4>1, EmptyQueue
      <4>2. ASSUME NEW m, NEW text, actions'[e] = <<S!ApplyRemote(m, text)>>
            PROVE  Entries(actions'[e]) = {S!ApplyRemote(m, text)}
        BY <4>2, ShortQueues
      <4>3. \A m, text : S!ApplyRemote(m, text).type # "SendApplied"
        BY DEF S!ApplyRemote
      <4> QED
        BY <3>3, <4>1, <4>2, <4>3
    <3> QED
      BY <2>2, <3>3, <3>4
  <2>3. CASE /\ message.type = "SendApplied" /\ message # Disconnected
             /\ S!ReceiveAcknowledgement(e, e[1], message.sequence)
    <3>1. message.sequence \in Nat
      BY <1>3, <2>3, KindsDiffer
    <3>2. /\ OthersKept(e) /\ actions'[e] = <<>>
          /\ session'[e].acknowledged \in {session[e].acknowledged, message.sequence}
      BY <2>3, <3>1, AcknowledgementCall DEF PathType
    <3>3. Wrote(Opposite(e), message.sequence)
      BY <1>3, <2>3 DEF AcknowledgementsInv
    <3> QED
      BY <3>2, <3>3, EmptyQueue
  <2> QED
    BY <2>1, <2>2, <2>3 DEF TakeControl, ReceiveControl, message
<1>5. AcknowledgementsInv'
  <2>1. \A f \in Ends : \/ session'[f].acknowledged = session[f].acknowledged
                        \/ Wrote(Opposite(f), session'[f].acknowledged)
    BY <1>4 DEF OthersKept
  <2>2. \A f \in Ends : \A x \in Entries(actions'[f]) :
          x \in Entries(actions[f]) \/ x.type # "SendApplied"
    BY <1>4 DEF OthersKept
  <2> QED
    BY <1>1, <1>3, <2>1, <2>2, AcknowledgementsKept
<1>6. /\ \A f \in Ends : f # e => open'[f] = open[f]
      /\ open'[e] => open[e]
  BY DEF TakeControl, PathType, RuntimeType
<1>7. ApplicationsInv'
  BY <1>1, <1>4, <1>6, ServicesSurvive
<1> QED
  BY <1>5, <1>7

LEMMA TakeTransferWritten ==
  ASSUME PathType, PathType', AcknowledgementsInv, ApplicationsInv, NEW e \in Ends,
         TakeTransfer(e)
  PROVE  AcknowledgementsInv' /\ ApplicationsInv'
<1> DEFINE message == Head(Arriving(transfers, e))
<1>1. /\ Arriving(transfers, e) # <<>>
      /\ UNCHANGED <<offering, service, events, opened, control, commands, written>>
  BY DEF TakeTransfer, EndRuntime, connectionVars
<1>2. actions[e] = <<>> /\ Node(e) \in Nodes
  BY EndFacts DEF TakeTransfer, Free
<1>3. message \in Contents \cup {ClipboardFailed}
  BY <1>1, TransferTaken
<1> HIDE DEF message
<1>4. /\ OthersKept(e)
      /\ actions'[e] = <<>> \/ open[e]
      /\ \A x \in Entries(actions'[e]) : x.type # "SendApplied"
      /\ session'[e].acknowledged = session[e].acknowledged
  <2>1. CASE UNCHANGED sessionVars
    BY <1>2, <2>1, EmptyQueue DEF OthersKept, sessionVars
  <2>2. CASE /\ open[e] /\ message # ClipboardFailed
             /\ S!ReceiveTransfer(e, e[2], message.sequence, message.text)
    <3>1. message.sequence \in Nat /\ message.text \in Texts
      BY <1>3, <2>2, KindsDiffer
    <3>2. /\ S!ReceivePart(e, "transfer", e[2], message.sequence, message.text)
          /\ "transfer" \in S!Parts
      BY <2>2 DEF S!ReceiveTransfer, S!Parts
    <3>3. /\ OthersKept(e) /\ session'[e].acknowledged = session[e].acknowledged
          /\ actions'[e] = <<>> \/ \E m, text : actions'[e] = <<S!ApplyRemote(m, text)>>
      BY <3>1, <3>2, PartCall DEF PathType
    <3>4. \A x \in Entries(actions'[e]) : x.type # "SendApplied"
      <4>1. CASE actions'[e] = <<>>
        BY <4>1, EmptyQueue
      <4>2. ASSUME NEW m, NEW text, actions'[e] = <<S!ApplyRemote(m, text)>>
            PROVE  Entries(actions'[e]) = {S!ApplyRemote(m, text)}
        BY <4>2, ShortQueues
      <4>3. \A m, text : S!ApplyRemote(m, text).type # "SendApplied"
        BY DEF S!ApplyRemote
      <4> QED
        BY <3>3, <4>1, <4>2, <4>3
    <3> QED
      BY <2>2, <3>3, <3>4
  <2> QED
    BY <2>1, <2>2 DEF TakeTransfer, message
<1>5. AcknowledgementsInv'
  <2>1. \A f \in Ends : session'[f].acknowledged = session[f].acknowledged
    BY <1>4 DEF OthersKept
  <2>2. \A f \in Ends : \A x \in Entries(actions'[f]) :
          x \in Entries(actions[f]) \/ x.type # "SendApplied"
    BY <1>4 DEF OthersKept
  <2> QED
    BY <1>1, <2>1, <2>2, AcknowledgementsKept
<1>6. /\ \A f \in Ends : f # e => open'[f] = open[f]
      /\ open'[e] => open[e]
  BY DEF TakeTransfer, PathType, RuntimeType
<1>7. /\ \A m \in Nodes : m # Node(e) => applications'[m] = applications[m]
      /\ applications'[Node(e)].pending = applications[Node(e)].pending
      /\ Node(e) # Local => applications'[Node(e)] = applications[Node(e)]
  <2>1. CASE applications' = [applications EXCEPT ![Node(e)] = WithoutPeer(e)]
    <3>1. applications'[Node(e)] = WithoutPeer(e)
      BY <1>2, <2>1 DEF PathType, RuntimeType
    <3>2. WithoutPeer(e).pending = applications[Node(e)].pending
      BY WithoutPeerEffect DEF PathType, RuntimeType
    <3>3. Node(e) # Local => WithoutPeer(e) = applications[Node(e)]
      BY DEF WithoutPeer
    <3> QED
      BY <2>1, <3>1, <3>2, <3>3 DEF PathType, RuntimeType
  <2>2. CASE UNCHANGED applications
    BY <2>2
  <2> QED
    BY <2>1, <2>2 DEF TakeTransfer, EndRuntime
<1>8. ApplicationsInv'
  BY <1>1, <1>4, <1>6, <1>7, ServicesSurvive
<1> QED
  BY <1>5, <1>8

LEMMA ConnectWritten ==
  ASSUME PathType, PathType', FirstConnections', AcknowledgementsInv, ApplicationsInv,
         NEW a \in Agents, Connect(a)
  PROVE  AcknowledgementsInv' /\ ApplicationsInv'
<1> DEFINE e == <<a, Local>>
<1>1. e \in Ends /\ a \in Nodes /\ a # Local /\ Node(e) = a /\ Started(e) = opened[a]
  BY AgentEnds
<1> HIDE DEF e
<1>2. /\ S!Start(e) /\ opened' = [opened EXCEPT ![a] = opened[a] + 1]
      /\ open' = [open EXCEPT ![e] = TRUE]
      /\ applications' = [applications EXCEPT ![a] = NoApplications]
      /\ UNCHANGED <<offering, service, commands, events, control, written>>
  BY DEF Connect, e, streamVars
<1>3. /\ OthersKept(e) /\ actions'[e] = <<>> /\ session'[e] = S!NewSession
  BY <1>1, <1>2, StartCall DEF PathType
<1>4. AcknowledgementsInv'
  <2>1. session'[e].acknowledged = 0
    BY <1>3 DEF S!NewSession
  <2>2. \A f \in Ends : session'[f].acknowledged \in {0, session[f].acknowledged}
    BY <1>3, <2>1 DEF OthersKept
  <2>3. \A f \in Ends : \A x \in Entries(actions'[f]) : x \in Entries(actions[f])
    BY <1>3, EmptyQueue DEF OthersKept
  <2> QED
    BY <1>2, <2>2, <2>3, AcknowledgementsKept
<1>5. opened[a] = 0
  <2>1. opened'[a] <= 1 /\ opened[a] \in Nat /\ opened'[a] = opened[a] + 1
    BY <1>2 DEF FirstConnections, PathType, ConnectionType
  <2> QED
    BY <2>1
<1>6. applications[a].pending = NoApplication
  <2>1. applications[a] \in Lists
    BY <1>1 DEF PathType, RuntimeType
  <2>2. applications[a].pending # NoApplication =>
          applications[a].pending \in Listed(applications[a])
    BY <2>1, ListTypes
  <2>3. \A x \in Listed(applications[a]) : FALSE
    <3> SUFFICES ASSUME NEW x \in Listed(applications[a]) PROVE FALSE
      OBVIOUS
    <3>1. x.end \in EndsOf(a) /\ x.session \in 1 .. Started(x.end)
      BY <1>1 DEF PathType, WorkType
    <3>2. Started(x.end) = 0
      BY <1>1, <1>5, <3>1, AgentEnds DEF e
    <3> QED
      BY <3>1, <3>2
  <2> QED
    BY <2>2, <2>3
<1>7. WithService(a)'
  <2>1. ~GivenUp(a)
    BY <1>1, <1>5 DEF GivenUp
  <2>2. Unused(a)
    BY <1>1, <1>6, <2>1 DEF ApplicationsInv, WithService
  <2>3. applications'[a].pending = NoApplication
    BY <1>1, <1>2, ApplicationTypes DEF PathType, RuntimeType
  <2> QED
    BY <1>2, <2>2, <2>3 DEF WithService, Unused
<1>8. \A m \in Nodes \ {a} : WithService(m)'
  <2>1. \A f \in Ends : Node(f) # a => open'[f] = open[f] /\ actions'[f] = actions[f]
    BY <1>1, <1>2, <1>3 DEF OthersKept, PathType, RuntimeType
  <2>2. \A m \in Nodes \ {a} : opened'[m] = opened[m] /\ applications'[m] = applications[m]
    BY <1>2 DEF PathType, ConnectionType, RuntimeType
  <2> QED
    BY <1>1, <1>2, <2>1, <2>2, OtherServices
<1> QED
  BY <1>4, <1>7, <1>8 DEF ApplicationsInv

LEMMA AcceptPeerWritten ==
  ASSUME PathType, PathType', AcknowledgementsInv, ApplicationsInv, NEW a \in Agents,
         AcceptPeer(a)
  PROVE  AcknowledgementsInv' /\ ApplicationsInv'
<1> DEFINE e == <<Local, a>>
<1>1. e \in Ends /\ Node(e) = Local /\ Local \in Nodes
  BY AgentEnds, ClipboardPathAssumption
<1> HIDE DEF e
<1>2. /\ S!Start(e) /\ open' = [open EXCEPT ![e] = TRUE]
      /\ UNCHANGED <<applications, offering, service, commands, events, opened, control,
                     written>>
  BY DEF AcceptPeer, e, streamVars
<1>3. /\ OthersKept(e) /\ actions'[e] = <<>> /\ session'[e] = S!NewSession
  BY <1>1, <1>2, StartCall DEF PathType
<1>4. AcknowledgementsInv'
  <2>1. session'[e].acknowledged = 0
    BY <1>3 DEF S!NewSession
  <2>2. \A f \in Ends : session'[f].acknowledged \in {0, session[f].acknowledged}
    BY <1>3, <2>1 DEF OthersKept
  <2>3. \A f \in Ends : \A x \in Entries(actions'[f]) : x \in Entries(actions[f])
    BY <1>3, EmptyQueue DEF OthersKept
  <2> QED
    BY <1>2, <2>2, <2>3, AcknowledgementsKept
<1>5. WithService(Local)'
  <2>1. WithService(Local)
    BY <1>1 DEF ApplicationsInv
  <2> QED
    BY <1>1, <1>2, <2>1, ServiceUntouched
<1>6. \A m \in Nodes \ {Local} : WithService(m)'
  <2>1. \A f \in Ends : Node(f) # Local => open'[f] = open[f] /\ actions'[f] = actions[f]
    BY <1>1, <1>2, <1>3 DEF OthersKept, PathType, RuntimeType
  <2> QED
    BY <1>1, <1>2, <2>1, OtherServices
<1> QED
  BY <1>4, <1>5, <1>6 DEF ApplicationsInv

LEMMA LoseWritten ==
  ASSUME PathType, PathType', AcknowledgementsInv, ApplicationsInv, NEW a \in Agents,
         NEW s \in Sessions, Lose(a, s)
  PROVE  AcknowledgementsInv' /\ ApplicationsInv'
<1>1. UNCHANGED <<session, actions, open, offering, applications, service, commands, events,
                  opened, written>>
  BY DEF Lose, sessionVars
<1>2. AcknowledgementsInv'
  <2>1. \A f \in Ends, t \in Sessions : \A m \in Entries(control'[f][t]) :
          m \in Entries(control[f][t]) \/ m.type # "SendApplied"
    BY LoseEffect, KindsDiffer
  <2> QED
    BY <1>1, <2>1, AcknowledgementsKept
<1>3. ASSUME NEW n \in Nodes PROVE WithService(n)'
  BY <1>1, ServiceUntouched DEF ApplicationsInv
<1> QED
  BY <1>2, <1>3 DEF ApplicationsInv

(* What the services do to the texts under application.                    *)
LEMMA ServiceWritten ==
  ASSUME PathType, PathType', AcknowledgementsInv, ApplicationsInv, NEW n \in Nodes,
         UserCopies(n) \/ ServiceNotices(n) \/ ServiceApplies(n) \/ ServiceFails(n)
  PROVE  AcknowledgementsInv' /\ ApplicationsInv'
<1>1. /\ UNCHANGED <<session, actions, control, open, offering, applications, service, opened>>
      /\ written \subseteq written'
  BY DEF UserCopies, ServiceNotices, ServiceApplies, ServiceFails, sessionVars, streamVars,
         connectionVars
<1>2. AcknowledgementsInv'
  BY <1>1, AcknowledgementsKept
<1>3. \A m \in Nodes \ {n} : commands'[m] = commands[m] /\ events'[m] = events[m]
  <2>1. \A event : Report(n, event) => \A m \in Nodes \ {n} : events'[m] = events[m]
    BY DEF Report, PathType, ServiceType
  <2>2. \A m \in Nodes \ {n} : commands'[m] = commands[m]
    BY DEF UserCopies, ServiceNotices, ServiceApplies, ServiceFails, PathType, ServiceType
  <2> QED
    BY <2>1, <2>2 DEF UserCopies, ServiceNotices, ServiceApplies, ServiceFails
<1>4. \A m \in Nodes \ {n} : WithService(m)'
  BY <1>1, <1>3, OtherServices
<1>5. GivenUp(n) => GivenUp(n)'
  <2>1. n # Local => opened'[n] >= opened[n] /\ opened'[n] \in Nat
    BY <1>1 DEF PathType, ConnectionType, Agents
  <2> QED
    BY <1>1, <2>1, StaysGivenUp
<1>6. events[n] \in Seq(NativeEvents) /\ commands[n] \in Seq(Applications) /\ WithService(n)
  BY DEF PathType, ServiceType, ApplicationsInv
<1>7. ASSUME ~ServiceApplies(n) PROVE WithService(n)'
  <2>1. \/ events'[n] = events[n]
        \/ \E x \in NativeEvents : x # Applied /\ events'[n] = Append(events[n], x)
    <3>1. CASE UserCopies(n)
      BY <3>1 DEF UserCopies
    <3>2. CASE ServiceNotices(n)
      <4>1. Changed(native[n]) \in NativeEvents /\ Changed(native[n]) # Applied
        BY <3>2, EventTypes DEF ServiceNotices, PathType, ServiceType
      <4>2. CASE UNCHANGED events
        BY <4>2
      <4>3. CASE Report(n, Changed(native[n]))
        BY <4>1, <4>3, ReportEffect
      <4> QED
        BY <3>2, <4>2, <4>3 DEF ServiceNotices
    <3>3. CASE ServiceFails(n)
      BY <3>3, EventTypes, ReportEffect DEF ServiceFails, FailureReported
    <3> QED
      BY <1>7, <3>1, <3>2, <3>3
  <2>2. /\ Applied \in Entries(events'[n]) => Applied \in Entries(events[n])
        /\ OneApplied(n) => OneApplied(n)'
    BY <1>6, <2>1, EventsKept
  <2>3. \/ commands'[n] = commands[n]
        \/ commands[n] # <<>> /\ commands'[n] = Tail(commands[n])
    BY <1>7 DEF UserCopies, ServiceNotices, ServiceFails, PathType, ServiceType
  <2>4. CASE commands'[n] = commands[n]
    BY <1>1, <1>5, <1>6, <2>2, <2>4, ServiceKept
  <2>5. CASE commands[n] # <<>> /\ commands'[n] = Tail(commands[n])
    <3>1. \A x : Tail(<<x>>) = <<>>
      OBVIOUS
    <3> QED
      BY <1>1, <1>5, <1>6, <2>2, <2>5, <3>1 DEF WithService, Unused
  <2> QED
    BY <2>3, <2>4, <2>5
<1>8. ASSUME ServiceApplies(n) PROVE WithService(n)'
  <2>1. commands[n] # <<>> /\ Head(commands[n]) \in written' /\ commands'[n] = Tail(commands[n])
    BY <1>8 DEF ServiceApplies, PathType, ServiceType
  <2>2. /\ \A x : Tail(<<x>>) = <<>> /\ Head(<<x>>) = x
    OBVIOUS
  <2>3. CASE applications[n].pending = NoApplication
    BY <1>1, <1>5, <1>6, <2>1, <2>3 DEF WithService, Unused
  <2>4. CASE applications[n].pending # NoApplication
    <3>1. /\ commands[n] = <<applications[n].pending>> /\ Applied \notin Entries(events[n])
          /\ OneApplied(n)
      BY <1>6, <2>1, <2>4 DEF WithService
    <3>2. commands'[n] = <<>> /\ applications[n].pending \in written'
      BY <2>1, <2>2, <3>1
    <3>3. OneApplied(n)'
      <4>1. events'[n] = Append(events[n], Applied) \/ events'[n] = events[n]
        BY <1>8, EventTypes, ReportEffect DEF ServiceApplies, PathType, RuntimeType
      <4>2. CASE events'[n] = events[n]
        BY <3>1, <4>2 DEF OneApplied
      <4>3. CASE events'[n] = Append(events[n], Applied)
        <5>1. /\ Len(events'[n]) = Len(events[n]) + 1 /\ Len(events[n]) \in Nat
              /\ \A i \in 1 .. Len(events[n]) : events'[n][i] = events[n][i]
          BY <1>6, <4>3, EventTypes, AppendQueue
        <5>2. \A i \in 1 .. Len(events'[n]) :
                events'[n][i] = Applied => i = Len(events[n]) + 1
          BY <3>1, <5>1 DEF Entries
        <5> QED
          BY <5>2 DEF OneApplied
      <4> QED
        BY <4>1, <4>2, <4>3
    <3> QED
      BY <1>1, <2>4, <3>2, <3>3 DEF WithService
  <2> QED
    BY <2>3, <2>4
<1> QED
  BY <1>2, <1>4, <1>7, <1>8 DEF ApplicationsInv

(* The connections an agent has opened stay opened.                        *)
LEMMA FirstBefore ==
  ASSUME PathType, [Next]_vars, FirstConnections' PROVE FirstConnections
<1>1. \A a \in Agents : opened[a] \in Nat /\ opened'[a] \in Nat /\ opened[a] <= opened'[a]
  <2>1. PathType'
    BY TypeStep
  <2>2. UNCHANGED opened \/ \E b \in Agents : opened' = [opened EXCEPT ![b] = opened[b] + 1]
    <3>1. CASE UNCHANGED vars
      BY <3>1 DEF vars, connectionVars
    <3>2. ASSUME NEW n \in Nodes, RuntimeStep(n) PROVE UNCHANGED opened
      BY <3>2 DEF RuntimeStep, NativeChanged, NativeApplied, NativeFailed, Send,
                  QueueApplication, OfferChange, TakeControl, TakeTransfer, connectionVars
    <3>3. ASSUME NEW n \in Nodes, ServiceStep(n) \/ ServiceFails(n) \/ UserCopies(n)
          PROVE  UNCHANGED opened
      BY <3>3 DEF ServiceStep, ServiceNotices, ServiceApplies, ServiceFails, UserCopies,
                  connectionVars
    <3>4. ASSUME NEW a \in Agents, Connect(a)
          PROVE  opened' = [opened EXCEPT ![a] = opened[a] + 1]
      BY <3>4 DEF Connect
    <3>5. ASSUME NEW a \in Agents, AcceptPeer(a) \/ \E s \in Sessions : Lose(a, s)
          PROVE  UNCHANGED opened
      BY <3>5 DEF AcceptPeer, Lose
    <3> QED
      BY <3>1, <3>2, <3>3, <3>4, <3>5 DEF Next
  <2>3. opened \in [Agents -> Nat]
    BY DEF PathType, ConnectionType
  <2>4. \A i \in Nat : i <= i /\ i <= i + 1 /\ i + 1 \in Nat
    OBVIOUS
  <2> QED
    BY <2>2, <2>3, <2>4
<1>2. \A i, j \in Nat : i <= j /\ j <= 1 => i <= 1
  OBVIOUS
<1> QED
  BY <1>1, <1>2 DEF FirstConnections

LEMMA WrittenInit == ASSUME Init PROVE WrittenInv
<1>1. AcknowledgementsInv
  <2>1. \A e \in Ends : session[e].acknowledged = 0 /\ Entries(actions[e]) = {}
    BY EmptyQueue DEF Init, S!Init, S!NewSession
  <2>2. \A e \in Ends, s \in Sessions : Entries(control[e][s]) = {}
    BY EmptyQueue DEF Init
  <2> QED
    BY <2>1, <2>2 DEF AcknowledgementsInv
<1>2. ApplicationsInv
  <2>1. \A n \in Nodes : /\ applications[n].pending = NoApplication /\ commands[n] = <<>>
                         /\ Entries(events[n]) = {}
    BY EmptyQueue DEF Init, NoApplications
  <2> QED
    BY <2>1 DEF ApplicationsInv, WithService, Unused
<1> QED
  BY <1>1, <1>2 DEF WrittenInv

LEMMA WrittenStep == ASSUME PathType, WrittenInv, [Next]_vars PROVE WrittenInv'
<1> SUFFICES ASSUME FirstConnections' PROVE AcknowledgementsInv' /\ ApplicationsInv'
  BY DEF WrittenInv
<1>1. PathType' /\ FirstConnections /\ AcknowledgementsInv /\ ApplicationsInv
  BY TypeStep, FirstBefore DEF WrittenInv
<1>2. CASE UNCHANGED vars
  <2>1. UNCHANGED <<session, actions, control, written, open, offering, applications, service,
                    commands, events, opened>>
    BY <1>2 DEF vars, sessionVars, streamVars, connectionVars
  <2>2. AcknowledgementsInv'
    BY <1>1, <2>1, AcknowledgementsKept
  <2>3. ASSUME NEW n \in Nodes PROVE WithService(n)'
    BY <1>1, <2>1, ServiceUntouched DEF ApplicationsInv
  <2> QED
    BY <2>2, <2>3 DEF ApplicationsInv
<1>3. ASSUME NEW n \in Nodes, RuntimeStep(n) PROVE AcknowledgementsInv' /\ ApplicationsInv'
  BY <1>1, <1>3, NativeChangedWritten, NativeAppliedWritten, NativeFailedWritten, SendWritten,
     QueueApplicationWritten, OfferChangeWritten, TakeControlWritten, TakeTransferWritten,
     EndOfNode
  DEF RuntimeStep
<1>4. ASSUME NEW n \in Nodes, ServiceStep(n) \/ ServiceFails(n) \/ UserCopies(n)
      PROVE  AcknowledgementsInv' /\ ApplicationsInv'
  BY <1>1, <1>4, ServiceWritten DEF ServiceStep
<1>5. ASSUME NEW a \in Agents, Connect(a) \/ AcceptPeer(a) \/ \E s \in Sessions : Lose(a, s)
      PROVE  AcknowledgementsInv' /\ ApplicationsInv'
  BY <1>1, <1>5, ConnectWritten, AcceptPeerWritten, LoseWritten
<1> QED
  BY <1>2, <1>3, <1>4, <1>5 DEF Next

(* As long as no agent has connected a second time: a generation that an   *)
(* end has an acknowledgement of was written to the peer's native          *)
(* clipboard, whatever services fail and connections are lost.             *)
THEOREM AcknowledgedTextsAreWritten ==
  Spec => [](FirstConnections => AcknowledgedAfterWrite)
<1>1. Init => PathType /\ WrittenInv
  BY TypeInit, WrittenInit
<1>2. PathType /\ WrittenInv /\ [Next]_vars => PathType' /\ WrittenInv'
  BY TypeStep, WrittenStep
<1>3. PathType /\ WrittenInv => (FirstConnections => AcknowledgedAfterWrite)
  <2> SUFFICES ASSUME PathType, WrittenInv, FirstConnections, NEW e \in Ends,
                      inUse[e] # NoSession, session[e].acknowledged > 0
               PROVE  \E w \in written : /\ w.end = Opposite(e) /\ w.session = inUse[e]
                                         /\ w.sequence = session[e].acknowledged
    BY DEF AcknowledgedAfterWrite
  <2>1. inUse[e] = 1
    BY FirstOnly
  <2>2. Wrote(Opposite(e), session[e].acknowledged)
    BY DEF WrittenInv, AcknowledgementsInv
  <2> QED
    BY <2>1, <2>2 DEF Wrote
<1> QED
  BY <1>1, <1>2, <1>3, PTL DEF Spec

-----------------------------------------------------------------------------
(* Nothing is sent back.                                                   *)

(* What comes in through an end goes out through its opposite; it comes in *)
(* through no other end of the node, and is not the node's own.            *)
LEMMA ThroughFacts ==
  ASSUME NEW e \in Ends
  PROVE  /\ Through(e) \subseteq Texts /\ NoText \notin Through(e)
         /\ \A text \in Texts : text \in Through(Opposite(e)) <=> text \notin Through(e)
         /\ \A text \in Texts : text \notin Through(e) => text[1] # e[2]
         /\ \A f \in EndsOf(Node(e)) : \A text : text \in Through(e) /\ text \in Through(f) => e = f
         /\ \A i : <<Node(e), i>> \notin Through(e)
<1>1. Through(e) \subseteq Texts /\ NoText \notin Through(e)
  BY TextTypes DEF Through
<1>2. CASE Node(e) = Local
  <2>1. PICK a \in Agents : e = <<Local, a>>
    BY <1>2, EndFacts
  <2>2. a # Local /\ e[2] = a /\ Node(e) = Local
    BY <2>1 DEF Agents, Node
  <2>3. Opposite(e) = <<a, Local>> /\ Node(Opposite(e)) = a /\ Opposite(e)[1] = a
    BY <2>1 DEF Opposite, Node
  <2>4. \A text : text \in Through(e) <=> text \in Texts /\ text[1] = a
    BY <2>2 DEF Through
  <2>5. \A text : text \in Through(Opposite(e)) <=> text \in Texts /\ text[1] # a
    BY <2>2, <2>3 DEF Through
  <2>6. ASSUME NEW f \in EndsOf(Node(e)), NEW text, text \in Through(e), text \in Through(f)
        PROVE  e = f
    <3>1. f \in Ends /\ Node(f) = Local
      BY <1>2, <2>6 DEF EndsOf
    <3>2. f = <<Local, f[2]>>
      BY <3>1, EndFacts
    <3>3. text[1] = f[2]
      BY <2>6, <3>1 DEF Through
    <3> QED
      BY <2>1, <2>4, <2>6, <3>2, <3>3
  <2>7. \A i : <<Node(e), i>>[1] = Local
    BY <1>2
  <2> QED
    BY <1>1, <2>2, <2>4, <2>5, <2>6, <2>7
<1>3. CASE Node(e) # Local
  <2>1. PICK a \in Agents : e = <<a, Local>>
    BY <1>3, EndFacts
  <2>2. a # Local /\ e[2] = Local /\ Node(e) = a /\ e[1] = a
    BY <2>1 DEF Agents, Node
  <2>3. Opposite(e) = <<Local, a>> /\ Node(Opposite(e)) = Local /\ Opposite(e)[2] = a
    BY <2>1 DEF Opposite, Node
  <2>4. \A text : text \in Through(e) <=> text \in Texts /\ text[1] # a
    BY <2>2 DEF Through
  <2>5. \A text : text \in Through(Opposite(e)) <=> text \in Texts /\ text[1] = a
    BY <2>3 DEF Through
  <2>6. EndsOf(Node(e)) = {e}
    BY <2>1, <2>2, AgentEnds
  <2>7. \A i : <<Node(e), i>>[1] = a
    BY <2>2
  <2> QED
    BY <1>1, <2>2, <2>4, <2>5, <2>6, <2>7
<1> QED
  BY <1>2, <1>3

(* What is known stays known: when e has been told, ...                    *)
LEMMA KnownKept ==
  ASSUME NEW queue, NEW told, NEW after, NEW pending, NEW next, NEW remote, NEW e, NEW held,
         NEW N \in Nat, Len(queue) = N,
         AllKnown(queue, told, pending, remote, e, held),
         e \in after.ends => e \in told.ends /\ after.text = told.text,
         \/ next = pending \/ next = NoApplication \/ \A i \in 1 .. N : queue[i] # Applied
  PROVE  AllKnown(queue, after, next, remote, e, held)
<1>1. ASSUME NEW last \in 0 .. N, NEW text, Known(queue, told, pending, remote, e, last, text)
      PROVE  Known(queue, after, next, remote, e, last, text)
  BY <1>1 DEF Known
<1>2. \A i \in 1 .. N : i \in 0 .. N
  OBVIOUS
<1>3. N \in 0 .. N
  OBVIOUS
<1> QED
  BY <1>1, <1>2, <1>3 DEF AllKnown

(* ... when its service has no such text to report, ...                    *)
LEMMA KnownNotHeld ==
  ASSUME NEW queue, NEW told, NEW pending, NEW remote, NEW e, NEW held, NEW other,
         AllKnown(queue, told, pending, remote, e, held), other \notin Through(e)
  PROVE  AllKnown(queue, told, pending, remote, e, other)
BY DEF AllKnown

(* ... when the runtime takes a change and tells e of it, ...              *)
LEMMA KnownChanged ==
  ASSUME NEW queue \in Seq(NativeEvents), queue # <<>>, Head(queue).type = "Changed",
         NEW told, NEW after, NEW pending, NEW remote, NEW e \in Ends, NEW held,
         AllKnown(queue, told, pending, remote, e, held),
         after.text = Head(queue).text
  PROVE  AllKnown(Tail(queue), after, pending, remote, e, held)
<1> DEFINE rest == Tail(queue)
           N == Len(queue)
<1>1. /\ rest \in Seq(NativeEvents) /\ Head(queue) \in NativeEvents
      /\ N \in Nat /\ N >= 1 /\ Len(rest) = N - 1 /\ Head(queue) = queue[1]
      /\ \A i \in 1 .. N - 1 : rest[i] = queue[i + 1]
  BY TailQueue
<1> HIDE DEF rest, N
<1>2. queue[1].type = "Changed" /\ queue[1] # Applied /\ after.text = queue[1].text
  BY <1>1, EventTypes
<1>3. ASSUME NEW last \in 0 .. N - 1, NEW text,
             Known(queue, told, pending, remote, e, last + 1, text)
      PROVE  Known(rest, after, pending, remote, e, last, text)
  <2>1. /\ 1 \in 1 .. last + 1
        /\ \A i \in 1 .. last : i + 1 \in 1 .. last + 1 /\ rest[i] = queue[i + 1]
        /\ \A i \in 1 .. last + 1 : i = 1 \/ (i - 1 \in 1 .. last /\ queue[i] = rest[i - 1])
    BY <1>1, SMTT(60)
  <2>2. ASSUME \A i \in 1 .. last : rest[i] # Applied
        PROVE  /\ remote = text /\ after.text = text
               /\ \A i \in 1 .. last : rest[i].type = "Changed" => rest[i].text = text
    <3>1. \A i \in 1 .. last + 1 : queue[i] # Applied
      BY <1>2, <2>1, <2>2
    <3>2. /\ remote = text
          /\ \A i \in 1 .. last + 1 : queue[i].type = "Changed" => queue[i].text = text
      BY <1>3, <3>1 DEF Known
    <3> QED
      BY <1>2, <2>1, <3>2
  <2>3. ASSUME NEW i \in 1 .. last, rest[i] = Applied, pending # NoApplication
        PROVE  /\ pending.end = e /\ pending.text = text
               /\ \A j \in i .. last : rest[j].type = "Changed" => rest[j].text = text
    <3>1. i + 1 \in 1 .. last + 1 /\ queue[i + 1] = Applied
      BY <2>1, <2>3
    <3>2. /\ pending.end = e /\ pending.text = text
          /\ \A j \in i + 1 .. last + 1 : queue[j].type = "Changed" => queue[j].text = text
      BY <1>3, <2>3, <3>1 DEF Known
    <3>3. \A j \in i .. last : j + 1 \in i + 1 .. last + 1 /\ j \in 1 .. last
      OBVIOUS
    <3> QED
      BY <2>1, <3>2, <3>3, ZenonT(60)
  <2> QED
    BY <2>2, <2>3 DEF Known
<1>4. ASSUME e \in after.ends, after.text \in Through(e) PROVE remote = after.text
  <2>1. 1 \in 1 .. Len(queue) /\ 1 \in 1 .. 1
    BY <1>1 DEF N
  <2>2. Known(queue, told, pending, remote, e, 1, queue[1].text)
    BY <1>2, <1>4, <2>1 DEF AllKnown
  <2>3. \A i \in 1 .. 1 : queue[i] # Applied
    BY <1>2
  <2> QED
    BY <1>2, <2>2, <2>3 DEF Known
<1>5. ASSUME NEW i \in 1 .. Len(rest), rest[i].type = "Changed", rest[i].text \in Through(e)
      PROVE  Known(rest, after, pending, remote, e, i, rest[i].text)
  <2>1. /\ i + 1 \in 1 .. Len(queue) /\ rest[i] = queue[i + 1] /\ i \in 0 .. N - 1
    BY <1>1 DEF N
  <2>2. Known(queue, told, pending, remote, e, i + 1, rest[i].text)
    BY <1>5, <2>1 DEF AllKnown
  <2> QED
    BY <1>3, <2>1, <2>2
<1>6. ASSUME held \in Through(e)
      PROVE  Known(rest, after, pending, remote, e, Len(rest), held)
  <2>1. Len(rest) \in 0 .. N - 1 /\ Len(rest) + 1 = Len(queue)
    BY <1>1 DEF N
  <2>2. Known(queue, told, pending, remote, e, Len(rest) + 1, held)
    BY <1>6, <2>1 DEF AllKnown
  <2> QED
    BY <1>3, <2>1, <2>2
<1>7. AllKnown(rest, after, pending, remote, e, held)
  BY <1>4, <1>5, <1>6 DEF AllKnown
<1> QED
  BY <1>7 DEF rest

(* ... when the runtime takes the report of a writing: if the text came in *)
(* through e it is now the session's, otherwise there is no text to know,  *)
(* ...                                                                     *)
LEMMA KnownApplied ==
  ASSUME NEW queue \in Seq(NativeEvents), queue # <<>>, Head(queue) = Applied,
         NEW told, NEW pending, NEW next, NEW remote, NEW now, NEW e \in Ends, NEW held,
         AllKnown(queue, told, pending, remote, e, held),
         pending # NoApplication, e \notin told.ends,
         pending.end = e => next = NoApplication /\ now = pending.text
  PROVE  AllKnown(Tail(queue), told, next, now, e, held)
<1> DEFINE rest == Tail(queue)
           N == Len(queue)
<1>1. /\ N \in Nat /\ N >= 1 /\ Len(rest) = N - 1 /\ queue[1] = Applied
      /\ \A i \in 1 .. N - 1 : rest[i] = queue[i + 1]
  BY TailQueue
<1> HIDE DEF rest, N
<1>2. ASSUME NEW last \in 0 .. N - 1, NEW text,
             Known(queue, told, pending, remote, e, last + 1, text)
      PROVE  Known(rest, told, next, now, e, last, text)
  <2>1. /\ 1 \in 1 .. last + 1
        /\ \A i \in 1 .. last : i + 1 \in 1 .. last + 1 /\ rest[i] = queue[i + 1]
    BY <1>1
  <2>2. /\ pending.end = e /\ pending.text = text
        /\ \A j \in 1 .. last + 1 : queue[j].type = "Changed" => queue[j].text = text
    BY <1>1, <1>2, <2>1 DEF Known
  <2>3. next = NoApplication /\ now = text
    BY <2>2
  <2>4. \A i \in 1 .. last : rest[i].type = "Changed" => rest[i].text = text
    BY <2>1, <2>2
  <2> QED
    BY <2>3, <2>4 DEF Known
<1>3. ASSUME NEW i \in 1 .. Len(rest), rest[i].type = "Changed", rest[i].text \in Through(e)
      PROVE  Known(rest, told, next, now, e, i, rest[i].text)
  <2>1. /\ i + 1 \in 1 .. Len(queue) /\ rest[i] = queue[i + 1] /\ i \in 0 .. N - 1
    BY <1>1 DEF N
  <2>2. Known(queue, told, pending, remote, e, i + 1, rest[i].text)
    BY <1>3, <2>1 DEF AllKnown
  <2> QED
    BY <1>2, <2>1, <2>2
<1>4. ASSUME held \in Through(e) PROVE Known(rest, told, next, now, e, Len(rest), held)
  <2>1. Len(rest) \in 0 .. N - 1 /\ Len(rest) + 1 = Len(queue)
    BY <1>1 DEF N
  <2>2. Known(queue, told, pending, remote, e, Len(rest) + 1, held)
    BY <1>4, <2>1 DEF AllKnown
  <2> QED
    BY <1>2, <2>1, <2>2
<1>5. AllKnown(rest, told, next, now, e, held)
  BY <1>3, <1>4 DEF AllKnown
<1> QED
  BY <1>5 DEF rest

(* ... when it takes the report of a failure and keeps some of the events  *)
(* after it, ...                                                           *)
LEMMA KnownFailed ==
  ASSUME NEW queue \in Seq(NativeEvents), queue # <<>>, Head(queue) = Failed,
         NEW rest \in Seq(NativeEvents), Len(rest) < Len(queue),
         \A i \in 1 .. Len(rest) : rest[i] = queue[i + 1],
         NEW told, NEW pending, NEW remote, NEW e \in Ends, NEW held,
         AllKnown(queue, told, pending, remote, e, held), e \notin told.ends
  PROVE  AllKnown(rest, told, NoApplication, remote, e, NoText)
<1> DEFINE N == Len(queue)
           M == Len(rest)
<1>1. /\ N \in Nat /\ M \in Nat /\ M < N /\ queue[1] = Failed
      /\ \A i \in 1 .. M : rest[i] = queue[i + 1]
  BY TailQueue
<1> HIDE DEF M, N
<1>2. ASSUME NEW last \in 1 .. M, NEW text,
             Known(queue, told, pending, remote, e, last + 1, text)
      PROVE  Known(rest, told, NoApplication, remote, e, last, text)
  <2>1. /\ \A i \in 1 .. last : i + 1 \in 1 .. last + 1 /\ rest[i] = queue[i + 1]
        /\ \A i \in 1 .. last + 1 : i = 1 \/ (i - 1 \in 1 .. last /\ queue[i] = rest[i - 1])
    BY <1>1
  <2>2. ASSUME \A i \in 1 .. last : rest[i] # Applied
        PROVE  /\ remote = text
               /\ \A i \in 1 .. last : rest[i].type = "Changed" => rest[i].text = text
    <3>1. Failed # Applied
      BY DEF Failed, Applied
    <3>2. \A i \in 1 .. last + 1 : queue[i] # Applied
      BY <1>1, <2>1, <2>2, <3>1
    <3>3. /\ remote = text
          /\ \A i \in 1 .. last + 1 : queue[i].type = "Changed" => queue[i].text = text
      BY <1>2, <3>2 DEF Known
    <3> QED
      BY <2>1, <3>3, ZenonT(60)
  <2> QED
    BY <2>2 DEF Known
<1>3. ASSUME NEW i \in 1 .. Len(rest), rest[i].type = "Changed", rest[i].text \in Through(e)
      PROVE  Known(rest, told, NoApplication, remote, e, i, rest[i].text)
  <2>1. /\ i + 1 \in 1 .. Len(queue) /\ rest[i] = queue[i + 1] /\ i \in 1 .. M
    BY <1>1 DEF M, N
  <2>2. Known(queue, told, pending, remote, e, i + 1, rest[i].text)
    BY <1>3, <2>1 DEF AllKnown
  <2> QED
    BY <1>2, <2>1, <2>2
<1> QED
  BY <1>3, ThroughFacts DEF AllKnown

(* ... when the service reports anything but a writing, ...                *)
LEMMA KnownReported ==
  ASSUME NEW queue \in Seq(NativeEvents), NEW x \in NativeEvents, x # Applied,
         NEW told, NEW pending, NEW remote, NEW e \in Ends, NEW held,
         x.type = "Changed" => x.text = held,
         AllKnown(queue, told, pending, remote, e, held)
  PROVE  AllKnown(Append(queue, x), told, pending, remote, e, held)
<1> DEFINE new == Append(queue, x)
           N == Len(queue)
<1>1. /\ N \in Nat /\ Len(new) = N + 1 /\ \A i \in 1 .. N : new[i] = queue[i]
      /\ new[N + 1] = x
  BY AppendQueue
<1> HIDE DEF new, N
<1>2. ASSUME NEW last \in 1 .. N, NEW text, Known(queue, told, pending, remote, e, last, text)
      PROVE  Known(new, told, pending, remote, e, last, text)
  <2>1. \A i \in 1 .. last : new[i] = queue[i] /\ \A j \in i .. last : new[j] = queue[j]
    BY <1>1
  <2> QED
    BY <1>2, <2>1 DEF Known
<1>3. ASSUME Known(queue, told, pending, remote, e, N, held)
      PROVE  Known(new, told, pending, remote, e, N + 1, held)
  <2>1. /\ \A i \in 1 .. N : i \in 1 .. N + 1 /\ new[i] = queue[i]
        /\ \A i \in 1 .. N + 1 : i \in 1 .. N \/ new[i] = x
        /\ \A i \in 1 .. N : \A j \in i .. N + 1 : (j \in i .. N /\ j \in 1 .. N) \/ new[j] = x
    BY <1>1
  <2>2. ASSUME \A i \in 1 .. N + 1 : new[i] # Applied
        PROVE  /\ remote = held /\ (e \in told.ends => told.text = held)
               /\ \A i \in 1 .. N + 1 : new[i].type = "Changed" => new[i].text = held
    <3>1. \A i \in 1 .. N : queue[i] # Applied
      BY <2>1, <2>2
    <3> QED
      BY <1>3, <2>1, <3>1 DEF Known
  <2>3. ASSUME NEW i \in 1 .. N + 1, new[i] = Applied, pending # NoApplication
        PROVE  /\ pending.end = e /\ pending.text = held
               /\ \A j \in i .. N + 1 : new[j].type = "Changed" => new[j].text = held
    <3>1. i \in 1 .. N /\ queue[i] = Applied
      BY <2>1, <2>3
    <3>2. /\ pending.end = e /\ pending.text = held
          /\ \A j \in i .. N : queue[j].type = "Changed" => queue[j].text = held
      BY <1>3, <2>3, <3>1 DEF Known
    <3> QED
      BY <2>1, <3>1, <3>2
  <2> QED
    BY <2>2, <2>3 DEF Known
<1>4. ASSUME NEW i \in 1 .. Len(new), new[i].type = "Changed", new[i].text \in Through(e)
      PROVE  Known(new, told, pending, remote, e, i, new[i].text)
  <2>1. i \in 1 .. N \/ i = N + 1
    BY <1>1
  <2>2. CASE i \in 1 .. N
    <3>1. new[i] = queue[i] /\ i \in 1 .. Len(queue)
      BY <1>1, <2>2 DEF N
    <3>2. Known(queue, told, pending, remote, e, i, new[i].text)
      BY <1>4, <3>1 DEF AllKnown
    <3> QED
      BY <1>2, <2>2, <3>2
  <2>3. CASE i = N + 1
    <3>1. new[i].text = held
      BY <1>1, <1>4, <2>3
    <3>2. Known(queue, told, pending, remote, e, N, held)
      BY <1>4, <3>1 DEF AllKnown, N
    <3> QED
      BY <1>3, <2>3, <3>1, <3>2
  <2> QED
    BY <2>1, <2>2, <2>3
<1>5. held \in Through(e) => Known(new, told, pending, remote, e, Len(new), held)
  BY <1>1, <1>3 DEF AllKnown, N
<1>6. AllKnown(new, told, pending, remote, e, held)
  BY <1>4, <1>5 DEF AllKnown
<1> QED
  BY <1>6 DEF new

(* ... and when it writes the text under application.                      *)
LEMMA KnownWritten ==
  ASSUME NEW queue \in Seq(NativeEvents), \A i \in 1 .. Len(queue) : queue[i] # Applied,
         NEW told, NEW pending, NEW remote, NEW e \in Ends, NEW held,
         AllKnown(queue, told, pending, remote, e, held),
         pending.text \in Through(e) => pending.end = e
  PROVE  AllKnown(Append(queue, Applied), told, pending, remote, e, pending.text)
<1> DEFINE new == Append(queue, Applied)
           N == Len(queue)
<1>1. /\ N \in Nat /\ Len(new) = N + 1 /\ \A i \in 1 .. N : new[i] = queue[i]
      /\ new[N + 1] = Applied
  BY AppendQueue, EventTypes
<1>2. \A i \in 1 .. N : queue[i] # Applied
  OBVIOUS
<1> HIDE DEF new, N
<1>3. ASSUME NEW last \in 1 .. N, NEW text, Known(queue, told, pending, remote, e, last, text)
      PROVE  Known(new, told, pending, remote, e, last, text)
  <2>1. \A i \in 1 .. last : new[i] = queue[i] /\ \A j \in i .. last : new[j] = queue[j]
    BY <1>1
  <2> QED
    BY <1>3, <2>1 DEF Known
<1>4. ASSUME NEW i \in 1 .. Len(new), new[i].type = "Changed", new[i].text \in Through(e)
      PROVE  Known(new, told, pending, remote, e, i, new[i].text)
  <2>1. i \in 1 .. N
    BY <1>1, <1>4, EventTypes
  <2>2. new[i] = queue[i] /\ i \in 1 .. Len(queue)
    BY <1>1, <2>1 DEF N
  <2>3. Known(queue, told, pending, remote, e, i, new[i].text)
    BY <1>4, <2>2 DEF AllKnown
  <2> QED
    BY <1>3, <2>1, <2>3
<1>5. ASSUME pending.text \in Through(e)
      PROVE  Known(new, told, pending, remote, e, N + 1, pending.text)
  <2>1. N + 1 \in 1 .. N + 1 /\ \A i \in 1 .. N + 1 : i \in 1 .. N \/ i = N + 1
    BY <1>1
  <2>2. \A i \in 1 .. N + 1 : new[i] = Applied => i = N + 1
    BY <1>1, <1>2, <2>1
  <2>3. \A j \in N + 1 .. N + 1 : new[j].type # "Changed"
    BY <1>1, EventTypes
  <2> QED
    BY <1>1, <1>5, <2>1, <2>2, <2>3 DEF Known
<1>6. AllKnown(new, told, pending, remote, e, pending.text)
  BY <1>1, <1>4, <1>5 DEF AllKnown
<1> QED
  BY <1>6 DEF new

(* ... when it is told of a text that came in elsewhere: then the writing  *)
(* that makes e know the later ones is yet to be reported; ...             *)
LEMMA KnownOffered ==
  ASSUME NEW queue, NEW told, NEW after, NEW pending, NEW remote, NEW e, NEW held,
         AllKnown(queue, told, pending, remote, e, held),
         e \in told.ends, remote # told.text, e \notin after.ends
  PROVE  AllKnown(queue, after, pending, NoText, e, held)
<1>1. ASSUME NEW last, NEW text, Known(queue, told, pending, remote, e, last, text)
      PROVE  Known(queue, after, pending, NoText, e, last, text)
  BY <1>1 DEF Known
<1> QED
  BY <1>1 DEF AllKnown

-----------------------------------------------------------------------------
(* What an end knows, from one state to the next.                          *)

LEMMA KnownNext ==
  ASSUME NEW e,
         Watched(e)' /\ ~Ended(Node(e))' =>
           AllKnown(events'[Node(e)], offering'[Node(e)], applications'[Node(e)].pending,
                    session'[e].remote_text, e,
                    IF service'[Node(e)] THEN native'[Node(e)] ELSE NoText)
  PROVE  KnownAt(e)'
BY DEF KnownAt, AllKnown, Known, Held

LEMMA KnownUntouched ==
  ASSUME NEW e, LET n == Node(e) IN
           /\ KnownAt(e)
           /\ Watched(e)' => Watched(e)
           /\ Ended(n) => Ended(n)'
           /\ events'[n] = events[n] /\ offering'[n] = offering[n]
           /\ applications'[n].pending = applications[n].pending
           /\ service'[n] = service[n] /\ native'[n] = native[n]
           /\ session'[e].remote_text = session[e].remote_text
  PROVE  KnownAt(e)'
<1>1. Watched(e)' /\ ~Ended(Node(e))' =>
        AllKnown(events[Node(e)], offering[Node(e)], applications[Node(e)].pending,
                 session[e].remote_text, e,
                 IF service[Node(e)] THEN native[Node(e)] ELSE NoText)
  BY DEF KnownAt, Held
<1> QED
  BY <1>1, KnownNext

(* An end whose runtime did nothing, nor its service.                      *)
LEMMA KnownElsewhere ==
  ASSUME NEW n \in Nodes, KnownInv,
         \A m \in Nodes \ {n} :
           /\ events'[m] = events[m] /\ offering'[m] = offering[m]
           /\ applications'[m].pending = applications[m].pending
           /\ service'[m] = service[m] /\ native'[m] = native[m] /\ ended'[m] = ended[m],
         \A f \in Ends : Node(f) # n =>
           /\ session'[f] = session[f] /\ error'[f] = error[f] /\ open'[f] = open[f]
           /\ Started(f)' = Started(f)
  PROVE  \A f \in Ends : Node(f) # n => KnownAt(f)'
<1> SUFFICES ASSUME NEW f \in Ends, Node(f) # n PROVE KnownAt(f)'
  OBVIOUS
<1> DEFINE m == Node(f)
<1>1. m \in Nodes \ {n} /\ KnownAt(f)
  BY EndFacts DEF KnownInv
<1>2. Watched(f)' => Watched(f)
  BY DEF Watched
<1>3. Ended(m) => Ended(m)'
  BY <1>1 DEF Ended, EndsOf
<1> QED
  BY <1>1, <1>2, <1>3, KnownUntouched

(* What an end is told of, and what it has before its first connection.    *)
LEMMA KnownParts ==
  ASSUME KnownInv,
         \A e \in Ends : e \in offering'[Node(e)].ends =>
           e \in offering[Node(e)].ends \/ open[e],
         \A e \in Ends : open[e] /\ ~open'[e] => e \notin offering'[Node(e)].ends,
         \A e \in Ends : Started(e)' = 0 => Started(e) = 0,
         \A e \in Ends :
           \/ session'[e].remote_text \in {NoText, session[e].remote_text}
           \/ Started(e) # 0,
         \A e \in Ends : KnownAt(e)'
  PROVE  KnownInv'
<1>1. \A e \in Ends : e \in offering'[Node(e)].ends => open'[e]
  BY DEF KnownInv
<1>2. \A e \in Ends : Started(e)' = 0 => session'[e].remote_text = NoText
  BY DEF KnownInv
<1> QED
  BY <1>1, <1>2 DEF KnownInv

(* Texts keep their origin where nothing new is said or listed.            *)
LEMMA OriginKept ==
  ASSUME OriginInv,
         \A e \in Ends :
           TextsOf(session'[e]) \cup {session'[e].remote_text} \subseteq Through(e) \cup {NoText},
         \A e \in Ends : \A action \in Entries(actions'[e]) :
           \/ action \in Entries(actions[e])
           \/ /\ action \in Contents => action.text \notin Through(e)
              /\ action \in Applies => action.text \in Through(e),
         \A e \in Ends, s \in Sessions : \A message \in Entries(control'[e][s]) :
           \/ message \in Entries(control[e][s])
           \/ message \in Contents => message.text \notin Through(e),
         \A e \in Ends, s \in Sessions : \A message \in Entries(transfers'[e][s]) :
           \/ message \in Entries(transfers[e][s])
           \/ message \in Contents => message.text \notin Through(e),
         \A n \in Nodes : \A x \in Listed(applications'[n]) \cup Entries(commands'[n]) :
           \/ x \in Listed(applications[n]) \cup Entries(commands[n])
           \/ x.end \in EndsOf(n) /\ x.text \in Through(x.end)
  PROVE  OriginInv'
BY DEF OriginInv

(* A call keeps the order of generations, and with it what is listed.      *)
LEMMA OrderCalled ==
  ASSUME PathType, OrderInv, NEW e \in Ends, OthersKept(e), Ordered(session'[e]),
         \A n \in Nat : \A text :
           AgreesWith(session[e], n, text) => AgreesWith(session'[e], n, text),
         \A action \in Entries(actions'[e]) :
           \/ action \in Entries(actions[e]) \/ action \notin Applies
           \/ AgreesWith(session'[e], action.sequence, action.text),
         \A n \in Nodes : \A x \in Listed(applications'[n]) :
           x \in Listed(applications[n]) \/ AgreesWith(session'[x.end], x.sequence, x.text)
  PROVE  OrderInv'
<1>1. \A f \in Ends : Ordered(session'[f])
  BY DEF OrderInv, OthersKept
<1>2. ASSUME NEW f \in Ends, NEW action \in Entries(actions'[f]), action \in Applies
      PROVE  AgreesWith(session'[f], action.sequence, action.text)
  <2>1. action.sequence \in Nat
    BY <1>2, KindsDiffer
  <2>2. action \in Entries(actions[f]) => AgreesWith(session[f], action.sequence, action.text)
    BY <1>2 DEF OrderInv
  <2> QED
    BY <1>2, <2>1, <2>2 DEF OthersKept
<1>3. ASSUME NEW n \in Nodes, NEW x \in Listed(applications'[n]), x \in Listed(applications[n])
      PROVE  AgreesWith(session'[x.end], x.sequence, x.text)
  <2>1. x \in Applications
    BY <1>3, ListTypes DEF PathType, RuntimeType
  <2>2. x.end \in Ends /\ x.sequence \in Nat
    BY <2>1, ApplicationTypes
  <2>3. AgreesWith(session[x.end], x.sequence, x.text)
    BY <1>3 DEF OrderInv
  <2> QED
    BY <2>2, <2>3 DEF OthersKept
<1>4. \A n \in Nodes : \A x \in Listed(applications'[n]) :
        AgreesWith(session'[x.end], x.sequence, x.text)
  BY <1>3
<1> QED
  BY <1>1, <1>2, <1>4 DEF OrderInv

-----------------------------------------------------------------------------
(* Every step keeps it.                                                    *)

(* A step that leaves what the ends know.                                  *)
LEMMA KnownSame ==
  ASSUME KnownInv, UNCHANGED <<events, offering, service, native>>,
         \A n \in Nodes : applications'[n].pending = applications[n].pending,
         \A n \in Nodes : Ended(n) => Ended(n)',
         \A e \in Ends : /\ session'[e].remote_text = session[e].remote_text
                         /\ Watched(e)' => Watched(e)
                         /\ Started(e)' = 0 => Started(e) = 0
                         /\ open[e] /\ ~open'[e] => e \notin offering[Node(e)].ends
  PROVE  KnownInv'
<1>1. ASSUME NEW e \in Ends PROVE KnownAt(e)'
  BY EndFacts, KnownUntouched DEF KnownInv
<1> QED
  BY <1>1, KnownParts

(* A text may be started: the one before is reported already.              *)
LEMMA StartNextKnown ==
  ASSUME PathType, KnownInv, NEW n \in Nodes, NEW list \in Lists, StartNext(n, list),
         WithService(n), GivenUp(n) => n = Local, list.pending = applications[n].pending,
         UNCHANGED <<session, error, open, offering, events, service, native, opened, accepted>>
  PROVE  KnownInv'
<1>1. /\ \A m \in Nodes \ {n} : applications'[m] = applications[m] /\ ended'[m] = ended[m]
      /\ \/ applications'[n].pending = applications[n].pending /\ ended' = ended
         \/ service[n] /\ list.pending = NoApplication /\ ended' = ended
         \/ ended'[n] = TRUE
  BY StartEffect DEF PathType, RuntimeType, ServiceType
<1>2. \A e \in Ends : Started(e)' = Started(e) /\ KnownAt(e)
  BY SameStarted DEF KnownInv
<1>3. \A e \in Ends : Node(e) # n => KnownAt(e)'
  BY <1>1, <1>2, KnownElsewhere
<1>4. ASSUME NEW e \in Ends, Node(e) = n PROVE KnownAt(e)'
  <2>1. CASE ended'[n] = TRUE
    BY <1>4, <2>1, KnownNext DEF Ended
  <2>2. CASE applications'[n].pending = applications[n].pending /\ ended' = ended
    <3>1. Ended(n)' = Ended(n) /\ Watched(e)' = Watched(e)
      BY <1>2, <2>2 DEF Ended, Watched
    <3> QED
      BY <1>2, <1>4, <2>2, <3>1, KnownUntouched
  <2>3. CASE service[n] /\ list.pending = NoApplication /\ ended' = ended
    <3>1. Ended(n)' = Ended(n) /\ Watched(e)' = Watched(e)
      BY <1>2, <2>3 DEF Ended, Watched
    <3>2. /\ events[n] \in Seq(NativeEvents) /\ Len(events[n]) \in Nat
          /\ \A i \in 1 .. Len(events[n]) : events[n][i] # Applied
      <4>1. events[n] \in Seq(NativeEvents)
        BY DEF PathType, ServiceType
      <4>2. Applied \notin Entries(events[n])
        BY <2>3 DEF WithService, Unused, GivenUp
      <4> QED
        BY <4>1, <4>2 DEF Entries
    <3>3. ASSUME Watched(e), ~Ended(n)
          PROVE  AllKnown(events[n], offering[n], applications'[n].pending,
                          session[e].remote_text, e, Held(n))
      <4>1. AllKnown(events[n], offering[n], applications[n].pending, session[e].remote_text, e,
                     Held(n))
        BY <1>2, <1>4, <3>3 DEF KnownAt
      <4> QED
        BY <3>2, <4>1, KnownKept
    <3> QED
      BY <1>4, <3>1, <3>3, KnownNext DEF Held
  <2> QED
    BY <1>1, <2>1, <2>2, <2>3
<1> QED
  BY <1>2, <1>3, <1>4, KnownParts

(* What the service is given to write was listed.                          *)
LEMMA StartedCommands ==
  ASSUME PathType, NEW n \in Nodes, NEW list \in Lists, StartNext(n, list)
  PROVE  \A x \in Entries(commands'[n]) : x \in Listed(list) \cup Entries(commands[n])
<1>1. commands[n] \in Seq(Applications)
  BY DEF PathType, ServiceType
<1>2. \/ commands' = commands
      \/ /\ applications'[n].pending \in Listed(list)
         /\ applications'[n].pending \in Applications
         /\ commands'[n] = Append(commands[n], applications'[n].pending)
  BY StartEffect DEF PathType, RuntimeType, ServiceType
<1>3. \A x \in Applications : Entries(Append(commands[n], x)) = Entries(commands[n]) \cup {x}
  BY <1>1, AppendQueue
<1> QED
  BY <1>2, <1>3

(* A runtime carries out the first action returned.                        *)
LEMMA TakenBack ==
  ASSUME PathType, PathType', BackInv, NEW e \in Ends, S!TakeAction(e),
         \A n \in Nodes : \A x \in Listed(applications'[n]) :
           x \in Listed(applications[n]) \/ AgreesWith(session[x.end], x.sequence, x.text)
  PROVE  /\ \A f \in Ends : TextsOf(session'[f]) \cup {session'[f].remote_text}
                              \subseteq Through(f) \cup {NoText}
         /\ \A f \in Ends : Entries(actions'[f]) \subseteq Entries(actions[f])
         /\ OrderInv'
<1>1. /\ OthersKept(e) /\ session' = session
      /\ Entries(actions'[e]) \subseteq Entries(actions[e])
  BY TakeCall DEF PathType, S!TakeAction
<1>2. \A f \in Ends : Entries(actions'[f]) \subseteq Entries(actions[f])
  BY <1>1 DEF OthersKept
<1>3. Ordered(session'[e])
  BY <1>1 DEF BackInv, OrderInv
<1>4. OrderInv'
  BY <1>1, <1>3, OrderCalled DEF BackInv
<1> QED
  BY <1>1, <1>2, <1>4 DEF BackInv, OriginInv

LEMMA SendBack ==
  ASSUME PathType, PathType', ApplicationsInv, BackInv, NEW e \in Ends, Send(e)
  PROVE  BackInv'
<1> DEFINE n == Node(e)
           message == Head(actions[e])
<1>1. n \in Nodes /\ e \in EndsOf(n)
  BY EndFacts
<1>2. /\ S!TakeAction(e) /\ message.type # "ApplyRemote" /\ ~Ended(n)
      /\ session' = session /\ error' = error
      /\ UNCHANGED <<inUse, open, offering, service, native, events, opened, accepted>>
  BY DEF Send, connectionVars, serviceVars, S!TakeAction
<1>3. /\ actions[e] # <<>> /\ message \in Returned /\ message \in Entries(actions[e])
  BY <1>2, TakeCall DEF PathType
<1>4. message \in Contents => message.text \notin Through(e)
  BY <1>3 DEF BackInv, OriginInv
<1>5. applications[n] \in Lists /\ WithService(n)
  BY <1>1 DEF ApplicationsInv, PathType, RuntimeType
<1>6. GivenUp(n) => n = Local
  <2>1. n # Local => e = <<n, Local>>
    BY <1>1, AgentEnd
  <2> QED
    BY <1>3, <2>1 DEF GivenUp
<1> HIDE DEF n
<1>7. StartNext(n, applications[n]) \/ UNCHANGED <<applications, commands>>
  BY DEF Send, EndRuntime, n
<1>8. \A m \in Nodes : /\ Listed(applications'[m]) \subseteq Listed(applications[m])
                       /\ \A x \in Entries(commands'[m]) :
                            x \in Listed(applications[m]) \cup Entries(commands[m])
  <2>1. CASE StartNext(n, applications[n])
    <3>1. \A m \in Nodes : Listed(applications'[m]) \subseteq Listed(applications[m])
      BY <1>1, <1>5, <2>1, StartEffect DEF PathType, RuntimeType, ServiceType
    <3>2. \A m \in Nodes \ {n} : commands'[m] = commands[m]
      BY <1>1, <1>5, <2>1, StartEffect DEF PathType, RuntimeType, ServiceType
    <3>3. \A x \in Entries(commands'[n]) : x \in Listed(applications[n]) \cup Entries(commands[n])
      BY <1>1, <1>5, <2>1, StartedCommands
    <3> QED
      BY <3>1, <3>2, <3>3
  <2>2. CASE UNCHANGED <<applications, commands>>
    BY <2>2
  <2> QED
    BY <1>7, <2>1, <2>2
<1>9. /\ OrderInv'
      /\ \A f \in Ends : TextsOf(session'[f]) \cup {session'[f].remote_text}
                           \subseteq Through(f) \cup {NoText}
      /\ \A f \in Ends : Entries(actions'[f]) \subseteq Entries(actions[f])
  BY <1>2, <1>8, TakenBack
<1>10. ASSUME NEW f \in Ends, NEW s \in Sessions
       PROVE  /\ \A m \in Entries(control'[f][s]) :
                   m \in Entries(control[f][s]) \/ (m \in Contents => m.text \notin Through(f))
              /\ \A m \in Entries(transfers'[f][s]) :
                   m \in Entries(transfers[f][s]) \/ (m \in Contents => m.text \notin Through(f))
  <2>1. CASE UNCHANGED control /\ UNCHANGED transfers
    BY <2>1
  <2>2. CASE transfers' = Put(transfers, e, message) /\ UNCHANGED control
             /\ message.type = "SendTransfer"
    <3>1. message \in Contents
      BY <1>3, <2>2, KindsDiffer DEF Returned
    <3>2. /\ Entries(transfers'[f][s]) \subseteq Entries(transfers[f][s]) \cup {message}
          /\ f # e => transfers'[f] = transfers[f]
      BY <2>2, <3>1, TransferPut
    <3> QED
      BY <1>4, <2>2, <3>2
  <2>3. CASE control' = Put(control, e, message) /\ UNCHANGED transfers
    <3>1. message \in Contents \cup Acknowledgements \cup {Disconnected}
      BY <1>2, <1>3, KindsDiffer DEF Returned
    <3>2. /\ Entries(control'[f][s]) \subseteq Entries(control[f][s]) \cup {message}
          /\ f # e => control'[f] = control[f]
      BY <2>3, <3>1, ControlPut
    <3> QED
      BY <1>4, <2>3, <3>2
  <2> QED
    BY <2>1, <2>2, <2>3 DEF Send, streamVars
<1>11. OriginInv'
  BY <1>8, <1>9, <1>10, OriginKept DEF BackInv
<1>12. KnownInv'
  <2>1. CASE StartNext(n, applications[n])
    BY <1>1, <1>2, <1>5, <1>6, <2>1, StartNextKnown DEF BackInv
  <2>2. CASE UNCHANGED applications
    <3>1. \A m \in Nodes : ended[m] => ended'[m]
      BY <1>1 DEF Send, StartNext, EndRuntime, n, PathType, RuntimeType
    <3>2. \A m \in Nodes : Ended(m) => Ended(m)'
      BY <1>2, <3>1 DEF Ended, EndsOf
    <3> QED
      BY <1>2, <2>2, <3>2, SameStarted, KnownSame DEF BackInv, Watched
  <2> QED
    BY <1>7, <2>1, <2>2
<1> QED
  BY <1>9, <1>11, <1>12 DEF BackInv

LEMMA QueueApplicationBack ==
  ASSUME PathType, PathType', ApplicationsInv, BackInv, NEW e \in Ends, QueueApplication(e)
  PROVE  BackInv'
<1> DEFINE n == Node(e)
           action == Head(actions[e])
           application == Application(e, inUse[e], action.sequence, action.text)
           list == [applications[n] EXCEPT !.queued = Append(@, application)]
<1>1. n \in Nodes /\ e \in EndsOf(n)
  BY EndFacts
<1>2. /\ S!TakeAction(e) /\ action.type = "ApplyRemote" /\ StartNext(n, list)
      /\ session' = session /\ error' = error
      /\ UNCHANGED <<inUse, open, offering, service, native, events, opened, accepted,
                     control, transfers>>
  BY DEF QueueApplication, connectionVars, serviceVars, streamVars, S!TakeAction
<1>3. actions[e] # <<>> /\ action \in Entries(actions[e]) /\ action \in Applies
  BY <1>2, TakeCall, KindsDiffer DEF PathType, Returned
<1>4. /\ action.text \in Through(e)
      /\ AgreesWith(session[e], action.sequence, action.text)
  BY <1>3 DEF BackInv, OriginInv, OrderInv
<1>5. GivenUp(n) => n = Local
  <2>1. n # Local => e = <<n, Local>>
    BY <1>1, AgentEnd
  <2> QED
    BY <1>3, <2>1 DEF GivenUp
<1>6. /\ application \in Applications /\ application.end = e
      /\ application.sequence = action.sequence /\ application.text = action.text
  <2>1. action.sequence \in Nat /\ action.text \in Texts
    BY <1>3, KindsDiffer
  <2> QED
    BY <2>1 DEF Application, Applications, PathType, RuntimeType
<1> HIDE DEF application
<1>7. /\ list \in Lists /\ list.pending = applications[n].pending
      /\ Listed(list) = Listed(applications[n]) \cup {application}
  <2>1. applications[n] \in Lists
    BY <1>1 DEF PathType, RuntimeType
  <2>2. list \in Lists /\ list.pending = applications[n].pending
        /\ list.queued = Append(applications[n].queued, application)
        /\ applications[n].queued \in Seq(Applications)
    BY <1>6, <2>1 DEF Lists
  <2>3. Entries(list.queued) = Entries(applications[n].queued) \cup {application}
    BY <1>6, <2>2, AppendQueue
  <2> QED
    BY <2>2, <2>3 DEF Listed
<1> HIDE DEF list, n
<1>8. /\ \A m \in Nodes \ {n} : applications'[m] = applications[m] /\ commands'[m] = commands[m]
      /\ Listed(applications'[n]) \subseteq Listed(applications[n]) \cup {application}
      /\ Entries(commands'[n])
           \subseteq Listed(applications[n]) \cup Entries(commands[n]) \cup {application}
  <2>1. /\ \A m \in Nodes \ {n} : applications'[m] = applications[m] /\ commands'[m] = commands[m]
        /\ Listed(applications'[n]) \subseteq Listed(list) \cup Listed(applications[n])
    BY <1>1, <1>2, <1>7, StartEffect DEF PathType, RuntimeType, ServiceType
  <2>2. \A x \in Entries(commands'[n]) : x \in Listed(list) \cup Entries(commands[n])
    BY <1>1, <1>2, <1>7, StartedCommands
  <2> QED
    BY <1>7, <2>1, <2>2
<1>9. \A m \in Nodes : \A x \in Listed(applications'[m]) \cup Entries(commands'[m]) :
        \/ x \in Listed(applications[m]) \cup Entries(commands[m])
        \/ x = application /\ m = n
  BY <1>8
<1>10. \A m \in Nodes : \A x \in Listed(applications'[m]) :
         x \in Listed(applications[m]) \/ AgreesWith(session[x.end], x.sequence, x.text)
  BY <1>4, <1>6, <1>8
<1>11. /\ OrderInv'
       /\ \A f \in Ends : TextsOf(session'[f]) \cup {session'[f].remote_text}
                            \subseteq Through(f) \cup {NoText}
       /\ \A f \in Ends : Entries(actions'[f]) \subseteq Entries(actions[f])
  BY <1>2, <1>10, TakenBack
<1>12. \A m \in Nodes : \A x \in Listed(applications'[m]) \cup Entries(commands'[m]) :
         \/ x \in Listed(applications[m]) \cup Entries(commands[m])
         \/ x.end \in EndsOf(m) /\ x.text \in Through(x.end)
  BY <1>1, <1>4, <1>6, <1>9
<1>13. OriginInv'
  BY <1>2, <1>11, <1>12, OriginKept DEF BackInv
<1>14. KnownInv'
  BY <1>1, <1>2, <1>5, <1>7, StartNextKnown DEF BackInv, ApplicationsInv
<1> QED
  BY <1>11, <1>13, <1>14 DEF BackInv

(* A step of the runtime, or of a service, that no session takes part in   *)
(* and that lists nothing.                                                 *)
LEMMA BackUntouched ==
  ASSUME PathType, BackInv, UNCHANGED <<session, actions>>,
         \A e \in Ends, s \in Sessions :
           /\ Entries(control'[e][s]) \subseteq Entries(control[e][s]) \cup {Disconnected}
           /\ Entries(transfers'[e][s]) \subseteq Entries(transfers[e][s]) \cup {ClipboardFailed},
         \A n \in Nodes :
           /\ Listed(applications'[n]) \subseteq Listed(applications[n])
           /\ Entries(commands'[n]) \subseteq Listed(applications[n]) \cup Entries(commands[n])
  PROVE  OriginInv' /\ OrderInv'
<1>1. OriginInv'
  <2>1. Disconnected \notin Contents /\ ClipboardFailed \notin Contents
    BY KindsDiffer
  <2>2. \A e \in Ends, s \in Sessions : \A message \in Entries(control'[e][s]) :
          message \in Entries(control[e][s]) \/ message \notin Contents
    BY <2>1
  <2>3. \A e \in Ends, s \in Sessions : \A message \in Entries(transfers'[e][s]) :
          message \in Entries(transfers[e][s]) \/ message \notin Contents
    BY <2>1
  <2>4. \A e \in Ends :
          TextsOf(session'[e]) \cup {session'[e].remote_text} \subseteq Through(e) \cup {NoText}
    BY DEF BackInv, OriginInv
  <2>5. \A n \in Nodes : \A x \in Listed(applications'[n]) \cup Entries(commands'[n]) :
          x \in Listed(applications[n]) \cup Entries(commands[n])
    OBVIOUS
  <2> QED
    BY <2>2, <2>3, <2>4, <2>5, OriginKept DEF BackInv
<1>2. OrderInv'
  BY DEF BackInv, OrderInv
<1> QED
  BY <1>1, <1>2

LEMMA NativeChangedBack ==
  ASSUME PathType, PathType', BackInv, NEW n \in Nodes, NativeChanged(n)
  PROVE  BackInv'
<1>1. /\ TakeNativeEvent(n, "Changed")
      /\ UNCHANGED <<session, actions, error, open, applications, ended, service, native,
                     commands, opened, accepted, control, transfers>>
      /\ events'[n] = Tail(events[n])
      /\ offering'[n] = [ends |-> Informed(n), text |-> Head(events[n]).text]
      /\ \A m \in Nodes \ {n} : events'[m] = events[m] /\ offering'[m] = offering[m]
  BY DEF NativeChanged, sessionVars, serviceVars, connectionVars, streamVars, PathType,
         ServiceType, RuntimeType
<1>2. /\ offering[n].ends = {} /\ events[n] \in Seq(NativeEvents) /\ events[n] # <<>>
      /\ Head(events[n]).type = "Changed"
  BY <1>1, NativeTaken
<1>3. OriginInv' /\ OrderInv'
  BY <1>1, BackUntouched
<1>4. \A e \in Ends : Started(e)' = Started(e) /\ KnownAt(e)
  BY <1>1, SameStarted DEF BackInv, KnownInv
<1>5. \A e \in Ends : Node(e) # n => KnownAt(e)'
  BY <1>1, <1>4, KnownElsewhere DEF BackInv
<1>6. ASSUME NEW e \in Ends, Node(e) = n PROVE KnownAt(e)'
  <2>1. Ended(n)' = Ended(n) /\ Watched(e)' = Watched(e)
    BY <1>1, <1>4 DEF Ended, Watched
  <2>2. offering'[n].text = Head(events[n]).text
    BY <1>1
  <2>3. ASSUME Watched(e), ~Ended(n)
        PROVE  AllKnown(Tail(events[n]), offering'[n], applications[n].pending,
                        session[e].remote_text, e, Held(n))
    <3>1. AllKnown(events[n], offering[n], applications[n].pending, session[e].remote_text, e,
                   Held(n))
      BY <1>4, <1>6, <2>3 DEF KnownAt
    <3> QED
      BY <1>2, <2>2, <3>1, KnownChanged
  <2> QED
    BY <1>1, <1>6, <2>1, <2>3, KnownNext DEF Held
<1>7. \A e \in Ends : e \in offering'[Node(e)].ends => e \in offering[Node(e)].ends \/ open[e]
  BY <1>1, EndFacts DEF Informed
<1>8. KnownInv'
  BY <1>1, <1>4, <1>5, <1>6, <1>7, KnownParts DEF BackInv
<1> QED
  BY <1>3, <1>8 DEF BackInv

(* The session keeps what it has of the peer's.                            *)
LEMMA SameOrder ==
  ASSUME NEW e \in Ends, Ordered(session[e]),
         session'[e].applied = session[e].applied,
         session'[e].highest = session[e].highest,
         session'[e].incoming = session[e].incoming,
         session'[e].applying = session[e].applying
  PROVE  /\ Ordered(session'[e]) /\ TextsOf(session'[e]) = TextsOf(session[e])
         /\ \A n \in Nat : \A text :
              AgreesWith(session[e], n, text) => AgreesWith(session'[e], n, text)
BY DEF Ordered, TextsOf, AgreesWith, S!IsApplying

(* A step of one session: what has to be shown of its texts.               *)
LEMMA OriginCalled ==
  ASSUME OriginInv, NEW e \in Ends, OthersKept(e),
         TextsOf(session'[e]) \cup {session'[e].remote_text} \subseteq Through(e) \cup {NoText},
         \A action \in Entries(actions'[e]) :
           /\ action \in Contents => action.text \notin Through(e)
           /\ action \in Applies => action.text \in Through(e),
         \A f \in Ends, s \in Sessions :
           /\ Entries(control'[f][s]) \subseteq Entries(control[f][s])
           /\ Entries(transfers'[f][s]) \subseteq Entries(transfers[f][s]),
         \A n \in Nodes :
           /\ Listed(applications'[n]) \subseteq Listed(applications[n])
           /\ Entries(commands'[n]) \subseteq Listed(applications[n]) \cup Entries(commands[n])
  PROVE  OriginInv'
<1>1. \A f \in Ends :
        TextsOf(session'[f]) \cup {session'[f].remote_text} \subseteq Through(f) \cup {NoText}
  BY DEF OriginInv, OthersKept
<1>2. \A f \in Ends : \A action \in Entries(actions'[f]) :
        \/ action \in Entries(actions[f])
        \/ /\ action \in Contents => action.text \notin Through(f)
           /\ action \in Applies => action.text \in Through(f)
  BY DEF OthersKept
<1>3. /\ \A f \in Ends, s \in Sessions : \A message \in Entries(control'[f][s]) :
           message \in Entries(control[f][s])
      /\ \A f \in Ends, s \in Sessions : \A message \in Entries(transfers'[f][s]) :
           message \in Entries(transfers[f][s])
      /\ \A n \in Nodes : \A x \in Listed(applications'[n]) \cup Entries(commands'[n]) :
           x \in Listed(applications[n]) \cup Entries(commands[n])
  OBVIOUS
<1> QED
  BY <1>1, <1>2, <1>3, OriginKept

LEMMA OfferChangeBack ==
  ASSUME PathType, PathType', BackInv, NEW e \in Ends, OfferChange(e)
  PROVE  BackInv'
<1> DEFINE n == Node(e)
           told == offering[n]
           rest == told.ends \ {e}
<1>1. n \in Nodes /\ e \in EndsOf(n)
  BY EndFacts
<1>2. /\ ~Ended(n) /\ e \in told.ends /\ S!LocalChanged(e, told.text)
      /\ offering' = [offering EXCEPT ![n] =
                        IF rest = {} THEN NotOffering ELSE [told EXCEPT !.ends = rest]]
      /\ UNCHANGED <<open, applications, ended, service, native, commands, events,
                     opened, accepted, control, transfers>>
  BY DEF OfferChange, serviceVars, connectionVars, streamVars
<1>3. told.text \in Texts
  BY <1>1, <1>2 DEF PathType, ServiceType
<1>4. /\ \A m \in Nodes \ {n} : offering'[m] = offering[m]
      /\ offering'[n].ends = rest
      /\ rest # {} => offering'[n].text = told.text
  <2>1. offering \in [Nodes -> [ends : SUBSET Ends, text : Words]]
    BY DEF PathType, RuntimeType
  <2> QED
    BY <1>1, <1>2, <2>1 DEF NotOffering
<1>5. /\ OthersKept(e) /\ actions[e] = <<>>
      /\ session'[e].applied = session[e].applied
      /\ session'[e].highest = session[e].highest
      /\ session'[e].incoming = session[e].incoming
      /\ session'[e].applying = session[e].applying
      /\ \/ session'[e].remote_text = session[e].remote_text /\ actions'[e] = <<>>
         \/ /\ session[e].remote_text # told.text /\ session'[e].remote_text = NoText
            /\ \A action \in Entries(actions'[e]) : action \in Contents /\ action.text = told.text
  BY <1>2, <1>3, OfferCall DEF PathType
<1>6. KnownInv /\ OriginInv /\ OrderInv /\ Ordered(session[e]) /\ open[e] /\ KnownAt(e)
  BY <1>2 DEF BackInv, KnownInv, OrderInv
<1>7. AllKnown(events[n], told, applications[n].pending, session[e].remote_text, e, Held(n))
  BY <1>2, <1>6 DEF KnownAt, Watched
<1> HIDE DEF n, told, rest
<1>8. /\ Ordered(session'[e]) /\ TextsOf(session'[e]) = TextsOf(session[e])
      /\ \A k \in Nat : \A text : AgreesWith(session[e], k, text) => AgreesWith(session'[e], k, text)
  BY <1>5, <1>6, SameOrder
<1>9. \A action \in Entries(actions'[e]) : action \in Contents /\ action.text \notin Through(e)
  <2>1. CASE actions'[e] = <<>>
    BY <2>1, EmptyQueue
  <2>2. CASE /\ session[e].remote_text # told.text
             /\ \A action \in Entries(actions'[e]) : action \in Contents /\ action.text = told.text
    <3>1. told.text \notin Through(e)
      BY <1>2, <1>7, <2>2 DEF AllKnown
    <3> QED
      BY <2>2, <3>1
  <2> QED
    BY <1>5, <2>1, <2>2
<1>10. OriginInv'
  <2>1. TextsOf(session'[e]) \cup {session'[e].remote_text} \subseteq Through(e) \cup {NoText}
    BY <1>5, <1>6, <1>8 DEF OriginInv
  <2>2. \A action \in Entries(actions'[e]) :
          /\ action \in Contents => action.text \notin Through(e)
          /\ action \in Applies => action.text \in Through(e)
    BY <1>9, KindsDiffer
  <2> QED
    BY <1>2, <1>5, <1>6, <2>1, <2>2, OriginCalled
<1>11. OrderInv'
  <2>1. \A action \in Entries(actions'[e]) : action \notin Applies
    BY <1>9, KindsDiffer
  <2> QED
    BY <1>2, <1>5, <1>6, <1>8, <2>1, OrderCalled
<1>12. \A f \in Ends : Started(f)' = Started(f) /\ Watched(f)' = Watched(f)
  BY <1>2, SameStarted DEF Watched
<1>13. \A f \in Ends : Node(f) # n => KnownAt(f)'
  <2>1. \A f \in Ends : Node(f) # n =>
          /\ session'[f] = session[f] /\ error'[f] = error[f] /\ open'[f] = open[f]
          /\ Started(f)' = Started(f)
    BY <1>2, <1>5, <1>12 DEF OthersKept, n
  <2> QED
    BY <1>1, <1>2, <1>4, <1>6, <2>1, KnownElsewhere
<1>14. ASSUME NEW f \in Ends, Node(f) = n PROVE KnownAt(f)'
  <2>1. events[n] \in Seq(NativeEvents) /\ Len(events[n]) \in Nat
    BY <1>1 DEF PathType, ServiceType
  <2>2. CASE f = e
    <3>1. e \notin offering'[n].ends
      BY <1>4 DEF rest
    <3>2. AllKnown(events[n], offering'[n], applications[n].pending, session'[e].remote_text, e,
                   Held(n))
      <4>1. CASE session'[e].remote_text = session[e].remote_text
        BY <1>7, <2>1, <3>1, <4>1, KnownKept
      <4>2. CASE session[e].remote_text # told.text /\ session'[e].remote_text = NoText
        BY <1>2, <1>7, <3>1, <4>2, KnownOffered
      <4> QED
        BY <1>5, <4>1, <4>2
    <3> QED
      BY <1>2, <1>14, <2>2, <3>2, KnownNext DEF Held
  <2>3. CASE f # e
    <3>1. session'[f] = session[f]
      BY <1>5, <2>3 DEF OthersKept
    <3>2. f \in offering'[n].ends => f \in told.ends /\ offering'[n].text = told.text
      BY <1>4 DEF rest
    <3>3. ASSUME Watched(f)
          PROVE  AllKnown(events[n], offering'[n], applications[n].pending,
                          session[f].remote_text, f, Held(n))
      <4>1. AllKnown(events[n], told, applications[n].pending, session[f].remote_text, f, Held(n))
        BY <1>2, <1>6, <1>14, <3>3 DEF KnownInv, KnownAt, told, n
      <4> QED
        BY <2>1, <3>2, <4>1, KnownKept
    <3> QED
      BY <1>2, <1>12, <1>14, <3>1, <3>3, KnownNext DEF Held
  <2> QED
    BY <2>2, <2>3
<1>15. KnownInv'
  <2>1. \A f \in Ends : f \in offering'[Node(f)].ends => f \in offering[Node(f)].ends
    BY <1>4, EndFacts DEF rest, told
  <2>2. \A f \in Ends : session'[f].remote_text \in {NoText, session[f].remote_text}
    BY <1>5 DEF OthersKept
  <2> QED
    BY <1>2, <1>6, <1>12, <1>13, <1>14, <2>1, <2>2, KnownParts
<1> QED
  BY <1>10, <1>11, <1>15 DEF BackInv

(* A confirmation: what was under application is applied.                  *)
LEMMA ConfirmOrder ==
  ASSUME NEW e \in Ends, Ordered(session[e]), Ordered(session'[e]),
         S!IsApplying(session[e]), session[e].applying.sequence \in Nat,
         session'[e].applied = session[e].applying.sequence, session[e].applied \in Nat,
         session'[e].applying \in {S!NoClip, session[e].incoming},
         session[e].incoming.sequence \in Nat
  PROVE  \A n \in Nat : \A text :
           AgreesWith(session[e], n, text) => AgreesWith(session'[e], n, text)
<1> SUFFICES ASSUME NEW n \in Nat, NEW text, AgreesWith(session[e], n, text)
             PROVE  AgreesWith(session'[e], n, text)
  OBVIOUS
<1> DEFINE now == session[e].applying.sequence
           done == session[e].applied
<1>1. done < now /\ (n <= done \/ n <= now)
  BY DEF Ordered, AgreesWith
<1>2. done \in Nat /\ now \in Nat
  OBVIOUS
<1> HIDE DEF done, now
<1>3. n <= now
  BY <1>1, <1>2
<1>4. ASSUME S!IsApplying(session'[e]) PROVE n # session'[e].applying.sequence
  <2> DEFINE later == session'[e].applying.sequence
  <2>1. session'[e].applying = session[e].incoming /\ session[e].incoming # S!NoClip
    BY <1>4 DEF S!IsApplying
  <2>2. now < later /\ later \in Nat
    BY <2>1 DEF Ordered, now
  <2> HIDE DEF later
  <2>3. n # later
    BY <1>2, <1>3, <2>2
  <2> QED
    BY <2>3 DEF later
<1> QED
  BY <1>3, <1>4 DEF AgreesWith, now

(* The text a session asks to be applied is the one it has under           *)
(* application.                                                            *)
LEMMA ApplyBack ==
  ASSUME NEW e \in Ends, NEW s \in SessionStates, S!IsApplying(s), s.applying.transfer \in Texts,
         TextsOf(s) \subseteq Through(e) \cup {NoText}, NEW action,
         action = S!ApplyRemote(s.applying.sequence, s.applying.transfer)
  PROVE  /\ action \notin Contents /\ action.text \in Through(e)
         /\ AgreesWith(s, action.sequence, action.text)
<1>1. s.applying.sequence \in Nat
  BY DEF SessionStates, Clips
<1>2. action \in Applies
  BY <1>1, ReturnedTypes
<1>3. action.sequence = s.applying.sequence /\ action.text = s.applying.transfer
  BY DEF S!ApplyRemote
<1>4. action.text \in Through(e)
  BY <1>3, TextTypes DEF TextsOf
<1>5. AgreesWith(s, action.sequence, action.text)
  <2>1. s.applying.sequence <= s.applying.sequence
    BY <1>1
  <2> QED
    BY <1>3, <2>1 DEF AgreesWith
<1> QED
  BY <1>2, <1>4, <1>5, KindsDiffer

LEMMA NativeAppliedBack ==
  ASSUME PathType, PathType', FirstConnections, BackInv, NEW n \in Nodes, NativeApplied(n)
  PROVE  BackInv'
<1> DEFINE list == applications[n]
           e == list.pending.end
           rest == [list EXCEPT !.pending = NoApplication]
<1>1. /\ TakeNativeEvent(n, "Applied")
      /\ UNCHANGED <<inUse, open, offering, service, native, opened, accepted, control, transfers>>
      /\ events'[n] = Tail(events[n])
      /\ \A m \in Nodes \ {n} : events'[m] = events[m]
  BY DEF NativeApplied, connectionVars, streamVars, serviceVars, PathType, ServiceType
<1>2. /\ ~Ended(n) /\ offering[n].ends = {} /\ \A f \in EndsOf(n) : actions[f] = <<>>
      /\ events[n] \in Seq(NativeEvents) /\ events[n] # <<>> /\ Head(events[n]) = Applied
  BY <1>1, NativeTaken, EventTypes
<1>3. /\ list \in Lists /\ rest \in Lists /\ rest.pending = NoApplication
      /\ rest.queued = list.queued
  BY ZenonT(60) DEF PathType, RuntimeType, Lists
<1>4. Listed(rest) \subseteq Listed(list)
  BY <1>3 DEF Listed
<1>5. list.pending # NoApplication =>
        /\ list.pending \in Listed(list) /\ e \in Ends /\ Node(e) = n /\ Started(e) = 1
        /\ list.pending.sequence \in Nat
  <2>1. list.pending # NoApplication => list.pending \in Applications /\ list.pending \in Listed(list)
    BY <1>3, ListTypes
  <2>2. list.pending # NoApplication => e \in EndsOf(n) /\ Started(e) = 1
    BY <2>1, FirstOnly
  <2> QED
    BY <2>1, <2>2, EndOfNode, ApplicationTypes
<1> HIDE DEF rest, e, list
<1>6. OriginInv /\ OrderInv /\ KnownInv
  BY DEF BackInv
<1>7. \A f \in Ends : Started(f)' = Started(f) /\ Watched(f)' = Watched(f) /\ KnownAt(f)
  BY <1>1, <1>6, SameStarted DEF Watched, KnownInv
<1>8. ASSUME NEW f \in Ends, Node(f) = n, Watched(f), list.pending # NoApplication,
             e = f => /\ applications'[n].pending = NoApplication
                      /\ session'[f].remote_text = list.pending.text,
             e # f => session'[f].remote_text = session[f].remote_text
      PROVE  KnownAt(f)'
  <2>1. AllKnown(events[n], offering[n], list.pending, session[f].remote_text, f, Held(n))
    BY <1>2, <1>7, <1>8 DEF KnownAt, list
  <2>2. f \notin offering[n].ends
    BY <1>2
  <2>3. AllKnown(Tail(events[n]), offering[n], applications'[n].pending,
                 session'[f].remote_text, f, Held(n))
    <3>1. CASE e = f
      BY <1>2, <1>8, <2>1, <2>2, <3>1, KnownApplied DEF e
    <3>2. CASE e # f
      BY <1>2, <1>8, <2>1, <2>2, <3>2, KnownApplied DEF e
    <3> QED
      BY <3>1, <3>2
  <2> QED
    BY <1>1, <1>8, <2>3, KnownNext DEF Held
<1>9. ASSUME \A m \in Nodes \ {n} : applications'[m] = applications[m] /\ ended'[m] = ended[m],
             \A f \in Ends : Node(f) # n => session'[f] = session[f] /\ error'[f] = error[f]
      PROVE  \A f \in Ends : Node(f) # n => KnownAt(f)'
  BY <1>1, <1>6, <1>7, <1>9, KnownElsewhere
<1>10. ASSUME \A f \in Ends : KnownAt(f)',
              \A f \in Ends : f = e \/ session'[f].remote_text = session[f].remote_text,
              list.pending = NoApplication => session' = session
       PROVE  KnownInv'
  BY <1>1, <1>5, <1>6, <1>7, <1>10, KnownParts
<1>11. CASE list.pending = NoApplication /\ EndRuntime(n) /\ UNCHANGED sessionVars
  <2>1. /\ UNCHANGED <<applications, commands, session, actions, error>>
        /\ Ended(n)' /\ \A m \in Nodes \ {n} : ended'[m] = ended[m]
    BY <1>11 DEF EndRuntime, sessionVars, Ended, PathType, RuntimeType
  <2>2. OriginInv' /\ OrderInv'
    BY <1>1, <2>1, BackUntouched
  <2>3. \A f \in Ends : KnownAt(f)'
    BY <1>9, <2>1, KnownNext
  <2> QED
    BY <1>10, <2>1, <2>2, <2>3 DEF BackInv
<1>12. CASE list.pending # NoApplication /\ ~open[e] /\ StartNext(n, rest) /\ UNCHANGED sessionVars
  <2>1. /\ UNCHANGED <<session, actions, error>>
        /\ \A m \in Nodes \ {n} : /\ applications'[m] = applications[m]
                                  /\ commands'[m] = commands[m] /\ ended'[m] = ended[m]
        /\ Listed(applications'[n]) \subseteq Listed(list)
        /\ \A x \in Entries(commands'[n]) : x \in Listed(list) \cup Entries(commands[n])
    <3>1. /\ \A m \in Nodes \ {n} : /\ applications'[m] = applications[m]
                                    /\ commands'[m] = commands[m] /\ ended'[m] = ended[m]
          /\ Listed(applications'[n]) \subseteq Listed(rest) \cup Listed(applications[n])
      BY <1>3, <1>12, StartEffect DEF PathType, RuntimeType, ServiceType
    <3>2. \A x \in Entries(commands'[n]) : x \in Listed(rest) \cup Entries(commands[n])
      BY <1>3, <1>12, StartedCommands
    <3> QED
      BY <1>4, <1>12, <3>1, <3>2 DEF sessionVars, list
  <2>2. OriginInv' /\ OrderInv'
    BY <1>1, <2>1, BackUntouched DEF list
  <2>3. ~Watched(e)
    BY <1>5, <1>12 DEF Watched
  <2>4. ASSUME NEW f \in Ends, Node(f) = n PROVE KnownAt(f)'
    <3>1. CASE ~Watched(f)
      BY <1>7, <3>1, KnownNext
    <3>2. CASE Watched(f)
      BY <1>8, <1>12, <2>1, <2>3, <2>4, <3>2
    <3> QED
      BY <3>1, <3>2
  <2> QED
    BY <1>9, <1>10, <2>1, <2>2, <2>4 DEF BackInv
<1>13. CASE /\ list.pending # NoApplication /\ open[e]
            /\ S!ConfirmApplied(e, e[2], list.pending.sequence)
            /\ applications' = [applications EXCEPT ![n] = rest]
            /\ UNCHANGED <<commands, ended>>
  <2> DEFINE number == list.pending.sequence
  <2>1. /\ e \in Ends /\ Node(e) = n /\ number \in Nat /\ S!ConfirmApplied(e, e[2], number)
    BY <1>5, <1>13
  <2> HIDE DEF number
  <2>2. Ordered(session[e])
    BY <1>6, <2>1 DEF OrderInv
  <2> DEFINE Asks ==
               /\ S!IsApplying(session'[e]) /\ session'[e].applying.transfer \in Texts
               /\ session'[e].applying = session[e].incoming
               /\ actions'[e] = <<S!SendApplied(number),
                                 S!ApplyRemote(session'[e].applying.sequence,
                                               session'[e].applying.transfer)>>
             Confirmed ==
               /\ S!IsApplying(session[e]) /\ number = session[e].applying.sequence
               /\ session'[e].applied = number
               /\ session'[e].remote_text = session[e].applying.transfer
               /\ Ordered(session'[e])
               /\ TextsOf(session'[e]) \subseteq TextsOf(session[e]) \cup {NoText}
               /\ \/ /\ session'[e].applying = S!NoClip
                     /\ actions'[e] = <<S!SendApplied(number)>>
                  \/ Asks
  <2>3. /\ OthersKept(e)
        /\ \/ error'[e] # "none" /\ session' = session /\ actions' = actions
           \/ Confirmed
    BY <2>1, <2>2, ConfirmCall DEF PathType
  <2>4. /\ \A m \in Nodes \ {n} : applications'[m] = applications[m]
        /\ applications'[n] = rest /\ UNCHANGED <<commands, ended>>
        /\ \A m \in Nodes : Listed(applications'[m]) \subseteq Listed(applications[m])
    BY <1>4, <1>13 DEF PathType, RuntimeType, list
  <2>5. \A f \in Ends : Node(f) # n => KnownAt(f)'
    BY <1>9, <2>1, <2>3, <2>4 DEF OthersKept
  <2>6. CASE error'[e] # "none" /\ session' = session /\ actions' = actions
    <3>1. OriginInv' /\ OrderInv'
      BY <1>1, <2>4, <2>6, BackUntouched
    <3>2. Ended(n)'
      BY <2>1, <2>6 DEF Ended, EndsOf
    <3>3. \A f \in Ends : Node(f) = n => KnownAt(f)'
      BY <3>2, KnownNext
    <3> QED
      BY <1>10, <2>5, <2>6, <3>1, <3>3 DEF BackInv
  <2>7. CASE Confirmed
    <3>1. list.pending.text = session[e].applying.transfer
      <4>1. AgreesWith(session[e], number, list.pending.text)
        BY <1>5, <1>6, <1>13 DEF OrderInv, list, e, number
      <4> QED
        BY <2>7, <4>1 DEF AgreesWith
    <3>2. \A f \in Ends : Node(f) = n => KnownAt(f)'
      <4> SUFFICES ASSUME NEW f \in Ends, Node(f) = n PROVE KnownAt(f)'
        OBVIOUS
      <4>1. CASE ~Watched(f)
        BY <1>7, <4>1, KnownNext
      <4>2. CASE Watched(f)
        BY <1>3, <1>8, <1>13, <2>3, <2>4, <2>7, <3>1, <4>2 DEF OthersKept
      <4> QED
        BY <4>1, <4>2
    <3>3. KnownInv'
      BY <1>10, <1>13, <2>3, <2>5, <3>2 DEF OthersKept
    <3>4. /\ session[e] \in SessionStates /\ session'[e] \in SessionStates
          /\ TextsOf(session[e]) \subseteq Through(e) \cup {NoText}
      BY <1>6, <2>1 DEF PathType, SessionType, OriginInv
    <3>5. TextsOf(session'[e]) \subseteq Through(e) \cup {NoText}
      BY <2>7, <3>4
    <3>6. S!SendApplied(number) \notin Contents /\ S!SendApplied(number) \notin Applies
      BY <2>1, KindsDiffer DEF S!SendApplied, Acknowledgements
    <3>7. ASSUME NEW action \in Entries(actions'[e])
          PROVE  /\ action \in Contents => action.text \notin Through(e)
                 /\ action \in Applies => /\ action.text \in Through(e)
                                          /\ AgreesWith(session'[e], action.sequence, action.text)
      <4>1. CASE actions'[e] = <<S!SendApplied(number)>>
        BY <3>6, <3>7, <4>1, ShortQueues
      <4>2. CASE Asks
        <5>1. CASE action = S!SendApplied(number)
          BY <3>6, <5>1
        <5>2. CASE action = S!ApplyRemote(session'[e].applying.sequence,
                                          session'[e].applying.transfer)
          BY <2>1, <3>4, <3>5, <4>2, <5>2, ApplyBack
        <5> QED
          BY <3>7, <4>2, <5>1, <5>2, ShortQueues
      <4> QED
        BY <2>7, <4>1, <4>2
    <3>8. session'[e].remote_text \in Through(e) \cup {NoText}
      BY <2>7, <3>4 DEF TextsOf
    <3>9. OriginInv'
      BY <1>1, <1>6, <2>1, <2>3, <2>4, <3>5, <3>7, <3>8, OriginCalled
    <3>10. \A k \in Nat : \A text : AgreesWith(session[e], k, text) => AgreesWith(session'[e], k, text)
      <4>1. /\ session[e].applying.sequence \in Nat /\ session[e].applied \in Nat
            /\ session[e].incoming.sequence \in Nat
        BY <3>4 DEF SessionStates, Clips
      <4>2. /\ S!IsApplying(session[e]) /\ Ordered(session'[e])
            /\ session'[e].applied = session[e].applying.sequence
            /\ session'[e].applying \in {S!NoClip, session[e].incoming}
        BY <2>7
      <4> QED
        BY <2>1, <2>2, <4>1, <4>2, ConfirmOrder
    <3>11. OrderInv'
      BY <1>6, <2>1, <2>3, <2>4, <2>7, <3>7, <3>10, OrderCalled
    <3> QED
      BY <3>3, <3>9, <3>11 DEF BackInv
  <2> QED
    BY <2>3, <2>6, <2>7
<1>14. \/ list.pending = NoApplication /\ EndRuntime(n) /\ UNCHANGED sessionVars
       \/ list.pending # NoApplication /\ ~open[e] /\ StartNext(n, rest) /\ UNCHANGED sessionVars
       \/ /\ list.pending # NoApplication /\ open[e]
          /\ S!ConfirmApplied(e, e[2], list.pending.sequence)
          /\ applications' = [applications EXCEPT ![n] = rest]
          /\ UNCHANGED <<commands, ended>>
  BY DEF NativeApplied, rest, e, list
<1> QED
  BY <1>11, <1>12, <1>13, <1>14

LEMMA NativeFailedBack ==
  ASSUME PathType, PathType', BackInv, NEW n \in Nodes, NativeFailed(n)
  PROVE  BackInv'
<1>1. /\ TakeNativeEvent(n, "Failed")
      /\ applications' = [applications EXCEPT ![n] = NoApplications]
      /\ UNCHANGED <<session, actions, error, inUse, offering, ended, native, commands, opened,
                     accepted, control, transfers>>
  BY DEF NativeFailed, sessionVars, serviceVars, connectionVars, streamVars
<1>2. /\ ~Ended(n) /\ offering[n].ends = {} /\ events[n] \in Seq(NativeEvents)
      /\ events[n] # <<>> /\ Head(events[n]) = Failed
  <2>1. /\ Head(events[n]) \in NativeEvents /\ Head(events[n]).type = "Failed"
        /\ ~Ended(n) /\ offering[n].ends = {} /\ events[n] \in Seq(NativeEvents)
        /\ events[n] # <<>>
    BY <1>1, NativeTaken
  <2>2. \A x \in NativeEvents : x.type = "Failed" => x = Failed
    BY DEF NativeEvents, Applied
  <2> QED
    BY <2>1, <2>2
<1>3. /\ applications'[n] = NoApplications
      /\ \A m \in Nodes \ {n} : applications'[m] = applications[m]
      /\ \A m \in Nodes : Listed(applications'[m]) \subseteq Listed(applications[m])
  <2>1. /\ applications'[n] = NoApplications
        /\ \A m \in Nodes \ {n} : applications'[m] = applications[m]
    BY <1>1 DEF PathType, RuntimeType
  <2>2. Listed(applications'[n]) = {}
    BY <2>1, ApplicationTypes
  <2> QED
    BY <2>1, <2>2
<1>4. OriginInv' /\ OrderInv'
  BY <1>1, <1>3, BackUntouched
<1>5. /\ \A f \in Ends : Started(f)' = Started(f) /\ KnownAt(f)
      /\ \A m \in Nodes : Ended(m)' = Ended(m)
  BY <1>1, SameStarted DEF BackInv, KnownInv, Ended
<1>6. /\ \A m \in Nodes \ {n} : events'[m] = events[m] /\ service'[m] = service[m]
      /\ \A f \in Ends : Node(f) # n => open'[f] = open[f]
  <2>1. \A f \in Ends : Node(f) # n => open'[f] = open[f]
    BY DEF NativeFailed, PathType, RuntimeType
  <2>2. \A m \in Nodes \ {n} : events'[m] = events[m] /\ service'[m] = service[m]
    BY DEF NativeFailed, PathType, RuntimeType, ServiceType
  <2> QED
    BY <2>1, <2>2
<1>7. \A f \in Ends : Node(f) # n => KnownAt(f)'
  BY <1>1, <1>3, <1>5, <1>6, KnownElsewhere DEF BackInv
<1>8. CASE n = Local
  <2>1. UNCHANGED open /\ service'[n] = FALSE
    BY <1>8 DEF NativeFailed, PathType, RuntimeType
  <2>2. PICK kept \in Prefixes(Tail(events[n])) : events'[n] = kept
    BY <1>8 DEF NativeFailed, PathType, ServiceType
  <2>3. /\ kept \in Seq(NativeEvents) /\ Len(kept) < Len(events[n])
        /\ \A i \in 1 .. Len(kept) : kept[i] = events[n][i + 1]
    <3>1. /\ Tail(events[n]) \in Seq(NativeEvents) /\ Len(events[n]) \in Nat
          /\ Len(Tail(events[n])) = Len(events[n]) - 1
          /\ \A i \in 1 .. Len(events[n]) - 1 : Tail(events[n])[i] = events[n][i + 1]
      BY <1>2, TailQueue
    <3>2. /\ kept \in Seq(NativeEvents) /\ Len(kept) <= Len(Tail(events[n])) /\ Len(kept) \in Nat
          /\ \A i \in 1 .. Len(kept) : kept[i] = Tail(events[n])[i]
      BY <3>1, PrefixOf
    <3> QED
      BY <3>1, <3>2
  <2>4. ASSUME NEW f \in Ends, Node(f) = n PROVE KnownAt(f)'
    <3>1. Watched(f)' = Watched(f)
      BY <1>5, <2>1 DEF Watched
    <3>2. ASSUME Watched(f), ~Ended(n)
          PROVE  AllKnown(kept, offering[n], NoApplication, session[f].remote_text, f, NoText)
      <4>1. AllKnown(events[n], offering[n], applications[n].pending, session[f].remote_text, f,
                     Held(n))
        BY <1>5, <2>4, <3>2 DEF KnownAt
      <4>2. f \notin offering[n].ends
        BY <1>2
      <4> QED
        BY <1>2, <2>3, <4>1, <4>2, KnownFailed
    <3>3. applications'[n].pending = NoApplication
      BY <1>3, ApplicationTypes
    <3> QED
      BY <1>1, <1>5, <2>1, <2>2, <2>4, <3>1, <3>2, <3>3, KnownNext
  <2> QED
    BY <1>1, <1>4, <1>5, <1>7, <2>1, <2>4, KnownParts DEF BackInv
<1>9. CASE n # Local
  <2>1. \A f \in Ends : Node(f) = n => ~open'[f]
    BY <1>9 DEF NativeFailed
  <2>2. \A f \in Ends : Node(f) = n => Started(f) # 0
    <3>1. EndsOf(n) = {<<n, Local>>} /\ <<n, Local>> \in Ends
      BY <1>9, AgentEnd
    <3>2. inUse[<<n, Local>>] # NoSession
      BY <1>1, <1>9, <3>1 DEF TakeNativeEvent
    <3>3. Started(<<n, Local>>) # 0
      <4>1. /\ inUse[<<n, Local>>] \in Nat /\ inUse[<<n, Local>>] <= Started(<<n, Local>>)
        BY <3>1 DEF PathType, ConnectionType, RuntimeType
      <4>2. Started(<<n, Local>>) \in Nat
        BY <3>1, StartedFacts DEF PathType
      <4> QED
        BY <3>2, <4>1, <4>2 DEF NoSession
    <3> QED
      BY <3>1, <3>3 DEF EndsOf
  <2>3. \A f \in Ends : Node(f) = n => KnownAt(f)'
    BY <1>5, <2>1, <2>2, KnownNext DEF Watched
  <2>4. \A f \in Ends : open[f] /\ ~open'[f] => f \notin offering'[Node(f)].ends
    BY <1>1, <1>2, <1>6
  <2> QED
    BY <1>1, <1>4, <1>5, <1>7, <2>3, <2>4, KnownParts DEF BackInv
<1> QED
  BY <1>8, <1>9

(* A part of a generation that came from the other end.                    *)
LEMMA PartBack ==
  ASSUME PathType, PathType', BackInv, NEW e \in Ends, NEW part \in S!Parts, NEW n \in Nat,
         NEW text \in Texts, text \in Through(e), S!ReceivePart(e, part, e[2], n, text),
         UNCHANGED <<applications, commands>>,
         \A f \in Ends, s \in Sessions :
           /\ Entries(control'[f][s]) \subseteq Entries(control[f][s])
           /\ Entries(transfers'[f][s]) \subseteq Entries(transfers[f][s])
  PROVE  OriginInv' /\ OrderInv'
<1> DEFINE Asks ==
             /\ ~S!IsApplying(session[e]) /\ S!IsApplying(session'[e])
             /\ session'[e].applying.transfer \in Texts
             /\ Ordered(session[e]) => session[e].applied < session'[e].applying.sequence
             /\ actions'[e] = <<S!ApplyRemote(session'[e].applying.sequence,
                                             session'[e].applying.transfer)>>
<1>1. /\ OriginInv /\ OrderInv /\ Ordered(session[e])
      /\ session[e] \in SessionStates /\ session'[e] \in SessionStates
      /\ TextsOf(session[e]) \cup {session[e].remote_text} \subseteq Through(e) \cup {NoText}
  BY DEF BackInv, OriginInv, OrderInv, PathType, SessionType
<1>2. /\ OthersKept(e)
      /\ session'[e].applied = session[e].applied
      /\ session'[e].remote_text = session[e].remote_text
      /\ Ordered(session'[e])
      /\ TextsOf(session'[e]) \subseteq TextsOf(session[e]) \cup {text, NoText}
      /\ (session'[e].applying = session[e].applying /\ actions'[e] = <<>>) \/ Asks
  BY <1>1, PartCall DEF PathType
<1>3. TextsOf(session'[e]) \subseteq Through(e) \cup {NoText}
  BY <1>1, <1>2
<1>4. ASSUME NEW action \in Entries(actions'[e])
      PROVE  /\ action \in Contents => action.text \notin Through(e)
             /\ action \in Applies => /\ action.text \in Through(e)
                                      /\ AgreesWith(session'[e], action.sequence, action.text)
  <2>1. CASE actions'[e] = <<>>
    BY <1>4, <2>1, EmptyQueue
  <2>2. CASE Asks
    <3>1. action = S!ApplyRemote(session'[e].applying.sequence, session'[e].applying.transfer)
      BY <1>4, <2>2, ShortQueues, ZenonT(60)
    <3> QED
      BY <1>1, <1>3, <2>2, <3>1, ApplyBack
  <2> QED
    BY <1>2, <2>1, <2>2
<1>5. ASSUME NEW k \in Nat, NEW other, AgreesWith(session[e], k, other)
      PROVE  AgreesWith(session'[e], k, other)
  <2>1. CASE session'[e].applying = session[e].applying
    BY <1>2, <1>5, <2>1 DEF AgreesWith, S!IsApplying
  <2>2. CASE Asks
    <3>1. k <= session[e].applied /\ session[e].applied < session'[e].applying.sequence
      BY <1>1, <1>5, <2>2 DEF AgreesWith
    <3>2. session[e].applied \in Nat /\ session'[e].applying.sequence \in Nat
      BY <1>1 DEF SessionStates, Clips
    <3>3. k # session'[e].applying.sequence
      BY <3>1, <3>2
    <3> QED
      BY <1>2, <3>1, <3>3 DEF AgreesWith
  <2> QED
    BY <1>2, <2>1, <2>2
<1>6. OriginInv'
  BY <1>1, <1>2, <1>3, <1>4, OriginCalled
<1>7. OrderInv'
  BY <1>1, <1>2, <1>4, <1>5, OrderCalled
<1> QED
  BY <1>6, <1>7

LEMMA ArrivalKnown ==
  ASSUME PathType, BackInv, NEW e \in Ends, Free(Node(e)), OthersKept(e),
         session'[e].remote_text = session[e].remote_text,
         UNCHANGED <<events, offering, service, native, opened, accepted>>,
         \A n \in Nodes : applications'[n].pending = applications[n].pending,
         \A n \in Nodes : n # Node(e) => ended'[n] = ended[n],
         \A f \in Ends : f # e => open'[f] = open[f], open'[e] => open[e]
  PROVE  KnownInv'
<1>1. ~Ended(Node(e)) /\ e \notin offering[Node(e)].ends
  BY DEF Free
<1>2. \A n \in Nodes : Ended(n) => Ended(n)'
  <2> SUFFICES ASSUME NEW n \in Nodes, Ended(n) PROVE Ended(n)'
    OBVIOUS
  <2>1. n # Node(e)
    BY <1>1
  <2>2. \A f \in EndsOf(n) : f \in Ends /\ f # e
    BY <2>1 DEF EndsOf
  <2> QED
    BY <2>1, <2>2 DEF Ended, OthersKept
<1>3. \A f \in Ends : Started(f)' = Started(f)
  BY SameStarted
<1> QED
  BY <1>1, <1>2, <1>3, KnownSame DEF BackInv, OthersKept, Watched

LEMMA TakeControlBack ==
  ASSUME PathType, PathType', BackInv, NEW e \in Ends, TakeControl(e)
  PROVE  BackInv'
<1> DEFINE message == Head(Arriving(control, e))
<1>1. /\ Arriving(control, e) # <<>> /\ control' = Taken(control, e) /\ Free(Node(e))
      /\ UNCHANGED <<offering, service, native, events, opened, accepted, transfers>>
      /\ UNCHANGED <<applications, commands>>
  BY DEF TakeControl, EndRuntime, connectionVars, serviceVars
<1>2. actions[e] = <<>> /\ Node(e) \in Nodes
  BY EndFacts DEF TakeControl, Free
<1>3. /\ message \in Contents \cup Acknowledgements \cup {Disconnected}
      /\ message \in Entries(control[Opposite(e)][inUse[e]])
      /\ inUse[e] \in Sessions /\ Opposite(e) \in Ends
      /\ \A f \in Ends, s \in Sessions :
           Entries(control'[f][s]) \subseteq Entries(control[f][s])
  BY <1>1, ControlTaken, EndFacts
<1> HIDE DEF message
<1>4. /\ OthersKept(e) /\ session'[e].remote_text = session[e].remote_text
      /\ OriginInv' /\ OrderInv'
  <2>1. CASE UNCHANGED sessionVars
    <3>1. OriginInv' /\ OrderInv'
      BY <1>1, <1>3, <2>1, BackUntouched DEF sessionVars
    <3> QED
      BY <2>1, <3>1 DEF OthersKept, sessionVars
  <2>2. CASE /\ message.type = "SendOffer" /\ message # Disconnected
             /\ S!ReceiveOffer(e, e[2], message.sequence, message.text)
    <3>1. message \in Contents /\ message.sequence \in Nat /\ message.text \in Texts
      BY <1>3, <2>2, KindsDiffer
    <3>2. message.text \in Through(e)
      <4>1. message.text \notin Through(Opposite(e))
        BY <1>3, <3>1 DEF BackInv, OriginInv
      <4> QED
        BY <3>1, <4>1, ThroughFacts
    <3>3. S!ReceivePart(e, "offer", e[2], message.sequence, message.text) /\ "offer" \in S!Parts
      BY <2>2 DEF S!ReceiveOffer, S!Parts
    <3>4. OriginInv' /\ OrderInv'
      BY <1>1, <1>3, <3>1, <3>2, <3>3, PartBack
    <3> QED
      BY <3>1, <3>3, <3>4, PartCall DEF PathType
  <2>3. CASE /\ message.type = "SendApplied" /\ message # Disconnected
             /\ S!ReceiveAcknowledgement(e, e[1], message.sequence)
    <3>1. message.sequence \in Nat
      BY <1>3, <2>3, KindsDiffer
    <3>2. /\ OthersKept(e) /\ actions'[e] = <<>>
          /\ session'[e].applied = session[e].applied
          /\ session'[e].highest = session[e].highest
          /\ session'[e].incoming = session[e].incoming
          /\ session'[e].applying = session[e].applying
          /\ session'[e].remote_text = session[e].remote_text
      BY <2>3, <3>1, AcknowledgementCall DEF PathType
    <3>3. /\ Ordered(session'[e]) /\ TextsOf(session'[e]) = TextsOf(session[e])
          /\ \A n \in Nat : \A text :
               AgreesWith(session[e], n, text) => AgreesWith(session'[e], n, text)
      BY <3>2, SameOrder DEF BackInv, OrderInv
    <3>4. Entries(actions'[e]) = {}
      BY <3>2, EmptyQueue
    <3>5. TextsOf(session'[e]) \cup {session'[e].remote_text} \subseteq Through(e) \cup {NoText}
      BY <3>2, <3>3 DEF BackInv, OriginInv
    <3>6. OriginInv'
      BY <1>1, <1>3, <3>2, <3>4, <3>5, OriginCalled DEF BackInv
    <3>7. OrderInv'
      BY <1>1, <3>2, <3>3, <3>4, OrderCalled DEF BackInv
    <3> QED
      BY <3>2, <3>6, <3>7
  <2> QED
    BY <2>1, <2>2, <2>3 DEF TakeControl, ReceiveControl, message
<1>5. /\ \A f \in Ends : f # e => open'[f] = open[f]
      /\ open'[e] => open[e]
      /\ \A n \in Nodes : n # Node(e) => ended'[n] = ended[n]
  BY DEF TakeControl, EndRuntime, PathType, RuntimeType
<1>6. KnownInv'
  BY <1>1, <1>4, <1>5, ArrivalKnown
<1> QED
  BY <1>4, <1>6 DEF BackInv

LEMMA TakeTransferBack ==
  ASSUME PathType, PathType', BackInv, NEW e \in Ends, TakeTransfer(e)
  PROVE  BackInv'
<1> DEFINE message == Head(Arriving(transfers, e))
<1>1. /\ Arriving(transfers, e) # <<>> /\ transfers' = Taken(transfers, e) /\ Free(Node(e))
      /\ UNCHANGED <<offering, service, native, events, opened, accepted, control, commands>>
  BY DEF TakeTransfer, EndRuntime, connectionVars, serviceVars
<1>2. Node(e) \in Nodes /\ Opposite(e) \in Ends
  BY EndFacts
<1>3. /\ message \in Contents \cup {ClipboardFailed}
      /\ message \in Entries(transfers[Opposite(e)][inUse[e]]) /\ inUse[e] \in Sessions
      /\ \A f \in Ends, s \in Sessions :
           Entries(transfers'[f][s]) \subseteq Entries(transfers[f][s])
  BY <1>1, TransferTaken
<1> HIDE DEF message
<1>4. \A n \in Nodes : /\ applications'[n].pending = applications[n].pending
                       /\ Listed(applications'[n]) \subseteq Listed(applications[n])
  <2>1. CASE applications' = [applications EXCEPT ![Node(e)] = WithoutPeer(e)]
    <3>1. /\ applications'[Node(e)] = WithoutPeer(e)
          /\ \A n \in Nodes : n # Node(e) => applications'[n] = applications[n]
      BY <1>2, <2>1 DEF PathType, RuntimeType
    <3>2. /\ WithoutPeer(e).pending = applications[Node(e)].pending
          /\ Listed(WithoutPeer(e)) \subseteq Listed(applications[Node(e)])
      BY WithoutPeerEffect DEF PathType, RuntimeType
    <3> QED
      BY <3>1, <3>2
  <2>2. CASE UNCHANGED applications
    BY <2>2
  <2> QED
    BY <2>1, <2>2 DEF TakeTransfer, EndRuntime
<1>5. /\ OthersKept(e) /\ session'[e].remote_text = session[e].remote_text
      /\ OriginInv' /\ OrderInv'
  <2>1. CASE UNCHANGED sessionVars
    <3>1. OriginInv' /\ OrderInv'
      BY <1>1, <1>3, <1>4, <2>1, BackUntouched DEF sessionVars
    <3> QED
      BY <2>1, <3>1 DEF OthersKept, sessionVars
  <2>2. CASE /\ message # ClipboardFailed /\ UNCHANGED applications
             /\ S!ReceiveTransfer(e, e[2], message.sequence, message.text)
    <3>1. message \in Contents /\ message.sequence \in Nat /\ message.text \in Texts
      BY <1>3, <2>2, KindsDiffer
    <3>2. message.text \in Through(e)
      <4>1. message.text \notin Through(Opposite(e))
        BY <1>2, <1>3, <3>1 DEF BackInv, OriginInv
      <4> QED
        BY <3>1, <4>1, ThroughFacts
    <3>3. /\ S!ReceivePart(e, "transfer", e[2], message.sequence, message.text)
          /\ "transfer" \in S!Parts
      BY <2>2 DEF S!ReceiveTransfer, S!Parts
    <3>4. OriginInv' /\ OrderInv'
      BY <1>1, <1>3, <2>2, <3>1, <3>2, <3>3, PartBack
    <3> QED
      BY <3>1, <3>3, <3>4, PartCall DEF PathType
  <2> QED
    BY <2>1, <2>2 DEF TakeTransfer, message
<1>6. /\ \A f \in Ends : f # e => open'[f] = open[f]
      /\ open'[e] => open[e]
      /\ \A n \in Nodes : n # Node(e) => ended'[n] = ended[n]
  BY DEF TakeTransfer, EndRuntime, PathType, RuntimeType
<1>7. KnownInv'
  BY <1>1, <1>4, <1>5, <1>6, ArrivalKnown
<1> QED
  BY <1>5, <1>7 DEF BackInv

(* The first connection of an end: it has taken nothing yet, and nothing   *)
(* of it is listed.                                                        *)
LEMMA StartBack ==
  ASSUME PathType, PathType', BackInv, NEW e \in Ends, S!Start(e), Free(Node(e)),
         Started(e) = 0,
         UNCHANGED <<offering, ended, service, native, commands, events, control, transfers>>,
         open'[e] = TRUE, Started(e)' # 0,
         \A f \in Ends : f # e => open'[f] = open[f] /\ Started(f)' = Started(f),
         \A n \in Nodes : n # Node(e) => applications'[n] = applications[n],
         applications'[Node(e)] \in {NoApplications, applications[Node(e)]}
  PROVE  BackInv'
<1> DEFINE n == Node(e)
<1>1. /\ OthersKept(e) /\ actions'[e] = <<>> /\ session'[e] = S!NewSession
      /\ error'[e] = "none"
  BY StartCall DEF PathType
<1>2. /\ n \in Nodes /\ ~Ended(n) /\ offering[n].ends = {}
      /\ OriginInv /\ OrderInv /\ KnownInv
  BY EndFacts DEF Free, BackInv
<1>3. /\ Entries(actions'[e]) = {} /\ session'[e].remote_text = NoText
      /\ TextsOf(session'[e]) = {NoText} /\ Ordered(session'[e])
  BY <1>1, EmptyQueue
  DEF S!NewSession, S!NoClip, S!Clip, TextsOf, Ordered, S!IsApplying
<1>4. \A m \in Nodes : \/ applications'[m] = applications[m]
                       \/ applications'[m] = NoApplications /\ m = n
  OBVIOUS
<1>5. \A m \in Nodes : /\ Listed(applications'[m]) \subseteq Listed(applications[m])
                       /\ applications'[m].pending \in {NoApplication, applications[m].pending}
  BY <1>4, ApplicationTypes
<1>6. session[e].remote_text = NoText
  BY <1>2 DEF KnownInv
<1>7. OriginInv'
  <2>1. TextsOf(session'[e]) \cup {session'[e].remote_text} \subseteq Through(e) \cup {NoText}
    BY <1>3
  <2>2. \A m \in Nodes : Entries(commands'[m]) = Entries(commands[m])
    OBVIOUS
  <2> QED
    BY <1>1, <1>2, <1>3, <1>5, <2>1, <2>2, OriginCalled
<1>8. OrderInv'
  <2>1. \A f \in Ends : Ordered(session'[f])
    BY <1>1, <1>2, <1>3 DEF OrderInv, OthersKept
  <2>2. ASSUME NEW f \in Ends, NEW action \in Entries(actions'[f]), action \in Applies
        PROVE  AgreesWith(session'[f], action.sequence, action.text)
    <3>1. f # e
      BY <1>3, <2>2
    <3> QED
      BY <1>1, <1>2, <2>2, <3>1 DEF OrderInv, OthersKept
  <2>3. ASSUME NEW m \in Nodes, NEW x \in Listed(applications'[m])
        PROVE  AgreesWith(session'[x.end], x.sequence, x.text)
    <3>1. /\ x \in Listed(applications[m]) /\ x.end \in EndsOf(m)
          /\ x.session \in 1 .. Started(x.end)
      BY <1>5, <2>3 DEF PathType, WorkType
    <3>2. x.end # e /\ x.end \in Ends
      BY <3>1 DEF EndsOf
    <3>3. AgreesWith(session[x.end], x.sequence, x.text)
      BY <1>2, <3>1 DEF OrderInv
    <3> QED
      BY <1>1, <3>2, <3>3 DEF OthersKept
  <2> QED
    BY <2>1, <2>2, <2>3 DEF OrderInv
<1>9. KnownInv'
  <2>1. ASSUME NEW f \in Ends, Node(f) # n PROVE KnownAt(f)'
    <3>1. f # e /\ Node(f) \in Nodes
      BY <2>1, EndFacts
    <3>2. Watched(f)' => Watched(f)
      BY <3>1 DEF Watched
    <3>3. Ended(Node(f)) => Ended(Node(f))'
      <4>1. \A g \in EndsOf(Node(f)) : g \in Ends /\ g # e
        BY <2>1 DEF EndsOf
      <4> QED
        BY <1>1, <4>1 DEF Ended, OthersKept
    <3> QED
      BY <1>1, <1>2, <2>1, <3>1, <3>2, <3>3, KnownUntouched DEF KnownInv, OthersKept
  <2>2. ASSUME NEW f \in Ends, Node(f) = n PROVE KnownAt(f)'
    <3>1. session'[f].remote_text = session[f].remote_text
      BY <1>1, <1>3, <1>6 DEF OthersKept
    <3>2. Watched(f)' => Watched(f)
      BY DEF Watched
    <3>3. events[n] \in Seq(NativeEvents) /\ Len(events[n]) \in Nat
      BY <1>2 DEF PathType, ServiceType
    <3>4. ASSUME Watched(f)
          PROVE  AllKnown(events[n], offering[n], applications'[n].pending,
                          session[f].remote_text, f, Held(n))
      <4>1. AllKnown(events[n], offering[n], applications[n].pending, session[f].remote_text, f,
                     Held(n))
        BY <1>2, <2>2, <3>4 DEF KnownInv, KnownAt
      <4>2. applications'[n].pending \in {NoApplication, applications[n].pending}
        BY <1>2, <1>5
      <4> QED
        BY <1>2, <3>3, <4>1, <4>2, KnownKept
    <3> QED
      BY <2>2, <3>1, <3>2, <3>4, KnownNext DEF Held
  <2>3. \A f \in Ends : Started(f)' = 0 => Started(f) = 0
    OBVIOUS
  <2>4. \A f \in Ends : session'[f].remote_text \in {NoText, session[f].remote_text}
    BY <1>1, <1>3 DEF OthersKept
  <2>5. \A f \in Ends : open[f] /\ ~open'[f] => FALSE
    OBVIOUS
  <2> QED
    BY <1>2, <2>1, <2>2, <2>3, <2>4, <2>5, KnownParts
<1> QED
  BY <1>7, <1>8, <1>9 DEF BackInv

LEMMA ConnectBack ==
  ASSUME PathType, PathType', FirstConnections', BackInv, NEW a \in Agents, Connect(a)
  PROVE  BackInv'
<1> DEFINE e == <<a, Local>>
<1>1. /\ e \in Ends /\ a \in Nodes /\ a # Local /\ Node(e) = a
      /\ Started(e) = opened[a]
  BY AgentEnds
<1>2. Started(e)' = opened'[a]
  BY <1>1 DEF Started
<1>3. \A f \in Ends : f # e => (Node(f) = Local \/ f[1] # a)
  BY DEF Ends, Node
<1> HIDE DEF e
<1>4. /\ S!Start(e) /\ opened' = [opened EXCEPT ![a] = opened[a] + 1] /\ Free(a)
      /\ open' = [open EXCEPT ![e] = TRUE]
      /\ applications' = [applications EXCEPT ![a] = NoApplications]
      /\ UNCHANGED <<offering, ended, service, native, commands, events, accepted, control,
                     transfers>>
  BY DEF Connect, e, streamVars, serviceVars
<1>5. opened[a] = 0 /\ opened'[a] = 1
  <2>1. opened'[a] <= 1 /\ opened[a] \in Nat /\ opened'[a] = opened[a] + 1
    BY <1>4 DEF FirstConnections, PathType, ConnectionType
  <2> QED
    BY <2>1
<1>6. \A f \in Ends : f # e => open'[f] = open[f] /\ Started(f)' = Started(f)
  BY <1>3, <1>4 DEF Started, PathType, RuntimeType, ConnectionType
<1>7. open'[e] = TRUE /\ Started(e) = 0 /\ Started(e)' # 0
  BY <1>1, <1>2, <1>4, <1>5 DEF PathType, RuntimeType
<1>8. /\ \A n \in Nodes : n # Node(e) => applications'[n] = applications[n]
      /\ applications'[Node(e)] = NoApplications
  BY <1>1, <1>4 DEF PathType, RuntimeType
<1> QED
  BY <1>1, <1>4, <1>6, <1>7, <1>8, StartBack

LEMMA AcceptPeerBack ==
  ASSUME PathType, PathType', FirstConnections', BackInv, NEW a \in Agents, AcceptPeer(a)
  PROVE  BackInv'
<1> DEFINE e == <<Local, a>>
<1>1. e \in Ends /\ Node(e) = Local /\ Started(e) = accepted[a]
  BY AgentEnds
<1>2. Started(e)' = accepted'[a]
  BY <1>1 DEF Started
<1>3. \A f \in Ends : f # e => (Node(f) # Local \/ f[2] # a)
  BY DEF Ends, Node
<1> HIDE DEF e
<1>4. /\ S!Start(e) /\ accepted' = [accepted EXCEPT ![a] = accepted[a] + 1] /\ Free(Local)
      /\ open' = [open EXCEPT ![e] = TRUE] /\ accepted[a] < opened[a]
      /\ UNCHANGED <<applications, offering, ended, service, native, commands, events, opened,
                     control, transfers>>
  BY DEF AcceptPeer, e, streamVars, serviceVars
<1>5. accepted[a] = 0 /\ accepted'[a] = 1
  <2>1. opened[a] <= 1 /\ opened[a] \in Nat /\ accepted[a] \in Nat
        /\ accepted'[a] = accepted[a] + 1
    BY <1>4 DEF FirstConnections, PathType, ConnectionType
  <2> QED
    BY <1>4, <2>1
<1>6. \A f \in Ends : f # e => open'[f] = open[f] /\ Started(f)' = Started(f)
  BY <1>3, <1>4 DEF Started, PathType, RuntimeType, ConnectionType
<1>7. open'[e] = TRUE /\ Started(e) = 0 /\ Started(e)' # 0
  BY <1>1, <1>2, <1>4, <1>5 DEF PathType, RuntimeType
<1> QED
  BY <1>1, <1>4, <1>6, <1>7, StartBack

LEMMA LoseBack ==
  ASSUME PathType, BackInv, NEW a \in Agents, NEW s \in Sessions, Lose(a, s) PROVE BackInv'
<1>1. UNCHANGED <<session, actions, error, open, offering, applications, ended, service, native,
                  commands, events, opened, accepted>>
  BY DEF Lose, sessionVars, serviceVars
<1>2. OriginInv' /\ OrderInv'
  BY <1>1, LoseEffect, BackUntouched
<1>3. /\ \A f \in Ends : Started(f)' = Started(f) /\ Watched(f)' = Watched(f)
      /\ \A m \in Nodes : Ended(m)' = Ended(m)
  BY <1>1, SameStarted DEF Watched, Ended
<1>4. KnownInv'
  BY <1>1, <1>3, KnownSame DEF BackInv
<1> QED
  BY <1>2, <1>4 DEF BackInv

(* A step of the user or the service of n changes what only its own ends   *)
(* have yet to know.                                                       *)
LEMMA ServiceKnown ==
  ASSUME PathType, BackInv, NEW n \in Nodes,
         UNCHANGED <<session, actions, error, open, offering, applications, ended, service,
                     opened, accepted, control, transfers>>,
         \A m \in Nodes \ {n} : events'[m] = events[m] /\ native'[m] = native[m],
         \A m \in Nodes : Entries(commands'[m]) \subseteq Entries(commands[m]),
         \A f \in Ends :
           /\ Node(f) = n /\ Watched(f)
           /\ AllKnown(events[n], offering[n], applications[n].pending, session[f].remote_text, f,
                       Held(n))
           => AllKnown(events'[n], offering[n], applications[n].pending, session[f].remote_text,
                       f, IF service[n] THEN native'[n] ELSE NoText)
  PROVE  BackInv'
<1>1. OriginInv' /\ OrderInv'
  BY BackUntouched
<1>2. /\ \A f \in Ends : Started(f)' = Started(f) /\ Watched(f)' = Watched(f) /\ KnownAt(f)
      /\ \A m \in Nodes : Ended(m)' = Ended(m)
  BY SameStarted DEF Watched, Ended, BackInv, KnownInv
<1>3. \A f \in Ends : Node(f) # n => KnownAt(f)'
  BY <1>2, KnownElsewhere DEF BackInv
<1>4. ASSUME NEW f \in Ends, Node(f) = n PROVE KnownAt(f)'
  <2>1. ASSUME Watched(f), ~Ended(n)
        PROVE  AllKnown(events'[n], offering[n], applications[n].pending, session[f].remote_text,
                        f, IF service[n] THEN native'[n] ELSE NoText)
    BY <1>2, <1>4, <2>1 DEF KnownAt
  <2> QED
    BY <1>2, <1>4, <2>1, KnownNext
<1>5. KnownInv'
  BY <1>2, <1>3, <1>4, KnownParts DEF BackInv
<1> QED
  BY <1>1, <1>5 DEF BackInv

LEMMA UserCopiesBack ==
  ASSUME PathType, BackInv, NEW n \in Nodes, UserCopies(n) PROVE BackInv'
<1>1. /\ UNCHANGED <<session, actions, error, open, offering, applications, ended, service,
                     opened, accepted, control, transfers, events, commands>>
      /\ native' = [native EXCEPT ![n] = <<n, copies[n] + 1>>]
  BY DEF UserCopies, sessionVars, connectionVars, streamVars
<1>2. /\ \A m \in Nodes \ {n} : native'[m] = native[m]
      /\ native'[n] = <<n, copies[n] + 1>>
  BY <1>1 DEF PathType, ServiceType
<1>3. ASSUME NEW f \in Ends, Node(f) = n,
             AllKnown(events[n], offering[n], applications[n].pending, session[f].remote_text, f,
                      Held(n))
      PROVE  AllKnown(events[n], offering[n], applications[n].pending, session[f].remote_text, f,
                      IF service[n] THEN native'[n] ELSE NoText)
  <2>1. (IF service[n] THEN native'[n] ELSE NoText) \notin Through(f)
    BY <1>2, <1>3, ThroughFacts
  <2> QED
    BY <1>3, <2>1, KnownNotHeld
<1> QED
  BY <1>1, <1>2, <1>3, ServiceKnown

LEMMA ReportsBack ==
  ASSUME PathType, BackInv, NEW n \in Nodes, NEW x \in NativeEvents, x # Applied, service[n],
         x.type = "Changed" => x.text = native[n],
         UNCHANGED <<session, actions, error, open, offering, applications, ended, service,
                     native, opened, accepted, control, transfers>>,
         \A m \in Nodes : Entries(commands'[m]) \subseteq Entries(commands[m]),
         \A m \in Nodes \ {n} : events'[m] = events[m],
         events'[n] \in {events[n], Append(events[n], x)}
  PROVE  BackInv'
<1>1. events[n] \in Seq(NativeEvents) /\ Held(n) = native[n]
  BY DEF PathType, ServiceType, Held
<1>2. ASSUME NEW f \in Ends, Node(f) = n,
             AllKnown(events[n], offering[n], applications[n].pending, session[f].remote_text, f,
                      Held(n))
      PROVE  AllKnown(events'[n], offering[n], applications[n].pending, session[f].remote_text,
                      f, IF service[n] THEN native'[n] ELSE NoText)
  <2>1. AllKnown(Append(events[n], x), offering[n], applications[n].pending,
                 session[f].remote_text, f, native[n])
    BY <1>1, <1>2, KnownReported
  <2> QED
    BY <1>1, <1>2, <2>1
<1> QED
  BY <1>2, ServiceKnown

LEMMA ServiceNoticesBack ==
  ASSUME PathType, BackInv, NEW n \in Nodes, ServiceNotices(n) PROVE BackInv'
<1> DEFINE x == Changed(native[n])
<1>1. /\ service[n] /\ changed[n]
      /\ Report(n, x) \/ UNCHANGED events
      /\ UNCHANGED <<session, actions, error, open, offering, applications, ended, service,
                     native, opened, accepted, control, transfers, commands>>
  BY DEF ServiceNotices, sessionVars, connectionVars, streamVars
<1>2. native[n] \in Texts
  BY DEF ServiceNotices, PathType, ServiceType
<1>3. x \in NativeEvents /\ x # Applied /\ x.text = native[n]
  BY <1>2, EventTypes
<1> HIDE DEF x
<1>4. /\ \A m \in Nodes \ {n} : events'[m] = events[m]
      /\ events'[n] \in {events[n], Append(events[n], x)}
  BY <1>1, <1>3, ReportEffect
<1> QED
  BY <1>1, <1>3, <1>4, ReportsBack DEF ServiceNotices

LEMMA ServiceFailsBack ==
  ASSUME PathType, BackInv, NEW n \in Nodes, ServiceFails(n) PROVE BackInv'
<1>1. /\ service[n] /\ Report(n, Failed)
      /\ UNCHANGED <<session, actions, error, open, offering, applications, ended, service,
                     native, opened, accepted, control, transfers>>
  BY DEF ServiceFails, FailureReported, sessionVars, connectionVars, streamVars
<1>2. Failed \in NativeEvents /\ Failed # Applied /\ Failed.type # "Changed"
  BY EventTypes DEF Failed
<1>3. /\ \A m \in Nodes \ {n} : events'[m] = events[m]
      /\ events'[n] = Append(events[n], Failed)
  BY <1>1, <1>2, ReportEffect
<1>4. \A m \in Nodes : Entries(commands'[m]) \subseteq Entries(commands[m])
  <2>1. CASE UNCHANGED commands
    BY <2>1
  <2>2. CASE commands[n] # <<>> /\ commands' = [commands EXCEPT ![n] = Tail(@)]
    <3>1. /\ \A m \in Nodes \ {n} : commands'[m] = commands[m]
          /\ commands'[n] = Tail(commands[n]) /\ commands[n] \in Seq(Applications)
      BY <2>2 DEF PathType, ServiceType
    <3>2. Entries(commands'[n]) \subseteq Entries(commands[n])
      BY <2>2, <3>1, TailQueue
    <3> QED
      BY <3>1, <3>2
  <2> QED
    BY <2>1, <2>2 DEF ServiceFails
<1> QED
  BY <1>1, <1>2, <1>3, <1>4, ReportsBack

LEMMA ServiceAppliesBack ==
  ASSUME PathType, ApplicationsInv, BackInv, NEW n \in Nodes, ServiceApplies(n) PROVE BackInv'
<1> DEFINE pending == applications[n].pending
           application == Head(commands[n])
<1>1. /\ commands[n] # <<>> /\ Report(n, Applied)
      /\ UNCHANGED <<session, actions, error, open, offering, applications, ended, service,
                     opened, accepted, control, transfers>>
      /\ commands' = [commands EXCEPT ![n] = Tail(@)]
      /\ native' = [native EXCEPT ![n] = application.text]
  BY DEF ServiceApplies, sessionVars, connectionVars, streamVars
<1>2. /\ \A m \in Nodes \ {n} : /\ events'[m] = events[m] /\ native'[m] = native[m]
                                /\ commands'[m] = commands[m]
      /\ native'[n] = application.text
      /\ service[n] => events'[n] = Append(events[n], Applied)
      /\ ~service[n] => events'[n] = events[n]
      /\ events[n] \in Seq(NativeEvents)
  BY <1>1, ReportEffect, EventTypes DEF PathType, ServiceType
<1>3. \A m \in Nodes : Entries(commands'[m]) \subseteq Entries(commands[m])
  <2>1. commands'[n] = Tail(commands[n]) /\ commands[n] \in Seq(Applications)
    BY <1>1 DEF PathType, ServiceType
  <2>2. Entries(commands'[n]) \subseteq Entries(commands[n])
    BY <1>1, <2>1, TailQueue
  <2> QED
    BY <1>2, <2>2
<1>4. WithService(n)
  BY DEF ApplicationsInv
<1>5. ASSUME NEW f \in Ends, Node(f) = n, Watched(f),
             AllKnown(events[n], offering[n], applications[n].pending, session[f].remote_text, f,
                      Held(n))
      PROVE  AllKnown(events'[n], offering[n], applications[n].pending, session[f].remote_text,
                      f, IF service[n] THEN native'[n] ELSE NoText)
  <2>1. CASE ~service[n]
    <3>1. NoText \notin Through(f)
      BY ThroughFacts
    <3> QED
      BY <1>2, <1>5, <2>1, <3>1, KnownNotHeld
  <2>2. CASE service[n]
    <3>1. pending # NoApplication /\ commands[n] = <<pending>> /\ Applied \notin Entries(events[n])
      <4>1. ~Unused(n)
        BY <1>1 DEF Unused
      <4>2. ~GivenUp(n)
        <5>1. CASE n = Local
          BY <2>2, <5>1 DEF GivenUp
        <5>2. CASE n # Local
          <6>1. f = <<n, Local>> /\ n \in Agents
            BY <1>5, <5>2, AgentEnd DEF EndsOf
          <6>2. Started(f) = opened[n] /\ opened[n] \in Nat
            BY <6>1, AgentEnds DEF PathType, ConnectionType
          <6>3. open[f] \/ opened[n] = 0
            BY <1>5, <6>2 DEF Watched
          <6>4. ~(opened[n] = 0 /\ opened[n] >= 1)
            BY <6>2
          <6> QED
            BY <5>2, <6>1, <6>3, <6>4 DEF GivenUp
        <5> QED
          BY <5>1, <5>2
      <4> QED
        BY <1>1, <1>4, <4>1, <4>2 DEF WithService
    <3>2. application = pending
      BY <3>1
    <3>3. pending.text \in Through(f) => pending.end = f
      <4>1. pending \in Listed(applications[n])
        BY <3>1, ListTypes DEF PathType, RuntimeType
      <4>2. pending.end \in EndsOf(Node(f)) /\ pending.text \in Through(pending.end)
        BY <1>5, <4>1 DEF BackInv, OriginInv
      <4> QED
        BY <4>2, ThroughFacts
    <3>4. \A i \in 1 .. Len(events[n]) : events[n][i] # Applied
      BY <3>1 DEF Entries
    <3>5. AllKnown(Append(events[n], Applied), offering[n], pending, session[f].remote_text, f,
                   pending.text)
      BY <1>2, <1>5, <3>3, <3>4, KnownWritten
    <3> QED
      BY <1>2, <2>2, <3>2, <3>5
  <2> QED
    BY <2>1, <2>2
<1> QED
  BY <1>1, <1>2, <1>3, <1>5, ServiceKnown

LEMMA SentBackInit == ASSUME Init PROVE SentBackInv
<1>1. \A e \in Ends : /\ session[e] = S!NewSession /\ Entries(actions[e]) = {}
                      /\ offering[Node(e)].ends = {} /\ Started(e) = 0
  BY EmptyQueue, EndFacts DEF Init, S!Init, NotOffering, Started
<1>2. \A e \in Ends, s \in Sessions : Entries(control[e][s]) = {} /\ Entries(transfers[e][s]) = {}
  BY EmptyQueue DEF Init
<1>3. \A n \in Nodes : /\ Listed(applications[n]) = {} /\ Entries(commands[n]) = {}
                       /\ events[n] = <<>> /\ native[n] = NoText /\ offering[n].ends = {}
  BY EmptyQueue, ApplicationTypes DEF Init, NotOffering
<1>4. /\ TextsOf(S!NewSession) = {NoText} /\ S!NewSession.remote_text = NoText
      /\ Ordered(S!NewSession)
  BY DEF S!NewSession, S!NoClip, S!Clip, TextsOf, Ordered, S!IsApplying
<1>5. OriginInv
  BY <1>1, <1>2, <1>3, <1>4 DEF OriginInv
<1>6. OrderInv
  BY <1>1, <1>3, <1>4 DEF OrderInv
<1>7. ASSUME NEW e \in Ends PROVE KnownAt(e)
  <2>1. NoText \notin Through(e) /\ Node(e) \in Nodes
    BY ThroughFacts, EndFacts
  <2>2. Held(Node(e)) = NoText
    BY <1>3, <2>1 DEF Held
  <2>3. events[Node(e)] = <<>> /\ e \notin offering[Node(e)].ends
    BY <1>3, <2>1
  <2> QED
    BY <2>1, <2>2, <2>3 DEF KnownAt, AllKnown
<1>8. KnownInv
  BY <1>1, <1>4, <1>7 DEF KnownInv
<1> QED
  BY <1>5, <1>6, <1>8 DEF SentBackInv, BackInv

LEMMA SentBackStep ==
  ASSUME PathType, WrittenInv, SentBackInv, [Next]_vars PROVE SentBackInv'
<1> SUFFICES ASSUME FirstConnections' PROVE BackInv'
  BY DEF SentBackInv
<1>1. PathType' /\ FirstConnections /\ ApplicationsInv /\ BackInv
  BY TypeStep, FirstBefore DEF WrittenInv, SentBackInv
<1>2. CASE UNCHANGED vars
  <2>1. UNCHANGED <<session, actions, error, control, transfers, open, offering, applications,
                    ended, service, native, commands, events, opened, accepted>>
    BY <1>2 DEF vars, sessionVars, streamVars, connectionVars, serviceVars
  <2>2. OriginInv' /\ OrderInv'
    BY <1>1, <2>1, BackUntouched
  <2>3. /\ \A f \in Ends : Started(f)' = Started(f) /\ Watched(f)' = Watched(f)
        /\ \A m \in Nodes : Ended(m)' = Ended(m)
    BY <2>1, SameStarted DEF Watched, Ended
  <2>4. KnownInv'
    BY <1>1, <2>1, <2>3, KnownSame DEF BackInv
  <2> QED
    BY <2>2, <2>4 DEF BackInv
<1>3. ASSUME NEW n \in Nodes, RuntimeStep(n) PROVE BackInv'
  BY <1>1, <1>3, NativeChangedBack, NativeAppliedBack, NativeFailedBack, SendBack,
     QueueApplicationBack, OfferChangeBack, TakeControlBack, TakeTransferBack, EndOfNode
  DEF RuntimeStep
<1>4. ASSUME NEW n \in Nodes, ServiceStep(n) \/ ServiceFails(n) \/ UserCopies(n) PROVE BackInv'
  BY <1>1, <1>4, ServiceNoticesBack, ServiceAppliesBack, ServiceFailsBack, UserCopiesBack
  DEF ServiceStep
<1>5. ASSUME NEW a \in Agents, Connect(a) \/ AcceptPeer(a) \/ \E s \in Sessions : Lose(a, s)
      PROVE  BackInv'
  BY <1>1, <1>5, ConnectBack, AcceptPeerBack, LoseBack
<1> QED
  BY <1>2, <1>3, <1>4, <1>5 DEF Next

(* As long as no agent has connected a second time: no node offers a text  *)
(* to the node it came from, however late its service reports the text,    *)
(* and whatever else was copied, applied or lost meanwhile.                *)
THEOREM NothingGoesBack == Spec => [](FirstConnections => NothingIsSentBack)
<1>1. Init => PathType /\ WrittenInv /\ SentBackInv
  BY TypeInit, WrittenInit, SentBackInit
<1>2. PathType /\ WrittenInv /\ SentBackInv /\ [Next]_vars
        => PathType' /\ WrittenInv' /\ SentBackInv'
  BY TypeStep, WrittenStep, SentBackStep
<1>3. PathType /\ SentBackInv => (FirstConnections => NothingIsSentBack)
  <2> SUFFICES ASSUME PathType, SentBackInv, FirstConnections, NEW e \in Ends,
                      NEW i \in DOMAIN actions[e],
                      actions[e][i].type \in {"SendOffer", "SendTransfer"}
               PROVE  actions[e][i].text[1] # e[2]
    BY DEF NothingIsSentBack
  <2>1. actions[e] \in Seq(Returned)
    BY DEF PathType, SessionType
  <2>2. actions[e][i] \in Returned /\ actions[e][i] \in Entries(actions[e])
    BY <2>1 DEF Entries
  <2>3. actions[e][i] \in Contents /\ actions[e][i].text \in Texts
    BY <2>2, KindsDiffer DEF Returned
  <2>4. actions[e][i].text \notin Through(e)
    BY <2>2, <2>3 DEF SentBackInv, BackInv, OriginInv
  <2> QED
    BY <2>3, <2>4, ThroughFacts
<1> QED
  BY <1>1, <1>2, <1>3, PTL DEF Spec

-----------------------------------------------------------------------------
(* While no connection is lost and no service fails, the two ends of a     *)
(* connection agree on what every generation is, and no session or runtime *)
(* meets an error.                                                         *)

Calm == losses = 0 /\ failures = 0

(* Every end that has connected has its one connection and its session.    *)
QuietAt(e) ==
  /\ error[e] = "none" /\ inUse[e] = Started(e) /\ Started(e) \in {0, 1}
  /\ open[e] <=> Started(e) = 1
  /\ Started(e) = 0 => session[e] = S!NewSession
  /\ \A s \in Sessions : /\ Disconnected \notin Entries(control[e][s])
                         /\ ClipboardFailed \notin Entries(transfers[e][s])

QuietInv ==
  /\ \A n \in Nodes : service[n] /\ ~ended[n] /\ Failed \notin Entries(events[n])
  /\ alive \in [Agents -> [Sessions -> BOOLEAN]]
  /\ \A a \in Agents : opened[a] = 1 => alive[a][1]
  /\ \A e \in Ends : QuietAt(e)

(* What a session whose peer keeps to the protocol never leaves.           *)
Sound(s) ==
  /\ s.next = s.sent + 1
  /\ S!IsApplying(s) => S!Ready(s.applying)
  /\ s.incoming # S!NoClip => s.incoming.sequence = s.highest

SoundInv == \A e \in Ends : Sound(session[e])

(* The copies of n that its runtime has yet to hear of: all but one of     *)
(* the events are changes when an application is reported.                 *)
Reported(n) == IF Applied \in Entries(events[n]) THEN 1 ELSE 0
Unnoticed(n) == IF changed[n] THEN 1 ELSE 0
Unread(n) == Len(events[n]) - Reported(n) + Unnoticed(n)
Offered(e) == IF e \in offering[Node(e)].ends THEN 1 ELSE 0

(* Every generation is a copy of its own, so that the sequences suffice.   *)
NumbersInv ==
  /\ \A n \in Nodes : copies[n] <= MaxCopies[n]
  /\ \A e \in Ends : session[e].sent + Offered(e) + Unread(Node(e)) <= copies[Node(e)]

(* `book` has the text of each generation.                                 *)
InBook(message, sent, book) ==
  message.sequence <= sent /\ message.text = book[message.sequence]

CopiedFrom(clip, sent, book) ==
  /\ clip.sequence <= sent
  /\ {clip.offer, clip.transfer} \subseteq {NoText, book[clip.sequence]}

(* The messages of e that are not yet taken, and what the other end keeps  *)
(* of those that are.                                                      *)
Underway(e) ==
  Entries(actions[e])
    \cup UNION {Entries(control[e][s]) \cup Entries(transfers[e][s]) : s \in Sessions}

BookOf(e, book) ==
  LET sent == session[e].sent IN
  /\ \A message \in Underway(e) : message \in Contents => InBook(message, sent, book)
  /\ \A clip \in {session[Opposite(e)].incoming, session[Opposite(e)].applying} :
       CopiedFrom(clip, sent, book)

BooksInv == \A e \in Ends : \E book \in [Nat -> Words] : BookOf(e, book)

(* Only what the other end has sent is acknowledged.                       *)
AnswersInv ==
  \A e \in Ends : \A message \in Underway(e) :
    message \in Acknowledgements => message.sequence <= session[Opposite(e)].sent

(* The generation under application is with the runtime exactly once: as   *)
(* the last action returned, in the queue, or with the service.            *)
Working(e, n) == S!IsApplying(session[e]) /\ session[e].applying.sequence = n

OnceIn(list, e) ==
  \A i \in 1 .. Len(list.queued) : list.queued[i].end = e =>
    /\ list.pending # NoApplication => list.pending.end # e
    /\ \A j \in 1 .. Len(list.queued) : list.queued[j].end = e => i = j

Returning(e) ==
  \A i \in 1 .. Len(actions[e]) : actions[e][i] \in Applies =>
    /\ i = Len(actions[e]) /\ Working(e, actions[e][i].sequence)
    /\ \A x \in Listed(applications[Node(e)]) : x.end # e

OnceAt(e) ==
  /\ Returning(e)
  /\ \A x \in Listed(applications[Node(e)]) : x.end = e => Working(e, x.sequence)
  /\ OnceIn(applications[Node(e)], e)

OnceInv == \A e \in Ends : OnceAt(e)

AgreeInv == QuietInv /\ SoundInv /\ NumbersInv /\ BooksInv /\ AnswersInv /\ OnceInv

CalmInv == losses \in Nat /\ failures \in Nat /\ (Calm => AgreeInv)

LEMMA CopiesAreBounded ==
  /\ LastSequence \in Nat
  /\ \A n \in Nodes : MaxCopies[n] \in Nat /\ MaxCopies[n] < LastSequence
<1> DEFINE All == {MaxCopies[n] : n \in Nodes}
           Bounds == {b \in Nat : \A x \in All : x <= b}
<1>1. All \subseteq Nat /\ All # {}
  BY ClipboardPathAssumption
<1>2. PICK list \in Seq(Nodes) : \A n \in Nodes : \E i \in 1 .. Len(list) : list[i] = n
  BY NodesAreFinite DEF IsFiniteSet
<1>3. Bounds # {}
  <2> DEFINE Reach == {k \in 0 .. Len(list) :
                         \E b \in Nat : \A i \in 1 .. k : MaxCopies[list[i]] <= b}
  <2>1. /\ Len(list) \in Nat
        /\ \A i \in 1 .. Len(list) : list[i] \in Nodes /\ MaxCopies[list[i]] \in Nat
    <3>1. Len(list) \in Nat /\ \A i \in 1 .. Len(list) : list[i] \in Nodes
      BY <1>2
    <3> QED
      BY <3>1, ClipboardPathAssumption
  <2>2. 0 \in Reach
    BY <2>1
  <2>3. ASSUME NEW k \in 0 .. Len(list), k \in Reach, k < Len(list) PROVE k + 1 \in Reach
    <3>1. PICK b \in Nat : \A i \in 1 .. k : MaxCopies[list[i]] <= b
      BY <2>3
    <3>2. k + 1 \in 1 .. Len(list) /\ k \in Nat
      BY <2>1, <2>3
    <3>3. MaxCopies[list[k + 1]] \in Nat
      BY <1>2, <3>2, ClipboardPathAssumption, SMTT(60)
    <3> DEFINE c == IF b > MaxCopies[list[k + 1]] THEN b ELSE MaxCopies[list[k + 1]]
    <3>4. c \in Nat /\ b <= c /\ MaxCopies[list[k + 1]] <= c
      BY <3>3
    <3> HIDE DEF c
    <3>5. ASSUME NEW i \in 1 .. k + 1 PROVE MaxCopies[list[i]] <= c
      <4>1. CASE i = k + 1
        BY <3>4, <4>1
      <4>2. CASE i \in 1 .. k
        <5>1. i \in 1 .. Len(list)
          BY <2>1, <2>3, <4>2
        <5>2. MaxCopies[list[i]] \in Nat /\ MaxCopies[list[i]] <= b
          BY <2>1, <3>1, <4>2, <5>1
        <5> QED
          BY <3>4, <5>2
      <4> QED
        BY <3>2, <4>1, <4>2
    <3>6. k + 1 \in 0 .. Len(list)
      BY <2>1, <3>2
    <3> QED
      BY <3>4, <3>5, <3>6
  <2>4. 0 .. Len(list) \subseteq Reach
    <3> HIDE DEF Reach
    <3> QED
      BY <2>1, <2>2, <2>3, Counting
  <2>5. Len(list) \in Reach
    <3>1. Len(list) \in 0 .. Len(list)
      BY <2>1
    <3> HIDE DEF Reach
    <3> QED
      BY <2>4, <3>1
  <2>6. PICK b \in Nat : \A i \in 1 .. Len(list) : MaxCopies[list[i]] <= b
    BY <2>5
  <2>7. b \in Bounds
    BY <1>2, <2>6
  <2> QED
    BY <2>7
<1>4. PICK top \in Bounds : \A b \in Bounds : top <= b
  <2> HIDE DEF All
  <2> QED
    BY <1>3, LeastNumber
<1>5. top \in All
  <2> SUFFICES ASSUME top \notin All PROVE FALSE
    OBVIOUS
  <2>1. PICK x \in All : x \in Nat /\ x <= top /\ x # top
    BY <1>1, <1>4
  <2>2. top - 1 \in Nat
    BY <1>4, <2>1
  <2>3. top - 1 \in Bounds
    <3> HIDE DEF All
    <3> QED
      BY <1>1, <1>4, <2>2
  <2>4. top \in Nat
    BY <1>4
  <2> HIDE DEF All, Bounds
  <2>5. top <= top - 1
    BY <1>4, <2>3
  <2> QED
    BY <2>4, <2>5
<1>6. Max(All) \in All /\ \A x \in All : Max(All) >= x
  <2> HIDE DEF All
  <2> QED
    BY <1>4, <1>5 DEF Max
<1>7. LastSequence = Max(All) + 1
  BY DEF LastSequence
<1>8. ASSUME NEW n \in Nodes PROVE MaxCopies[n] \in Nat /\ MaxCopies[n] < LastSequence
  <2>1. MaxCopies[n] \in All
    OBVIOUS
  <2> HIDE DEF All
  <2>2. Max(All) \in Nat /\ MaxCopies[n] \in Nat /\ Max(All) >= MaxCopies[n]
    BY <1>1, <1>6, <2>1
  <2> QED
    BY <1>7, <2>2
<1> HIDE DEF All
<1>9. LastSequence \in Nat
  <2>1. Max(All) \in Nat
    BY <1>1, <1>6
  <2> QED
    BY <1>7, <2>1
<1> QED
  BY <1>8, <1>9

(* The calls, when they keep to the protocol, meet no error.               *)
LEMMA OfferSound ==
  ASSUME SessionType, NEW e \in Ends, NEW text \in Texts, S!LocalChanged(e, text),
         Sound(session[e]), session[e].sent + 1 < LastSequence
  PROVE  /\ error' = error /\ Sound(session'[e])
         /\ \/ session'[e].sent = session[e].sent /\ actions'[e] = <<>>
            \/ /\ session'[e].sent = session[e].sent + 1
               /\ actions'[e] = <<S!SendOffer(session'[e].sent, text),
                                 S!SendTransfer(session'[e].sent, text)>>
<1> DEFINE s == session[e]
           after == [s EXCEPT !.next = S!Successor(s.next), !.sent = s.next,
                              !.pending = s.next, !.remote_text = NoText]
           list == <<S!SendOffer(s.next, text), S!SendTransfer(s.next, text)>>
<1>1. /\ s \in SessionStates /\ actions[e] = <<>> /\ s.next \in Nat /\ s.sent \in Nat
      /\ s.next = s.sent + 1 /\ s.next # 0 /\ s.next # LastSequence
  <2>1. s \in SessionStates /\ actions[e] = <<>>
    BY DEF SessionType, S!LocalChanged, S!Idle
  <2>2. s.next \in Nat /\ s.sent \in Nat
    BY <2>1 DEF SessionStates
  <2> QED
    BY <2>1, <2>2, CopiesAreBounded DEF Sound
<1>2. CASE UNCHANGED S!vars
  BY <1>1, <1>2 DEF S!vars
<1>3. CASE S!Return(e, after, list)
  <2>1. S!Successor(s.next) = s.next + 1
    BY <1>1 DEF S!Successor
  <2>2. /\ after.next = s.next + 1 /\ after.sent = s.next
        /\ after.incoming = s.incoming /\ after.applying = s.applying /\ after.highest = s.highest
    BY <1>1, <2>1 DEF SessionStates
  <2>3. Sound(after)
    BY <1>1, <2>2 DEF Sound, S!IsApplying
  <2> HIDE DEF after
  <2>4. session'[e] = after /\ actions'[e] = list /\ error' = error
    BY <1>3 DEF S!Return, SessionType
  <2> QED
    BY <1>1, <2>2, <2>3, <2>4
<1> HIDE DEF after, list
<1> QED
  BY <1>1, <1>2, <1>3 DEF S!LocalChanged, after, list

LEMMA AcknowledgementSound ==
  ASSUME SessionType, NEW e \in Ends, NEW n \in Nat, S!ReceiveAcknowledgement(e, e[1], n),
         Sound(session[e]), n <= session[e].sent
  PROVE  error' = error /\ Sound(session'[e]) /\ session'[e].sent = session[e].sent
<1> DEFINE s == session[e]
           after == [s EXCEPT !.acknowledged = n, !.pending = S!PendingAfter(s, n)]
<1>1. s \in SessionStates /\ s.sent \in Nat
  BY DEF SessionType, SessionStates
<1>2. UNCHANGED S!vars \/ S!Return(e, after, <<>>)
  BY <1>1 DEF S!ReceiveAcknowledgement, S!Owner
<1>3. CASE UNCHANGED S!vars
  BY <1>3 DEF S!vars
<1>4. CASE S!Return(e, after, <<>>)
  <2>1. /\ after.next = s.next /\ after.sent = s.sent /\ after.highest = s.highest
        /\ after.incoming = s.incoming /\ after.applying = s.applying
    BY <1>1 DEF SessionStates
  <2>2. Sound(after)
    BY <2>1 DEF Sound, S!IsApplying
  <2> HIDE DEF after
  <2> QED
    BY <1>4, <2>1, <2>2 DEF S!Return, SessionType
<1> QED
  BY <1>2, <1>3, <1>4

(* A part that agrees with what the session has of its generation.         *)
LEMMA PartSound ==
  ASSUME SessionType, NEW e \in Ends, NEW part \in S!Parts, NEW n \in Nat, NEW text \in Texts,
         S!ReceivePart(e, part, e[2], n, text), Sound(session[e]),
         \A clip \in {session[e].incoming, session[e].applying} :
           clip.sequence = n => {clip.offer, clip.transfer} \subseteq {NoText, text}
  PROVE  /\ error' = error /\ Sound(session'[e]) /\ session'[e].sent = session[e].sent
         /\ \A clip \in {session'[e].incoming, session'[e].applying} :
              \/ clip \in {session[e].incoming, session[e].applying, S!NoClip}
              \/ clip.sequence = n /\ {clip.offer, clip.transfer} \subseteq {NoText, text}
<1> DEFINE s == session[e]
           clip == S!Staged(s, n)
           reason == S!StagingError(clip, part, n, text)
           new == [clip EXCEPT ![part] = text]
<1>1. /\ s \in SessionStates /\ s.incoming \in Clips /\ s.applying \in Clips
      /\ s.applied \in Nat /\ s.highest \in Nat /\ s.sent \in Nat
  BY DEF SessionType, SessionStates
<1>2. ~S!Ignored(s, n) =>
        /\ clip \in Clips /\ clip.sequence = n
        /\ {clip.offer, clip.transfer} \subseteq {NoText, text}
  <2> SUFFICES ASSUME ~S!Ignored(s, n)
               PROVE  /\ clip \in Clips /\ clip.sequence = n
                      /\ {clip.offer, clip.transfer} \subseteq {NoText, text}
    OBVIOUS
  <2>1. n >= s.highest
    BY <1>1 DEF S!Ignored
  <2>2. CASE n > s.highest \/ s.incoming = S!NoClip
    BY <2>2, TextTypes DEF S!Staged, S!Clip, Clips
  <2>3. CASE ~(n > s.highest) /\ s.incoming # S!NoClip
    <3>1. clip = s.incoming /\ s.incoming.sequence = n
      BY <1>1, <2>1, <2>3 DEF S!Staged, Sound
    <3> QED
      BY <1>1, <3>1
  <2> QED
    BY <2>2, <2>3
<1>3. ~S!Ignored(s, n) => reason = "none"
  <2> SUFFICES ASSUME ~S!Ignored(s, n) PROVE reason = "none"
    OBVIOUS
  <2>1. clip[part] \in {NoText, text}
    BY <1>2 DEF S!Parts
  <2>2. ~S!Mismatched(new)
    <3>1. {new.offer, new.transfer} \subseteq {NoText, text}
      BY <1>2 DEF S!Parts, Clips
    <3> HIDE DEF new
    <3> QED
      BY <3>1 DEF S!Mismatched, S!Ready
  <2> HIDE DEF clip, new
  <2> QED
    BY <1>2, <2>1, <2>2 DEF S!StagingError, new
<1>4. S!ApplyingThis(s, n) => s.applying[part] = text
  <2> SUFFICES ASSUME S!ApplyingThis(s, n) PROVE s.applying[part] = text
    OBVIOUS
  <2>1. S!Ready(s.applying) /\ s.applying.sequence = n
    BY DEF S!ApplyingThis, Sound
  <2> QED
    BY <2>1 DEF S!Ready, S!Parts
<1>5. \/ UNCHANGED S!vars
      \/ ~S!Ignored(s, n) /\ S!FinishIncoming(e, new)
  <2> HIDE DEF reason, clip, new
  <2>1. S!Peer(e) = e[2]
    BY DEF S!Peer
  <2> QED
    BY <1>3, <1>4, <2>1 DEF S!ReceivePart, reason, clip, new
<1>6. CASE UNCHANGED S!vars
  BY <1>6 DEF S!vars
<1>7. CASE ~S!Ignored(s, n) /\ S!FinishIncoming(e, new)
  <2>1. new \in Clips /\ new.sequence = n /\ {new.offer, new.transfer} \subseteq {NoText, text}
    BY <1>2, <1>7, TextTypes DEF S!Parts, Clips
  <2>2. actions[e] = <<>> /\ n >= s.highest
    BY <1>1, <1>7 DEF S!ReceivePart, S!Idle, S!Ignored
  <2> HIDE DEF clip, new
  <2>3. /\ session'[e].highest = IF n > s.highest THEN n ELSE s.highest
        /\ \/ session'[e].applying = s.applying /\ session'[e].incoming = new
           \/ /\ S!Ready(new)
              /\ session'[e].applying = new /\ session'[e].incoming = S!NoClip
    BY <1>7, <2>1, <2>2, FinishCall DEF S!Begins
  <2>4. session'[e].highest = n
    BY <1>1, <2>2, <2>3
  <2>5. error' = error /\ session'[e].sent = s.sent /\ session'[e].next = s.next
    <3>1. PICK after \in SessionStates :
            /\ after.sent = s.sent /\ after.next = s.next
            /\ \E list : S!Return(e, after, list)
      <4> DEFINE top == IF n > s.highest THEN n ELSE s.highest
                 base == [s EXCEPT !.highest = top]
                 starting == [base EXCEPT !.incoming = S!NoClip, !.applying = new]
                 waiting == [base EXCEPT !.incoming = new]
      <4>1. top \in Nat /\ S!NoClip \in Clips
        BY <1>1, TextTypes DEF S!NoClip, S!Clip, Clips
      <4>2. \/ S!Return(e, starting, S!Application(new))
            \/ S!Return(e, waiting, <<>>)
        BY <1>7, <2>1 DEF S!FinishIncoming
      <4> HIDE DEF top
      <4>3. /\ starting \in SessionStates /\ starting.sent = s.sent /\ starting.next = s.next
            /\ waiting \in SessionStates /\ waiting.sent = s.sent /\ waiting.next = s.next
        BY <1>1, <2>1, <4>1 DEF SessionStates
      <4> HIDE DEF starting, waiting
      <4> QED
        BY <4>2, <4>3
    <3> QED
      BY <3>1 DEF S!Return, SessionType
  <2>6. Sound(session'[e])
    BY <2>1, <2>3, <2>4, <2>5 DEF Sound, S!IsApplying
  <2> QED
    BY <2>1, <2>3, <2>5, <2>6
<1> HIDE DEF clip, new
<1> QED
  BY <1>5, <1>6, <1>7

LEMMA ConfirmSound ==
  ASSUME SessionType, NEW e \in Ends, NEW n \in Nat, S!ConfirmApplied(e, e[2], n),
         Sound(session[e]), Working(e, n), ~S!Mismatched(session[e].incoming)
  PROVE  /\ error' = error /\ Sound(session'[e]) /\ session'[e].sent = session[e].sent
         /\ session'[e].incoming \in {session[e].incoming, S!NoClip}
         /\ session'[e].applying \in {session[e].incoming, S!NoClip}
<1> DEFINE s == session[e]
           after == [s EXCEPT !.applied = n, !.remote_text = s.applying.transfer]
           next == [after EXCEPT !.applying = s.incoming, !.incoming = S!NoClip]
           idle == [after EXCEPT !.applying = S!NoClip]
<1>1. s \in SessionStates
  BY DEF SessionType
<1>2. S!ConfirmationError(s, e[2], e[2], n) = "none"
  BY DEF S!ConfirmationError, S!SameGeneration, Working, Sound, S!Ready
<1>3. \/ S!Ready(s.incoming) /\ S!Return(e, next, <<S!SendApplied(n)>> \o S!Application(s.incoming))
      \/ S!Return(e, idle, <<S!SendApplied(n)>>)
  BY <1>2 DEF S!ConfirmApplied, S!Peer, S!Begins
<1>4. /\ next.next = s.next /\ next.sent = s.sent /\ next.highest = s.highest
      /\ next.incoming = S!NoClip /\ next.applying = s.incoming
      /\ idle.next = s.next /\ idle.sent = s.sent /\ idle.highest = s.highest
      /\ idle.incoming = s.incoming /\ idle.applying = S!NoClip
  BY <1>1 DEF SessionStates
<1> HIDE DEF next, idle
<1>5. Sound(idle) /\ (S!Ready(s.incoming) => Sound(next))
  BY <1>4 DEF Sound, S!IsApplying
<1>6. /\ error' = error
      /\ (session'[e] = next /\ S!Ready(s.incoming)) \/ session'[e] = idle
  BY <1>3 DEF S!Return, SessionType
<1> QED
  BY <1>4, <1>5, <1>6

(* What calm says of a connected end and of a node.                        *)
LEMMA CalmEnd ==
  ASSUME PathType, QuietInv, NEW e \in Ends, inUse[e] # NoSession
  PROVE  inUse[e] = 1 /\ Started(e) = 1 /\ open[e] /\ Alive(e) /\ 1 \in Sessions
<1>1. inUse[e] = 1 /\ Started(e) = 1 /\ open[e]
  BY DEF QuietInv, QuietAt, NoSession
<1>2. 1 \in Sessions
  BY <1>1, StartedFacts DEF PathType, Sessions
<1>3. opened[AgentOf(e)] = 1
  <2>1. AgentOf(e) \in Agents
    BY EndFacts
  <2>2. Started(e) <= opened[AgentOf(e)]
    BY StartedFacts DEF PathType
  <2>3. opened[AgentOf(e)] \in {0, 1}
    BY <2>1, AgentEnds DEF QuietInv, QuietAt
  <2> QED
    BY <1>1, <2>2, <2>3
<1> QED
  BY <1>1, <1>2, <1>3, EndFacts DEF Alive, QuietInv

LEMMA CalmWork ==
  ASSUME PathType, QuietInv, NEW e \in Ends,
         \/ actions[e] # <<>> \/ e \in offering[Node(e)].ends
         \/ \E x \in Listed(applications[Node(e)]) : x.end = e
  PROVE  inUse[e] # NoSession
<1>1. CASE actions[e] # <<>> \/ e \in offering[Node(e)].ends
  BY <1>1 DEF PathType, WorkType
<1>2. CASE \E x \in Listed(applications[Node(e)]) : x.end = e
  <2>1. PICK x \in Listed(applications[Node(e)]) : x.end = e
    BY <1>2
  <2>2. x.session \in 1 .. Started(e)
    BY <2>1, EndFacts DEF PathType, WorkType
  <2>3. Started(e) # 0
    BY <2>2
  <2> QED
    BY <2>3 DEF QuietInv, QuietAt, NoSession
<1> QED
  BY <1>1, <1>2

LEMMA CalmNode ==
  ASSUME PathType, QuietInv, NEW n \in Nodes, ApplicationsInv
  PROVE  /\ ~Ended(n)
         /\ applications[n].pending = NoApplication => Unused(n)
<1>1. ~Ended(n)
  BY EndOfNode DEF Ended, QuietInv, QuietAt
<1>2. ~GivenUp(n)
  <2>1. CASE n = Local
    BY <2>1 DEF GivenUp, QuietInv
  <2>2. CASE n # Local
    <3>1. n \in Agents /\ <<n, Local>> \in Ends
      BY <2>2, AgentEnd
    <3>2. Started(<<n, Local>>) = opened[n]
      BY <3>1, AgentEnds
    <3>3. opened[n] \in {0, 1} /\ (open[<<n, Local>>] <=> opened[n] = 1)
      BY <3>1, <3>2 DEF QuietInv, QuietAt
    <3> QED
      BY <2>2, <3>3 DEF GivenUp
  <2> QED
    BY <2>1, <2>2
<1> QED
  BY <1>1, <1>2 DEF ApplicationsInv, WithService

(* What each part rests on.                                                *)
LEMMA QuietKept ==
  ASSUME QuietInv, UNCHANGED <<error, inUse, open, service, ended, opened, accepted, alive>>,
         \A e \in Ends : Started(e) = 0 => session'[e] = session[e],
         \A n \in Nodes : Failed \in Entries(events'[n]) => Failed \in Entries(events[n]),
         \A e \in Ends, s \in Sessions :
           /\ Disconnected \in Entries(control'[e][s]) => Disconnected \in Entries(control[e][s])
           /\ ClipboardFailed \in Entries(transfers'[e][s]) =>
                ClipboardFailed \in Entries(transfers[e][s])
  PROVE  QuietInv'
<1>1. \A e \in Ends : Started(e)' = Started(e)
  BY SameStarted
<1>2. \A e \in Ends : QuietAt(e)'
  BY <1>1 DEF QuietInv, QuietAt
<1> QED
  BY <1>2 DEF QuietInv

LEMMA SoundKept ==
  ASSUME SoundInv, NEW e \in Ends, OthersKept(e), Sound(session'[e])
  PROVE  SoundInv'
BY DEF SoundInv, OthersKept, Sound, S!IsApplying, S!Ready

LEMMA NumbersKept ==
  ASSUME NumbersInv, UNCHANGED <<offering, events, changed, copies>>,
         \A e \in Ends : session'[e].sent = session[e].sent
  PROVE  NumbersInv'
<1>1. \A e \in Ends : Offered(e)' = Offered(e) /\ Unread(Node(e))' = Unread(Node(e))
  BY DEF Offered, Unread, Reported, Unnoticed
<1> QED
  BY <1>1 DEF NumbersInv

LEMMA NumbersElsewhere ==
  ASSUME NumbersInv, NEW n \in Nodes,
         \A m \in Nodes \ {n} : /\ offering'[m] = offering[m] /\ events'[m] = events[m]
                                /\ changed'[m] = changed[m] /\ copies'[m] = copies[m],
         \A e \in Ends : Node(e) # n => session'[e].sent = session[e].sent,
         copies'[n] <= MaxCopies[n],
         \A e \in EndsOf(n) : session'[e].sent + Offered(e)' + Unread(n)' <= copies'[n]
  PROVE  NumbersInv'
<1>1. ASSUME NEW m \in Nodes PROVE copies'[m] <= MaxCopies[m]
  BY <1>1 DEF NumbersInv
<1>2. ASSUME NEW e \in Ends
      PROVE  session'[e].sent + Offered(e)' + Unread(Node(e))' <= copies'[Node(e)]
  <2>1. CASE Node(e) = n
    BY <2>1 DEF EndsOf
  <2>2. CASE Node(e) # n
    <3>1. Node(e) \in Nodes
      BY EndFacts
    <3>2. Offered(e)' = Offered(e) /\ Unread(Node(e))' = Unread(Node(e))
      BY <2>2, <3>1 DEF Offered, Unread, Reported, Unnoticed
    <3> QED
      BY <2>2, <3>1, <3>2 DEF NumbersInv
  <2> QED
    BY <2>1, <2>2
<1> QED
  BY <1>1, <1>2 DEF NumbersInv

(* What a session keeps of the peer's messages.                            *)
Kept(e) == {session[e].incoming, session[e].applying}

FromMessage(clip, message) ==
  clip.sequence = message.sequence /\ {clip.offer, clip.transfer} \subseteq {NoText, message.text}

LEMMA BooksKept ==
  ASSUME SessionType, BooksInv,
         \A e \in Ends : session'[e].sent = session[e].sent,
         \A e \in Ends : \A message \in Underway(e)' :
           message \in Contents => message \in Underway(e),
         \A e \in Ends : \A clip \in Kept(e)' :
           \/ clip \in Kept(e) \/ clip = S!NoClip
           \/ \E message \in Underway(Opposite(e)) :
                message \in Contents /\ FromMessage(clip, message)
  PROVE  BooksInv'
<1> SUFFICES ASSUME NEW e \in Ends PROVE \E book \in [Nat -> Words] : BookOf(e, book)'
  BY DEF BooksInv
<1>1. PICK book \in [Nat -> Words] : BookOf(e, book)
  BY DEF BooksInv
<1>2. Opposite(e) \in Ends /\ Opposite(Opposite(e)) = e /\ session[e].sent \in Nat
  BY EndFacts DEF SessionType, SessionStates
<1>3. ASSUME NEW clip \in Kept(Opposite(e))' PROVE CopiedFrom(clip, session[e].sent, book)
  <2>1. CASE clip \in Kept(Opposite(e))
    BY <1>1, <2>1 DEF BookOf, Kept
  <2>2. CASE clip = S!NoClip
    BY <1>2, <2>2 DEF CopiedFrom, S!NoClip, S!Clip
  <2>3. CASE \E message \in Underway(e) : message \in Contents /\ FromMessage(clip, message)
    <3>1. PICK message \in Underway(e) : message \in Contents /\ FromMessage(clip, message)
      BY <2>3
    <3>2. InBook(message, session[e].sent, book)
      BY <1>1, <3>1 DEF BookOf
    <3> QED
      BY <3>1, <3>2 DEF InBook, FromMessage, CopiedFrom
  <2> QED
    BY <1>2, <1>3, <2>1, <2>2, <2>3
<1>4. \A message \in Underway(e)' : message \in Contents => InBook(message, session[e].sent, book)
  BY <1>1 DEF BookOf
<1>5. BookOf(e, book)'
  BY <1>3, <1>4 DEF BookOf, Kept
<1> QED
  BY <1>5

LEMMA AnswersKept ==
  ASSUME SessionType, SessionType', AnswersInv,
         \A e \in Ends : session'[e].sent >= session[e].sent,
         \A e \in Ends : \A message \in Underway(e)' : message \in Acknowledgements =>
           \/ message \in Underway(e) \/ message.sequence <= session'[Opposite(e)].sent
  PROVE  AnswersInv'
<1> SUFFICES ASSUME NEW e \in Ends, NEW message \in Underway(e)', message \in Acknowledgements
             PROVE  message.sequence <= session'[Opposite(e)].sent
  BY DEF AnswersInv
<1>1. Opposite(e) \in Ends /\ message.sequence \in Nat
  BY EndFacts, KindsDiffer
<1>2. session[Opposite(e)].sent \in Nat /\ session'[Opposite(e)].sent \in Nat
  BY <1>1 DEF SessionType, SessionStates
<1>3. CASE message \in Underway(e)
  <2>1. message.sequence <= session[Opposite(e)].sent
    BY <1>3 DEF AnswersInv
  <2> QED
    BY <1>1, <1>2, <2>1
<1> QED
  BY <1>3

LEMMA OnceKept ==
  ASSUME NEW e, OnceAt(e), actions'[e] \in {actions[e], <<>>},
         session'[e].applying = session[e].applying,
         applications'[Node(e)] = applications[Node(e)]
  PROVE  OnceAt(e)'
<1>1. \A n : Working(e, n)' = Working(e, n)
  BY DEF Working, S!IsApplying
<1>2. Returning(e)'
  <2>1. CASE actions'[e] = actions[e]
    BY <1>1, <2>1 DEF OnceAt, Returning
  <2>2. CASE actions'[e] = <<>>
    BY <2>2 DEF Returning
  <2> QED
    BY <2>1, <2>2
<1> QED
  BY <1>1, <1>2 DEF OnceAt

LEMMA OnceElsewhere ==
  ASSUME OnceInv, NEW e \in Ends, OthersKept(e), UNCHANGED applications
  PROVE  \A f \in Ends : f # e => OnceAt(f)'
<1> SUFFICES ASSUME NEW f \in Ends, f # e PROVE OnceAt(f)'
  OBVIOUS
<1>1. OnceAt(f) /\ actions'[f] = actions[f] /\ session'[f] = session[f]
  BY DEF OnceInv, OthersKept
<1> QED
  BY <1>1, OnceKept

(* What is left of the applications of a node goes on as it was.           *)
LEMMA ReturningNext ==
  ASSUME SessionType, NEW e \in Ends, Returning(e), actions[e] # <<>>,
         actions'[e] = Tail(actions[e]), session'[e].applying = session[e].applying,
         \/ Head(actions[e]) \in Applies
         \/ \A x \in Listed(applications'[Node(e)]) :
              x \in Listed(applications[Node(e)]) \/ x.end # e
  PROVE  Returning(e)'
<1>1. actions[e] \in Seq(Returned)
  BY DEF SessionType
<1>2. /\ Len(actions[e]) \in Nat /\ Len(actions'[e]) = Len(actions[e]) - 1
      /\ Head(actions[e]) = actions[e][1]
      /\ \A i \in 1 .. Len(actions[e]) - 1 : actions'[e][i] = actions[e][i + 1]
  BY <1>1, TailQueue
<1> SUFFICES ASSUME NEW i \in 1 .. Len(actions'[e]), actions'[e][i] \in Applies
             PROVE  /\ i = Len(actions'[e]) /\ S!IsApplying(session'[e])
                    /\ session'[e].applying.sequence = actions'[e][i].sequence
                    /\ \A x \in Listed(applications'[Node(e)]) : x.end # e
  BY DEF Returning, Working
<1>3. /\ i + 1 \in 1 .. Len(actions[e]) /\ actions[e][i + 1] = actions'[e][i]
      /\ 1 \in 1 .. Len(actions[e]) /\ 1 # Len(actions[e])
  BY <1>2
<1>4. /\ i + 1 = Len(actions[e]) /\ Working(e, actions'[e][i].sequence)
      /\ \A x \in Listed(applications[Node(e)]) : x.end # e
  BY <1>3 DEF Returning
<1>5. Head(actions[e]) \notin Applies
  BY <1>2, <1>3 DEF Returning
<1> QED
  BY <1>2, <1>4, <1>5 DEF Working, S!IsApplying

LEMMA OnceNext ==
  ASSUME NEW e \in Ends, Returning(e)', session'[e].applying = session[e].applying,
         \A x \in Listed(applications'[Node(e)]) : x.end = e => Working(e, x.sequence),
         OnceIn(applications'[Node(e)], e)
  PROVE  OnceAt(e)'
BY DEF OnceAt, OnceIn, Working, S!IsApplying

LEMMA ReturningKept ==
  ASSUME NEW e \in Ends, Returning(e), actions'[e] \in {actions[e], <<>>},
         session'[e].applying = session[e].applying,
         \A x \in Listed(applications'[Node(e)]) :
           x \in Listed(applications[Node(e)]) \/ x.end # e
  PROVE  Returning(e)'
<1>1. CASE actions'[e] = actions[e]
  BY <1>1 DEF Returning, Working, S!IsApplying
<1>2. CASE actions'[e] = <<>>
  BY <1>2 DEF Returning
<1> QED
  BY <1>1, <1>2

LEMMA StartNextCalm ==
  ASSUME PathType, NEW n \in Nodes, NEW list \in Lists, StartNext(n, list), service[n]
  PROVE  /\ ended' = ended
         /\ \A m \in Nodes \ {n} : applications'[m] = applications[m]
         /\ Listed(applications'[n]) \subseteq Listed(list)
         /\ \A e \in Ends : OnceIn(list, e) => OnceIn(applications'[n], e)
<1>1. applications \in [Nodes -> Lists] /\ list.queued \in Seq(Applications)
  BY ListTypes DEF PathType, RuntimeType
<1>2. CASE applications' = [applications EXCEPT ![n] = list] /\ UNCHANGED <<commands, ended>>
  BY <1>1, <1>2
<1>3. CASE /\ list.pending = NoApplication /\ list.queued # <<>>
           /\ applications' = [applications EXCEPT ![n] =
                                [pending |-> Head(list.queued), queued |-> Tail(list.queued)]]
           /\ UNCHANGED ended
  <2> DEFINE queue == list.queued
  <2>1. /\ Len(queue) \in Nat /\ Len(queue) >= 1 /\ Len(Tail(queue)) = Len(queue) - 1
        /\ Head(queue) = queue[1]
        /\ \A i \in 1 .. Len(queue) - 1 : Tail(queue)[i] = queue[i + 1]
        /\ Entries(queue) = Entries(Tail(queue)) \cup {Head(queue)}
    BY <1>1, <1>3, TailQueue
  <2>2. applications'[n].pending = Head(queue) /\ applications'[n].queued = Tail(queue)
    BY <1>1, <1>3
  <2>3. Listed(applications'[n]) \subseteq Listed(list)
    BY <2>1, <2>2 DEF Listed
  <2>4. ASSUME NEW e \in Ends, OnceIn(list, e) PROVE OnceIn(applications'[n], e)
    <3> SUFFICES ASSUME NEW i \in 1 .. Len(Tail(queue)), Tail(queue)[i].end = e
                 PROVE  /\ Head(queue).end # e
                        /\ \A j \in 1 .. Len(Tail(queue)) : Tail(queue)[j].end = e => i = j
      BY <2>2 DEF OnceIn
    <3>1. i \in Nat /\ i + 1 \in 1 .. Len(queue) /\ queue[i + 1].end = e
      BY <2>1
    <3>2. \A j \in 1 .. Len(queue) : queue[j].end = e => i + 1 = j
      BY <2>4, <3>1 DEF OnceIn
    <3>3. Head(queue).end # e
      BY <2>1, <3>1, <3>2
    <3>4. ASSUME NEW j \in 1 .. Len(Tail(queue)), Tail(queue)[j].end = e PROVE i = j
      <4>1. j \in Nat /\ j + 1 \in 1 .. Len(queue) /\ queue[j + 1].end = e
        BY <2>1, <3>4
      <4> QED
        BY <3>1, <3>2, <4>1
    <3> QED
      BY <3>3, <3>4
  <2>5. \A m \in Nodes \ {n} : applications'[m] = applications[m]
    BY <1>1, <1>3
  <2> QED
    BY <1>3, <2>3, <2>4, <2>5
<1> QED
  BY <1>2, <1>3 DEF StartNext

LEMMA SendAgrees ==
  ASSUME PathType, PathType', ApplicationsInv, AgreeInv, NEW e \in Ends, Send(e)
  PROVE  AgreeInv'
<1> DEFINE n == Node(e)
           message == Head(actions[e])
<1>1. n \in Nodes /\ e \in EndsOf(n) /\ service[n]
  BY EndFacts DEF AgreeInv, QuietInv
<1>2. /\ S!TakeAction(e) /\ message.type # "ApplyRemote"
      /\ UNCHANGED <<inUse, open, offering, service, serviceVars, events, connectionVars>>
  BY DEF Send
<1>3. /\ OthersKept(e) /\ actions[e] # <<>> /\ message \in Returned
      /\ message \in Entries(actions[e]) /\ actions'[e] = Tail(actions[e])
      /\ Entries(actions'[e]) \subseteq Entries(actions[e])
      /\ session' = session /\ error' = error
  BY <1>2, TakeCall DEF PathType, S!TakeAction
<1>4. Alive(e)
  BY <1>3, CalmWork, CalmEnd DEF AgreeInv
<1>5. message \in Contents \cup Acknowledgements
  BY <1>2, <1>3, KindsDiffer DEF Returned
<1>6. /\ \A f \in Ends, s \in Sessions :
           /\ Entries(control'[f][s]) \subseteq Entries(control[f][s]) \cup {message}
           /\ Entries(transfers'[f][s]) \subseteq Entries(transfers[f][s]) \cup {message}
      /\ \A f \in Ends \ {e} : control'[f] = control[f] /\ transfers'[f] = transfers[f]
  <2>1. CASE message.type = "SendTransfer" /\ transfers' = Put(transfers, e, message)
             /\ UNCHANGED control
    <3>1. message \in Contents
      BY <1>5, <2>1, KindsDiffer
    <3> HIDE DEF message
    <3> QED
      BY <2>1, <3>1, TransferPut
  <2>2. CASE control' = Put(control, e, message) /\ UNCHANGED transfers
    <3> HIDE DEF message
    <3> QED
      BY <1>5, <2>2, ControlPut
  <2> QED
    BY <1>4, <2>1, <2>2 DEF Send
<1>7. message # Disconnected /\ message # ClipboardFailed
  BY <1>5, KindsDiffer
<1> HIDE DEF message
<1>8. /\ ended' = ended
      /\ \A m \in Nodes \ {n} : applications'[m] = applications[m]
      /\ Listed(applications'[n]) \subseteq Listed(applications[n])
      /\ \A f \in Ends : OnceIn(applications[n], f) => OnceIn(applications'[n], f)
  <2>1. applications[n] \in Lists
    BY <1>1 DEF PathType, RuntimeType
  <2>2. CASE StartNext(n, applications[n])
    <3> HIDE DEF n
    <3> QED
      BY <1>1, <2>1, <2>2, StartNextCalm
  <2>3. CASE UNCHANGED <<applications, commands, ended>>
    BY <2>3
  <2> QED
    BY <1>4, <2>2, <2>3 DEF Send
<1>9. \A f \in Ends : Underway(f)' \subseteq Underway(f)
  <2> SUFFICES ASSUME NEW f \in Ends, NEW m \in Underway(f)' PROVE m \in Underway(f)
    OBVIOUS
  <2>1. CASE f = e
    <3>1. \/ m \in Entries(actions'[e])
          \/ \E s \in Sessions : m \in Entries(control'[e][s]) \/ m \in Entries(transfers'[e][s])
      BY <2>1 DEF Underway
    <3>2. \/ m \in Entries(actions[e])
          \/ \E s \in Sessions : m \in Entries(control[e][s]) \/ m \in Entries(transfers[e][s])
      BY <1>3, <1>6, <3>1
    <3> QED
      BY <2>1, <3>2 DEF Underway
  <2>2. CASE f # e
    BY <1>3, <1>6, <2>2 DEF Underway, OthersKept
  <2> QED
    BY <2>1, <2>2
<1>10. QuietInv'
  BY <1>2, <1>3, <1>6, <1>7, <1>8, QuietKept DEF AgreeInv, connectionVars
<1>11. SoundInv'
  BY <1>3 DEF AgreeInv, SoundInv
<1>12. NumbersInv'
  BY <1>2, <1>3, NumbersKept DEF AgreeInv, serviceVars
<1>13. BooksInv'
  BY <1>3, <1>9, BooksKept DEF AgreeInv, PathType, Kept
<1>14. AnswersInv'
  <2>1. \A f \in Ends : session[f].sent \in Nat
    BY DEF PathType, SessionType, SessionStates
  <2> QED
    BY <1>3, <1>9, <2>1, AnswersKept DEF AgreeInv, PathType
<1>15. ASSUME NEW f \in Ends PROVE OnceAt(f)'
  <2>1. OnceAt(f) /\ Node(f) \in Nodes
    BY EndFacts DEF AgreeInv, OnceInv
  <2>2. /\ Listed(applications'[Node(f)]) \subseteq Listed(applications[Node(f)])
        /\ OnceIn(applications'[Node(f)], f)
    BY <1>8, <2>1 DEF OnceAt
  <2>3. Returning(f)'
    <3>1. CASE f = e
      BY <1>3, <2>1, <2>2, <3>1, ReturningNext DEF OnceAt, PathType
    <3>2. CASE f # e
      BY <1>3, <2>1, <2>2, <3>2, ReturningKept DEF OnceAt, OthersKept
    <3> QED
      BY <3>1, <3>2
  <2> QED
    BY <1>3, <2>1, <2>2, <2>3, OnceNext DEF OnceAt
<1> QED
  BY <1>10, <1>11, <1>12, <1>13, <1>14, <1>15 DEF AgreeInv, OnceInv

LEMMA QueueApplicationAgrees ==
  ASSUME PathType, PathType', ApplicationsInv, AgreeInv, NEW e \in Ends, QueueApplication(e)
  PROVE  AgreeInv'
<1> DEFINE n == Node(e)
           action == Head(actions[e])
           application == Application(e, inUse[e], action.sequence, action.text)
           queue == applications[n].queued
           list == [applications[n] EXCEPT !.queued = Append(@, application)]
<1>1. n \in Nodes /\ e \in EndsOf(n) /\ service[n]
  BY EndFacts DEF AgreeInv, QuietInv
<1>2. /\ S!TakeAction(e) /\ action.type = "ApplyRemote" /\ StartNext(n, list)
      /\ UNCHANGED <<inUse, open, offering, service, serviceVars, events, connectionVars,
                     streamVars>>
  BY DEF QueueApplication
<1>3. /\ OthersKept(e) /\ actions[e] # <<>> /\ action \in Returned
      /\ actions[e] \in Seq(Returned) /\ actions'[e] = Tail(actions[e])
      /\ Entries(actions'[e]) \subseteq Entries(actions[e])
      /\ session' = session /\ error' = error
  BY <1>2, TakeCall DEF PathType, S!TakeAction
<1>4. action \in Applies /\ action.sequence \in Nat /\ action.text \in Texts
  BY <1>2, <1>3, KindsDiffer DEF Returned
<1>5. /\ application \in Applications /\ application.end = e
      /\ application.sequence = action.sequence
  BY <1>4 DEF Application, Applications, PathType, RuntimeType
<1>6. OnceAt(e) /\ Len(actions[e]) \in Nat /\ 1 \in 1 .. Len(actions[e]) /\ action = actions[e][1]
  BY <1>3, TailQueue DEF AgreeInv, OnceInv
<1>7. /\ Len(actions[e]) = 1 /\ Working(e, application.sequence)
      /\ \A x \in Listed(applications[n]) : x.end # e
  <2> HIDE DEF action, application
  <2> QED
    BY <1>4, <1>5, <1>6 DEF OnceAt, Returning
<1>8. Len(actions'[e]) = 0
  BY <1>3, <1>7, TailQueue
<1> HIDE DEF application, action
<1>9. /\ queue \in Seq(Applications) /\ list \in Lists
      /\ list.pending = applications[n].pending /\ list.queued = Append(queue, application)
      /\ Listed(list) = Listed(applications[n]) \cup {application}
      /\ Len(queue) \in Nat /\ Len(list.queued) = Len(queue) + 1
      /\ \A i \in 1 .. Len(queue) : list.queued[i] = queue[i]
      /\ list.queued[Len(queue) + 1] = application
  <2>1. applications[n] \in Lists /\ queue \in Seq(Applications)
    BY <1>1, ListTypes DEF PathType, RuntimeType
  <2>2. /\ Append(queue, application) \in Seq(Applications)
        /\ Entries(Append(queue, application)) = Entries(queue) \cup {application}
        /\ Len(queue) \in Nat /\ Len(Append(queue, application)) = Len(queue) + 1
        /\ \A i \in 1 .. Len(queue) : Append(queue, application)[i] = queue[i]
        /\ Append(queue, application)[Len(queue) + 1] = application
    BY <1>5, <2>1, AppendQueue
  <2>3. list \in Lists /\ list.pending = applications[n].pending
        /\ list.queued = Append(queue, application)
    BY <2>1, <2>2 DEF Lists
  <2> QED
    BY <2>1, <2>2, <2>3 DEF Listed
<1> HIDE DEF list
<1>10. ASSUME NEW f \in Ends, OnceIn(applications[n], f) PROVE OnceIn(list, f)
  <2>1. \A i \in 1 .. Len(queue) : queue[i] \in Listed(applications[n])
    BY DEF Listed, Entries
  <2>2. applications[n].pending # NoApplication => applications[n].pending \in Listed(applications[n])
    BY DEF Listed
  <2>3. CASE f = e
    <3>1. \A i \in 1 .. Len(list.queued) : list.queued[i].end = e => i = Len(queue) + 1
      BY <1>7, <1>9, <2>1
    <3>2. list.pending # NoApplication => list.pending.end # e
      BY <1>7, <1>9, <2>2
    <3> QED
      BY <2>3, <3>1, <3>2 DEF OnceIn
  <2>4. CASE f # e
    <3>1. \A i \in 1 .. Len(list.queued) : list.queued[i].end = f =>
            i \in 1 .. Len(queue) /\ queue[i].end = f
      BY <1>5, <1>9, <2>4
    <3> HIDE DEF queue
    <3> QED
      BY <1>9, <1>10, <3>1 DEF OnceIn, queue
  <2> QED
    BY <2>3, <2>4
<1>11. /\ ended' = ended
       /\ \A m \in Nodes \ {n} : applications'[m] = applications[m]
       /\ Listed(applications'[n]) \subseteq Listed(applications[n]) \cup {application}
       /\ \A f \in Ends : OnceIn(applications[n], f) => OnceIn(applications'[n], f)
  <2> HIDE DEF n
  <2> QED
    BY <1>1, <1>2, <1>9, <1>10, StartNextCalm
<1>12. \A f \in Ends : Underway(f)' \subseteq Underway(f)
  BY <1>2, <1>3 DEF Underway, OthersKept, streamVars
<1>13. QuietInv'
  BY <1>2, <1>3, <1>11, QuietKept DEF AgreeInv, connectionVars, streamVars
<1>14. SoundInv'
  BY <1>3 DEF AgreeInv, SoundInv
<1>15. NumbersInv'
  BY <1>2, <1>3, NumbersKept DEF AgreeInv, serviceVars
<1>16. BooksInv'
  BY <1>3, <1>12, BooksKept DEF AgreeInv, PathType, Kept
<1>17. AnswersInv'
  <2>1. \A f \in Ends : session[f].sent \in Nat
    BY DEF PathType, SessionType, SessionStates
  <2> QED
    BY <1>3, <1>12, <2>1, AnswersKept DEF AgreeInv, PathType
<1>18. ASSUME NEW f \in Ends PROVE OnceAt(f)'
  <2>1. OnceAt(f) /\ Node(f) \in Nodes
    BY EndFacts DEF AgreeInv, OnceInv
  <2>2. OnceIn(applications'[Node(f)], f)
    BY <1>11, <2>1 DEF OnceAt
  <2>3. \A x \in Listed(applications'[Node(f)]) :
          x \in Listed(applications[Node(f)]) \/ x = application
    BY <1>11, <2>1
  <2>4. Returning(f)'
    <3>1. CASE f = e
      BY <1>8, <3>1 DEF Returning
    <3>2. CASE f # e
      BY <1>3, <1>5, <2>1, <2>3, <3>2, ReturningKept DEF OnceAt, OthersKept
    <3> QED
      BY <3>1, <3>2
  <2>5. \A x \in Listed(applications'[Node(f)]) : x.end = f => Working(f, x.sequence)
    BY <1>5, <1>7, <2>1, <2>3 DEF OnceAt
  <2> QED
    BY <1>3, <2>2, <2>4, <2>5, OnceNext
<1> QED
  BY <1>13, <1>14, <1>15, <1>16, <1>17, <1>18 DEF AgreeInv, OnceInv

(* What the runtime has yet to hear of, as events come and go.             *)
LEMMA UnreadTaken ==
  ASSUME PathType, NEW n \in Nodes, events[n] # <<>>, events'[n] = Tail(events[n]),
         changed'[n] = changed[n]
  PROVE  /\ Unread(n) \in Int
         /\ Head(events[n]) # Applied => Unread(n)' = Unread(n) - 1
         /\ Head(events[n]) = Applied /\ Applied \notin Entries(events'[n]) =>
              Unread(n)' = Unread(n)
<1>1. events[n] \in Seq(NativeEvents)
  BY DEF PathType, ServiceType
<1>2. /\ Entries(events[n]) = Entries(events'[n]) \cup {Head(events[n])}
      /\ Len(events[n]) \in Nat /\ Len(events'[n]) = Len(events[n]) - 1
  BY <1>1, TailQueue
<1> DEFINE before == Reported(n)
           after == Reported(n)'
           more == Unnoticed(n)
<1>3. /\ before \in {0, 1} /\ after \in {0, 1} /\ more \in {0, 1} /\ Unnoticed(n)' = more
      /\ Head(events[n]) # Applied => after = before
      /\ Head(events[n]) = Applied /\ Applied \notin Entries(events'[n]) => before = 1 /\ after = 0
  BY <1>2 DEF Reported, Unnoticed
<1>4. /\ Unread(n) = Len(events[n]) - before + more
      /\ Unread(n)' = Len(events'[n]) - after + more
  BY <1>3 DEF Unread
<1> HIDE DEF before, after, more
<1> QED
  BY <1>2, <1>3, <1>4

LEMMA UnreadReported ==
  ASSUME PathType, NEW n \in Nodes, NEW x \in NativeEvents, events'[n] = Append(events[n], x)
  PROVE  /\ Unread(n) \in Int
         /\ x # Applied /\ changed[n] /\ ~changed'[n] => Unread(n)' = Unread(n)
         /\ x = Applied /\ Applied \notin Entries(events[n]) /\ changed'[n] = changed[n] =>
              Unread(n)' = Unread(n)
<1>1. events[n] \in Seq(NativeEvents)
  BY DEF PathType, ServiceType
<1>2. /\ Entries(events'[n]) = Entries(events[n]) \cup {x}
      /\ Len(events[n]) \in Nat /\ Len(events'[n]) = Len(events[n]) + 1
  BY <1>1, AppendQueue
<1> DEFINE before == Reported(n)
           after == Reported(n)'
           more == Unnoticed(n)
           left == Unnoticed(n)'
<1>3. /\ before \in {0, 1} /\ after \in {0, 1} /\ more \in {0, 1} /\ left \in {0, 1}
      /\ x # Applied => after = before
      /\ changed[n] /\ ~changed'[n] => more = 1 /\ left = 0
      /\ changed'[n] = changed[n] => left = more
      /\ x = Applied /\ Applied \notin Entries(events[n]) => before = 0 /\ after = 1
  BY <1>2 DEF Reported, Unnoticed
<1>4. /\ Unread(n) = Len(events[n]) - before + more
      /\ Unread(n)' = Len(events'[n]) - after + left
  BY DEF Unread
<1> HIDE DEF before, after, more, left
<1> QED
  BY <1>2, <1>3, <1>4

LEMMA UnreadType ==
  ASSUME PathType, NEW n \in Nodes PROVE Unread(n) \in Nat
<1>1. events[n] \in Seq(NativeEvents) /\ Len(events[n]) \in Nat
  BY DEF PathType, ServiceType
<1>2. /\ Reported(n) \in {0, 1} /\ Unnoticed(n) \in {0, 1}
      /\ Reported(n) = 1 => Len(events[n]) # 0
  BY <1>1 DEF Reported, Unnoticed, Entries
<1> QED
  BY <1>1, <1>2 DEF Unread

(* Steps that only the runtime and its service take part in.               *)
LEMMA SessionsAside ==
  ASSUME PathType, PathType', AgreeInv, UNCHANGED <<session, actions, control, transfers>>
  PROVE  /\ SoundInv' /\ BooksInv' /\ AnswersInv'
         /\ \A e \in Ends :
              applications'[Node(e)] \in {applications[Node(e)], NoApplications} => OnceAt(e)'
<1>1. SoundInv'
  BY DEF AgreeInv, SoundInv
<1>2. \A e \in Ends : Underway(e)' = Underway(e) /\ Kept(e)' = Kept(e)
  BY DEF Underway, Kept
<1>3. BooksInv'
  BY <1>2, BooksKept DEF AgreeInv, PathType
<1>4. \A e \in Ends : session[e].sent \in Nat
  BY DEF PathType, SessionType, SessionStates
<1>5. AnswersInv'
  BY <1>2, <1>4, AnswersKept DEF AgreeInv, PathType
<1>6. ASSUME NEW e \in Ends, applications'[Node(e)] \in {applications[Node(e)], NoApplications}
      PROVE  OnceAt(e)'
  <2>1. OnceAt(e)
    BY DEF AgreeInv, OnceInv
  <2>2. CASE applications'[Node(e)] = applications[Node(e)]
    BY <2>1, <2>2, OnceKept
  <2>3. CASE applications'[Node(e)] = NoApplications
    <3>1. Listed(applications'[Node(e)]) = {} /\ applications'[Node(e)].queued = <<>>
      BY <2>3, ApplicationTypes
    <3>2. Returning(e)'
      BY <2>1, <3>1, ReturningKept DEF OnceAt
    <3>3. OnceIn(applications'[Node(e)], e)
      BY <3>1 DEF OnceIn
    <3> QED
      BY <3>1, <3>2, <3>3, OnceNext
  <2> QED
    BY <1>6, <2>2, <2>3
<1> QED
  BY <1>1, <1>3, <1>5, <1>6

LEMMA NativeChangedAgrees ==
  ASSUME PathType, PathType', AgreeInv, NEW n \in Nodes, NativeChanged(n)
  PROVE  AgreeInv'
<1>1. /\ TakeNativeEvent(n, "Changed")
      /\ events' = [events EXCEPT ![n] = Tail(@)]
      /\ offering' = [offering EXCEPT ![n] =
                        [ends |-> Informed(n), text |-> Head(events[n]).text]]
      /\ UNCHANGED <<sessionVars, inUse, open, applications, ended, service, serviceVars,
                     connectionVars, streamVars>>
  BY DEF NativeChanged
<1>2. /\ offering[n].ends = {} /\ events[n] \in Seq(NativeEvents) /\ events[n] # <<>>
      /\ Head(events[n]) # Applied
  BY <1>1, NativeTaken, EventTypes
<1>3. events'[n] = Tail(events[n]) /\ \A m \in Nodes \ {n} : events'[m] = events[m]
  BY <1>1 DEF PathType, ServiceType
<1>4. \A m \in Nodes : Entries(events'[m]) \subseteq Entries(events[m])
  BY <1>2, <1>3, TailQueue
<1>5. SoundInv' /\ BooksInv' /\ AnswersInv' /\ OnceInv'
  BY <1>1, SessionsAside DEF OnceInv, sessionVars, streamVars
<1>6. QuietInv'
  BY <1>1, <1>4, QuietKept DEF AgreeInv, sessionVars, connectionVars, streamVars
<1>7. NumbersInv'
  <2>1. Unread(n)' = Unread(n) - 1 /\ Unread(n) \in Int
    BY <1>1, <1>2, <1>3, UnreadTaken DEF serviceVars
  <2>2. ASSUME NEW e \in EndsOf(n)
        PROVE  session'[e].sent + Offered(e)' + Unread(n)' <= copies'[n]
    <3>1. e \in Ends /\ Node(e) = n /\ session[e].sent \in Nat /\ copies[n] \in Nat
      BY EndOfNode DEF PathType, SessionType, SessionStates, ServiceType
    <3>2. session[e].sent + Offered(e) + Unread(n) <= copies[n]
      BY <3>1 DEF AgreeInv, NumbersInv
    <3>3. Offered(e) = 0 /\ Offered(e)' \in {0, 1}
      BY <1>2, <3>1 DEF Offered
    <3>4. session'[e] = session[e] /\ copies' = copies
      BY <1>1 DEF sessionVars, serviceVars
    <3> QED
      BY <2>1, <3>1, <3>2, <3>3, <3>4
  <2>3. copies'[n] <= MaxCopies[n]
    BY <1>1 DEF AgreeInv, NumbersInv, serviceVars
  <2>4. /\ \A m \in Nodes \ {n} : /\ offering'[m] = offering[m] /\ events'[m] = events[m]
                                  /\ changed'[m] = changed[m] /\ copies'[m] = copies[m]
        /\ \A e \in Ends : Node(e) # n => session'[e].sent = session[e].sent
    BY <1>1, <1>3 DEF serviceVars, sessionVars, PathType, RuntimeType
  <2> QED
    BY <2>2, <2>3, <2>4, NumbersElsewhere DEF AgreeInv
<1> QED
  BY <1>5, <1>6, <1>7 DEF AgreeInv

(* A new generation is entered in the book.                                *)
LEMMA BookExtended ==
  ASSUME SessionType, NEW e \in Ends, NEW book \in [Nat -> Words], BookOf(e, book),
         NEW text \in Texts, session'[e].sent = session[e].sent + 1,
         Kept(Opposite(e))' = Kept(Opposite(e)),
         \A message \in Underway(e)' : message \in Contents =>
           \/ message \in Underway(e)
           \/ message.sequence = session'[e].sent /\ message.text = text
  PROVE  \E next \in [Nat -> Words] : BookOf(e, next)'
<1> DEFINE sent == session[e].sent
<1>1. sent \in Nat /\ Opposite(e) \in Ends
  BY EndFacts DEF SessionType, SessionStates
<1>2. PICK next \in [Nat -> Words] :
        next[sent + 1] = text /\ \A i \in Nat : i <= sent => next[i] = book[i]
  <2> DEFINE longer == [book EXCEPT ![sent + 1] = text]
  <2>1. /\ longer \in [Nat -> Words] /\ longer[sent + 1] = text
        /\ \A i \in Nat : i <= sent => longer[i] = book[i]
    BY <1>1, TextTypes
  <2> QED
    BY <2>1
<1>3. ASSUME NEW message \in Underway(e)', message \in Contents
      PROVE  InBook(message, sent + 1, next)
  <2>1. message.sequence \in Nat
    BY <1>3, KindsDiffer
  <2>2. CASE message \in Underway(e)
    <3>1. InBook(message, sent, book)
      BY <1>3, <2>2 DEF BookOf
    <3> QED
      BY <1>1, <1>2, <2>1, <3>1 DEF InBook
  <2>3. CASE message.sequence = session'[e].sent /\ message.text = text
    BY <1>1, <1>2, <2>3 DEF InBook
  <2> QED
    BY <1>3, <2>2, <2>3
<1>4. ASSUME NEW clip \in Kept(Opposite(e)) PROVE CopiedFrom(clip, sent + 1, next)
  <2>1. clip.sequence \in Nat
    BY <1>1 DEF Kept, SessionType, SessionStates, Clips
  <2>2. CopiedFrom(clip, sent, book)
    BY DEF BookOf, Kept
  <2> QED
    BY <1>1, <1>2, <2>1, <2>2 DEF CopiedFrom
<1>5. BookOf(e, next)'
  BY <1>3, <1>4 DEF BookOf, Kept
<1> QED
  BY <1>5

LEMMA OfferChangeAgrees ==
  ASSUME PathType, PathType', AgreeInv, NEW e \in Ends, OfferChange(e)
  PROVE  AgreeInv'
<1> DEFINE n == Node(e)
           text == offering[n].text
           rest == offering[n].ends \ {e}
<1>1. /\ e \in offering[n].ends /\ S!LocalChanged(e, text)
      /\ \A f \in EndsOf(n) : actions[f] = <<>>
      /\ offering' = [offering EXCEPT ![n] =
                        IF rest = {} THEN NotOffering ELSE [@ EXCEPT !.ends = rest]]
      /\ UNCHANGED <<inUse, open, applications, ended, service, serviceVars, events,
                     connectionVars, streamVars>>
  BY DEF OfferChange
<1>2. n \in Nodes /\ e \in EndsOf(n) /\ text \in Texts
  BY <1>1, EndFacts DEF PathType, ServiceType
<1>3. /\ offering'[n].ends \subseteq rest
      /\ \A m \in Nodes \ {n} : offering'[m] = offering[m]
  <2>1. offering \in [Nodes -> [ends : SUBSET Ends, text : Words]]
    BY DEF PathType, RuntimeType
  <2>2. offering[n] \in [ends : SUBSET Ends, text : Words]
    BY <1>2, <2>1
  <2>3. CASE rest = {}
    BY <1>1, <1>2, <2>1, <2>3 DEF NotOffering
  <2>4. CASE rest # {}
    BY <1>1, <1>2, <2>1, <2>2, <2>4
  <2> QED
    BY <2>3, <2>4
<1>4. inUse[e] # NoSession /\ Started(e) = 1
  BY <1>1, CalmWork, CalmEnd DEF AgreeInv
<1>5. /\ session[e].sent \in Nat /\ copies[n] \in Nat /\ Unread(n) \in Nat
      /\ session[e].sent + 1 + Unread(n) <= copies[n] /\ copies[n] <= MaxCopies[n]
  <2>1. session[e].sent \in Nat /\ copies[n] \in Nat /\ Unread(n) \in Nat
    BY <1>2, UnreadType DEF PathType, SessionType, SessionStates, ServiceType
  <2>2. Offered(e) = 1
    BY <1>1 DEF Offered
  <2>3. session[e].sent + Offered(e) + Unread(n) <= copies[n] /\ copies[n] <= MaxCopies[n]
    BY <1>2 DEF AgreeInv, NumbersInv
  <2> QED
    BY <2>1, <2>2, <2>3
<1>6. session[e].sent + 1 < LastSequence
  BY <1>2, <1>5, CopiesAreBounded
<1> HIDE DEF text
<1>7. /\ error' = error /\ Sound(session'[e])
      /\ \/ session'[e].sent = session[e].sent /\ actions'[e] = <<>>
         \/ /\ session'[e].sent = session[e].sent + 1
            /\ actions'[e] = <<S!SendOffer(session'[e].sent, text),
                              S!SendTransfer(session'[e].sent, text)>>
  BY <1>1, <1>2, <1>6, OfferSound DEF AgreeInv, SoundInv, PathType
<1>8. /\ OthersKept(e)
      /\ session'[e].incoming = session[e].incoming
      /\ session'[e].applying = session[e].applying
  BY <1>1, <1>2, OfferCall DEF PathType
<1> DEFINE sent == session'[e].sent
           offer == S!SendOffer(sent, text)
           transfer == S!SendTransfer(sent, text)
<1>9. /\ offer \in Contents /\ transfer \in Contents
      /\ offer.sequence = sent /\ offer.text = text
      /\ transfer.sequence = sent /\ transfer.text = text
  <2>1. sent \in Nat
    BY DEF PathType, SessionType, SessionStates
  <2> QED
    BY <1>2, <2>1, ReturnedTypes DEF S!SendOffer, S!SendTransfer
<1>10. actions'[e] \in {<<>>, <<offer, transfer>>}
  BY <1>7
<1> HIDE DEF offer, transfer
<1>11. Entries(actions'[e]) \subseteq {offer, transfer}
  BY <1>10, EmptyQueue, ShortQueues
<1>12. /\ \A f \in Ends : f # e => Underway(f)' = Underway(f)
       /\ Underway(e)' \subseteq Underway(e) \cup Entries(actions'[e])
  BY <1>1, <1>8 DEF Underway, OthersKept, streamVars
<1>13. \A f \in Ends : Kept(f)' = Kept(f)
  BY <1>8 DEF Kept, OthersKept
<1>14. QuietInv'
  BY <1>1, <1>4, <1>7, <1>8, QuietKept
  DEF AgreeInv, OthersKept, connectionVars, streamVars
<1>15. SoundInv'
  BY <1>7, <1>8, SoundKept DEF AgreeInv
<1>16. NumbersInv'
  <2>1. Unread(n)' = Unread(n) /\ copies' = copies
    BY <1>1 DEF Unread, Reported, Unnoticed, serviceVars
  <2>2. ASSUME NEW f \in EndsOf(n)
        PROVE  session'[f].sent + Offered(f)' + Unread(n)' <= copies'[n]
    <3>1. f \in Ends /\ Node(f) = n /\ session[f].sent \in Nat
      BY <1>2, EndOfNode DEF PathType, SessionType, SessionStates
    <3>2. CASE f = e
      <4>1. Offered(e)' = 0
        BY <1>3 DEF Offered
      <4>2. sent \in {session[e].sent, session[e].sent + 1}
        BY <1>7
      <4> QED
        BY <1>5, <2>1, <3>2, <4>1, <4>2
    <3>3. CASE f # e
      <4>1. session[f].sent + Offered(f) + Unread(n) <= copies[n]
        BY <3>1 DEF AgreeInv, NumbersInv
      <4>2. Offered(f)' \in {0, Offered(f)} /\ Offered(f) \in {0, 1}
        BY <1>3, <3>1 DEF Offered
      <4>3. session'[f].sent = session[f].sent
        BY <1>8, <3>1, <3>3 DEF OthersKept
      <4> QED
        BY <1>5, <2>1, <3>1, <4>1, <4>2, <4>3
    <3> QED
      BY <3>2, <3>3
  <2>3. /\ \A m \in Nodes \ {n} : /\ offering'[m] = offering[m] /\ events'[m] = events[m]
                                  /\ changed'[m] = changed[m] /\ copies'[m] = copies[m]
        /\ \A f \in Ends : Node(f) # n => session'[f].sent = session[f].sent
        /\ copies'[n] <= MaxCopies[n]
    BY <1>1, <1>3, <1>5, <1>8 DEF serviceVars, OthersKept
  <2> HIDE DEF n
  <2> QED
    BY <1>2, <2>2, <2>3, NumbersElsewhere DEF AgreeInv
<1>17. ASSUME NEW f \in Ends PROVE \E book \in [Nat -> Words] : BookOf(f, book)'
  <2>1. PICK book \in [Nat -> Words] : BookOf(f, book)
    BY DEF AgreeInv, BooksInv
  <2>2. Opposite(f) \in Ends
    BY EndFacts
  <2>3. CASE session'[f].sent = session[f].sent /\ Underway(f)' \subseteq Underway(f)
    <3>1. BookOf(f, book)'
      BY <1>13, <2>1, <2>2, <2>3 DEF BookOf, Kept
    <3> QED
      BY <3>1
  <2>4. CASE f = e /\ session'[f].sent = session[f].sent + 1
    BY <1>2, <1>9, <1>11, <1>12, <1>13, <2>1, <2>2, <2>4, BookExtended DEF PathType
  <2>5. \/ session'[f].sent = session[f].sent /\ Underway(f)' \subseteq Underway(f)
        \/ f = e /\ session'[f].sent = session[f].sent + 1
    BY <1>7, <1>8, <1>12, EmptyQueue DEF OthersKept
  <2> QED
    BY <2>3, <2>4, <2>5
<1>18. AnswersInv'
  <2>1. \A f \in Ends : session[f].sent \in Nat /\ session'[f].sent >= session[f].sent
    <3>1. \A f \in Ends : session[f].sent \in Nat
      BY DEF PathType, SessionType, SessionStates
    <3>2. \A f \in Ends : session'[f].sent \in {session[f].sent, session[f].sent + 1}
      BY <1>7, <1>8 DEF OthersKept
    <3> QED
      BY <3>1, <3>2
  <2>2. offer \notin Acknowledgements /\ transfer \notin Acknowledgements
    BY <1>9, KindsDiffer
  <2> QED
    BY <1>11, <1>12, <2>1, <2>2, AnswersKept DEF AgreeInv, PathType
<1>19. OnceInv'
  <2>1. Returning(e)'
    <3>1. \A i \in 1 .. Len(actions'[e]) : actions'[e][i] \in {offer, transfer}
      BY <1>11 DEF Entries
    <3> QED
      BY <1>9, <3>1, KindsDiffer DEF Returning
  <2>2. OnceAt(e)'
    BY <1>1, <1>8, <2>1, OnceNext DEF AgreeInv, OnceInv, OnceAt
  <2> QED
    BY <1>1, <1>8, <2>2, OnceElsewhere DEF AgreeInv, OnceInv
<1> QED
  BY <1>14, <1>15, <1>16, <1>17, <1>18, <1>19 DEF AgreeInv, BooksInv

(* What an end keeps of the peer's messages is in the peer's book.         *)
LEMMA KeptInBook ==
  ASSUME AgreeInv, NEW e \in Ends
  PROVE  /\ \A clip \in Kept(e) :
              clip.sequence <= session[Opposite(e)].sent /\ ~S!Mismatched(clip)
         /\ \A message \in Underway(Opposite(e)) : message \in Contents =>
              \A clip \in Kept(e) : clip.sequence = message.sequence =>
                {clip.offer, clip.transfer} \subseteq {NoText, message.text}
<1>1. Opposite(e) \in Ends /\ Opposite(Opposite(e)) = e
  BY EndFacts
<1>2. PICK book \in [Nat -> Words] : BookOf(Opposite(e), book)
  BY <1>1 DEF AgreeInv, BooksInv
<1>3. ASSUME NEW clip \in Kept(e) PROVE CopiedFrom(clip, session[Opposite(e)].sent, book)
  BY <1>1, <1>2 DEF BookOf, Kept
<1>4. \A clip \in Kept(e) : ~S!Mismatched(clip)
  BY <1>3 DEF CopiedFrom, S!Mismatched, S!Ready
<1>5. \A message \in Underway(Opposite(e)) : message \in Contents =>
        message.text = book[message.sequence]
  BY <1>2 DEF BookOf, InBook
<1> QED
  BY <1>3, <1>4, <1>5 DEF CopiedFrom

LEMMA NativeAppliedAgrees ==
  ASSUME PathType, PathType', ApplicationsInv, AgreeInv, NEW n \in Nodes, NativeApplied(n)
  PROVE  AgreeInv'
<1> DEFINE list == applications[n]
           pending == list.pending
           rest == [list EXCEPT !.pending = NoApplication]
<1>1. /\ TakeNativeEvent(n, "Applied")
      /\ events' = [events EXCEPT ![n] = Tail(@)]
      /\ UNCHANGED <<inUse, open, offering, service, serviceVars, connectionVars, streamVars>>
  BY DEF NativeApplied
<1>2. /\ events[n] \in Seq(NativeEvents) /\ events[n] # <<>> /\ Head(events[n]) = Applied
      /\ \A f \in EndsOf(n) : actions[f] = <<>>
  BY <1>1, NativeTaken, EventTypes
<1>3. events'[n] = Tail(events[n]) /\ \A m \in Nodes \ {n} : events'[m] = events[m]
  BY <1>1 DEF PathType, ServiceType
<1>4. /\ \A m \in Nodes : Entries(events'[m]) \subseteq Entries(events[m])
      /\ Applied \in Entries(events[n])
  BY <1>2, <1>3, TailQueue
<1>5. pending # NoApplication
  BY <1>4, CalmNode DEF AgreeInv, Unused
<1>6. Applied \notin Entries(events'[n])
  BY <1>1, <1>3, <1>5, AppliedTaken DEF ApplicationsInv
<1>7. list \in Lists /\ pending \in Applications /\ pending \in Listed(list)
  BY <1>5, ListTypes DEF PathType, RuntimeType
<1>8. PICK e \in Ends, k \in Nat :
        Node(e) = n /\ e \in EndsOf(n) /\ e = pending.end /\ k = pending.sequence
  <2>1. pending.end \in EndsOf(n)
    BY <1>7 DEF PathType, WorkType
  <2> QED
    BY <1>7, <2>1, EndOfNode, ApplicationTypes
<1>9. inUse[e] # NoSession /\ Started(e) = 1 /\ open[e]
  <2>1. \E x \in Listed(applications[Node(e)]) : x.end = e
    BY <1>7, <1>8
  <2> QED
    BY <1>8, <2>1, CalmWork, CalmEnd DEF AgreeInv
<1>10. /\ S!ConfirmApplied(e, e[2], k)
       /\ applications' = [applications EXCEPT ![n] = rest]
       /\ UNCHANGED <<commands, ended>>
  BY <1>5, <1>8, <1>9 DEF NativeApplied
<1>11. Working(e, k)
  BY <1>7, <1>8 DEF AgreeInv, OnceInv, OnceAt
<1> HIDE DEF pending
<1> DEFINE o == Opposite(e)
           next == S!ApplyRemote(session'[e].applying.sequence, session'[e].applying.transfer)
<1>12. o \in Ends /\ ~S!Mismatched(session[e].incoming) /\ k <= session[o].sent
  <2>1. session[e].incoming \in Kept(e) /\ session[e].applying \in Kept(e)
    BY DEF Kept
  <2> QED
    BY <1>8, <1>11, <2>1, KeptInBook, EndFacts DEF Working
<1>13. /\ error' = error /\ Sound(session'[e]) /\ session'[e].sent = session[e].sent
       /\ session'[e].incoming \in {session[e].incoming, S!NoClip}
       /\ session'[e].applying \in {session[e].incoming, S!NoClip}
  BY <1>8, <1>10, <1>11, <1>12, ConfirmSound DEF AgreeInv, SoundInv, PathType
<1>14. /\ OthersKept(e)
       /\ \/ actions'[e] = <<S!SendApplied(k)>>
          \/ /\ S!IsApplying(session'[e]) /\ session'[e].applying.transfer \in Texts
             /\ actions'[e] = <<S!SendApplied(k), next>>
  <2>1. error'[e] = "none"
    BY <1>8, <1>13 DEF AgreeInv, QuietInv, QuietAt
  <2> QED
    BY <1>8, <1>10, <2>1, ConfirmCall DEF PathType
<1>15. S!SendApplied(k) \in Acknowledgements /\ S!SendApplied(k).sequence = k
  BY <1>8 DEF S!SendApplied, Acknowledgements
<1>16. session'[e].applying.sequence \in Nat
  BY <1>8 DEF PathType, SessionType, SessionStates, Clips
<1>17. session'[e].applying.transfer \in Texts =>
         next \in Applies /\ next.sequence = session'[e].applying.sequence
  BY <1>16 DEF S!ApplyRemote, Applies
<1> HIDE DEF next
<1>18. ASSUME NEW action \in Entries(actions'[e])
       PROVE  \/ action = S!SendApplied(k)
              \/ action \in Applies /\ action = next
  <2>1. CASE actions'[e] = <<S!SendApplied(k)>>
    <3>1. Entries(actions'[e]) = {S!SendApplied(k)}
      BY <2>1, ShortQueues
    <3> QED
      BY <1>18, <3>1
  <2>2. CASE actions'[e] = <<S!SendApplied(k), next>> /\ next \in Applies
    <3>1. Entries(actions'[e]) = {S!SendApplied(k), next}
      BY <2>2, ShortQueues
    <3> QED
      BY <1>18, <2>2, <3>1
  <2> QED
    BY <1>14, <1>17, <2>1, <2>2
<1>19. /\ \A f \in Ends : f # e => Underway(f)' = Underway(f)
       /\ Underway(e)' \subseteq Underway(e) \cup Entries(actions'[e])
  BY <1>1, <1>14 DEF Underway, OthersKept, streamVars
<1>20. /\ applications'[n] = rest /\ rest.pending = NoApplication
       /\ rest.queued = list.queued /\ Listed(rest) \subseteq Listed(list)
       /\ \A m \in Nodes \ {n} : applications'[m] = applications[m]
  <2>1. applications \in [Nodes -> Lists]
    BY DEF PathType, RuntimeType
  <2>2. rest.pending = NoApplication /\ rest.queued = list.queued
    BY <1>7 DEF Lists
  <2> QED
    BY <1>10, <2>1, <2>2 DEF Listed
<1> HIDE DEF rest, list
<1>21. QuietInv'
  BY <1>1, <1>4, <1>8, <1>9, <1>10, <1>13, <1>14, QuietKept, SMTT(60)
  DEF AgreeInv, OthersKept, connectionVars, streamVars
<1>22. SoundInv'
  BY <1>8, <1>13, <1>14, SoundKept DEF AgreeInv
<1>23. NumbersInv'
  <2>1. Unread(n)' = Unread(n)
    BY <1>1, <1>2, <1>3, <1>6, UnreadTaken DEF serviceVars
  <2>2. \A f \in Ends : session'[f].sent = session[f].sent /\ Offered(f)' = Offered(f)
    BY <1>1, <1>13, <1>14 DEF OthersKept, Offered
  <2>3. \A f \in EndsOf(n) : session'[f].sent + Offered(f)' + Unread(n)' <= copies'[n]
    <3> SUFFICES ASSUME NEW f \in EndsOf(n)
                 PROVE  session'[f].sent + Offered(f)' + Unread(n)' <= copies'[n]
      OBVIOUS
    <3>1. f \in Ends /\ Node(f) = n
      BY EndOfNode
    <3>2. copies' = copies
      BY <1>1 DEF serviceVars
    <3> QED
      BY <2>1, <2>2, <3>1, <3>2 DEF AgreeInv, NumbersInv
  <2>4. /\ \A m \in Nodes \ {n} : /\ offering'[m] = offering[m] /\ events'[m] = events[m]
                                  /\ changed'[m] = changed[m] /\ copies'[m] = copies[m]
        /\ copies'[n] <= MaxCopies[n]
    BY <1>1, <1>3 DEF serviceVars, AgreeInv, NumbersInv
  <2> QED
    BY <2>2, <2>3, <2>4, NumbersElsewhere DEF AgreeInv
<1>24. BooksInv'
  <2>1. \A f \in Ends : session'[f].sent = session[f].sent
    BY <1>13, <1>14 DEF OthersKept
  <2>2. \A f \in Ends : \A message \in Underway(f)' :
          message \in Contents => message \in Underway(f)
    BY <1>15, <1>18, <1>19, KindsDiffer
  <2>3. \A f \in Ends : \A clip \in Kept(f)' : clip \in Kept(f) \/ clip = S!NoClip
    BY <1>13, <1>14 DEF OthersKept, Kept
  <2> QED
    BY <2>1, <2>2, <2>3, BooksKept DEF AgreeInv, PathType
<1>25. AnswersInv'
  <2>1. \A f \in Ends : session[f].sent \in Nat /\ session'[f].sent = session[f].sent
    BY <1>13, <1>14 DEF OthersKept, PathType, SessionType, SessionStates
  <2>2. \A f \in Ends : \A message \in Underway(f)' : message \in Acknowledgements =>
          message \in Underway(f) \/ message.sequence <= session'[Opposite(f)].sent
    <3> SUFFICES ASSUME NEW f \in Ends, NEW message \in Underway(f)',
                        message \in Acknowledgements, message \notin Underway(f)
                 PROVE  message.sequence <= session'[Opposite(f)].sent
      OBVIOUS
    <3>1. f = e /\ message = S!SendApplied(k)
      BY <1>18, <1>19, KindsDiffer
    <3> QED
      BY <1>12, <1>15, <2>1, <3>1
  <2>3. \A f \in Ends : session'[f].sent >= session[f].sent
    BY <2>1
  <2> QED
    BY <2>2, <2>3, AnswersKept DEF AgreeInv, PathType
<1>26. ASSUME NEW f \in Ends PROVE OnceAt(f)'
  <2>1. OnceAt(f) /\ Node(f) \in Nodes
    BY EndFacts DEF AgreeInv, OnceInv
  <2>2. CASE Node(f) # n
    BY <1>8, <1>14, <1>20, <2>1, <2>2, OnceKept DEF OthersKept
  <2>3. CASE f = e
    <3>1. \A i \in 1 .. Len(rest.queued) : rest.queued[i].end # e
      BY <1>5, <1>8, <1>20, <2>1, <2>3 DEF OnceAt, OnceIn, pending, list
    <3>2. \A x \in Listed(applications'[n]) : x.end # e
      BY <1>20, <3>1 DEF Listed, Entries
    <3>3. OnceIn(applications'[n], e)
      BY <1>20, <3>1 DEF OnceIn
    <3>4. Returning(e)'
      <4>1. CASE actions'[e] = <<S!SendApplied(k)>>
        BY <1>15, <4>1, KindsDiffer DEF Returning
      <4>2. CASE /\ S!IsApplying(session'[e]) /\ session'[e].applying.transfer \in Texts
                 /\ actions'[e] = <<S!SendApplied(k), next>>
        <5>1. next \in Applies /\ next.sequence = session'[e].applying.sequence
          BY <1>17, <4>2
        <5>2. /\ Len(actions'[e]) = 2 /\ actions'[e][1] = S!SendApplied(k)
              /\ actions'[e][2] = next
          BY <4>2
        <5>3. \A i \in 1 .. 2 : actions'[e][i] \in Applies => i = 2
          BY <1>15, <5>2, KindsDiffer
        <5> QED
          BY <1>8, <3>2, <4>2, <5>1, <5>2, <5>3 DEF Returning, Working
      <4> QED
        BY <1>14, <4>1, <4>2
    <3> QED
      BY <1>8, <2>3, <3>2, <3>3, <3>4 DEF OnceAt
  <2>4. CASE Node(f) = n /\ f # e
    <3>1. session'[f] = session[f] /\ actions'[f] = actions[f]
      BY <1>14, <2>4 DEF OthersKept
    <3>2. \A x \in Listed(applications'[Node(f)]) : x \in Listed(applications[Node(f)])
      BY <1>20, <2>4 DEF list
    <3>3. OnceIn(applications'[Node(f)], f)
      BY <1>20, <2>1, <2>4 DEF OnceAt, OnceIn, list
    <3>4. Returning(f)'
      BY <2>1, <3>1, <3>2, ReturningKept DEF OnceAt
    <3> QED
      BY <2>1, <3>1, <3>2, <3>3, <3>4, OnceNext DEF OnceAt
  <2> QED
    BY <2>2, <2>3, <2>4
<1> QED
  BY <1>21, <1>22, <1>23, <1>24, <1>25, <1>26 DEF AgreeInv, OnceInv

LEMMA NativeFailedAgrees ==
  ASSUME PathType, AgreeInv, NEW n \in Nodes, NativeFailed(n) PROVE FALSE
<1>1. /\ events[n] \in Seq(NativeEvents) /\ events[n] # <<>>
      /\ Head(events[n]) \in NativeEvents /\ Head(events[n]).type = "Failed"
  BY NativeTaken DEF NativeFailed
<1>2. Head(events[n]) = Failed
  BY <1>1 DEF NativeEvents, Applied
<1>3. Failed \in Entries(events[n])
  BY <1>1, <1>2, TailQueue
<1> QED
  BY <1>3 DEF AgreeInv, QuietInv

(* Steps that take a message and call the session with it.                 *)
LEMMA CallAgrees ==
  ASSUME PathType, PathType', AgreeInv, NEW e \in Ends, inUse[e] # NoSession, OthersKept(e),
         UNCHANGED <<inUse, open, offering, applications, ended, service, serviceVars, events,
                     connectionVars>>,
         error' = error, Sound(session'[e]), session'[e].sent = session[e].sent,
         \A f \in Ends, s \in Sessions :
           /\ Entries(control'[f][s]) \subseteq Entries(control[f][s])
           /\ Entries(transfers'[f][s]) \subseteq Entries(transfers[f][s]),
         \A clip \in Kept(e)' :
           \/ clip \in Kept(e) \/ clip = S!NoClip
           \/ \E message \in Underway(Opposite(e)) :
                message \in Contents /\ FromMessage(clip, message),
         \/ session'[e].applying = session[e].applying /\ actions'[e] = <<>>
         \/ /\ ~S!IsApplying(session[e]) /\ S!IsApplying(session'[e])
            /\ session'[e].applying.transfer \in Texts
            /\ actions'[e] = <<S!ApplyRemote(session'[e].applying.sequence,
                                            session'[e].applying.transfer)>>
  PROVE  AgreeInv'
<1> DEFINE next == S!ApplyRemote(session'[e].applying.sequence, session'[e].applying.transfer)
<1>1. session'[e].applying.transfer \in Texts =>
        next \in Applies /\ next.sequence = session'[e].applying.sequence
  <2>1. session'[e].applying.sequence \in Nat
    BY DEF PathType, SessionType, SessionStates, Clips
  <2> QED
    BY <2>1 DEF S!ApplyRemote, Applies
<1>2. \/ session'[e].applying = session[e].applying /\ actions'[e] = <<>>
      \/ /\ ~S!IsApplying(session[e]) /\ S!IsApplying(session'[e]) /\ next \in Applies
         /\ next.sequence = session'[e].applying.sequence /\ actions'[e] = <<next>>
  BY <1>1
<1> HIDE DEF next
<1>3. \A action \in Entries(actions'[e]) : action \in Applies
  <2>1. Entries(<<next>>) = {next} /\ Entries(<<>>) = {}
    BY EmptyQueue, ShortQueues
  <2> QED
    BY <1>2, <2>1
<1>4. \A f \in Ends : \A message \in Underway(f)' :
        message \in Underway(f) \/ message \in Applies
  BY <1>3 DEF Underway, OthersKept
<1>5. \A f \in Ends : session'[f].sent = session[f].sent /\ session[f].sent \in Nat
  BY DEF OthersKept, PathType, SessionType, SessionStates
<1>6. Started(e) = 1
  BY CalmEnd DEF AgreeInv
<1>7. QuietInv'
  <2>1. \A f \in Ends : Started(f) = 0 => session'[f] = session[f]
    BY <1>6 DEF OthersKept
  <2>2. UNCHANGED <<error, inUse, open, service, ended, opened, accepted, alive, events>>
    BY DEF connectionVars
  <2>3. \A f \in Ends, s \in Sessions :
          /\ Disconnected \in Entries(control'[f][s]) => Disconnected \in Entries(control[f][s])
          /\ ClipboardFailed \in Entries(transfers'[f][s]) =>
               ClipboardFailed \in Entries(transfers[f][s])
    OBVIOUS
  <2> QED
    BY <2>1, <2>2, <2>3, QuietKept DEF AgreeInv
<1>8. SoundInv'
  BY SoundKept DEF AgreeInv
<1>9. NumbersInv'
  BY <1>5, NumbersKept DEF AgreeInv, serviceVars
<1>10. BooksInv'
  <2>1. \A f \in Ends : \A message \in Underway(f)' :
          message \in Contents => message \in Underway(f)
    BY <1>4, KindsDiffer
  <2>2. \A f \in Ends \ {e} : Kept(f)' = Kept(f)
    BY DEF OthersKept, Kept
  <2> QED
    BY <1>5, <2>1, <2>2, BooksKept DEF AgreeInv, PathType
<1>11. AnswersInv'
  <2>1. \A f \in Ends : \A message \in Underway(f)' :
          message \in Acknowledgements => message \in Underway(f)
    BY <1>4, KindsDiffer
  <2> QED
    BY <1>5, <2>1, AnswersKept DEF AgreeInv, PathType
<1>12. OnceAt(e)'
  <2>1. OnceAt(e)
    BY DEF AgreeInv, OnceInv
  <2>2. CASE session'[e].applying = session[e].applying /\ actions'[e] = <<>>
    BY <2>1, <2>2, OnceKept
  <2>3. CASE /\ ~S!IsApplying(session[e]) /\ S!IsApplying(session'[e]) /\ next \in Applies
             /\ next.sequence = session'[e].applying.sequence /\ actions'[e] = <<next>>
    <3>1. \A x \in Listed(applications'[Node(e)]) : x.end # e
      BY <2>1, <2>3 DEF OnceAt, Working
    <3>2. Len(actions'[e]) = 1 /\ actions'[e][1] = next
      BY <2>3
    <3>3. Returning(e)'
      BY <2>3, <3>1, <3>2 DEF Returning, Working
    <3> QED
      BY <2>1, <3>1, <3>3 DEF OnceAt
  <2> QED
    BY <1>2, <2>2, <2>3
<1>13. OnceInv'
  BY <1>12, OnceElsewhere DEF AgreeInv, OnceInv
<1> QED
  BY <1>7, <1>8, <1>9, <1>10, <1>11, <1>13 DEF AgreeInv

LEMMA PartAgrees ==
  ASSUME PathType, PathType', AgreeInv, NEW e \in Ends, inUse[e] # NoSession,
         UNCHANGED <<inUse, open, offering, applications, ended, service, serviceVars, events,
                     connectionVars>>,
         \A f \in Ends, s \in Sessions :
           /\ Entries(control'[f][s]) \subseteq Entries(control[f][s])
           /\ Entries(transfers'[f][s]) \subseteq Entries(transfers[f][s]),
         NEW message \in Underway(Opposite(e)), message \in Contents, NEW part \in S!Parts,
         S!ReceivePart(e, part, e[2], message.sequence, message.text)
  PROVE  AgreeInv'
<1>1. message.sequence \in Nat /\ message.text \in Texts
  BY KindsDiffer
<1>2. \A clip \in {session[e].incoming, session[e].applying} :
        clip.sequence = message.sequence =>
          {clip.offer, clip.transfer} \subseteq {NoText, message.text}
  BY KeptInBook DEF Kept
<1>3. /\ OthersKept(e)
      /\ \/ session'[e].applying = session[e].applying /\ actions'[e] = <<>>
         \/ /\ ~S!IsApplying(session[e]) /\ S!IsApplying(session'[e])
            /\ session'[e].applying.transfer \in Texts
            /\ actions'[e] = <<S!ApplyRemote(session'[e].applying.sequence,
                                            session'[e].applying.transfer)>>
  BY <1>1, PartCall DEF PathType
<1>4. Sound(session[e])
  BY DEF AgreeInv, SoundInv
<1>5. /\ error' = error /\ Sound(session'[e]) /\ session'[e].sent = session[e].sent
      /\ \A clip \in {session'[e].incoming, session'[e].applying} :
           \/ clip \in {session[e].incoming, session[e].applying, S!NoClip}
           \/ /\ clip.sequence = message.sequence
              /\ {clip.offer, clip.transfer} \subseteq {NoText, message.text}
  BY <1>1, <1>2, <1>4, PartSound DEF PathType
<1>6. \A clip \in Kept(e)' :
        \/ clip \in Kept(e) \/ clip = S!NoClip
        \/ \E m \in Underway(Opposite(e)) : m \in Contents /\ FromMessage(clip, m)
  BY <1>5 DEF Kept, FromMessage
<1> QED
  BY <1>3, <1>5, <1>6, CallAgrees

LEMMA TakeControlAgrees ==
  ASSUME PathType, PathType', AgreeInv, NEW e \in Ends, TakeControl(e)
  PROVE  AgreeInv'
<1> DEFINE message == Head(Arriving(control, e))
<1>1. /\ inUse[e] \in Sessions /\ inUse[e] # NoSession
      /\ message \in Contents \cup Acknowledgements \cup {Disconnected}
      /\ message \in Entries(control[Opposite(e)][inUse[e]])
      /\ \A f \in Ends, s \in Sessions :
           Entries(Taken(control, e)[f][s]) \subseteq Entries(control[f][s])
  BY ControlTaken DEF TakeControl
<1>2. Opposite(e) \in Ends /\ Opposite(Opposite(e)) = e /\ open[e] /\ e = <<e[1], e[2]>>
  BY <1>1, EndFacts, CalmEnd DEF AgreeInv, Ends
<1>3. message # Disconnected /\ message \in Underway(Opposite(e))
  BY <1>1, <1>2 DEF AgreeInv, QuietInv, QuietAt, Underway
<1>4. /\ control' = Taken(control, e) /\ ReceiveControl(e, message)
      /\ UNCHANGED <<inUse, open, applications, commands, ended>>
      /\ UNCHANGED <<offering, service, serviceVars, events, connectionVars, transfers>>
  BY <1>2, <1>3 DEF TakeControl
<1> HIDE DEF message
<1>5. \A f \in Ends, s \in Sessions :
        /\ Entries(control'[f][s]) \subseteq Entries(control[f][s])
        /\ Entries(transfers'[f][s]) \subseteq Entries(transfers[f][s])
  BY <1>1, <1>4
<1>6. CASE message.type = "SendOffer" /\ S!ReceiveOffer(e, e[2], message.sequence, message.text)
  <2>1. message \in Contents
    BY <1>1, <1>3, <1>6, KindsDiffer
  <2>2. "offer" \in S!Parts /\ S!ReceivePart(e, "offer", e[2], message.sequence, message.text)
    BY <1>6 DEF S!Parts, S!ReceiveOffer
  <2> QED
    BY <1>1, <1>3, <1>4, <1>5, <2>1, <2>2, PartAgrees
<1>7. CASE message.type = "SendApplied" /\ S!ReceiveAcknowledgement(e, e[1], message.sequence)
  <2>1. message \in Acknowledgements /\ message.sequence \in Nat
    BY <1>1, <1>3, <1>7, KindsDiffer
  <2>2. message.sequence <= session[e].sent
    BY <1>2, <1>3, <2>1 DEF AgreeInv, AnswersInv
  <2>3. /\ OthersKept(e) /\ actions'[e] = <<>>
        /\ session'[e].incoming = session[e].incoming
        /\ session'[e].applying = session[e].applying
    BY <1>7, <2>1, AcknowledgementCall DEF PathType
  <2>4. error' = error /\ Sound(session'[e]) /\ session'[e].sent = session[e].sent
    BY <1>7, <2>1, <2>2, AcknowledgementSound DEF PathType, AgreeInv, SoundInv
  <2>5. \A clip \in Kept(e)' : clip \in Kept(e)
    BY <2>3 DEF Kept
  <2> QED
    BY <1>1, <1>4, <1>5, <2>3, <2>4, <2>5, CallAgrees
<1> QED
  BY <1>4, <1>6, <1>7 DEF ReceiveControl

LEMMA TakeTransferAgrees ==
  ASSUME PathType, PathType', AgreeInv, NEW e \in Ends, TakeTransfer(e)
  PROVE  AgreeInv'
<1> DEFINE message == Head(Arriving(transfers, e))
<1>1. /\ inUse[e] \in Sessions /\ inUse[e] # NoSession
      /\ message \in Contents \cup {ClipboardFailed}
      /\ message \in Entries(transfers[Opposite(e)][inUse[e]])
      /\ \A f \in Ends, s \in Sessions :
           Entries(Taken(transfers, e)[f][s]) \subseteq Entries(transfers[f][s])
  BY TransferTaken DEF TakeTransfer
<1>2. Opposite(e) \in Ends /\ open[e]
  BY <1>1, EndFacts, CalmEnd DEF AgreeInv
<1>3. message # ClipboardFailed /\ message \in Contents /\ message \in Underway(Opposite(e))
  BY <1>1, <1>2 DEF AgreeInv, QuietInv, QuietAt, Underway
<1>4. /\ transfers' = Taken(transfers, e)
      /\ S!ReceiveTransfer(e, e[2], message.sequence, message.text)
      /\ UNCHANGED <<open, applications, commands, ended>>
      /\ UNCHANGED <<inUse, offering, service, serviceVars, events, connectionVars, control>>
  BY <1>2, <1>3 DEF TakeTransfer
<1> HIDE DEF message
<1>5. \A f \in Ends, s \in Sessions :
        /\ Entries(control'[f][s]) \subseteq Entries(control[f][s])
        /\ Entries(transfers'[f][s]) \subseteq Entries(transfers[f][s])
  BY <1>1, <1>4
<1>6. "transfer" \in S!Parts /\ S!ReceivePart(e, "transfer", e[2], message.sequence, message.text)
  BY <1>4 DEF S!Parts, S!ReceiveTransfer
<1> QED
  BY <1>1, <1>3, <1>4, <1>5, <1>6, PartAgrees

(* The first connection starts with the session as it is from the start.   *)
LEMMA StartAgrees ==
  ASSUME PathType, PathType', AgreeInv, NEW e \in Ends, S!Start(e), Started(e) = 0,
         inUse' = [inUse EXCEPT ![e] = 1], open' = [open EXCEPT ![e] = TRUE],
         Started(e)' = 1, \A f \in Ends : f # e => Started(f)' = Started(f),
         alive' \in [Agents -> [Sessions -> BOOLEAN]],
         \A a \in Agents : opened'[a] = 1 => alive'[a][1],
         applications'[Node(e)] \in {NoApplications, applications[Node(e)]},
         \A m \in Nodes \ {Node(e)} : applications'[m] = applications[m],
         UNCHANGED <<offering, ended, service, serviceVars, events, streamVars>>
  PROVE  AgreeInv'
<1>1. UNCHANGED <<session, actions, error>>
  <2>1. session[e] = S!NewSession /\ error[e] = "none" /\ inUse[e] = NoSession
    BY DEF AgreeInv, QuietInv, QuietAt, NoSession
  <2>2. actions[e] = <<>>
    BY <2>1 DEF PathType, WorkType
  <2> QED
    BY <2>1, <2>2 DEF S!Start, PathType, SessionType
<1>2. SoundInv' /\ BooksInv' /\ AnswersInv' /\ OnceInv'
  <2>1. \A f \in Ends : applications'[Node(f)] \in {applications[Node(f)], NoApplications}
    BY EndFacts
  <2> QED
    BY <1>1, <2>1, SessionsAside DEF OnceInv, streamVars
<1>3. NumbersInv'
  BY <1>1, NumbersKept DEF AgreeInv, serviceVars
<1>4. \A n \in Nodes : service'[n] /\ ~ended'[n] /\ Failed \notin Entries(events'[n])
  BY DEF AgreeInv, QuietInv
<1>5. ASSUME NEW f \in Ends PROVE QuietAt(f)'
  <2>1. QuietAt(f) /\ session'[f] = session[f] /\ error'[f] = error[f]
    BY <1>1 DEF AgreeInv, QuietInv
  <2>2. CASE f = e
    <3>1. inUse'[e] = 1 /\ open'[e]
      BY DEF PathType, RuntimeType
    <3> QED
      BY <2>1, <2>2, <3>1 DEF QuietAt, streamVars
  <2>3. CASE f # e
    <3>1. inUse'[f] = inUse[f] /\ open'[f] = open[f] /\ Started(f)' = Started(f)
      BY <2>3 DEF PathType, RuntimeType
    <3> QED
      BY <2>1, <3>1 DEF QuietAt, streamVars
  <2> QED
    BY <2>2, <2>3
<1> QED
  BY <1>2, <1>3, <1>4, <1>5 DEF AgreeInv, QuietInv

LEMMA ConnectAgrees ==
  ASSUME PathType, PathType', AgreeInv, NEW a \in Agents, Connect(a)
  PROVE  AgreeInv'
<1> DEFINE e == <<a, Local>>
<1>1. /\ e \in Ends /\ Node(e) = a /\ a \in Nodes /\ Started(e) = opened[a]
      /\ <<Local, a>> # e
  BY AgentEnds
<1>2. opened[a] = 0 /\ Started(e) = 0
  BY <1>1 DEF Connect, AgreeInv, QuietInv, QuietAt, NoSession
<1>3. /\ S!Start(e) /\ opened' = [opened EXCEPT ![a] = 1] /\ opened[a] < MaxSessions
      /\ alive' = [alive EXCEPT ![a][1] = TRUE]
      /\ inUse' = [inUse EXCEPT ![e] = 1] /\ open' = [open EXCEPT ![e] = TRUE]
      /\ applications' = [applications EXCEPT ![a] = NoApplications]
      /\ UNCHANGED <<offering, ended, service, serviceVars, events, accepted, streamVars>>
  BY <1>2 DEF Connect
<1>4. opened \in [Agents -> Nat] /\ opened'[a] = 1 /\ \A b \in Agents : b # a => opened'[b] = opened[b]
  BY <1>3 DEF PathType, ConnectionType
<1>5. Started(e)' = 1 /\ \A f \in Ends : f # e => Started(f)' = Started(f)
  <2>1. ASSUME NEW f \in Ends PROVE Started(f)' = IF f = e THEN 1 ELSE Started(f)
    <3>1. CASE Node(f) = Local
      <4>1. f # e
        BY <1>1, <3>1, AgentEnds
      <4> QED
        BY <1>3, <3>1, <4>1 DEF Started
    <3>2. CASE Node(f) # Local
      <4>1. f = <<AgentOf(f), Local>> /\ f[1] = AgentOf(f) /\ AgentOf(f) \in Agents
        BY <3>2, EndFacts
      <4>2. f = e <=> AgentOf(f) = a
        BY <4>1
      <4> QED
        BY <1>4, <3>2, <4>1, <4>2 DEF Started
    <3> QED
      BY <3>1, <3>2
  <2> QED
    BY <1>1, <2>1
<1>6. /\ alive' \in [Agents -> [Sessions -> BOOLEAN]]
      /\ \A b \in Agents : opened'[b] = 1 => alive'[b][1]
  <2>1. 1 \in Sessions
    <3>1. MaxSessions \in Nat /\ MaxSessions > 0
      BY <1>2, <1>3, ClipboardPathAssumption
    <3> QED
      BY <3>1 DEF Sessions
  <2>2. alive \in [Agents -> [Sessions -> BOOLEAN]]
    BY DEF AgreeInv, QuietInv
  <2>3. \A b \in Agents : opened[b] = 1 => alive[b][1]
    BY DEF AgreeInv, QuietInv
  <2> QED
    BY <1>3, <1>4, <2>1, <2>2, <2>3
<1>7. /\ applications'[Node(e)] \in {NoApplications, applications[Node(e)]}
      /\ \A m \in Nodes \ {Node(e)} : applications'[m] = applications[m]
  BY <1>1, <1>3 DEF PathType, RuntimeType
<1> HIDE DEF e
<1> QED
  BY <1>1, <1>2, <1>3, <1>5, <1>6, <1>7, StartAgrees

LEMMA AcceptPeerAgrees ==
  ASSUME PathType, PathType', AgreeInv, NEW a \in Agents, AcceptPeer(a)
  PROVE  AgreeInv'
<1> DEFINE e == <<Local, a>>
<1>1. /\ e \in Ends /\ Node(e) = Local /\ a \in Nodes /\ Started(e) = accepted[a]
      /\ <<a, Local>> \in Ends /\ Started(<<a, Local>>) = opened[a] /\ a # Local
  BY AgentEnds
<1>2. accepted[a] = 0 /\ Started(e) = 0
  <2>1. accepted[a] \in Nat /\ accepted[a] < opened[a]
    BY DEF AcceptPeer, PathType, ConnectionType
  <2>2. opened[a] \in {0, 1}
    BY <1>1 DEF AgreeInv, QuietInv, QuietAt
  <2> QED
    BY <1>1, <2>1, <2>2
<1>3. /\ S!Start(e) /\ accepted' = [accepted EXCEPT ![a] = 1]
      /\ inUse' = [inUse EXCEPT ![e] = 1] /\ open' = [open EXCEPT ![e] = TRUE]
      /\ UNCHANGED <<offering, applications, ended, service, serviceVars, events, opened, alive,
                     streamVars>>
  BY <1>2 DEF AcceptPeer
<1>4. accepted'[a] = 1 /\ \A b \in Agents : b # a => accepted'[b] = accepted[b]
  BY <1>3 DEF PathType, ConnectionType
<1>5. Started(e)' = 1 /\ \A f \in Ends : f # e => Started(f)' = Started(f)
  <2>1. ASSUME NEW f \in Ends PROVE Started(f)' = IF f = e THEN 1 ELSE Started(f)
    <3>1. CASE Node(f) # Local
      <4>1. f # e
        BY <1>1, <3>1
      <4> QED
        BY <1>3, <3>1, <4>1 DEF Started
    <3>2. CASE Node(f) = Local
      <4>1. f = <<Local, AgentOf(f)>> /\ f[2] = AgentOf(f) /\ AgentOf(f) \in Agents
        BY <3>2, EndFacts
      <4>2. f = e <=> AgentOf(f) = a
        BY <4>1
      <4> QED
        BY <1>4, <3>2, <4>1, <4>2 DEF Started
    <3> QED
      BY <3>1, <3>2
  <2> QED
    BY <1>1, <2>1
<1>6. /\ alive' \in [Agents -> [Sessions -> BOOLEAN]]
      /\ \A b \in Agents : opened'[b] = 1 => alive'[b][1]
  BY <1>3 DEF AgreeInv, QuietInv
<1> HIDE DEF e
<1> QED
  BY <1>1, <1>2, <1>3, <1>5, <1>6, StartAgrees

(* The user and the native service.                                        *)
LEMMA ServiceAgrees ==
  ASSUME PathType, PathType', AgreeInv, NEW n \in Nodes,
         UNCHANGED <<session, actions, error, inUse, open, offering, applications, ended,
                     service, opened, accepted, alive, control, transfers>>,
         \A m \in Nodes \ {n} : /\ events'[m] = events[m] /\ changed'[m] = changed[m]
                                /\ copies'[m] = copies[m],
         Failed \in Entries(events'[n]) => Failed \in Entries(events[n]),
         copies'[n] <= MaxCopies[n], Unread(n)' - Unread(n) <= copies'[n] - copies[n]
  PROVE  AgreeInv'
<1>1. SoundInv' /\ BooksInv' /\ AnswersInv' /\ OnceInv'
  BY SessionsAside DEF OnceInv
<1>2. \A m \in Nodes : Failed \in Entries(events'[m]) => Failed \in Entries(events[m])
  OBVIOUS
<1>3. QuietInv'
  BY <1>2, QuietKept DEF AgreeInv
<1>4. ASSUME NEW e \in EndsOf(n)
      PROVE  session'[e].sent + Offered(e)' + Unread(n)' <= copies'[n]
  <2>1. /\ e \in Ends /\ Node(e) = n /\ session[e].sent \in Nat
        /\ copies[n] \in Nat /\ copies'[n] \in Nat
    BY EndOfNode DEF PathType, SessionType, SessionStates, ServiceType
  <2>2. Unread(n) \in Nat /\ Unread(n)' \in Nat
    <3>1. Unread(n) \in Nat
      BY UnreadType
    <3>2. events'[n] \in Seq(NativeEvents) /\ Len(events'[n]) \in Nat
      BY DEF PathType, ServiceType
    <3>3. /\ Reported(n)' \in {0, 1} /\ Unnoticed(n)' \in {0, 1}
          /\ Reported(n)' = 1 => Len(events'[n]) # 0
      BY <3>2 DEF Reported, Unnoticed, Entries
    <3>4. Unread(n)' \in Nat
      BY <3>2, <3>3 DEF Unread
    <3> QED
      BY <3>1, <3>4
  <2>3. Offered(e) \in {0, 1} /\ Offered(e)' = Offered(e) /\ session'[e] = session[e]
    BY DEF Offered
  <2>4. session[e].sent + Offered(e) + Unread(n) <= copies[n]
    BY <2>1 DEF AgreeInv, NumbersInv
  <2> QED
    BY <2>1, <2>2, <2>3, <2>4
<1>5. NumbersInv'
  BY <1>4, NumbersElsewhere DEF AgreeInv
<1> QED
  BY <1>1, <1>3, <1>5 DEF AgreeInv

LEMMA UserCopiesAgrees ==
  ASSUME PathType, PathType', AgreeInv, NEW n \in Nodes, UserCopies(n)
  PROVE  AgreeInv'
<1>1. /\ copies[n] < MaxCopies[n] /\ copies' = [copies EXCEPT ![n] = @ + 1]
      /\ changed' = [changed EXCEPT ![n] = TRUE]
      /\ UNCHANGED <<session, actions, error, inUse, open, offering, applications, ended,
                     service, events, opened, accepted, alive, control, transfers>>
  BY DEF UserCopies, sessionVars, connectionVars, streamVars
<1>2. copies[n] \in Nat /\ MaxCopies[n] \in Nat /\ copies'[n] = copies[n] + 1 /\ changed'[n] = TRUE
  BY <1>1, CopiesAreBounded DEF PathType, ServiceType
<1>3. \A m \in Nodes \ {n} : changed'[m] = changed[m] /\ copies'[m] = copies[m]
  BY <1>1 DEF PathType, ServiceType
<1>4. Unread(n)' - Unread(n) <= 1
  <2>1. Reported(n)' = Reported(n) /\ Reported(n) \in {0, 1}
        /\ Unnoticed(n) \in {0, 1} /\ Unnoticed(n)' = 1
    BY <1>1, <1>2 DEF Reported, Unnoticed
  <2>2. Len(events[n]) \in Nat /\ events'[n] = events[n]
    BY <1>1 DEF PathType, ServiceType
  <2> QED
    BY <2>1, <2>2 DEF Unread
<1>5. copies'[n] <= MaxCopies[n] /\ copies'[n] - copies[n] = 1
  BY <1>1, <1>2
<1> QED
  BY <1>1, <1>3, <1>4, <1>5, ServiceAgrees

LEMMA ServiceNoticesAgrees ==
  ASSUME PathType, PathType', AgreeInv, NEW n \in Nodes, ServiceNotices(n)
  PROVE  AgreeInv'
<1>1. /\ service[n] /\ changed[n] /\ changed' = [changed EXCEPT ![n] = FALSE]
      /\ Report(n, Changed(native[n])) \/ UNCHANGED events
      /\ UNCHANGED <<session, actions, error, inUse, open, offering, applications, ended,
                     service, copies, opened, accepted, alive, control, transfers>>
  BY DEF ServiceNotices, sessionVars, connectionVars, streamVars
<1>2. PICK x \in NativeEvents : x = Changed(native[n]) /\ x # Applied /\ x # Failed
  <2>1. native[n] \in Texts
    BY <1>1 DEF PathType, ServiceType
  <2> QED
    BY <2>1, EventTypes
<1>3. ~changed'[n] /\ \A m \in Nodes \ {n} : changed'[m] = changed[m]
  BY <1>1 DEF PathType, ServiceType
<1>4. /\ \A m \in Nodes \ {n} : events'[m] = events[m]
      /\ events'[n] = events[n] \/ events'[n] = Append(events[n], x)
  <2>1. CASE Report(n, x)
    BY <1>1, <2>1, ReportEffect
  <2>2. CASE UNCHANGED events
    BY <2>2
  <2> QED
    BY <1>1, <1>2, <2>1, <2>2
<1>5. Failed \in Entries(events'[n]) => Failed \in Entries(events[n])
  <2>1. CASE events'[n] = Append(events[n], x)
    <3>1. events[n] \in Seq(NativeEvents)
      BY DEF PathType, ServiceType
    <3>2. Entries(Append(events[n], x)) = Entries(events[n]) \cup {x}
      BY <3>1, AppendQueue
    <3>3. Entries(events'[n]) = Entries(events[n]) \cup {x}
      BY <2>1, <3>2, Zenon
    <3> QED
      BY <1>2, <3>3
  <2>2. CASE events'[n] = events[n]
    BY <2>2, Zenon
  <2> QED
    BY <1>4, <2>1, <2>2
<1>6. Unread(n) \in Nat /\ Unread(n)' - Unread(n) <= 0
  <2>1. Unread(n) \in Nat
    BY UnreadType
  <2>2. CASE events'[n] = Append(events[n], x)
    <3>1. Unread(n)' = Unread(n)
      BY <1>1, <1>2, <1>3, <2>2, UnreadReported
    <3> QED
      BY <2>1, <3>1
  <2>3. CASE events'[n] = events[n]
    <3>1. /\ Reported(n)' = Reported(n) /\ Reported(n) \in {0, 1}
          /\ Unnoticed(n) = 1 /\ Unnoticed(n)' = 0
      BY <1>1, <1>3, <2>3 DEF Reported, Unnoticed
    <3>2. Len(events[n]) \in Nat
      BY DEF PathType, ServiceType
    <3> QED
      BY <2>1, <2>3, <3>1, <3>2 DEF Unread
  <2> QED
    BY <1>4, <2>1, <2>2, <2>3
<1>7. copies[n] \in Nat /\ copies[n] <= MaxCopies[n] /\ copies' = copies
  BY <1>1 DEF PathType, ServiceType, AgreeInv, NumbersInv
<1>8. copies'[n] <= MaxCopies[n] /\ copies'[n] - copies[n] = 0
  BY <1>7
<1>9. Unread(n)' - Unread(n) <= copies'[n] - copies[n]
  BY <1>6, <1>8
<1>10. \A m \in Nodes \ {n} : /\ events'[m] = events[m] /\ changed'[m] = changed[m]
                              /\ copies'[m] = copies[m]
  BY <1>3, <1>4, <1>7
<1> QED
  BY <1>1, <1>5, <1>8, <1>9, <1>10, ServiceAgrees
LEMMA ServiceAppliesAgrees ==
  ASSUME PathType, PathType', ApplicationsInv, AgreeInv, NEW n \in Nodes, ServiceApplies(n)
  PROVE  AgreeInv'
<1>1. /\ commands[n] # <<>> /\ Report(n, Applied)
      /\ UNCHANGED <<session, actions, error, inUse, open, offering, applications, ended,
                     service, changed, copies, opened, accepted, alive, control, transfers>>
  BY DEF ServiceApplies, sessionVars, connectionVars, streamVars
<1>2. Applied \notin Entries(events[n]) /\ service[n]
  BY <1>1, CalmNode DEF AgreeInv, QuietInv, Unused, ApplicationsInv, WithService
<1>3. /\ events'[n] = Append(events[n], Applied)
      /\ \A m \in Nodes \ {n} : events'[m] = events[m]
  BY <1>1, <1>2, EventTypes, ReportEffect
<1>4. Failed \in Entries(events'[n]) => Failed \in Entries(events[n])
  <2>1. events[n] \in Seq(NativeEvents)
    BY DEF PathType, ServiceType
  <2> QED
    BY <1>3, <2>1, EventTypes, AppendQueue
<1>5. Unread(n) \in Nat /\ Unread(n)' = Unread(n)
  BY <1>1, <1>2, <1>3, EventTypes, UnreadReported, UnreadType
<1>6. copies[n] \in Nat /\ copies[n] <= MaxCopies[n] /\ copies' = copies
  BY <1>1 DEF PathType, ServiceType, AgreeInv, NumbersInv
<1>7. copies'[n] <= MaxCopies[n] /\ Unread(n)' - Unread(n) <= copies'[n] - copies[n]
  BY <1>5, <1>6
<1>8. \A m \in Nodes \ {n} : /\ events'[m] = events[m] /\ changed'[m] = changed[m]
                             /\ copies'[m] = copies[m]
  BY <1>1, <1>3
<1> QED
  BY <1>1, <1>4, <1>7, <1>8, ServiceAgrees

(* What makes a run no longer calm never comes undone.                     *)
LEMMA CalmBefore ==
  ASSUME [Next]_vars, losses \in Nat, failures \in Nat
  PROVE  /\ losses' \in Nat /\ failures' \in Nat /\ (Calm' => Calm)
         /\ \A n \in Nodes : ServiceFails(n) => ~Calm'
         /\ \A a \in Agents, s \in Sessions : Lose(a, s) => ~Calm'
<1>1. \A i \in Nat : i + 1 \in Nat /\ i + 1 # 0
  OBVIOUS
<1>2. ASSUME UNCHANGED vars PROVE UNCHANGED <<losses, failures>>
  BY <1>2 DEF vars, connectionVars
<1>3. ASSUME NEW n \in Nodes, RuntimeStep(n) PROVE UNCHANGED <<losses, failures>>
  BY <1>3 DEF RuntimeStep, NativeChanged, NativeApplied, NativeFailed, Send, QueueApplication,
              OfferChange, TakeControl, TakeTransfer, connectionVars
<1>4. ASSUME NEW n \in Nodes, ServiceStep(n) \/ UserCopies(n)
      PROVE  UNCHANGED <<losses, failures>>
  BY <1>4 DEF ServiceStep, ServiceNotices, ServiceApplies, UserCopies, connectionVars
<1>5. ASSUME NEW n \in Nodes, ServiceFails(n) PROVE failures' = failures + 1 /\ losses' = losses
  BY <1>5 DEF ServiceFails, connectionVars
<1>6. ASSUME NEW a \in Agents, Connect(a) \/ AcceptPeer(a) PROVE UNCHANGED <<losses, failures>>
  BY <1>6 DEF Connect, AcceptPeer
<1>7. ASSUME NEW a \in Agents, NEW s \in Sessions, Lose(a, s)
      PROVE  losses' = losses + 1 /\ failures' = failures
  BY <1>7 DEF Lose
<1>8. /\ \A n \in Nodes : ServiceFails(n) => ~Calm'
      /\ \A a \in Agents, s \in Sessions : Lose(a, s) => ~Calm'
  BY <1>1, <1>5, <1>7 DEF Calm
<1>9. \/ UNCHANGED <<losses, failures>>
      \/ failures' = failures + 1 /\ losses' = losses
      \/ losses' = losses + 1 /\ failures' = failures
  BY <1>2, <1>3, <1>4, <1>5, <1>6, <1>7 DEF Next
<1>10. losses' \in Nat /\ failures' \in Nat /\ (Calm' => Calm)
  BY <1>1, <1>9 DEF Calm
<1> QED
  BY <1>8, <1>10

LEMMA CalmInit == ASSUME Init PROVE CalmInv
<1>1. /\ \A e \in Ends : /\ session[e] = S!NewSession /\ actions[e] = <<>> /\ error[e] = "none"
                         /\ inUse[e] = 0 /\ open[e] = FALSE
      /\ \A e \in Ends, s \in Sessions : control[e][s] = <<>> /\ transfers[e][s] = <<>>
      /\ \A n \in Nodes : /\ offering[n] = NotOffering /\ applications[n] = NoApplications
                          /\ ended[n] = FALSE /\ service[n] = TRUE /\ changed[n] = FALSE
                          /\ events[n] = <<>> /\ copies[n] = 0
      /\ \A a \in Agents : opened[a] = 0 /\ accepted[a] = 0
      /\ alive = [a \in Agents |-> [s \in Sessions |-> FALSE]]
  BY DEF Init, S!Init, NoSession
<1>2. \A e \in Ends : Node(e) \in Nodes /\ Opposite(e) \in Ends /\ Started(e) = 0
  <2> SUFFICES ASSUME NEW e \in Ends
               PROVE  Node(e) \in Nodes /\ Opposite(e) \in Ends /\ Started(e) = 0
    OBVIOUS
  <2> QED
    BY <1>1, EndFacts DEF Started
<1>3. \A e \in Ends : Underway(e) = {} /\ Entries(actions[e]) = {}
  BY <1>1, EmptyQueue DEF Underway
<1>4. QuietInv
  BY <1>1, <1>2, EmptyQueue DEF QuietInv, QuietAt
<1>5. SoundInv
  BY <1>1 DEF SoundInv, Sound, S!NewSession, S!IsApplying
<1>6. NumbersInv
  <2>1. ASSUME NEW n \in Nodes PROVE Unread(n) = 0 /\ MaxCopies[n] \in Nat
    <3>1. Len(events[n]) = 0 /\ Reported(n) = 0 /\ Unnoticed(n) = 0
      <4>1. Applied \notin Entries(events[n])
        BY <1>1, EmptyQueue
      <4> QED
        BY <1>1, <4>1 DEF Reported, Unnoticed
    <3>2. MaxCopies[n] \in Nat
      BY CopiesAreBounded
    <3> QED
      BY <3>1, <3>2 DEF Unread
  <2>2. \A e \in Ends : session[e].sent = 0 /\ Offered(e) = 0
    BY <1>1, <1>2 DEF S!NewSession, Offered, NotOffering
  <2> QED
    BY <1>1, <1>2, <2>1, <2>2 DEF NumbersInv
<1>7. BooksInv
  <2> DEFINE book == [i \in Nat |-> NoText]
  <2>1. book \in [Nat -> Words]
    BY TextTypes
  <2>2. book[0] = NoText
    OBVIOUS
  <2> HIDE DEF book
  <2>3. ASSUME NEW e \in Ends PROVE BookOf(e, book)
    <3>1. session[e].sent = 0
      BY <1>1 DEF S!NewSession
    <3>2. session[Opposite(e)].incoming = S!NoClip /\ session[Opposite(e)].applying = S!NoClip
      BY <1>1, <1>2 DEF S!NewSession
    <3>3. CopiedFrom(S!NoClip, 0, book)
      BY <2>2 DEF CopiedFrom, S!NoClip, S!Clip
    <3> QED
      BY <1>3, <3>1, <3>2, <3>3 DEF BookOf
  <2> QED
    BY <2>1, <2>3 DEF BooksInv
<1>8. AnswersInv
  BY <1>3 DEF AnswersInv
<1>9. OnceInv
  <2>1. ASSUME NEW e \in Ends PROVE OnceAt(e)
    <3>1. /\ applications[Node(e)].pending = NoApplication
          /\ applications[Node(e)].queued = <<>>
      BY <1>1, <1>2 DEF NoApplications
    <3>2. Listed(applications[Node(e)]) = {}
      BY <3>1, EmptyQueue DEF Listed
    <3>3. Returning(e)
      BY <1>1 DEF Returning
    <3>4. OnceIn(applications[Node(e)], e)
      BY <3>1 DEF OnceIn
    <3> QED
      BY <3>2, <3>3, <3>4 DEF OnceAt
  <2> QED
    BY <2>1 DEF OnceInv
<1>10. losses \in Nat /\ failures \in Nat
  BY DEF Init
<1> QED
  BY <1>4, <1>5, <1>6, <1>7, <1>8, <1>9, <1>10 DEF CalmInv, AgreeInv

LEMMA NothingAgrees ==
  ASSUME PathType, PathType', AgreeInv, UNCHANGED vars PROVE AgreeInv'
<1>1. UNCHANGED <<session, actions, error, inUse, open, offering, applications, ended, service,
                  changed, copies, events, opened, accepted, alive, control, transfers>>
  BY DEF vars, sessionVars, serviceVars, connectionVars, streamVars
<1>2. Local \in Nodes
  BY ClipboardPathAssumption
<1>3. copies[Local] \in Nat /\ copies[Local] <= MaxCopies[Local] /\ Unread(Local) \in Nat
  BY <1>2, UnreadType DEF PathType, ServiceType, AgreeInv, NumbersInv
<1>4. Unread(Local)' = Unread(Local) /\ copies'[Local] = copies[Local]
  BY <1>1 DEF Unread, Reported, Unnoticed
<1>5. copies'[Local] <= MaxCopies[Local]
      /\ Unread(Local)' - Unread(Local) <= copies'[Local] - copies[Local]
  BY <1>3, <1>4
<1> QED
  BY <1>1, <1>2, <1>5, ServiceAgrees

LEMMA CalmStep == ASSUME PathType, WrittenInv, CalmInv, [Next]_vars PROVE CalmInv'
<1>1. losses' \in Nat /\ failures' \in Nat
  BY CalmBefore DEF CalmInv
<1> SUFFICES ASSUME Calm' PROVE AgreeInv'
  BY <1>1 DEF CalmInv
<1>2. /\ AgreeInv /\ \A n \in Nodes : ~ServiceFails(n)
      /\ \A a \in Agents, s \in Sessions : ~Lose(a, s)
  BY CalmBefore DEF CalmInv
<1>3. PathType'
  BY TypeStep
<1>4. ApplicationsInv
  <2>1. \A a \in Agents : opened[a] \in {0, 1}
    BY <1>2, AgentEnds DEF AgreeInv, QuietInv, QuietAt
  <2>2. FirstConnections
    BY <2>1 DEF FirstConnections
  <2> QED
    BY <2>2 DEF WrittenInv
<1>5. CASE UNCHANGED vars
  BY <1>2, <1>3, <1>5, NothingAgrees
<1>6. ASSUME NEW n \in Nodes, RuntimeStep(n) PROVE AgreeInv'
  <2>1. CASE NativeChanged(n)
    BY <1>2, <1>3, <2>1, NativeChangedAgrees
  <2>2. CASE NativeApplied(n)
    BY <1>2, <1>3, <1>4, <2>2, NativeAppliedAgrees
  <2>3. CASE NativeFailed(n)
    BY <1>2, <2>3, NativeFailedAgrees
  <2>4. ASSUME NEW e \in EndsOf(n),
               Send(e) \/ QueueApplication(e) \/ OfferChange(e) \/ TakeControl(e) \/ TakeTransfer(e)
        PROVE  AgreeInv'
    <3>1. e \in Ends
      BY EndOfNode
    <3> QED
      BY <1>2, <1>3, <1>4, <2>4, <3>1, SendAgrees, QueueApplicationAgrees, OfferChangeAgrees,
         TakeControlAgrees, TakeTransferAgrees
  <2> QED
    BY <1>6, <2>1, <2>2, <2>3, <2>4 DEF RuntimeStep
<1>7. ASSUME NEW n \in Nodes, ServiceStep(n) \/ UserCopies(n) PROVE AgreeInv'
  BY <1>2, <1>3, <1>4, <1>7, ServiceNoticesAgrees, ServiceAppliesAgrees, UserCopiesAgrees
  DEF ServiceStep
<1>8. ASSUME NEW a \in Agents, Connect(a) \/ AcceptPeer(a) PROVE AgreeInv'
  BY <1>2, <1>3, <1>8, ConnectAgrees, AcceptPeerAgrees
<1> QED
  BY <1>2, <1>5, <1>6, <1>7, <1>8 DEF Next

(* As long as no connection is lost and no service fails, no runtime meets *)
(* an error, however many copies are made on whatever nodes: no session    *)
(* rejects what the other end sends, and the service confirms only what it *)
(* was asked for.                                                          *)
THEOREM RuntimesAgree == Spec => []SessionsAgree
<1>1. Init => PathType /\ WrittenInv /\ CalmInv
  BY TypeInit, WrittenInit, CalmInit
<1>2. PathType /\ WrittenInv /\ CalmInv /\ [Next]_vars => PathType' /\ WrittenInv' /\ CalmInv'
  BY TypeStep, WrittenStep, CalmStep
<1>3. CalmInv => SessionsAgree
  <2> SUFFICES ASSUME CalmInv, Calm, NEW n \in Nodes PROVE ~Ended(n)
    BY DEF SessionsAgree, Calm
  <2>1. QuietInv
    BY DEF CalmInv, AgreeInv
  <2> QED
    BY <2>1, EndOfNode DEF Ended, QuietInv, QuietAt
<1> QED
  BY <1>1, <1>2, <1>3, PTL DEF Spec

=============================================================================
