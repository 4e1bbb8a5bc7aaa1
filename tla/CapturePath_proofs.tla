-------------------------- MODULE CapturePath_proofs --------------------------
(***************************************************************************)
(* The stream of events of the capture service, for any edges, keys and    *)
(* queues, and whoever owns it.                                            *)
(***************************************************************************)
EXTENDS CapturePath, TLAPS

Downs == SUBSET Keys

ReleaseEvents ==
  {[kind |-> "Releases", keys |-> keys, down |-> down] :
     keys \in Downs, down \in Downs}

ServiceEvents ==
  {Event(kind, down) :
     kind \in {"Ready", "DesktopChanged", "Released", "Failed", "Stopped"},
     down \in Downs}
  \cup {Activated(edge, down) : edge \in Edges, down \in Downs}
  \cup {Captured(key, press, down) :
          key \in Keys \cup {Motion}, press \in BOOLEAN, down \in Downs}
  \cup ReleaseEvents

Inputs == {Input(key, press) : key \in Keys \cup {Motion}, press \in BOOLEAN}
Signals == {Activation(edge) : edge \in Edges} \cup {ZonesChanged}
NativeEvents == Inputs \cup Signals \cup {Failure}

(* Nobody who took the events up to this one holds a key, if it is one     *)
(* that gives capture up.                                                  *)
Settled(event) ==
  event.kind \in {"Released", "DesktopChanged", "Stopped"} => event.down = {}

AllSettled(queue) == \A i \in 1 .. Len(queue) : Settled(queue[i])

(* What is down for the owner is what the service holds; the rest types    *)
(* the queues between the tasks, the worker and the owner.                 *)
CaptureInv ==
  /\ held \in Downs /\ reported = held
  /\ events \in Seq(ServiceEvents) /\ AllSettled(events)
  /\ eis \in Seq(Inputs) /\ signals \in Seq(Signals)
  /\ native \in Seq(NativeEvents)

-----------------------------------------------------------------------------

LEMMA LastOfOne ==
  ASSUME NEW event
  PROVE  DownAfter(<<event>>, reported) = event.down
BY DEF DownAfter, Last

(* A single event that is settled leaves every event settled.              *)
LEMMA ReportOne ==
  ASSUME NEW event \in ServiceEvents, Settled(event), Report(<<event>>),
         events \in Seq(ServiceEvents), AllSettled(events)
  PROVE  /\ events' \in Seq(ServiceEvents) /\ AllSettled(events')
         /\ reported' = event.down
<1>1. events' = Append(events, event)
  BY DEF Report
<1> QED
  BY <1>1, LastOfOne DEF Report, AllSettled

LEMMA KindOfEvent ==
  ASSUME NEW kind, NEW down
  PROVE  Event(kind, down).kind = kind /\ Event(kind, down).down = down
BY DEF Event

(* What emit_capture_releases reports leaves no key down.                  *)
LEMMA ReleasesSettle ==
  ASSUME held \in Downs, reported = held
  PROVE  /\ Releases \in Seq(ServiceEvents) /\ AllSettled(Releases)
         /\ DownAfter(Releases, reported) = {}
<1>1. CASE held = {}
  BY <1>1 DEF Releases, AllSettled, DownAfter
<1>2. CASE held # {}
  <2> DEFINE event == [kind |-> "Releases", keys |-> held, down |-> {}]
  <2>1. Releases = <<event>>
    <3>1. held \ held = {}
      OBVIOUS
    <3> QED
      BY <1>2, <3>1 DEF Releases
  <2>2. event \in ServiceEvents
    <3>1. {} \in Downs
      BY DEF Downs
    <3>2. event \in ReleaseEvents
      BY <3>1 DEF ReleaseEvents
    <3> HIDE DEF event
    <3> QED
      BY <3>2 DEF ServiceEvents
  <2>3. Settled(event) /\ event.down = {}
    BY DEF Settled
  <2> HIDE DEF event
  <2> QED
    BY <2>1, <2>2, <2>3, LastOfOne DEF AllSettled
<1> QED
  BY <1>1, <1>2

(* Nothing, or the releases alone.                                         *)
LEMMA ReportReleases ==
  ASSUME CaptureInv, Report(Releases)
  PROVE  /\ events' \in Seq(ServiceEvents) /\ AllSettled(events')
         /\ reported' = {}
<1>1. /\ Releases \in Seq(ServiceEvents) /\ AllSettled(Releases)
      /\ DownAfter(Releases, reported) = {}
  BY ReleasesSettle DEF CaptureInv
<1>2. events' = events \o Releases
  BY DEF Report
<1>3. events' \in Seq(ServiceEvents)
  BY <1>1, <1>2 DEF CaptureInv
<1>4. ASSUME NEW i \in 1 .. Len(events')
      PROVE  Settled(events'[i])
  <2>1. CASE i \in 1 .. Len(events)
    BY <1>1, <1>2, <2>1 DEF CaptureInv, AllSettled
  <2>2. CASE i \notin 1 .. Len(events)
    <3>1. /\ i - Len(events) \in 1 .. Len(Releases)
          /\ events'[i] = Releases[i - Len(events)]
      BY <1>1, <1>2, <1>4, <2>2 DEF CaptureInv
    <3> QED
      BY <1>1, <3>1 DEF AllSettled
  <2> QED
    BY <2>1, <2>2
<1> QED
  BY <1>1, <1>3, <1>4 DEF Report, AllSettled

(* What is reported after the releases is settled, whatever it is.         *)
LEMMA ReportAfterReleases ==
  ASSUME CaptureInv,
         NEW before \in Seq(ServiceEvents), AllSettled(before),
         NEW after \in Seq(ServiceEvents), AllSettled(after),
         after # <<>>, after[Len(after)].down = {},
         ReleaseThenReport(before, after)
  PROVE  /\ events' \in Seq(ServiceEvents) /\ AllSettled(events')
         /\ reported' = {}
<1> DEFINE new == before \o Releases \o after
<1>1. /\ Releases \in Seq(ServiceEvents) /\ AllSettled(Releases)
      /\ DownAfter(Releases, reported) = {}
  BY ReleasesSettle DEF CaptureInv
<1>3. /\ new \in Seq(ServiceEvents) /\ new # <<>>
      /\ Len(new) = Len(before) + Len(Releases) + Len(after)
      /\ new[Len(new)] = after[Len(after)]
  BY <1>1
<1>4. ASSUME NEW i \in 1 .. Len(new) PROVE Settled(new[i])
  <2>1. CASE i \in 1 .. Len(before)
    BY <1>1, <2>1 DEF AllSettled
  <2>2. CASE i \in Len(before) + 1 .. Len(before) + Len(Releases)
    <3>1. /\ i - Len(before) \in 1 .. Len(Releases)
          /\ new[i] = Releases[i - Len(before)]
      BY <1>1, <2>2
    <3> QED
      BY <1>1, <3>1 DEF AllSettled
  <2>3. CASE i \in Len(before) + Len(Releases) + 1 .. Len(new)
    <3>1. /\ i - (Len(before) + Len(Releases)) \in 1 .. Len(after)
          /\ new[i] = after[i - (Len(before) + Len(Releases))]
      BY <1>1, <1>3, <2>3
    <3> QED
      BY <3>1 DEF AllSettled
  <2> QED
    BY <1>1, <1>3, <2>1, <2>2, <2>3
<1>5. events' = events \o new /\ reported' = DownAfter(new, reported)
  BY DEF ReleaseThenReport, Report
<1> HIDE DEF new
<1>6. reported' = {}
  BY <1>3, <1>5 DEF DownAfter, Last
<1>7. ASSUME NEW i \in 1 .. Len(events') PROVE Settled(events'[i])
  <2>1. CASE i \in 1 .. Len(events)
    BY <1>3, <1>5, <2>1 DEF CaptureInv, AllSettled
  <2>2. CASE i \notin 1 .. Len(events)
    <3>1. /\ i - Len(events) \in 1 .. Len(new)
          /\ events'[i] = new[i - Len(events)]
      BY <1>3, <1>5, <1>7, <2>2 DEF CaptureInv
    <3> QED
      BY <1>4, <3>1
  <2> QED
    BY <2>1, <2>2
<1> QED
  BY <1>3, <1>5, <1>6, <1>7 DEF CaptureInv, AllSettled

-----------------------------------------------------------------------------

(* What the service reports when it has given capture up.                  *)
LEMMA GivenUpSettles ==
  ASSUME CaptureInv,
         NEW kind \in {"Failed", "Released", "DesktopChanged", "Stopped"}
  PROVE  /\ GivenUp(kind) \in ServiceEvents
         /\ Settled(GivenUp(kind)) /\ GivenUp(kind).down = {}
<1>1. GivenUp(kind) = Event(kind, {})
  BY ReleasesSettle DEF GivenUp, CaptureInv
<1>2. {} \in Downs
  BY DEF Downs
<1> QED
  BY <1>1, <1>2, KindOfEvent DEF ServiceEvents, Settled

LEMMA ReportGivenUp ==
  ASSUME CaptureInv,
         NEW kind \in {"Failed", "Released", "DesktopChanged"},
         ReleaseThenReport(<<>>, <<GivenUp(kind)>>)
  PROVE  /\ events' \in Seq(ServiceEvents) /\ AllSettled(events')
         /\ reported' = {}
<1> DEFINE after == <<GivenUp(kind)>>
<1>1. <<>> \in Seq(ServiceEvents) /\ AllSettled(<<>>)
  BY DEF AllSettled
<1>2. /\ GivenUp(kind) \in ServiceEvents
      /\ Settled(GivenUp(kind)) /\ GivenUp(kind).down = {}
  BY GivenUpSettles
<1>3. /\ after \in Seq(ServiceEvents) /\ AllSettled(after)
      /\ after # <<>> /\ after[Len(after)].down = {}
  BY <1>2 DEF AllSettled
<1> HIDE DEF after
<1>4. ReleaseThenReport(<<>>, after)
  BY DEF after
<1> QED
  BY <1>1, <1>3, <1>4, ReportAfterReleases

LEMMA EnvironmentKeeps ==
  ASSUME CaptureInv, Environment
  PROVE  CaptureInv'
<1> USE DEF CaptureInv, service
<1>1. ASSUME NEW edge \in Edges, CompositorActivates(edge) PROVE CaptureInv'
  <2>1. Activation(edge) \in Signals
    BY DEF Signals
  <2> QED
    BY <1>1, <2>1 DEF CompositorActivates, AllSettled
<1>2. ASSUME NEW key \in Keys \cup {Motion}, NEW press \in BOOLEAN,
             UserInput(key, press)
      PROVE  CaptureInv'
  <2>1. Input(key, press) \in Inputs
    BY DEF Inputs
  <2> QED
    BY <1>2, <2>1 DEF UserInput, AllSettled
<1>3. CASE CompositorChangesZones
  <2>1. ZonesChanged \in Signals
    BY DEF Signals
  <2> QED
    BY <1>3, <2>1 DEF CompositorChangesZones, AllSettled
<1>4. CASE NativeFails
  <2>1. Failure \in NativeEvents
    BY DEF NativeEvents
  <2> QED
    BY <1>4, <2>1 DEF NativeFails, AllSettled
<1> QED
  BY <1>1, <1>2, <1>3, <1>4 DEF Environment

LEMMA WorkerKeeps ==
  ASSUME CaptureInv, Worker
  PROVE  CaptureInv'
<1>1. {} \in Downs
  BY DEF Downs
<1>2. CASE ReadSignal
  <2>1. Head(signals) \in NativeEvents
    BY <1>2 DEF ReadSignal, CaptureInv, NativeEvents
  <2> QED
    BY <1>2, <2>1 DEF ReadSignal, CaptureInv, service, AllSettled
<1>3. CASE ReadInput
  <2>1. Head(eis) \in NativeEvents
    BY <1>3 DEF ReadInput, CaptureInv, NativeEvents
  <2> QED
    BY <1>3, <2>1 DEF ReadInput, CaptureInv, service, AllSettled
<1>4. CASE TakeConfigure
  <2>1. CASE UNCHANGED <<held, events, reported>>
    BY <1>4, <2>1 DEF TakeConfigure, CaptureInv, tasks, AllSettled
  <2>2. CASE StopAccepting /\ Report(Releases)
    BY <1>1, <1>4, <2>2, ReportReleases
       DEF TakeConfigure, CaptureInv, tasks, StopAccepting
  <2>3. CASE /\ StopAccepting
             /\ ReleaseThenReport(<<>>, <<GivenUp("Failed")>>)
    BY <1>1, <1>4, <2>3, ReportGivenUp
       DEF TakeConfigure, CaptureInv, tasks, StopAccepting
  <2> QED
    BY <1>4, <2>1, <2>2, <2>3 DEF TakeConfigure
<1>5. CASE TakeRelease
  <2>2. /\ events' \in Seq(ServiceEvents) /\ AllSettled(events')
        /\ reported' = {}
    BY <1>5, ReportGivenUp DEF TakeRelease
  <2> QED
    BY <1>1, <1>5, <2>2 DEF TakeRelease, CaptureInv, tasks, StopAccepting
<1>6. CASE TakeActivation
  <2>1. native' \in Seq(NativeEvents)
    BY <1>6 DEF TakeActivation, CaptureInv
  <2>2. CASE UNCHANGED <<events, reported>>
    BY <1>6, <2>1, <2>2 DEF TakeActivation, CaptureInv, AllSettled
  <2>3. CASE Report(<<Activated(Head(native).edge, reported)>>)
    <3> DEFINE event == Activated(Head(native).edge, reported)
    <3>1. Head(native) \in NativeEvents /\ Head(native).kind = "Activated"
      BY <1>6 DEF TakeActivation, CaptureInv
    <3>2. PICK edge \in Edges : Head(native) = Activation(edge)
      BY <3>1 DEF NativeEvents, Inputs, Signals, Input, ZonesChanged, Failure
    <3>3. event = Activated(edge, reported)
      BY <3>2 DEF Activation
    <3>4. event \in ServiceEvents
      BY <3>3 DEF ServiceEvents, CaptureInv
    <3>5. Settled(event) /\ event.down = reported
      BY DEF Settled, Activated
    <3> HIDE DEF event
    <3>6. /\ events' \in Seq(ServiceEvents) /\ AllSettled(events')
          /\ reported' = reported
      BY <2>3, <3>4, <3>5, ReportOne DEF CaptureInv, event
    <3> QED
      BY <1>6, <2>1, <3>6 DEF TakeActivation, CaptureInv
  <2>4. CASE Report(<<Event("Failed", reported)>>)
    <3> DEFINE event == Event("Failed", reported)
    <3>1. event \in ServiceEvents
      BY DEF ServiceEvents, CaptureInv
    <3>2. Settled(event) /\ event.down = reported
      BY KindOfEvent DEF Settled
    <3> HIDE DEF event
    <3>3. /\ events' \in Seq(ServiceEvents) /\ AllSettled(events')
          /\ reported' = reported
      BY <2>4, <3>1, <3>2, ReportOne DEF CaptureInv, event
    <3> QED
      BY <1>6, <2>1, <3>3 DEF TakeActivation, CaptureInv
  <2> QED
    BY <1>6, <2>2, <2>3, <2>4 DEF TakeActivation
<1>7. CASE TakeInput
  <2>1. native' \in Seq(NativeEvents)
    BY <1>7 DEF TakeInput, CaptureInv
  <2>2. CASE UNCHANGED <<held, events, reported>>
    BY <1>7, <2>1, <2>2 DEF TakeInput, CaptureInv, AllSettled
  <2>3. CASE /\ held' = Observe(Head(native).key, Head(native).press)
             /\ Report(<<Captured(Head(native).key, Head(native).press,
                                  Toggled(reported, Head(native).key,
                                          Head(native).press))>>)
    <3>1. Head(native) \in NativeEvents /\ Head(native).kind = "Input"
      BY <1>7 DEF TakeInput, CaptureInv
    <3>2. PICK key \in Keys \cup {Motion}, press \in BOOLEAN :
            Head(native) = Input(key, press)
      BY <3>1 DEF NativeEvents, Inputs, Signals, Activation, ZonesChanged, Failure
    <3>3. Head(native).key = key /\ Head(native).press = press
      BY <3>2 DEF Input
    <3> DEFINE down == Toggled(held, key, press)
               event == Captured(key, press, down)
    <3>4. held' = down /\ down \in Downs
      BY <1>7, <2>3, <3>3 DEF TakeInput, Observe, Toggled, CaptureInv, Downs
    <3>5. event \in ServiceEvents
      BY <3>4 DEF ServiceEvents
    <3>6. Settled(event) /\ event.down = down
      BY DEF Settled, Captured
    <3>7. Report(<<event>>)
      BY <1>7, <2>3, <3>3 DEF TakeInput, CaptureInv
    <3> HIDE DEF event, down
    <3>8. /\ events' \in Seq(ServiceEvents) /\ AllSettled(events')
          /\ reported' = down
      BY <3>5, <3>6, <3>7, ReportOne DEF CaptureInv
    <3> QED
      BY <1>7, <2>1, <3>4, <3>8 DEF TakeInput, CaptureInv
  <2>4. CASE held' = held /\ Report(<<Event("Failed", reported)>>)
    <3> DEFINE event == Event("Failed", reported)
    <3>1. event \in ServiceEvents
      BY DEF ServiceEvents, CaptureInv
    <3>2. Settled(event) /\ event.down = reported
      BY KindOfEvent DEF Settled
    <3> HIDE DEF event
    <3>3. /\ events' \in Seq(ServiceEvents) /\ AllSettled(events')
          /\ reported' = reported
      BY <2>4, <3>1, <3>2, ReportOne DEF CaptureInv, event
    <3> QED
      BY <1>7, <2>1, <2>4, <3>3 DEF TakeInput, CaptureInv
  <2> QED
    BY <1>7, <2>2, <2>3, <2>4 DEF TakeInput
<1>8. CASE TakeZonesChanged
  <2> DEFINE after == <<GivenUp("Failed"), GivenUp("DesktopChanged")>>
  <2>1. <<>> \in Seq(ServiceEvents) /\ AllSettled(<<>>)
    BY DEF AllSettled
  <2>2. /\ after \in Seq(ServiceEvents) /\ AllSettled(after)
        /\ after # <<>> /\ after[Len(after)].down = {}
    BY GivenUpSettles DEF AllSettled
  <2> HIDE DEF after
  <2>3. \/ ReleaseThenReport(<<>>, <<GivenUp("DesktopChanged")>>)
        \/ ReleaseThenReport(<<>>, after)
    BY <1>8 DEF TakeZonesChanged, after
  <2>4. /\ events' \in Seq(ServiceEvents) /\ AllSettled(events')
        /\ reported' = {}
    BY <2>1, <2>2, <2>3, ReportGivenUp, ReportAfterReleases
  <2> QED
    BY <1>1, <1>8, <2>4 DEF TakeZonesChanged, CaptureInv, StopAccepting
<1>9. CASE TakeFailure
  <2> DEFINE before == <<Event("Failed", reported)>>
  <2>1. Event("Failed", reported) \in ServiceEvents
    BY DEF ServiceEvents, CaptureInv
  <2>2. Settled(Event("Failed", reported))
    BY DEF Settled, Event
  <2>3. before \in Seq(ServiceEvents) /\ AllSettled(before)
    BY <2>1, <2>2 DEF AllSettled
  <2> DEFINE after == <<GivenUp("Stopped")>>
  <2>4. ReleaseThenReport(before, after)
    BY <1>9 DEF TakeFailure
  <2>6. /\ after \in Seq(ServiceEvents) /\ AllSettled(after)
        /\ after # <<>> /\ after[Len(after)].down = {}
    BY GivenUpSettles DEF AllSettled
  <2> HIDE DEF before, after
  <2>5. /\ events' \in Seq(ServiceEvents) /\ AllSettled(events')
        /\ reported' = {}
    BY <2>3, <2>4, <2>6, ReportAfterReleases
  <2> QED
    BY <1>1, <1>9, <2>5 DEF TakeFailure, CaptureInv
<1> QED
  BY <1>2, <1>3, <1>4, <1>5, <1>6, <1>7, <1>8, <1>9 DEF Worker

LEMMA ClientKeeps ==
  ASSUME CaptureInv, Client
  PROVE  CaptureInv'
<1>1. CASE UNCHANGED events
  BY <1>1 DEF Client, CaptureInv, nativeVars, service, tasks, AllSettled
<1>2. CASE events # <<>> /\ events' = Tail(events)
  <2>1. /\ events' \in Seq(ServiceEvents) /\ Len(events') = Len(events) - 1
        /\ \A i \in 1 .. Len(events') : events'[i] = events[i + 1]
    BY <1>2 DEF CaptureInv
  <2>2. AllSettled(events')
    BY <1>2, <2>1 DEF CaptureInv, AllSettled
  <2> QED
    BY <2>1, <2>2 DEF Client, CaptureInv, nativeVars, service, tasks
<1> QED
  BY <1>1, <1>2 DEF Client

(* Whatever order commands, activations and input reach the worker in,     *)
(* capture is given up with every key released.                            *)
THEOREM CaptureReleasesKeys == CaptureSpec => []KeysReleasedBeforeGivingUp
<1>1. CaptureInit => CaptureInv
  <2> SUFFICES ASSUME CaptureInit PROVE CaptureInv
    OBVIOUS
  <2>1. {} \in Downs
    BY DEF Downs
  <2>2. /\ Event("DesktopChanged", {}) \in ServiceEvents
        /\ Event("Ready", {}) \in ServiceEvents
    BY <2>1 DEF ServiceEvents
  <2>3. Settled(Event("DesktopChanged", {})) /\ Settled(Event("Ready", {}))
    BY KindOfEvent DEF Settled
  <2> QED
    BY <2>1, <2>2, <2>3 DEF CaptureInit, CaptureInv, AllSettled
<1>2. CaptureInv /\ [CaptureNext]_captureVars => CaptureInv'
  <2>1. CaptureInv /\ UNCHANGED captureVars => CaptureInv'
    BY DEF captureVars, nativeVars, service, tasks, CaptureInv, AllSettled
  <2> QED
    BY <2>1, EnvironmentKeeps, WorkerKeeps, ClientKeeps DEF CaptureNext
<1>3. CaptureInv => KeysReleasedBeforeGivingUp
  BY DEF CaptureInv, KeysReleasedBeforeGivingUp, AllSettled, Settled
<1> QED
  BY <1>1, <1>2, <1>3, PTL DEF CaptureSpec

-----------------------------------------------------------------------------
(* The path: what an event says is down follows from what was down for a   *)
(* reader of the events before it.                                         *)

Follows(before, event) ==
  event.down = CASE event.kind = "Input" -> Toggled(before, event.key, event.press)
                 [] event.kind = "Releases" -> before \ event.keys
                 [] OTHER -> before

DownBefore(queue, i, before) == IF i = 1 THEN before ELSE queue[i - 1].down

Chained(queue, before) ==
  \A i \in 1 .. Len(queue) : Follows(DownBefore(queue, i, before), queue[i])

(* The reader has taken some of the events; those that wait take it from   *)
(* there to what is reported.  The flags of the shortcut are the reader's. *)
PathInv ==
  /\ CaptureInv
  /\ seen \in Downs
  /\ Chained(events, seen)
  /\ reported = DownAfter(events, seen)
  /\ ReturnsOnlyOnShortcut

LEMMA ChainsJoin ==
  ASSUME NEW queue \in Seq(ServiceEvents), NEW new \in Seq(ServiceEvents), NEW before,
         Chained(queue, before), Chained(new, DownAfter(queue, before))
  PROVE  /\ Chained(queue \o new, before)
         /\ DownAfter(queue \o new, before) = DownAfter(new, DownAfter(queue, before))
<1>1. ASSUME NEW i \in 1 .. Len(queue \o new)
      PROVE  Follows(DownBefore(queue \o new, i, before), (queue \o new)[i])
  <2>1. CASE i \in 1 .. Len(queue)
    <3>1. /\ (queue \o new)[i] = queue[i]
          /\ DownBefore(queue \o new, i, before) = DownBefore(queue, i, before)
      BY <2>1 DEF DownBefore
    <3> QED
      BY <2>1, <3>1 DEF Chained
  <2>2. CASE i \notin 1 .. Len(queue)
    <3> DEFINE j == i - Len(queue)
    <3>1. j \in 1 .. Len(new) /\ (queue \o new)[i] = new[j]
      BY <2>2
    <3>2. DownBefore(queue \o new, i, before) = DownBefore(new, j, DownAfter(queue, before))
      <4>1. CASE j = 1 /\ queue = <<>>
        BY <2>2, <4>1 DEF DownBefore, DownAfter
      <4>2. CASE j = 1 /\ queue # <<>>
        BY <2>2, <4>2 DEF DownBefore, DownAfter, Last
      <4>3. CASE j # 1
        <5>1. i - 1 \in 1 .. Len(queue \o new) /\ i - 1 > Len(queue) /\ j - 1 = (i - 1) - Len(queue)
          BY <3>1, <4>3
        <5>2. (queue \o new)[i - 1] = new[j - 1]
          BY <5>1
        <5> QED
          BY <2>2, <3>1, <4>3, <5>1, <5>2 DEF DownBefore
      <4> QED
        BY <4>1, <4>2, <4>3
    <3> HIDE DEF j
    <3> QED
      BY <3>1, <3>2 DEF Chained
  <2> QED
    BY <2>1, <2>2
<1>2. DownAfter(queue \o new, before) = DownAfter(new, DownAfter(queue, before))
  <2>1. CASE new = <<>>
    BY <2>1 DEF DownAfter, Last
  <2>2. CASE new # <<>>
    <3>1. queue \o new # <<>> /\ Last(queue \o new) = Last(new)
      BY <2>2 DEF Last
    <3> QED
      BY <2>2, <3>1 DEF DownAfter
  <2> QED
    BY <2>1, <2>2
<1> QED
  BY <1>1, <1>2 DEF Chained

(* One event, and one event after the releases.                            *)
LEMMA ChainOfOne ==
  ASSUME NEW event, NEW before, Follows(before, event)
  PROVE  Chained(<<event>>, before)
BY DEF Chained, DownBefore

LEMMA ChainOfReleases ==
  ASSUME CaptureInv
  PROVE  Chained(Releases, reported)
<1>1. CASE held = {}
  BY <1>1 DEF Releases, Chained
<1>2. CASE held # {}
  <2> DEFINE event == [kind |-> "Releases", keys |-> held, down |-> reported \ held]
  <2>1. Releases = <<event>>
    BY <1>2 DEF Releases
  <2>2. Follows(reported, event)
    BY DEF Follows
  <2> QED
    BY <2>1, <2>2, ChainOfOne
<1> QED
  BY <1>1, <1>2

LEMMA ReportChains ==
  ASSUME PathInv,
         NEW new \in Seq(ServiceEvents), Chained(new, reported), Report(new)
  PROVE  Chained(events', seen) /\ reported' = DownAfter(events', seen)
<1>1. events' = events \o new /\ reported' = DownAfter(new, reported)
  BY DEF Report
<1>2. /\ events \in Seq(ServiceEvents) /\ Chained(events, seen)
      /\ reported = DownAfter(events, seen)
  BY DEF PathInv, CaptureInv
<1> QED
  BY <1>1, <1>2, ChainsJoin

LEMMA NothingReported ==
  ASSUME PathInv, UNCHANGED <<events, reported>>
  PROVE  Chained(events', seen) /\ reported' = DownAfter(events', seen)
BY DEF PathInv, Chained, DownBefore, DownAfter, Last

(* What the service reports when it gives capture up.                      *)
LEMMA GivenUpChains ==
  ASSUME PathInv,
         NEW before \in Seq(ServiceEvents), Chained(before, reported),
         DownAfter(before, reported) = reported,
         NEW after \in Seq(ServiceEvents), Chained(after, {}),
         ReleaseThenReport(before, after)
  PROVE  Chained(events', seen) /\ reported' = DownAfter(events', seen)
<1>1. /\ Releases \in Seq(ServiceEvents) /\ DownAfter(Releases, reported) = {}
      /\ Chained(Releases, reported)
  BY ReleasesSettle, ChainOfReleases DEF PathInv, CaptureInv
<1>2. /\ Chained(before \o Releases, reported)
      /\ DownAfter(before \o Releases, reported) = {}
  BY <1>1, ChainsJoin
<1>3. before \o Releases \in Seq(ServiceEvents)
  BY <1>1
<1> DEFINE first == before \o Releases
           new == first \o after
<1>4. Chained(new, reported)
  <2> HIDE DEF first
  <2>1. /\ first \in Seq(ServiceEvents) /\ Chained(first, reported)
        /\ DownAfter(first, reported) = {}
    BY <1>2, <1>3 DEF first
  <2> QED
    BY <2>1, ChainsJoin
<1>5. new \in Seq(ServiceEvents)
  BY <1>3
<1>6. Report(new)
  BY <1>1 DEF ReleaseThenReport
<1> HIDE DEF new
<1> QED
  BY <1>4, <1>5, <1>6, ReportChains

LEMMA OneGivenUpChains ==
  ASSUME PathInv,
         NEW kind \in {"Failed", "Released", "DesktopChanged"},
         ReleaseThenReport(<<>>, <<GivenUp(kind)>>)
  PROVE  Chained(events', seen) /\ reported' = DownAfter(events', seen)
<1> DEFINE event == GivenUp(kind)
           after == <<event>>
<1>1. event \in ServiceEvents
  BY GivenUpSettles DEF PathInv
<1>2. Follows({}, event)
  BY GivenUpSettles DEF PathInv, Follows, GivenUp, Event
<1>3. after \in Seq(ServiceEvents)
  BY <1>1
<1> HIDE DEF event
<1>4. Chained(after, {})
  BY <1>2, ChainOfOne
<1>5. /\ <<>> \in Seq(ServiceEvents) /\ Chained(<<>>, reported)
      /\ DownAfter(<<>>, reported) = reported
  BY DEF Chained, DownAfter
<1>6. ReleaseThenReport(<<>>, after)
  BY DEF event
<1> HIDE DEF after
<1> QED
  BY <1>3, <1>4, <1>5, <1>6, GivenUpChains

(* A report that leaves down what was down.                                *)
LEMMA NoticeChains ==
  ASSUME PathInv,
         NEW event \in ServiceEvents, event.kind \notin {"Input", "Releases"},
         event.down = reported, Report(<<event>>)
  PROVE  Chained(events', seen) /\ reported' = DownAfter(events', seen)
<1>1. Follows(reported, event)
  BY DEF Follows
<1>2. Chained(<<event>>, reported) /\ <<event>> \in Seq(ServiceEvents)
  BY <1>1, ChainOfOne
<1> QED
  BY <1>2, ReportChains

LEMMA FailureIsNotice ==
  ASSUME CaptureInv
  PROVE  /\ Event("Failed", reported) \in ServiceEvents
         /\ Event("Failed", reported).kind = "Failed"
         /\ Event("Failed", reported).down = reported
BY KindOfEvent DEF ServiceEvents, CaptureInv

LEMMA WorkerChains ==
  ASSUME PathInv, Worker
  PROVE  Chained(events', seen) /\ reported' = DownAfter(events', seen)
<1> DEFINE Result == Chained(events', seen) /\ reported' = DownAfter(events', seen)
           failed == Event("Failed", reported)
<1>0. CaptureInv
  BY DEF PathInv
<1>f. ASSUME Report(<<failed>>) PROVE Result
  <2>1. /\ failed \in ServiceEvents /\ failed.kind = "Failed" /\ failed.down = reported
    BY <1>0, FailureIsNotice
  <2> HIDE DEF failed
  <2> QED
    BY <1>f, <2>1, NoticeChains
<1>1. CASE ReadSignal \/ ReadInput
  BY <1>1, NothingReported DEF ReadSignal, ReadInput, service
<1>2. CASE TakeConfigure
  <2>1. CASE UNCHANGED <<events, reported>>
    BY <2>1, NothingReported
  <2>2. CASE Report(Releases)
    <3>1. Releases \in Seq(ServiceEvents) /\ Chained(Releases, reported)
      BY <1>0, ReleasesSettle, ChainOfReleases DEF CaptureInv
    <3> QED
      BY <2>2, <3>1, ReportChains
  <2>3. CASE ReleaseThenReport(<<>>, <<GivenUp("Failed")>>)
    BY <2>3, OneGivenUpChains
  <2> QED
    BY <1>2, <2>1, <2>2, <2>3 DEF TakeConfigure
<1>3. CASE TakeRelease
  BY <1>3, OneGivenUpChains DEF TakeRelease
<1>4. CASE TakeActivation
  <2>1. CASE UNCHANGED <<events, reported>>
    BY <2>1, NothingReported
  <2>2. CASE Report(<<Activated(Head(native).edge, reported)>>)
    <3> DEFINE event == Activated(Head(native).edge, reported)
    <3>1. Head(native) \in NativeEvents /\ Head(native).kind = "Activated"
      BY <1>0, <1>4 DEF TakeActivation, CaptureInv
    <3>2. PICK edge \in Edges : Head(native) = Activation(edge)
      BY <3>1 DEF NativeEvents, Inputs, Signals, Input, ZonesChanged, Failure
    <3>3. event = Activated(edge, reported)
      BY <3>2 DEF Activation
    <3>4. event \in ServiceEvents
      BY <1>0, <3>3 DEF ServiceEvents, CaptureInv
    <3>5. event.kind = "Activated" /\ event.down = reported
      BY DEF Activated
    <3> HIDE DEF event
    <3> QED
      BY <2>2, <3>4, <3>5, NoticeChains DEF event
  <2> QED
    BY <1>f, <1>4, <2>1, <2>2 DEF TakeActivation
<1>5. CASE TakeInput
  <2>1. CASE UNCHANGED <<events, reported>>
    BY <2>1, NothingReported
  <2>2. CASE Report(<<Captured(Head(native).key, Head(native).press,
                               Toggled(reported, Head(native).key,
                                       Head(native).press))>>)
    <3>1. Head(native) \in NativeEvents /\ Head(native).kind = "Input"
      BY <1>0, <1>5 DEF TakeInput, CaptureInv
    <3>2. PICK key \in Keys \cup {Motion}, press \in BOOLEAN :
            Head(native) = Input(key, press)
      BY <3>1 DEF NativeEvents, Inputs, Signals, Activation, ZonesChanged, Failure
    <3>3. Head(native).key = key /\ Head(native).press = press
      BY <3>2 DEF Input
    <3> DEFINE down == Toggled(reported, key, press)
               event == Captured(key, press, down)
    <3>4. down \in Downs
      BY <1>0 DEF Toggled, CaptureInv, Downs
    <3>5. event \in ServiceEvents
      BY <3>4 DEF ServiceEvents
    <3>6. Follows(reported, event)
      BY DEF Follows, Captured
    <3>7. Report(<<event>>)
      BY <2>2, <3>3
    <3> HIDE DEF event, down
    <3>8. Chained(<<event>>, reported) /\ <<event>> \in Seq(ServiceEvents)
      BY <3>5, <3>6, ChainOfOne
    <3> QED
      BY <3>7, <3>8, ReportChains
  <2> QED
    BY <1>f, <1>5, <2>1, <2>2 DEF TakeInput
<1>6. CASE TakeZonesChanged
  <2> DEFINE gone == GivenUp("Failed")
             changed == GivenUp("DesktopChanged")
             after == <<gone, changed>>
  <2>1. CASE ReleaseThenReport(<<>>, <<GivenUp("DesktopChanged")>>)
    BY <2>1, OneGivenUpChains
  <2>2. CASE ReleaseThenReport(<<>>, after)
    <3>1. /\ gone \in ServiceEvents /\ gone.down = {} /\ gone.kind = "Failed"
          /\ changed \in ServiceEvents /\ changed.down = {} /\ changed.kind = "DesktopChanged"
      BY <1>0, GivenUpSettles DEF GivenUp, Event
    <3> HIDE DEF gone, changed
    <3>2. after \in Seq(ServiceEvents)
      BY <3>1
    <3>3. Chained(after, {})
      <4>1. /\ Follows(DownBefore(after, 1, {}), gone)
            /\ Follows(DownBefore(after, 2, {}), changed)
        BY <3>1 DEF Follows, DownBefore
      <4>2. Len(after) = 2 /\ after[1] = gone /\ after[2] = changed
        OBVIOUS
      <4> HIDE DEF after
      <4>3. ASSUME NEW i \in 1 .. Len(after) PROVE i = 1 \/ i = 2
        BY <4>2
      <4> QED
        BY <4>1, <4>2, <4>3 DEF Chained
    <3>4. /\ <<>> \in Seq(ServiceEvents) /\ Chained(<<>>, reported)
          /\ DownAfter(<<>>, reported) = reported
      BY DEF Chained, DownAfter
    <3> HIDE DEF after
    <3> QED
      BY <2>2, <3>2, <3>3, <3>4, GivenUpChains
  <2> QED
    BY <1>6, <2>1, <2>2 DEF TakeZonesChanged
<1>7. CASE TakeFailure
  <2> DEFINE stopped == GivenUp("Stopped")
             after == <<stopped>>
             before == <<failed>>
  <2>1. /\ stopped \in ServiceEvents /\ stopped.down = {} /\ stopped.kind = "Stopped"
    BY <1>0, GivenUpSettles DEF GivenUp, Event
  <2>2. /\ failed \in ServiceEvents /\ failed.kind = "Failed" /\ failed.down = reported
    BY <1>0, FailureIsNotice
  <2>3. ReleaseThenReport(before, after)
    BY <1>7 DEF TakeFailure
  <2> HIDE DEF stopped, failed
  <2>4. after \in Seq(ServiceEvents) /\ before \in Seq(ServiceEvents)
    BY <2>1, <2>2
  <2>5. Chained(after, {}) /\ Chained(before, reported)
    BY <2>1, <2>2, ChainOfOne DEF Follows
  <2>6. DownAfter(before, reported) = reported
    BY <2>2 DEF DownAfter, Last
  <2> HIDE DEF before, after
  <2> QED
    BY <2>3, <2>4, <2>5, <2>6, GivenUpChains
<1> QED
  BY <1>1, <1>2, <1>3, <1>4, <1>5, <1>6, <1>7 DEF Worker

(* Whoever takes events and posts commands leaves the service's own state. *)
LEMMA OwnerKeeps ==
  ASSUME CaptureInv, UNCHANGED <<tasks, held, reported>>,
         UNCHANGED events \/ (events # <<>> /\ events' = Tail(events))
  PROVE  CaptureInv'
<1>1. CASE UNCHANGED events
  BY <1>1 DEF CaptureInv, tasks, AllSettled
<1>2. CASE events # <<>> /\ events' = Tail(events)
  <2>1. /\ events' \in Seq(ServiceEvents) /\ Len(events') = Len(events) - 1
        /\ \A i \in 1 .. Len(events') : events'[i] = events[i + 1]
    BY <1>2 DEF CaptureInv
  <2>2. ASSUME NEW i \in 1 .. Len(events') PROVE Settled(events'[i])
    <3>1. Len(events) \in Nat
      BY DEF CaptureInv
    <3>2. i + 1 \in 1 .. Len(events) /\ events'[i] = events[i + 1]
      BY <2>1, <3>1
    <3> QED
      BY <3>2 DEF CaptureInv, AllSettled
  <2> QED
    BY <2>1, <2>2 DEF CaptureInv, tasks, AllSettled
<1> QED
  BY <1>1, <1>2

(* The chain of the events that are left starts at the one just taken.     *)
LEMMA TakingChains ==
  ASSUME PathInv, events # <<>>, events' = Tail(events), seen' = Head(events).down,
         UNCHANGED reported
  PROVE  /\ Follows(seen, Head(events)) /\ seen' \in Downs
         /\ Chained(events', seen') /\ reported' = DownAfter(events', seen')
<1>1. events \in Seq(ServiceEvents) /\ Chained(events, seen)
  BY DEF PathInv, CaptureInv
<1>2. /\ Head(events) = events[1] /\ 1 \in 1 .. Len(events)
      /\ Len(events') = Len(events) - 1 /\ events' \in Seq(ServiceEvents)
      /\ \A i \in 1 .. Len(events') : events'[i] = events[i + 1]
  BY <1>1
<1>3. Follows(seen, Head(events))
  BY <1>1, <1>2 DEF Chained, DownBefore
<1>4. seen' \in Downs
  <2>1. Head(events) \in ServiceEvents
    BY <1>1
  <2>2. \A event \in ServiceEvents : event.down \in Downs
    BY DEF ServiceEvents, ReleaseEvents, Event, Activated, Captured
  <2> QED
    BY <2>1, <2>2
<1>5. ASSUME NEW i \in 1 .. Len(events')
      PROVE  Follows(DownBefore(events', i, seen'), events'[i])
  <2>1. i + 1 \in 1 .. Len(events) /\ events'[i] = events[i + 1]
    BY <1>1, <1>2
  <2>2. DownBefore(events', i, seen') = DownBefore(events, i + 1, seen)
    <3>1. CASE i = 1
      BY <1>2, <3>1 DEF DownBefore
    <3>2. CASE i # 1
      <4>1. i - 1 \in 1 .. Len(events')
        BY <1>2, <3>2
      <4> QED
        BY <1>2, <3>2, <4>1 DEF DownBefore
    <3> QED
      BY <3>1, <3>2
  <2> QED
    BY <1>1, <2>1, <2>2 DEF Chained
<1>6. reported' = DownAfter(events', seen')
  <2>1. CASE events' = <<>>
    <3>1. Len(events) = 1
      <4>1. Len(events') = 0
        <5>1. \A queue : queue = <<>> => Len(queue) = 0
          OBVIOUS
        <5> QED
          BY <2>1, <5>1, Zenon
      <4>2. Len(events) \in Nat
        BY <1>1
      <4> QED
        BY <1>2, <4>1, <4>2
    <3> QED
      BY <1>2, <2>1, <3>1 DEF PathInv, DownAfter, Last
  <2>2. CASE events' # <<>>
    <3>1. Len(events') \in 1 .. Len(events')
      BY <1>2, <2>2
    <3>2. events'[Len(events')] = events[Len(events)]
      BY <1>2, <3>1
    <3> QED
      BY <2>2, <3>2 DEF PathInv, DownAfter, Last
  <2> QED
    BY <2>1, <2>2
<1> QED
  BY <1>3, <1>4, <1>5, <1>6 DEF Chained

(* What the owner of the service does without taking an event.             *)
Idles ==
  /\ UNCHANGED <<tasks, held, reported, events, seen>>
  /\ shortcut' = shortcut \/ shortcut' = NoShortcut

LEMMA IdlingKeeps ==
  ASSUME PathInv, Idles
  PROVE  PathInv'
<1>1. CaptureInv'
  BY OwnerKeeps DEF PathInv, Idles
<1>2. /\ seen' \in Downs /\ Chained(events', seen')
      /\ reported' = DownAfter(events', seen')
  BY DEF PathInv, Idles, Chained, DownBefore, DownAfter, Last
<1>3. ReturnsOnlyOnShortcut'
  BY DEF PathInv, Idles, ReturnsOnlyOnShortcut, NoShortcut
<1> QED
  BY <1>1, <1>2, <1>3 DEF PathInv

LEMMA RequestsIdle ==
  ASSUME Requests
  PROVE  Idles
BY DEF Requests, StartSession, StopSession, ReturnControl, Reconfigure, PeerConnects,
       PeerDisconnects, PeerChangesDisplay, Request, Continue, End, KeepUnlessOver, Idles,
       nativeVars, service, captureVars, tasks

LEMMA DrainIdles ==
  ASSUME Tick \/ EndDrain
  PROVE  Idles
BY DEF Tick, EndDrain, KeepUnlessOver, Idles, nativeVars, service, captureVars, tasks

(* The flags of the shortcut hold after an event: one that is not the      *)
(* shortcut's leaves every key, or all but a pair that it clears.          *)
FlagsHold ==
  /\ shortcut'.control => Head(events).down \cap ControlKeys # {}
  /\ shortcut'.alt => Head(events).down \cap AltKeys # {}

LEMMA TakingKeeps ==
  ASSUME PathInv, events # <<>>, Take, Follows(seen, Head(events)) => FlagsHold
  PROVE  PathInv'
<1>1. events' = Tail(events) /\ seen' = Head(events).down /\ UNCHANGED <<tasks, held, reported>>
  BY DEF Take, nativeVars, service
<1>2. CaptureInv'
  BY <1>1, OwnerKeeps DEF PathInv
<1>3. /\ Follows(seen, Head(events)) /\ seen' \in Downs
      /\ Chained(events', seen') /\ reported' = DownAfter(events', seen')
  BY <1>1, TakingChains
<1>4. ReturnsOnlyOnShortcut'
  BY <1>1, <1>3 DEF FlagsHold, ReturnsOnlyOnShortcut
<1> QED
  BY <1>2, <1>3, <1>4 DEF PathInv

LEMMA NoticeTaken ==
  ASSUME PathInv, events # <<>>, Take, Head(events).kind \notin {"Input", "Releases"},
         shortcut' = shortcut \/ shortcut' = NoShortcut
  PROVE  PathInv'
<1>1. ASSUME Follows(seen, Head(events)) PROVE FlagsHold
  <2>1. Head(events).down = seen
    BY <1>1 DEF Follows
  <2> QED
    BY <2>1 DEF PathInv, ReturnsOnlyOnShortcut, FlagsHold, NoShortcut
<1> QED
  BY <1>1, TakingKeeps

LEMMA RuntimeKeeps ==
  ASSUME PathInv, Runtime
  PROVE  PathInv'
<1> DEFINE event == Head(events)
           Quiet == shortcut' = shortcut \/ shortcut' = NoShortcut
<1>0. Motion \notin Keys /\ Escape \in Keys /\ ControlKeys \subseteq Keys /\ AltKeys \subseteq Keys
  BY CaptureAssumption, PathAssumption
<1>1. CASE Tick \/ EndDrain
  BY <1>1, DrainIdles, IdlingKeeps
<1>2. CASE TakeActivated \/ TakeDesktopChanged \/ TakeReleased \/ TakeReady \/ TakeEnd
  <2>1. /\ events # <<>> /\ Take /\ Quiet
        /\ event.kind \in {"Activated", "DesktopChanged", "Released", "Ready", "Failed", "Stopped"}
    BY <1>2 DEF TakeActivated, TakeDesktopChanged, TakeReleased, TakeReady, TakeEnd, Waits,
                KeepUnlessOver
  <2> QED
    BY <2>1, NoticeTaken
<1>3. CASE TakeEmergency
  <2>1. /\ events # <<>> /\ Take /\ Quiet /\ event.kind = "Input"
        /\ event.key = Escape /\ event.press
    BY <1>3 DEF TakeEmergency, Waits, KeepUnlessOver, Emergency
  <2>2. ASSUME Follows(seen, event) PROVE FlagsHold
    <3>1. event.down = seen \cup {Escape}
      BY <1>0, <2>1, <2>2 DEF Follows, Toggled
    <3> QED
      BY <2>1, <3>1 DEF PathInv, ReturnsOnlyOnShortcut, FlagsHold, NoShortcut
  <2> QED
    BY <2>1, <2>2, TakingKeeps
<1>4. CASE TakeMotion
  <2>1. /\ events # <<>> /\ Take /\ Quiet /\ event.kind = "Input" /\ event.key = Motion
    BY <1>4 DEF TakeMotion, Waits, KeepUnlessOver
  <2>2. ASSUME Follows(seen, event) PROVE FlagsHold
    <3>1. event.down = seen
      BY <2>1, <2>2 DEF Follows, Toggled
    <3> QED
      BY <2>1, <3>1 DEF PathInv, ReturnsOnlyOnShortcut, FlagsHold, NoShortcut
  <2> QED
    BY <2>1, <2>2, TakingKeeps
<1>5. CASE TakeKey
  <2>1. /\ events # <<>> /\ Take /\ event.kind = "Input" /\ event.key # Motion
        /\ shortcut' = ObserveShortcut({event.key}, event.press)
    BY <1>5 DEF TakeKey, Waits
  <2>2. ASSUME Follows(seen, event) PROVE FlagsHold
    <3>1. event.down = IF event.press THEN seen \cup {event.key} ELSE seen \ {event.key}
      BY <2>1, <2>2 DEF Follows, Toggled
    <3>2. ASSUME shortcut'.control PROVE event.down \cap ControlKeys # {}
      BY <2>1, <3>1, <3>2 DEF ObserveShortcut, PathInv, ReturnsOnlyOnShortcut
    <3>3. ASSUME shortcut'.alt PROVE event.down \cap AltKeys # {}
      BY <2>1, <3>1, <3>3 DEF ObserveShortcut, PathInv, ReturnsOnlyOnShortcut
    <3> QED
      BY <3>2, <3>3 DEF FlagsHold
  <2> QED
    BY <2>1, <2>2, TakingKeeps
<1>6. CASE TakeReleases
  <2>1. /\ events # <<>> /\ Take /\ event.kind = "Releases"
        /\ shortcut' = ObserveShortcut(event.keys, FALSE)
    BY <1>6 DEF TakeReleases, Waits
  <2>2. ASSUME Follows(seen, event) PROVE FlagsHold
    <3>1. event.down = seen \ event.keys
      BY <2>1, <2>2 DEF Follows
    <3>2. ASSUME shortcut'.control PROVE event.down \cap ControlKeys # {}
      BY <2>1, <3>1, <3>2 DEF ObserveShortcut, PathInv, ReturnsOnlyOnShortcut
    <3>3. ASSUME shortcut'.alt PROVE event.down \cap AltKeys # {}
      BY <2>1, <3>1, <3>3 DEF ObserveShortcut, PathInv, ReturnsOnlyOnShortcut
    <3> QED
      BY <3>2, <3>3 DEF FlagsHold
  <2> QED
    BY <2>1, <2>2, TakingKeeps
<1> QED
  BY <1>1, <1>2, <1>3, <1>4, <1>5, <1>6 DEF Runtime

LEMMA PathStarts ==
  ASSUME PathInit
  PROVE  PathInv
<1>1. {} \in Downs
  BY DEF Downs
<1>2. /\ Event("DesktopChanged", {}) \in ServiceEvents
      /\ Event("Ready", {}) \in ServiceEvents
  BY <1>1 DEF ServiceEvents
<1>3. Settled(Event("DesktopChanged", {})) /\ Settled(Event("Ready", {}))
  BY KindOfEvent DEF Settled
<1>4. CaptureInv
  BY <1>1, <1>2, <1>3 DEF PathInit, CaptureInit, CaptureInv, AllSettled
<1>5. Chained(events, seen) /\ reported = DownAfter(events, seen)
  <2> DEFINE first == Event("DesktopChanged", {})
             second == Event("Ready", {})
  <2>1. events = <<first, second>> /\ seen = {} /\ reported = {}
    BY DEF PathInit, CaptureInit
  <2>2. /\ first.down = {} /\ first.kind = "DesktopChanged"
        /\ second.down = {} /\ second.kind = "Ready"
    BY DEF Event
  <2> HIDE DEF first, second
  <2>3. /\ Len(events) = 2 /\ events[1] = first /\ events[2] = second
        /\ events # <<>>
    BY <2>1
  <2>4. /\ Follows(DownBefore(events, 1, seen), first)
        /\ Follows(DownBefore(events, 2, seen), second)
    BY <2>1, <2>2, <2>3 DEF Follows, DownBefore
  <2>5. ASSUME NEW i \in 1 .. Len(events) PROVE i = 1 \/ i = 2
    BY <2>3
  <2> QED
    BY <2>1, <2>2, <2>3, <2>4, <2>5 DEF Chained, DownAfter, Last
<1> QED
  BY <1>1, <1>4, <1>5 DEF PathInit, PathInv, ReturnsOnlyOnShortcut, NoShortcut

LEMMA PathInvHolds == PathSpec => []PathInv
<1>1. PathInv /\ [PathNext]_pathVars => PathInv'
  <2> SUFFICES ASSUME PathInv, [PathNext]_pathVars PROVE PathInv'
    OBVIOUS
  <2>1. CASE UNCHANGED pathVars
    <3>1. Idles
      BY <2>1 DEF pathVars, captureVars, nativeVars, service, tasks, Idles
    <3> QED
      BY <3>1, IdlingKeeps
  <2>2. CASE Environment /\ UNCHANGED sessionVars
    <3>1. CaptureInv'
      BY <2>2, EnvironmentKeeps DEF PathInv
    <3>2. UNCHANGED <<events, reported, seen, shortcut>>
      BY <2>2 DEF Environment, CompositorActivates, UserInput, CompositorChangesZones,
                  NativeFails, service, sessionVars
    <3>3. Chained(events', seen') /\ reported' = DownAfter(events', seen')
      BY <3>2, NothingReported
    <3> QED
      BY <3>1, <3>2, <3>3 DEF PathInv, ReturnsOnlyOnShortcut
  <2>3. CASE Worker /\ UNCHANGED sessionVars
    <3>1. CaptureInv'
      BY <2>3, WorkerKeeps DEF PathInv
    <3>2. UNCHANGED <<seen, shortcut>>
      BY <2>3 DEF sessionVars
    <3>3. Chained(events', seen') /\ reported' = DownAfter(events', seen')
      BY <2>3, <3>2, WorkerChains
    <3> QED
      BY <3>1, <3>2, <3>3 DEF PathInv, ReturnsOnlyOnShortcut
  <2>4. CASE Requests
    BY <2>4, RequestsIdle, IdlingKeeps
  <2>5. CASE Runtime
    BY <2>5, RuntimeKeeps
  <2> QED
    BY <2>1, <2>2, <2>3, <2>4, <2>5 DEF PathNext
<1> QED
  BY <1>1, PathStarts, PTL DEF PathSpec

(* The flags of the emergency shortcut never outlive the keys: it needs a  *)
(* Control and an Alt key down in the input taken so far.                  *)
THEOREM ShortcutNeedsItsKeys == PathSpec => []ReturnsOnlyOnShortcut
<1>1. PathInv => ReturnsOnlyOnShortcut
  BY DEF PathInv
<1> QED
  BY <1>1, PathInvHolds, PTL

(* The same stream of events when the controller's runtime owns the        *)
(* service, one session after another.                                     *)
THEOREM PathReleasesKeys == PathSpec => []KeysReleasedBeforeGivingUp
<1>1. PathInv => KeysReleasedBeforeGivingUp
  BY DEF PathInv, CaptureInv, KeysReleasedBeforeGivingUp, AllSettled, Settled
<1> QED
  BY <1>1, PathInvHolds, PTL

=============================================================================
