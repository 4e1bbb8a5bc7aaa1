------------------------- MODULE Application_proofs -------------------------
(***************************************************************************)
(* For any nodes, certificates and number of peers: what the trust store   *)
(* guarantees over failures to write and remove files, crashes and         *)
(* restarts.                                                               *)
(*                                                                         *)
(* The application keeps its trust store's promises, for any peers,        *)
(* configurations, queues and bounds: every step of it is a step of the    *)
(* store or leaves the store alone, and no session outlives the removal of *)
(* a peer.                                                                 *)
(*                                                                         *)
(* And what the user sees follows what the runtime's thread does: the      *)
(* events still queued lead from the state shown to the state there is.    *)
(***************************************************************************)
EXTENDS Application, FiniteSetTheorems, TLAPS

(* What a step does to the store, whichever step it is.                    *)
THEOREM TypesHold == TrustSpec => []TrustTypeOK
<1>1. TrustInit => TrustTypeOK
  BY DEF TrustInit, TrustTypeOK, None
<1>2. TrustTypeOK /\ [TrustNext]_trustVars => TrustTypeOK'
  <2> SUFFICES ASSUME TrustTypeOK, [TrustNext]_trustVars
               PROVE  TrustTypeOK'
    OBVIOUS
  <2>1. CASE LoadIdentity
    <3>1. \A node \in Peers : files[node] \in Certificates \cup {Missing}
      BY <2>1 DEF LoadIdentity, Opens, TrustTypeOK
    <3>2. files \in [Peers -> Certificates \cup {Missing}]
      BY <3>1 DEF TrustTypeOK
    <3> QED
      BY <2>1, <3>2 DEF LoadIdentity, TrustTypeOK
  <2>2. CASE LoadIdentityFails
    BY <2>2 DEF LoadIdentityFails, TrustTypeOK
  <2>3. ASSUME NEW node \in Peers, NEW certificate \in Certificates,
               NEW code \in Certificates, Trust(node, certificate, code)
        PROVE  TrustTypeOK'
    BY <2>3 DEF Trust, TrustTypeOK
  <2>4. ASSUME NEW node \in Peers, NEW certificate \in Certificates,
               NEW code \in Certificates, TrustFails(node, certificate, code)
        PROVE  TrustTypeOK'
    <3>1. files' \in [Peers -> Certificates \cup {Missing, Partial}]
      BY <2>4 DEF TrustFails, TrustTypeOK
    <3> QED
      BY <2>4, <3>1 DEF TrustFails, TrustTypeOK
  <2>5. ASSUME NEW node \in Peers, RemoveTrusted(node)
        PROVE  TrustTypeOK'
    BY <2>5 DEF RemoveTrusted, TrustTypeOK
  <2>6. ASSUME NEW node \in Peers, RemoveTrustedFails(node)
        PROVE  TrustTypeOK'
    BY <2>6 DEF RemoveTrustedFails, TrustTypeOK, disk
  <2>7. CASE Crash
    <3>1. files' \in [Peers -> Certificates \cup {Missing, Partial}]
      BY <2>7 DEF Crash, TrustTypeOK
    <3>2. removed' \subseteq Peers
      BY <2>7 DEF Crash, TrustTypeOK
    <3> QED
      BY <2>7, <3>1, <3>2 DEF Crash, TrustTypeOK, None
  <2>8. CASE UNCHANGED trustVars
    BY <2>8 DEF trustVars, disk, TrustTypeOK
  <2> QED
    BY <2>1, <2>2, <2>3, <2>4, <2>5, <2>6, <2>7, <2>8 DEF TrustNext
<1> QED
  BY <1>1, <1>2, PTL DEF TrustSpec

-----------------------------------------------------------------------------

(* No step lets two nodes share a certificate.                             *)
LEMMA StaysUnique ==
  ASSUME TrustTypeOK, OneNodePerCertificate, [TrustNext]_trustVars
  PROVE  OneNodePerCertificate'
<1> USE DEF OneNodePerCertificate, Unique, Entries
<1>1. CASE LoadIdentity
  BY <1>1 DEF LoadIdentity, Opens
<1>2. ASSUME NEW node \in Peers, NEW certificate \in Certificates,
             NEW code \in Certificates, Trust(node, certificate, code)
      PROVE  OneNodePerCertificate'
  <2>1. \A other \in Peers : trusted[other] # certificate
    BY <1>2 DEF Trust, MayTrust
  <2>2. \A other \in Peers :
          trusted'[other] = IF other = node THEN certificate ELSE trusted[other]
    BY <1>2 DEF Trust, TrustTypeOK
  <2> QED
    BY <2>1, <2>2
<1>3. ASSUME NEW node \in Peers, trusted' = [trusted EXCEPT ![node] = Missing]
      PROVE  OneNodePerCertificate'
  BY <1>3 DEF TrustTypeOK
<1>4. CASE Crash
  BY <1>4 DEF Crash, None
<1>5. CASE UNCHANGED trusted
  BY <1>5
<1> QED
  BY <1>1, <1>2, <1>3, <1>4, <1>5
     DEF TrustNext, TrustFails, LoadIdentityFails, RemoveTrusted,
         RemoveTrustedFails, trustVars

(* A certificate vouches for one node only, whatever failed before: what   *)
(* is read at a start is refused as a whole if it does not, and a peer is  *)
(* trusted only with a certificate of its own.                             *)
THEOREM CertificatesAreOwned == TrustSpec => []OneNodePerCertificate
<1>1. TrustInit => OneNodePerCertificate
  BY DEF TrustInit, OneNodePerCertificate, Unique, Entries, None
<1>2. TrustTypeOK /\ OneNodePerCertificate /\ [TrustNext]_trustVars
        => OneNodePerCertificate'
  BY StaysUnique
<1> QED
  BY <1>1, <1>2, TypesHold, PTL DEF TrustSpec

-----------------------------------------------------------------------------

(* Memory is never ahead of the disk.                                      *)
LEMMA StaysOnDisk ==
  ASSUME TrustTypeOK, TrustIsOnDisk, [TrustNext]_trustVars
  PROVE  TrustIsOnDisk'
<1> USE DEF TrustIsOnDisk, Entries
<1>1. CASE LoadIdentity
  BY <1>1 DEF LoadIdentity
<1>2. ASSUME NEW node \in Peers, NEW certificate \in Certificates,
             NEW code \in Certificates, Trust(node, certificate, code)
      PROVE  TrustIsOnDisk'
  BY <1>2 DEF Trust, TrustTypeOK
<1>3. ASSUME NEW node \in Peers, NEW certificate \in Certificates,
             NEW code \in Certificates, TrustFails(node, certificate, code)
      PROVE  TrustIsOnDisk'
  <2>1. trusted' = trusted /\ trusted[node] = Missing
    BY <1>3 DEF TrustFails, MayTrust
  <2>2. \A other \in Peers \ {node} : files'[other] = files[other]
    BY <1>3 DEF TrustFails, TrustTypeOK
  <2> QED
    BY <2>1, <2>2
<1>4. ASSUME NEW node \in Peers, RemoveTrusted(node) \/ RemoveTrustedFails(node)
      PROVE  TrustIsOnDisk'
  <2>1. trusted' = [trusted EXCEPT ![node] = Missing]
    BY <1>4 DEF RemoveTrusted, RemoveTrustedFails
  <2>2. \A other \in Peers \ {node} : files'[other] = files[other]
    BY <1>4 DEF RemoveTrusted, RemoveTrustedFails, TrustTypeOK, disk
  <2> QED
    BY <2>1, <2>2 DEF TrustTypeOK
<1>5. CASE Crash
  BY <1>5 DEF Crash, None
<1>6. CASE UNCHANGED <<trusted, files>>
  BY <1>6
<1> QED
  BY <1>1, <1>2, <1>3, <1>4, <1>5, <1>6
     DEF TrustNext, LoadIdentityFails, trustVars, disk

(* A pairing that was reported outlives a crash: its file is complete      *)
(* before memory trusts the peer, and it stays until the peer is removed.  *)
THEOREM PairingsAreKept == TrustSpec => []TrustIsOnDisk
<1>1. TrustInit => TrustIsOnDisk
  BY DEF TrustInit, TrustIsOnDisk, Entries, None
<1>2. TrustTypeOK /\ TrustIsOnDisk /\ [TrustNext]_trustVars => TrustIsOnDisk'
  BY StaysOnDisk
<1> QED
  BY <1>1, <1>2, TypesHold, PTL DEF TrustSpec

-----------------------------------------------------------------------------

(* The strengthening of RemovedStaysRemoved: nothing about the node is     *)
(* left on the disk, or the next start would trust it.                     *)
NothingIsLeft ==
  \A node \in removed : trusted[node] = Missing /\ files[node] = Missing

LEMMA StaysRemoved ==
  ASSUME TrustTypeOK, NothingIsLeft, [TrustNext]_trustVars
  PROVE  NothingIsLeft'
<1> USE DEF NothingIsLeft
<1>1. CASE LoadIdentity
  BY <1>1 DEF LoadIdentity
<1>2. ASSUME NEW node \in Peers, NEW certificate \in Certificates,
             NEW code \in Certificates,
             Trust(node, certificate, code) \/ TrustFails(node, certificate, code)
      PROVE  NothingIsLeft'
  <2>1. removed' = removed \ {node}
    BY <1>2 DEF Trust, TrustFails
  <2>2. \A other \in Peers \ {node} :
          files'[other] = files[other] /\ trusted'[other] = trusted[other]
    BY <1>2 DEF Trust, TrustFails, TrustTypeOK
  <2> QED
    BY <2>1, <2>2 DEF TrustTypeOK
<1>3. ASSUME NEW node \in Peers, RemoveTrusted(node)
      PROVE  NothingIsLeft'
  BY <1>3 DEF RemoveTrusted, TrustTypeOK
<1>4. ASSUME NEW node \in Peers, RemoveTrustedFails(node)
      PROVE  NothingIsLeft'
  BY <1>4 DEF RemoveTrustedFails, TrustTypeOK, disk
<1>5. CASE Crash
  <2>1. \A node \in Peers : trusted'[node] = Missing
    BY <1>5 DEF Crash, None
  <2>2. CASE UNCHANGED <<files, removed>>
    BY <2>1, <2>2 DEF TrustTypeOK
  <2>3. ASSUME NEW node \in Peers, NEW left,
               files' = [files EXCEPT ![node] = left], removed' = removed \ {node}
        PROVE  NothingIsLeft'
    BY <2>1, <2>3 DEF TrustTypeOK
  <2>4. ASSUME NEW node \in Entries(trusted),
               files' = [files EXCEPT ![node] = Missing], UNCHANGED removed
        PROVE  NothingIsLeft'
    BY <2>1, <2>4 DEF TrustTypeOK, Entries
  <2> QED
    BY <1>5, <2>2, <2>3, <2>4 DEF Crash
<1>6. CASE UNCHANGED <<trusted, files, removed>>
  BY <1>6
<1> QED
  BY <1>1, <1>2, <1>3, <1>4, <1>5, <1>6
     DEF TrustNext, LoadIdentityFails, trustVars, disk

(* A peer that was reported as removed is not trusted again, over crashes  *)
(* and restarts, until somebody pairs it.                                  *)
THEOREM RemovalsLast == TrustSpec => []RemovedStaysRemoved
<1>1. TrustInit => NothingIsLeft
  BY DEF TrustInit, NothingIsLeft
<1>2. TrustTypeOK /\ NothingIsLeft /\ [TrustNext]_trustVars => NothingIsLeft'
  BY StaysRemoved
<1>3. NothingIsLeft => RemovedStaysRemoved
  BY DEF NothingIsLeft, RemovedStaysRemoved
<1> QED
  BY <1>1, <1>2, <1>3, TypesHold, PTL DEF TrustSpec

-----------------------------------------------------------------------------
(* What a step may do to the store, the session and what is to come.       *)
Quiet == UNCHANGED <<trustVars, runtime, after>>

Allowed ==
  \/ runtime' = NoConfig
  \/ after' # Nothing
  \/ runtime' = runtime /\ after' = after /\ removed' \subseteq removed
  \/ runtime'.trust = trusted /\ removed' = removed

LEMMA KindsDiffer ==
  ASSUME NEW kind, NEW what, kind # "nothing"
  PROVE  Then(kind, what) # Nothing
BY DEF Then, Nothing

LEMMA StopsFirst ==
  ASSUME NEW kind \in {"stop", "host", "start"}, NEW what, StopThen(kind, what)
  PROVE  after' # Nothing
BY KindsDiffer DEF StopThen

(* The runtime's thread never touches what the UI thread owns.             *)
LEMMA WorkersAreQuiet ==
  ASSUME WorkerStep
  PROVE  Quiet
<1> USE DEF Quiet, ui, session
<1>1. CASE StartController
  BY <1>1 DEF StartController, Ends
<1>2. CASE StartAgent
  BY <1>2 DEF StartAgent, Ends
<1>3. CASE TakeCommand
  BY <1>3 DEF TakeCommand, TakeStop, TakeReturnLocal, TakeReconfigure, TakeOther,
              Ends
<1>4. CASE TakeNativeEvent
  BY <1>4 DEF TakeNativeEvent, Ends
<1>5. CASE Connect
  BY <1>5 DEF Connect, Ends
<1>6. CASE ConnectFails
  BY <1>6 DEF ConnectFails, RetryOrGiveUp, Ends
<1>7. CASE Reconnect
  BY <1>7 DEF Reconnect
<1> QED
  BY <1>1, <1>2, <1>3, <1>4, <1>5, <1>6, <1>7 DEF WorkerStep

LEMMA SurroundingsAreQuiet ==
  ASSUME AroundTheSession
  PROVE  Quiet
<1> USE DEF Quiet, ui, session
<1>1. ASSUME NEW peer \in Peers, AcceptPeer(peer) PROVE Quiet
  BY <1>1 DEF AcceptPeer
<1>2. ASSUME NEW end \in open, PeerEnds(end[1], end[2]) PROVE Quiet
  BY <1>2 DEF PeerEnds
<1>3. ASSUME NEW node \in Peers \cup {Local}, MoveFocus(node) PROVE Quiet
  BY <1>3 DEF MoveFocus
<1>4. CASE RejectConnection \/ ControlAgent
  BY <1>4 DEF RejectConnection, ControlAgent
<1>5. CASE LoseController
  BY <1>5 DEF LoseController, RetryOrGiveUp, Ends
<1>6. CASE NativeOpens \/ NativeFails \/ NativeCloses \/ NativeFinishes
  BY <1>6 DEF NativeOpens, NativeFails, NativeCloses, NativeFinishes
<1> QED
  BY <1>1, <1>2, <1>3, <1>4, <1>5, <1>6 DEF AroundTheSession

(* Frames start sessions with the peers that are trusted then.             *)
LEMMA FramesAreAllowed ==
  ASSUME FrameStep
  PROVE  UNCHANGED trustVars /\ Allowed
<1>1. CASE StartDeferredSession
  <2>1. after' # Nothing
    BY <1>1, StopsFirst DEF StartDeferredSession
  <2> QED
    BY <1>1, <2>1 DEF StartDeferredSession, Allowed
<1>2. CASE Poll
  <2>1. UNCHANGED trustVars
    BY <1>2 DEF Poll
  <2>2. runtime' = NoConfig \/ runtime' = runtime
    BY <1>2 DEF Poll
  <2>3. after' = after \/ after' # Nothing
    BY <1>2 DEF Poll, Carefree
  <2> QED
    BY <2>1, <2>2, <2>3 DEF Allowed, trustVars
<1>3. CASE Joined
  <2>1. UNCHANGED trustVars
    BY <1>3 DEF Joined
  <2>2. \/ runtime' = NoConfig
        \/ runtime' = [config |-> after.what, trust |-> trusted]
    BY <1>3 DEF Joined, StartSession, NoSession
  <2> QED
    BY <2>1, <2>2 DEF Allowed, trustVars
<1> QED
  BY <1>1, <1>2, <1>3 DEF FrameStep

-----------------------------------------------------------------------------

(* What the user does is a step of the trust store, or none.               *)
LEMMA UsersAreAllowed ==
  ASSUME UserStep
  PROVE  [TrustNext]_trustVars /\ Allowed
<1> USE DEF session
<1>1. ASSUME NEW config \in Configs, SaveConfig(config)
      PROVE  [TrustNext]_trustVars /\ Allowed
  <2>1. UNCHANGED <<trustVars, runtime>>
    BY <1>1 DEF SaveConfig, UserActs
  <2>2. after' = after \/ after' # Nothing
    BY <1>1, StopsFirst DEF SaveConfig
  <2> QED
    BY <2>1, <2>2 DEF Allowed, trustVars
<1>2. CASE SaveConfigFails
  BY <1>2 DEF SaveConfigFails, UserActs, Allowed, trustVars
<1>3. ASSUME NEW config \in Configs \cup {Partial}, LoadConfig(config)
      PROVE  [TrustNext]_trustVars /\ Allowed
  <2>1. UNCHANGED <<trustVars, runtime>>
    BY <1>3 DEF LoadConfig, UserActs
  <2>2. after' = after \/ after' # Nothing
    BY <1>3, StopsFirst DEF LoadConfig
  <2> QED
    BY <2>1, <2>2 DEF Allowed, trustVars
<1>4. ASSUME NEW node \in Peers, NEW certificate \in Certificates,
             ImportPairing(node, certificate)
      PROVE  [TrustNext]_trustVars /\ Allowed
  <2>1. Trust(node, certificate, certificate) \/ UNCHANGED trustVars
    BY <1>4 DEF ImportPairing
  <2>2. removed' \subseteq removed
    BY <2>1 DEF Trust, trustVars
  <2>3. runtime' = runtime
    BY <1>4 DEF ImportPairing, UserActs
  <2>4. after' = after \/ after' # Nothing
    BY <1>4, StopsFirst DEF ImportPairing
  <2> QED
    BY <2>1, <2>2, <2>3, <2>4 DEF TrustNext, Allowed
<1>5. ASSUME NEW node \in Peers, NEW certificate \in Certificates,
             ImportPairingFails(node, certificate)
      PROVE  [TrustNext]_trustVars /\ Allowed
  <2>1. TrustFails(node, certificate, certificate)
    BY <1>5 DEF ImportPairingFails
  <2>2. removed' \subseteq removed
    BY <2>1 DEF TrustFails
  <2>3. UNCHANGED <<runtime, after>>
    BY <1>5 DEF ImportPairingFails, UserActs
  <2> QED
    BY <2>1, <2>2, <2>3 DEF TrustNext, Allowed
<1>6. ASSUME NEW node \in Peers, RemovePeer(node)
      PROVE  [TrustNext]_trustVars /\ Allowed
  <2>1. CASE RemoveTrusted(node) /\ StopThen("stop", NoConfig)
    BY <2>1, StopsFirst DEF TrustNext, Allowed
  <2>2. CASE RemoveTrustedFails(node) /\ UNCHANGED after
    BY <1>6, <2>2 DEF RemovePeer, UserActs, RemoveTrustedFails, TrustNext, Allowed
  <2> QED
    BY <1>6, <2>1, <2>2 DEF RemovePeer
<1>7. ASSUME NEW kind, SendCommand(kind)
      PROVE  [TrustNext]_trustVars /\ Allowed
  BY <1>7 DEF SendCommand, UserActs, Allowed, trustVars
<1>8. ASSUME NEW role, ChangeRole(role)
      PROVE  [TrustNext]_trustVars /\ Allowed
  BY <1>8, StopsFirst DEF ChangeRole, Allowed
<1>9. CASE CreateIdentity
  <2>1. LoadIdentity \/ LoadIdentityFails
    BY <1>9 DEF CreateIdentity
  <2>2. removed' = removed
    BY <2>1 DEF LoadIdentity, LoadIdentityFails
  <2>3. runtime' = runtime
    BY <1>9 DEF CreateIdentity
  <2>4. after' = after \/ after' # Nothing
    BY <1>9, StopsFirst DEF CreateIdentity, app
  <2> QED
    BY <2>1, <2>2, <2>3, <2>4 DEF TrustNext, Allowed
<1>10. CASE Exit
  BY <1>10 DEF Exit, TrustNext, Allowed
<1>11. CASE Launch
  <2>1. LoadIdentity \/ LoadIdentityFails
    BY <1>11 DEF Launch
  <2>2. removed' = removed
    BY <2>1 DEF LoadIdentity, LoadIdentityFails
  <2>3. UNCHANGED <<runtime, after>>
    BY <1>11 DEF Launch
  <2> QED
    BY <2>1, <2>2, <2>3 DEF TrustNext, Allowed
<1> QED
  BY <1>1, <1>2, <1>3, <1>4, <1>5, <1>6, <1>7, <1>8, <1>9, <1>10, <1>11
     DEF UserStep

LEMMA StepsAreAllowed ==
  ASSUME [AppNext]_appVars
  PROVE  [TrustNext]_trustVars /\ Allowed
<1>1. CASE WorkerStep \/ AroundTheSession
  BY <1>1, WorkersAreQuiet, SurroundingsAreQuiet DEF Quiet, Allowed, trustVars
<1>2. CASE FrameStep
  BY <1>2, FramesAreAllowed
<1>3. CASE UserStep
  BY <1>3, UsersAreAllowed
<1>4. CASE UNCHANGED appVars
  BY <1>4 DEF appVars, ui, session, trustVars, Allowed
<1> QED
  BY <1>1, <1>2, <1>3, <1>4 DEF AppNext

-----------------------------------------------------------------------------

(* The application implements the trust store: whatever the user, the      *)
(* session and the machine do, the store takes a step of its own or none.  *)
THEOREM ApplicationKeepsTrust == AppSpec => TrustSpec
<1>1. AppInit => TrustInit
  BY DEF AppInit
<1>2. [AppNext]_appVars => [TrustNext]_trustVars
  BY StepsAreAllowed
<1> QED
  BY <1>1, <1>2, PTL DEF AppSpec, TrustSpec

(* In the application, too, a certificate vouches for one node.            *)
THEOREM ApplicationOwnsCertificates == AppSpec => []OneNodePerCertificate
BY ApplicationKeepsTrust, CertificatesAreOwned, PTL

(* A session that is not about to stop trusts nobody who was removed.      *)
SessionForgets ==
  after = Nothing /\ runtime # NoConfig =>
    \A node \in removed : runtime.trust[node] = Missing

(* A peer the user removed is cut off: the store does not trust it, and    *)
(* the session that did is stopped before anything else happens.           *)
THEOREM RemovalsReachTheSession == AppSpec => []RemovedPeersAreCutOff
<1>1. AppInit => SessionForgets
  BY DEF AppInit, SessionForgets
<1>2. RemovedStaysRemoved /\ SessionForgets /\ [AppNext]_appVars
        => SessionForgets'
  BY StepsAreAllowed DEF Allowed, SessionForgets, RemovedStaysRemoved
<1>3. RemovedStaysRemoved /\ SessionForgets => RemovedPeersAreCutOff
  BY DEF SessionForgets, RemovedPeersAreCutOff, Carefree
<1>4. AppSpec => []RemovedStaysRemoved
  BY ApplicationKeepsTrust, RemovalsLast, PTL
<1> QED
  BY <1>1, <1>2, <1>3, <1>4, PTL DEF AppSpec

-----------------------------------------------------------------------------
(* What a fold computes.                                                   *)

(* Sets of numbers have a least one.                                       *)
LEMMA LeastNumber ==
  ASSUME NEW T, T \subseteq Nat, T # {}
  PROVE  \E x \in T : \A y \in T : x <= y
<1> DEFINE Below(n) == 1 .. n
           R == StrictSubsetOrdering(Nat)
           Finite == FiniteSubsetsOf(Nat)
           TT == {Below(n) : n \in T}
<1>1. IsWellFoundedOn(R, Finite)
  BY FS_StrictSubsetOrderingWellFounded
<1>2. TT \subseteq Finite /\ TT # {}
  <2>1. \A n \in Nat : IsFiniteSet(1 .. n) /\ 1 .. n \subseteq Nat
    BY FS_Interval
  <2> QED
    BY <2>1 DEF FiniteSubsetsOf
<1>3. \E x \in TT : \A y \in TT : ~ (<<y, x>> \in R)
  <2> HIDE DEF R, Finite, TT
  <2> QED
    BY <1>1, <1>2, WFMin
<1>4. PICK m \in T : \A n \in T : <<Below(n), Below(m)>> \notin R
  BY <1>3
<1>5. ASSUME NEW n \in T, n < m PROVE FALSE
  <2>1. /\ Below(n) \subseteq Below(m) /\ Below(n) \subseteq Nat /\ Below(m) \subseteq Nat
        /\ m \in Below(m) /\ m \notin Below(n)
    BY <1>5
  <2>2. <<Below(n), Below(m)>> \in R
    <3> HIDE DEF Below
    <3> QED
      BY <2>1 DEF StrictSubsetOrdering
  <2> QED
    BY <1>4, <2>2
<1> QED
  BY <1>5

(* What holds of zero and of every number after one that it holds of.      *)
LEMMA Counting ==
  ASSUME NEW N \in Nat, NEW T, 0 \in T, \A i \in 0 .. N : i \in T /\ i < N => i + 1 \in T
  PROVE  0 .. N \subseteq T
<1> DEFINE Rest == (0 .. N) \ T
<1> SUFFICES ASSUME Rest # {} PROVE FALSE
  OBVIOUS
<1>1. Rest \subseteq Nat
  OBVIOUS
<1>2. PICK least \in Rest : \A i \in Rest : least <= i
  BY <1>1, LeastNumber
<1>3. least \in Nat /\ least # 0 /\ least <= N /\ least \notin T
  OBVIOUS
<1>4. least - 1 \in 0 .. N /\ least - 1 < N /\ ~(least <= least - 1)
  BY <1>3
<1>5. least - 1 \in T
  BY <1>2, <1>4
<1> QED
  BY <1>3, <1>4, <1>5

IsList(queue) == \E T : queue \in Seq(T)

(* The events of a queue applied to a state, the oldest first.             *)
Seen(state, queue) == FoldLeft(Apply, state, queue)

(* What the fold goes through, for each set of positions in the queue.     *)
Iterates(state, queue, n, f) ==
  f = [s \in SUBSET (1 .. n) |->
         IF s = {} THEN state ELSE Apply(f[s \ {Max(s)}], queue[Max(s)])]

LEMMA LastOfSet ==
  ASSUME NEW n \in Nat, NEW s \in SUBSET (1 .. n + 1), n + 1 \in s
  PROVE  Max(s) = n + 1
<1>1. \A y \in s : n + 1 >= y
  OBVIOUS
<1>2. \A x \in s : (\A y \in s : x >= y) => x = n + 1
  BY <1>1
<1> QED
  BY <1>1, <1>2 DEF Max

LEMMA IteratesExist ==
  ASSUME NEW state, NEW queue, NEW N \in Nat
  PROVE  \E f : Iterates(state, queue, N, f)
<1> DEFINE T == {n \in 0 .. N : \E f : Iterates(state, queue, n, f)}
<1>1. 0 \in T
  <2> DEFINE first == [s \in SUBSET (1 .. 0) |-> state]
  <2>1. \A s \in SUBSET (1 .. 0) : s = {}
    OBVIOUS
  <2>2. first = [s \in SUBSET (1 .. 0) |->
                   IF s = {} THEN state ELSE Apply(first[s \ {Max(s)}], queue[Max(s)])]
    BY <2>1, Zenon
  <2> HIDE DEF first
  <2>3. Iterates(state, queue, 0, first)
    BY <2>2 DEF Iterates
  <2> QED
    BY <2>3
<1>2. ASSUME NEW n \in 0 .. N, n \in T, n < N PROVE n + 1 \in T
  <2>1. PICK f : Iterates(state, queue, n, f)
    BY <1>2
  <2> DEFINE Value(s) == IF n + 1 \in s THEN Apply(f[s \ {n + 1}], queue[n + 1]) ELSE f[s]
             next == [s \in SUBSET (1 .. n + 1) |-> Value(s)]
  <2>2. \A s \in SUBSET (1 .. n) :
          f[s] = IF s = {} THEN state ELSE Apply(f[s \ {Max(s)}], queue[Max(s)])
    BY <2>1, Zenon DEF Iterates
  <2>3. ASSUME NEW s \in SUBSET (1 .. n + 1)
        PROVE  next[s] = IF s = {} THEN state ELSE Apply(next[s \ {Max(s)}], queue[Max(s)])
    <3>1. CASE n + 1 \in s
      <4>1. Max(s) = n + 1 /\ s # {}
        BY <3>1, LastOfSet
      <4>2. s \ {n + 1} \in SUBSET (1 .. n + 1) /\ n + 1 \notin s \ {n + 1}
        OBVIOUS
      <4>3. next[s] = Apply(f[s \ {n + 1}], queue[n + 1]) /\ next[s \ {n + 1}] = f[s \ {n + 1}]
        BY <3>1, <4>2, Zenon
      <4> HIDE DEF next
      <4> QED
        BY <4>1, <4>3, Zenon
    <3>2. CASE n + 1 \notin s
      <4>1. s \in SUBSET (1 .. n)
        BY <3>2
      <4>2. next[s] = f[s]
        BY <3>2, Zenon
      <4>3. CASE s = {}
        BY <2>2, <4>1, <4>2, <4>3, Zenon
      <4>4. CASE s # {}
        <5>1. s \ {Max(s)} \in SUBSET (1 .. n + 1) /\ n + 1 \notin s \ {Max(s)}
          BY <3>2
        <5>2. next[s \ {Max(s)}] = f[s \ {Max(s)}]
          BY <5>1, Zenon
        <5> HIDE DEF next
        <5> QED
          BY <2>2, <4>1, <4>2, <4>4, <5>2, Zenon
      <4> QED
        BY <4>3, <4>4
    <3> QED
      BY <3>1, <3>2
  <2>4. next = [s \in SUBSET (1 .. n + 1) |-> next[s]]
    BY Zenon
  <2> HIDE DEF next
  <2>5. Iterates(state, queue, n + 1, next)
    BY <2>3, <2>4, Zenon DEF Iterates
  <2>6. n + 1 \in 0 .. N
    BY <1>2
  <2> QED
    BY <2>5, <2>6
<1>3. N \in T
  <2> HIDE DEF T
  <2>1. \A n \in 0 .. N : n \in T /\ n < N => n + 1 \in T
    BY <1>2
  <2>2. 0 .. N \subseteq T
    BY <1>1, <2>1, Counting
  <2> QED
    BY <2>2
<1> QED
  BY <1>3

LEMMA FoldIterates ==
  ASSUME NEW state, NEW queue, NEW n \in Nat, DOMAIN queue = 1 .. n
  PROVE  Seen(state, queue) = (CHOOSE f : Iterates(state, queue, n, f))[1 .. n]
BY DEF Seen, FoldLeft, MapThenFoldSet, Iterates

LEMMA IterateSteps ==
  ASSUME NEW state, NEW queue, NEW N \in Nat, NEW f, Iterates(state, queue, N, f),
         NEW k \in Nat, k < N
  PROVE  f[1 .. k + 1] = Apply(f[1 .. k], queue[k + 1])
<1> DEFINE Some == 1 .. k + 1
<1>1. Some \in SUBSET (1 .. k + 1) /\ k + 1 \in Some /\ Some \in SUBSET (1 .. N) /\ Some # {}
  OBVIOUS
<1>2. Some \ {k + 1} = 1 .. k
  OBVIOUS
<1>3. Max(Some) = k + 1
  BY <1>1, LastOfSet
<1> HIDE DEF Some
<1>4. f[Some] = Apply(f[Some \ {Max(Some)}], queue[Max(Some)])
  BY <1>1, Zenon DEF Iterates
<1>5. f[Some] = Apply(f[1 .. k], queue[k + 1])
  BY <1>2, <1>3, <1>4, Zenon
<1> QED
  BY <1>5, Zenon DEF Some

LEMMA IterateStarts ==
  ASSUME NEW state, NEW queue, NEW N \in Nat, NEW f, Iterates(state, queue, N, f)
  PROVE  f[1 .. 0] = state
<1>1. 1 .. 0 \in SUBSET (1 .. N) /\ 1 .. 0 = {}
  OBVIOUS
<1> QED
  BY <1>1, Zenon DEF Iterates

(* Nothing changes for an empty queue.                                     *)
LEMMA SeenNothing ==
  ASSUME NEW state
  PROVE  IsList(<<>>) /\ Seen(state, <<>>) = state
<1>1. DOMAIN <<>> = 1 .. 0 /\ <<>> \in Seq({})
  OBVIOUS
<1> DEFINE f == CHOOSE f : Iterates(state, <<>>, 0, f)
<1>2. Iterates(state, <<>>, 0, f)
  BY IteratesExist, Zenon
<1>3. Seen(state, <<>>) = f[1 .. 0]
  BY <1>1, FoldIterates
<1> HIDE DEF f
<1> QED
  BY <1>1, <1>2, <1>3, IterateStarts DEF IsList

(* An event at the end of the queue is applied last.                       *)
LEMMA SeenOne ==
  ASSUME NEW state, NEW queue, NEW event, IsList(queue)
  PROVE  /\ IsList(queue \o <<event>>)
         /\ Seen(state, queue \o <<event>>) = Apply(Seen(state, queue), event)
<1> DEFINE n == Len(queue)
           longer == queue \o <<event>>
           f == CHOOSE f : Iterates(state, longer, n + 1, f)
           g == CHOOSE g : Iterates(state, queue, n, g)
           T == {k \in 0 .. n : f[1 .. k] = g[1 .. k]}
<1>1. PICK U : queue \in Seq(U)
  BY DEF IsList
<1>2. longer \in Seq(U \cup {event})
  BY <1>1
<1>3. /\ n \in Nat /\ DOMAIN queue = 1 .. n /\ DOMAIN longer = 1 .. n + 1
      /\ longer[n + 1] = event /\ \A i \in 1 .. n : longer[i] = queue[i]
  BY <1>1
<1>4. IsList(longer)
  BY <1>2 DEF IsList
<1> HIDE DEF n, longer
<1>5. Iterates(state, longer, n + 1, f) /\ Iterates(state, queue, n, g)
  <2>1. n + 1 \in Nat
    BY <1>3
  <2> QED
    BY <1>3, <2>1, IteratesExist, Zenon
<1>6. Seen(state, longer) = f[1 .. n + 1] /\ Seen(state, queue) = g[1 .. n]
  <2>1. n + 1 \in Nat
    BY <1>3
  <2> QED
    BY <1>3, <2>1, FoldIterates, Zenon
<1> HIDE DEF f, g
<1>7. 0 \in T
  <2>1. f[1 .. 0] = state /\ g[1 .. 0] = state
    BY <1>3, <1>5, IterateStarts
  <2> QED
    BY <1>3, <2>1
<1>8. ASSUME NEW k \in 0 .. n, k \in T, k < n PROVE k + 1 \in T
  <2>1. k \in Nat /\ k < n + 1 /\ n + 1 \in Nat /\ k + 1 \in 1 .. n /\ k + 1 \in 0 .. n
    BY <1>3, <1>8
  <2>2. f[1 .. k] = g[1 .. k]
    BY <1>8
  <2>3. f[1 .. k + 1] = Apply(f[1 .. k], longer[k + 1])
    BY <1>5, <2>1, IterateSteps
  <2>4. g[1 .. k + 1] = Apply(g[1 .. k], queue[k + 1])
    BY <1>3, <1>5, <1>8, <2>1, IterateSteps
  <2>5. f[1 .. k + 1] = g[1 .. k + 1]
    BY <1>3, <2>1, <2>2, <2>3, <2>4, Zenon
  <2> QED
    BY <2>1, <2>5
<1>9. f[1 .. n] = g[1 .. n]
  <2> HIDE DEF T
  <2>1. 0 .. n \subseteq T
    BY <1>3, <1>7, <1>8, Counting
  <2>2. n \in T
    BY <1>3, <2>1
  <2> QED
    BY <2>2 DEF T
<1>10. f[1 .. n + 1] = Apply(f[1 .. n], longer[n + 1])
  <2>1. n < n + 1 /\ n + 1 \in Nat
    BY <1>3
  <2> QED
    BY <1>3, <1>5, <2>1, IterateSteps
<1>11. Seen(state, longer) = Apply(Seen(state, queue), event)
  BY <1>3, <1>6, <1>9, <1>10, Zenon
<1> QED
  BY <1>4, <1>11 DEF longer

-----------------------------------------------------------------------------
(* What the user sees after each event.                                    *)
IsState(state) ==
  state = [phase |-> state.phase, role |-> state.role,
           connected |-> state.connected, focus |-> state.focus,
           agent_controlled |-> state.agent_controlled, error |-> state.error]

Shows(state, connections, node, active) ==
  /\ IsState(state)
  /\ state.connected = connections /\ state.focus = node
  /\ state.agent_controlled = active

LEMMA ShowsPlain ==
  ASSUME NEW state, IsState(state), NEW kind \in {"Listening", "Connecting", "Error"}
  PROVE  Shows(Apply(state, Event(kind)), state.connected, state.focus,
               state.agent_controlled)
<1>1. CASE kind \in {"Listening", "Connecting"}
  BY <1>1 DEF IsState, Shows, Apply, Event
<1>2. CASE kind = "Error"
  <2>1. Apply(state, Event(kind)) =
          [state EXCEPT !.error = TRUE,
                        !.phase = IF @ = "Stopped" THEN "Failed" ELSE @]
    BY <1>2 DEF Apply, Event
  <2> QED
    BY <2>1 DEF IsState, Shows
<1> QED
  BY <1>1, <1>2

LEMMA ShowsStarting ==
  ASSUME NEW state, NEW role
  PROVE  Shows(Apply(state, Starting(role)), NoPeers, "none", FALSE)
BY DEF IsState, Shows, Apply, Starting, DefaultState

LEMMA ShowsDefault == Shows(DefaultState, NoPeers, "none", FALSE)
BY DEF IsState, Shows, DefaultState

LEMMA ShowsConnected ==
  ASSUME NEW state, IsState(state), NEW peer, NEW id
  PROVE  Shows(Apply(state, Connected(peer, id)), [state.connected EXCEPT ![peer] = id],
               state.focus, state.agent_controlled)
<1>1. Apply(state, Connected(peer, id)) =
        [state EXCEPT !.connected[peer] = id, !.phase = "Connected", !.error = FALSE]
  BY DEF Apply, Connected
<1> QED
  BY <1>1 DEF IsState, Shows

LEMMA ShowsDisconnected ==
  ASSUME NEW state, IsState(state), NEW peer
  PROVE  Shows(Apply(state, Disconnected(peer)), [state.connected EXCEPT ![peer] = 0],
               state.focus, FALSE)
<1>1. Apply(state, Disconnected(peer)) =
        [state EXCEPT !.connected[peer] = 0, !.agent_controlled = FALSE, !.error = TRUE,
                      !.phase = IF state.role = "Controller"
                                THEN "Listening" ELSE "Connecting"]
  BY DEF Apply, Disconnected
<1> QED
  BY <1>1 DEF IsState, Shows

LEMMA ShowsFocus ==
  ASSUME NEW state, IsState(state), NEW node
  PROVE  Shows(Apply(state, FocusChanged(node)), state.connected, node,
               state.agent_controlled)
BY DEF IsState, Shows, Apply, FocusChanged

LEMMA ShowsControl ==
  ASSUME NEW state, IsState(state), NEW active
  PROVE  Shows(Apply(state, AgentControl(active)), state.connected, state.focus, active)
BY DEF IsState, Shows, Apply, AgentControl

LEMMA ShowsStopped ==
  ASSUME NEW state, IsState(state)
  PROVE  Shows(Apply(state, Event("Stopped")), NoPeers, state.focus, FALSE)
<1>1. Apply(state, Event("Stopped")) =
        [state EXCEPT !.connected = NoPeers, !.agent_controlled = FALSE,
                      !.phase = IF state.error THEN "Failed" ELSE "Stopped"]
  BY DEF Apply, Event
<1> QED
  BY <1>1 DEF IsState, Shows

(* A finite set in a list: every member is in it.                          *)
LEMMA Listed ==
  ASSUME NEW T, IsFiniteSet(T)
  PROVE  /\ Cardinality(T) \in Nat /\ SetToSeq(T) \in [1 .. Cardinality(T) -> T]
         /\ \A t \in T : \E i \in 1 .. Cardinality(T) : SetToSeq(T)[i] = t
<1> DEFINE n == Cardinality(T)
           f == SetToSeq(T)
<1>1. n \in Nat /\ ExistsBijection(1 .. n, T)
  BY FS_CardinalityType
<1>2. \E g \in [1 .. n -> T] : IsInjective(g)
  BY <1>1 DEF ExistsBijection, Bijection, Injection
<1>3. f \in [1 .. n -> T] /\ IsInjective(f)
  BY <1>2, Zenon DEF SetToSeq
<1> HIDE DEF f
<1>4. Cardinality(1 .. n) = n
  <2>1. Cardinality(1 .. n) = IF 1 > n THEN 0 ELSE n - 1 + 1
    BY <1>1, FS_Interval
  <2> QED
    BY <1>1, <2>1
<1>5. f \in Injection(1 .. n, T)
  BY <1>3 DEF Injection
<1>6. f \in Surjection(1 .. n, T)
  BY <1>4, <1>5, FS_Injection
<1> QED
  BY <1>1, <1>3, <1>6 DEF Surjection, f

(* The peers whose connections are dropped are disconnected, and nobody    *)
(* else is, in whatever order the user is told of it.                      *)
LEMMA SeenGoodbyes ==
  ASSUME NEW state, NEW queue, IsList(queue), IsState(Seen(state, queue)),
         NEW dropped \in SUBSET Peers, IsFiniteSet(dropped), NEW old,
         old = [peer \in Peers |-> old[peer]], Seen(state, queue).connected = old
  PROVE  LET goodbyes == SetToSeq({Disconnected(peer) : peer \in dropped})
             after_it == Seen(state, queue \o goodbyes)
         IN /\ IsList(goodbyes) /\ IsList(queue \o goodbyes)
            /\ IsState(after_it)
            /\ after_it.connected =
                 [peer \in Peers |-> IF peer \in dropped THEN 0 ELSE old[peer]]
<1> DEFINE T == {Disconnected(peer) : peer \in dropped}
           g == SetToSeq(T)
           n == Cardinality(T)
           Prefix(k) == [i \in 1 .. k |-> g[i]]
           Told(k) == {peer \in dropped : \E i \in 1 .. k : g[i] = Disconnected(peer)}
           Now(k) == Seen(state, queue \o Prefix(k))
           Good(k) == /\ IsList(queue \o Prefix(k)) /\ IsState(Now(k))
                      /\ Now(k).connected =
                           [peer \in Peers |-> IF peer \in Told(k) THEN 0 ELSE old[peer]]
           U == {k \in 0 .. n : Good(k)}
<1>1. IsFiniteSet(T)
  <2> DEFINE h == [peer \in dropped |-> Disconnected(peer)]
  <2>1. h \in [dropped -> T] /\ \A peer \in dropped : h[peer].peer = peer
    BY DEF Disconnected
  <2>2. h \in Bijection(dropped, T)
    <3>1. IsInjective(h)
      BY <2>1 DEF IsInjective
    <3>2. \A t \in T : \E peer \in dropped : h[peer] = t
      OBVIOUS
    <3> HIDE DEF h, T
    <3> QED
      BY <2>1, <3>1, <3>2 DEF Bijection, Injection, Surjection
  <2> HIDE DEF h, T
  <2>3. ExistsBijection(dropped, T)
    BY <2>2 DEF ExistsBijection
  <2> QED
    BY <2>3, FS_Bijection
<1>2. n \in Nat /\ g \in [1 .. n -> T] /\ \A t \in T : \E i \in 1 .. n : g[i] = t
  <2> HIDE DEF T
  <2> QED
    BY <1>1, Listed
<1>3. PICK V : queue \in Seq(V)
  BY DEF IsList
<1> HIDE DEF g, n
<1>4. Prefix(n) = g
  BY <1>2
<1>5. \A k \in 0 .. n : Prefix(k) \in Seq(T) /\ Len(Prefix(k)) = k
  <2> SUFFICES ASSUME NEW k \in 0 .. n PROVE Prefix(k) \in Seq(T) /\ Len(Prefix(k)) = k
    OBVIOUS
  <2>1. k \in Nat /\ 1 .. k \subseteq 1 .. n
    BY <1>2
  <2>2. Prefix(k) \in [1 .. k -> T]
    BY <1>2, <2>1
  <2> HIDE DEF Prefix, T
  <2> QED
    BY <2>1, <2>2
<1>6. ASSUME NEW k \in 0 .. n, k < n
      PROVE  /\ g[k + 1] \in T
             /\ queue \o Prefix(k + 1) = (queue \o Prefix(k)) \o <<g[k + 1]>>
  <2>1. k \in Nat /\ k + 1 \in 1 .. n /\ k + 1 \in 0 .. n
    BY <1>2, <1>6
  <2>2. Prefix(k) \in Seq(T) /\ Len(Prefix(k)) = k
    BY <1>5
  <2>3. Prefix(k + 1) \in Seq(T) /\ Len(Prefix(k + 1)) = k + 1
    BY <1>5, <2>1
  <2>4. g[k + 1] \in T
    BY <1>2, <2>1
  <2>5. /\ \A i \in 1 .. k : Prefix(k + 1)[i] = Prefix(k)[i]
        /\ Prefix(k + 1)[k + 1] = g[k + 1]
    BY <2>1
  <2> HIDE DEF Prefix, T
  <2>6. Prefix(k + 1) = Prefix(k) \o <<g[k + 1]>>
    <3> DEFINE longer == Prefix(k) \o <<g[k + 1]>>
    <3>1. /\ longer \in Seq(T) /\ Len(longer) = k + 1 /\ longer[k + 1] = g[k + 1]
          /\ \A i \in 1 .. k : longer[i] = Prefix(k)[i]
      BY <2>1, <2>2, <2>4
    <3> HIDE DEF longer
    <3>2. \A i : i \in 1 .. k + 1 <=> i \in 1 .. k \/ i = k + 1
      BY <2>1
    <3>3. \A i \in 1 .. k + 1 : longer[i] = Prefix(k + 1)[i]
      BY <2>5, <3>1, <3>2, Zenon
    <3>4. longer = Prefix(k + 1)
      BY <2>1, <2>3, <3>1, <3>3
    <3> QED
      BY <3>4 DEF longer
  <2>7. queue \o (Prefix(k) \o <<g[k + 1]>>) = (queue \o Prefix(k)) \o <<g[k + 1]>>
    BY <1>3, <2>2, <2>4
  <2> QED
    BY <2>4, <2>6, <2>7
<1>7. 0 \in U
  <2>1. 0 \in 0 .. n
    BY <1>2
  <2>2. Prefix(0) \in Seq(T) /\ Len(Prefix(0)) = 0
    BY <1>5, <2>1
  <2>3. queue \o Prefix(0) = queue
    <3> HIDE DEF Prefix, T
    <3>1. Prefix(0) = <<>>
      BY <2>2
    <3> QED
      BY <1>3, <3>1
  <2>4. Told(0) = {}
    OBVIOUS
  <2>5. old = [peer \in Peers |-> IF peer \in Told(0) THEN 0 ELSE old[peer]]
    BY <2>4
  <2> HIDE DEF Prefix, Told
  <2> QED
    BY <2>1, <2>3, <2>5
<1>8. ASSUME NEW k \in 0 .. n, k \in U, k < n PROVE k + 1 \in U
  <2>1. PICK gone \in dropped : g[k + 1] = Disconnected(gone)
    BY <1>6, <1>8
  <2>2. k \in Nat /\ k + 1 \in 0 .. n /\ k + 1 \in 1 .. k + 1
    BY <1>2, <1>8
  <2>3. Good(k)
    BY <1>8
  <2>4. \A peer \in dropped : Disconnected(peer) = Disconnected(gone) => peer = gone
    BY DEF Disconnected
  <2>5. Told(k + 1) = Told(k) \cup {gone}
    <3>1. \A i : i \in 1 .. k + 1 <=> i \in 1 .. k \/ i = k + 1
      BY <2>2
    <3> QED
      BY <2>1, <2>4, <3>1, Zenon
  <2>6. queue \o Prefix(k + 1) = (queue \o Prefix(k)) \o <<Disconnected(gone)>>
    BY <1>6, <1>8, <2>1
  <2> HIDE DEF Prefix, Told, T
  <2> DEFINE so_far == queue \o Prefix(k)
             longer == queue \o Prefix(k + 1)
             seen == Seen(state, so_far)
             next == Seen(state, longer)
  <2>7. /\ IsList(so_far) /\ IsState(seen)
        /\ longer = so_far \o <<Disconnected(gone)>>
    BY <2>3, <2>6, Zenon
  <2> HIDE DEF so_far, longer
  <2>8. IsList(longer) /\ next = Apply(seen, Disconnected(gone))
    BY <2>7, SeenOne
  <2> HIDE DEF seen, next
  <2>11. Shows(next, [seen.connected EXCEPT ![gone] = 0], seen.focus, FALSE)
    BY <2>7, <2>8, ShowsDisconnected
  <2>12. IsState(next) /\ next.connected = [seen.connected EXCEPT ![gone] = 0]
    BY <2>11, Zenon DEF Shows
  <2>9. [[peer \in Peers |-> IF peer \in Told(k) THEN 0 ELSE old[peer]] EXCEPT ![gone] = 0]
          = [peer \in Peers |-> IF peer \in Told(k + 1) THEN 0 ELSE old[peer]]
    BY <2>5
  <2>10. Good(k + 1)
    BY <2>3, <2>8, <2>9, <2>12, Zenon DEF seen, next, so_far, longer
  <2> QED
    BY <2>2, <2>10
<1>9. Good(n)
  <2> HIDE DEF Good
  <2>1. 0 .. n \subseteq U
    <3> HIDE DEF U
    <3> QED
      BY <1>2, <1>7, <1>8, Counting
  <2> QED
    BY <1>2, <2>1
<1>10. Told(n) = dropped
  BY <1>2
<1>11. IsList(g)
  <2>1. n \in 0 .. n
    BY <1>2
  <2> HIDE DEF Prefix, T
  <2> QED
    BY <1>4, <1>5, <2>1 DEF IsList
<1>12. [peer \in Peers |-> IF peer \in Told(n) THEN 0 ELSE old[peer]]
         = [peer \in Peers |-> IF peer \in dropped THEN 0 ELSE old[peer]]
  BY <1>10
<1> HIDE DEF Prefix, Told
<1> QED
  BY <1>4, <1>9, <1>11, <1>12 DEF g

-----------------------------------------------------------------------------
(* Several events at the end of the queue.                                 *)
LEMMA OneMore ==
  ASSUME NEW queue, NEW rest, NEW last, IsList(queue), IsList(rest)
  PROVE  /\ IsList(queue \o rest)
         /\ queue \o (rest \o <<last>>) = (queue \o rest) \o <<last>>
<1>1. PICK T : queue \in Seq(T)
  BY DEF IsList
<1>2. PICK U : rest \in Seq(U)
  BY DEF IsList
<1>3. queue \o rest \in Seq(T \cup U)
  BY <1>1, <1>2
<1>4. queue \o (rest \o <<last>>) = (queue \o rest) \o <<last>>
  BY <1>1, <1>2
<1> QED
  BY <1>3, <1>4 DEF IsList

LEMMA ShortLists ==
  ASSUME NEW one, NEW two, NEW three
  PROVE  /\ IsList(<<one>>) /\ IsList(<<one, two>>) /\ IsList(<<one, two, three>>)
         /\ <<one, two>> = <<one>> \o <<two>>
         /\ <<one, two, three>> = <<one, two>> \o <<three>>
<1> DEFINE T == {one, two, three}
<1>1. one \in T /\ two \in T /\ three \in T
  OBVIOUS
<1> HIDE DEF T
<1>3. <<one, two>> = <<one>> \o <<two>>
  <2> DEFINE both == <<one>> \o <<two>>
  <2>1. /\ Len(both) = 2 /\ both[1] = one /\ both[2] = two
        /\ both \in Seq(T) /\ DOMAIN both = 1 .. 2
    BY <1>1
  <2>2. both = [i \in 1 .. 2 |-> both[i]]
    BY <2>1
  <2>3. <<one, two>> = [i \in 1 .. 2 |-> <<one, two>>[i]]
    OBVIOUS
  <2> HIDE DEF both
  <2>4. \A i \in 1 .. 2 : both[i] = <<one, two>>[i]
    BY <2>1
  <2>5. both = <<one, two>>
    BY <2>2, <2>3, <2>4, Zenon
  <2> QED
    BY <2>5 DEF both
<1>6. <<one, two, three>> = <<one, two>> \o <<three>>
  BY <1>1
<1>2. <<one>> \in Seq(T) /\ <<two>> \in Seq(T) /\ <<three>> \in Seq(T)
  BY <1>1
<1>4. <<one>> \o <<two>> \in Seq(T)
  BY <1>2
<1>5. <<one, two>> \o <<three>> \in Seq(T)
  BY <1>2, <1>3, <1>4
<1> QED
  BY <1>2, <1>3, <1>4, <1>5, <1>6, Zenon DEF IsList

LEMMA SeenTwo ==
  ASSUME NEW state, NEW queue, NEW one, NEW two, IsList(queue)
  PROVE  /\ IsList(queue \o <<one, two>>)
         /\ Seen(state, queue \o <<one, two>>) = Apply(Apply(Seen(state, queue), one), two)
<1> DEFINE shorter == queue \o <<one>>
           longer == queue \o <<one, two>>
<1>1. longer = shorter \o <<two>>
  <2>1. IsList(<<one>>) /\ <<one, two>> = <<one>> \o <<two>>
    BY ShortLists
  <2> QED
    BY <2>1, OneMore
<1>2. IsList(shorter) /\ Seen(state, shorter) = Apply(Seen(state, queue), one)
  BY SeenOne
<1> HIDE DEF shorter, longer
<1>3. IsList(longer) /\ Seen(state, longer) = Apply(Seen(state, shorter), two)
  BY <1>1, <1>2, SeenOne
<1> QED
  BY <1>2, <1>3, Zenon DEF longer

LEMMA SeenThree ==
  ASSUME NEW state, NEW queue, NEW one, NEW two, NEW three, IsList(queue)
  PROVE  /\ IsList(queue \o <<one, two, three>>)
         /\ Seen(state, queue \o <<one, two, three>>)
              = Apply(Apply(Apply(Seen(state, queue), one), two), three)
<1> DEFINE shorter == queue \o <<one, two>>
           longer == queue \o <<one, two, three>>
<1>1. longer = shorter \o <<three>>
  <2>1. IsList(<<one, two>>) /\ <<one, two, three>> = <<one, two>> \o <<three>>
    BY ShortLists, SMTT(60)
  <2> QED
    BY <2>1, OneMore
<1>2. /\ IsList(shorter)
      /\ Seen(state, shorter) = Apply(Apply(Seen(state, queue), one), two)
  BY SeenTwo
<1> HIDE DEF shorter, longer
<1>3. IsList(longer) /\ Seen(state, longer) = Apply(Seen(state, shorter), three)
  BY <1>1, <1>2, SeenOne
<1> QED
  BY <1>2, <1>3, Zenon DEF longer

(* Events that leave the user a state to see.                              *)
IsEvent(event) == \A state : IsState(state) => IsState(Apply(state, event))

LEMMA EventsAreEvents ==
  /\ \A kind \in {"Listening", "Connecting", "Error", "Stopped"} : IsEvent(Event(kind))
  /\ \A role : IsEvent(Starting(role))
  /\ \A peer, id : IsEvent(Connected(peer, id))
  /\ \A peer : IsEvent(Disconnected(peer))
<1>1. ASSUME NEW kind \in {"Listening", "Connecting", "Error", "Stopped"}
      PROVE  IsEvent(Event(kind))
  <2>1. CASE kind = "Stopped"
    BY <2>1, ShowsStopped DEF IsEvent, Shows
  <2>2. CASE kind \in {"Listening", "Connecting", "Error"}
    BY <2>2, ShowsPlain DEF IsEvent, Shows
  <2> QED
    BY <2>1, <2>2
<1>2. ASSUME NEW role PROVE IsEvent(Starting(role))
  BY ShowsStarting DEF IsEvent, Shows
<1>3. ASSUME NEW peer, NEW id PROVE IsEvent(Connected(peer, id))
  BY ShowsConnected DEF IsEvent, Shows
<1>4. ASSUME NEW peer PROVE IsEvent(Disconnected(peer))
  BY ShowsDisconnected DEF IsEvent, Shows
<1> QED
  BY <1>1, <1>2, <1>3, <1>4

-----------------------------------------------------------------------------
(* What the user will see once every event is taken.                       *)
View == Seen(session_state, events)

Workers == {"none", "starting", "listening", "connecting", "connected", "delaying",
            "ended"}

InUse == {peer \in Peers : peers[peer] # 0}

(* The inductive invariant: the user will see the connections in use,      *)
(* wherever the runtime's thread is; without a connection there are none,  *)
(* and an agent has no other than the one to its controller.               *)
ViewInv ==
  /\ IsList(events) /\ IsState(View)
  /\ worker \in Workers
  /\ peers = [peer \in Peers |-> peers[peer]] /\ IsFiniteSet(InUse)
  /\ View.connected = peers
  /\ worker = "listening" => View.focus = focus
  /\ worker \in {"connecting", "connected", "delaying"} =>
       View.agent_controlled = controlled
  /\ worker \notin {"listening", "connected"} => peers = NoPeers
  /\ worker # "connected" => controlled = FALSE
  /\ worker = "connected" => \A peer \in Peers : peer # Controller => peers[peer] = 0

LEMMA NoneInUse ==
  /\ NoPeers = [peer \in Peers |-> NoPeers[peer]]
  /\ IsFiniteSet({peer \in Peers : NoPeers[peer] # 0})
<1>1. {peer \in Peers : NoPeers[peer] # 0} = {}
  BY DEF NoPeers
<1>2. NoPeers = [peer \in Peers |-> NoPeers[peer]]
  BY DEF NoPeers
<1> QED
  BY <1>1, <1>2, FS_EmptySet

(* The thread ends: whatever it told the user before, nobody is connected. *)
LEMMA EndsShow ==
  ASSUME NEW new, IsList(new), IsList(events \o new), IsList(events),
         IsState(Seen(session_state, events \o new)), Ends(new),
         UNCHANGED session_state
  PROVE  ViewInv'
<1> DEFINE shorter == events \o new
<1>1. events' = shorter \o <<Event("Stopped")>>
  <2>1. events' = events \o (new \o <<Event("Stopped")>>)
    BY DEF Ends, Emit
  <2> QED
    BY <2>1, OneMore
<1> HIDE DEF shorter
<1>2. /\ IsList(events')
      /\ Seen(session_state, events') = Apply(Seen(session_state, shorter), Event("Stopped"))
  BY <1>1, SeenOne DEF shorter
<1>3. View' = Apply(Seen(session_state, shorter), Event("Stopped"))
  BY <1>2 DEF View
<1>4. IsState(View') /\ View'.connected = NoPeers
  BY <1>3, ShowsStopped DEF shorter, Shows
<1>5. worker' = "ended" /\ peers' = NoPeers /\ controlled' = FALSE
  BY DEF Ends
<1>6. peers' = [peer \in Peers |-> peers'[peer]] /\ IsFiniteSet(InUse')
  BY <1>5, NoneInUse DEF InUse
<1> QED
  BY <1>2, <1>4, <1>5, <1>6 DEF ViewInv, Workers

LEMMA EndsWithNothing ==
  ASSUME ViewInv, Ends(<<>>), UNCHANGED session_state
  PROVE  ViewInv'
<1>1. IsList(<<>>)
  BY SeenNothing
<1>2. events \o <<>> = events
  BY DEF ViewInv, IsList
<1> QED
  BY <1>1, <1>2, EndsShow DEF ViewInv, View

LEMMA EndsWithOne ==
  ASSUME ViewInv, NEW one, IsEvent(one), Ends(<<one>>), UNCHANGED session_state
  PROVE  ViewInv'
<1>1. IsList(<<one>>)
  BY ShortLists
<1>2. /\ IsList(events \o <<one>>)
      /\ Seen(session_state, events \o <<one>>) = Apply(View, one)
  BY SeenOne DEF ViewInv, View
<1>3. IsState(Apply(View, one))
  BY DEF ViewInv, IsEvent
<1> QED
  BY <1>1, <1>2, <1>3, EndsShow DEF ViewInv

LEMMA EndsWithTwo ==
  ASSUME ViewInv, NEW one, NEW two, IsEvent(one), IsEvent(two), Ends(<<one, two>>),
         UNCHANGED session_state
  PROVE  ViewInv'
<1>1. IsList(<<one, two>>)
  BY ShortLists
<1>2. /\ IsList(events \o <<one, two>>)
      /\ Seen(session_state, events \o <<one, two>>) = Apply(Apply(View, one), two)
  BY SeenTwo DEF ViewInv, View
<1>3. IsState(Apply(Apply(View, one), two))
  BY DEF ViewInv, IsEvent
<1> QED
  BY <1>1, <1>2, <1>3, EndsShow DEF ViewInv

LEMMA EndsWithThree ==
  ASSUME ViewInv, NEW one, NEW two, NEW three,
         IsEvent(one), IsEvent(two), IsEvent(three), Ends(<<one, two, three>>),
         UNCHANGED session_state
  PROVE  ViewInv'
<1>1. IsList(<<one, two, three>>)
  BY ShortLists
<1>2. /\ IsList(events \o <<one, two, three>>)
      /\ Seen(session_state, events \o <<one, two, three>>)
           = Apply(Apply(Apply(View, one), two), three)
  BY SeenThree DEF ViewInv, View
<1>3. IsState(Apply(Apply(Apply(View, one), two), three))
  BY DEF ViewInv, IsEvent
<1> QED
  BY <1>1, <1>2, <1>3, EndsShow DEF ViewInv

(* The events a step tells the user of are applied after all before them.  *)
LEMMA ViewAfterOne ==
  ASSUME ViewInv, NEW one, Emit(<<one>>), UNCHANGED session_state
  PROVE  IsList(events') /\ View' = Apply(View, one)
BY SeenOne DEF ViewInv, View, Emit

LEMMA ViewAfterTwo ==
  ASSUME ViewInv, NEW one, NEW two, Emit(<<one, two>>), UNCHANGED session_state
  PROVE  IsList(events') /\ View' = Apply(Apply(View, one), two)
BY SeenTwo DEF ViewInv, View, Emit

LEMMA ViewAfterThree ==
  ASSUME ViewInv, NEW one, NEW two, NEW three, Emit(<<one, two, three>>),
         UNCHANGED session_state
  PROVE  IsList(events') /\ View' = Apply(Apply(Apply(View, one), two), three)
BY SeenThree DEF ViewInv, View, Emit

(* Steps that nobody sees.                                                 *)
Unseen ==
  UNCHANGED <<session_state, events, worker, peers, focus, controlled, runtime>>

LEMMA UnseenSteps == ViewInv /\ Unseen => ViewInv'
BY DEF Unseen, ViewInv, View, InUse, Controller

LEMMA StartsShow ==
  ASSUME ViewInv, StartController \/ StartAgent
  PROVE  ViewInv'
<1> DEFINE As(role) == Starting(role)
<1>1. UNCHANGED session_state /\ worker = "starting"
  BY DEF StartController, StartAgent, ui
<1>2. peers = NoPeers /\ controlled = FALSE
  BY <1>1 DEF ViewInv
<1>3. /\ IsEvent(Starting("Controller")) /\ IsEvent(Starting("Agent"))
      /\ IsEvent(Event("Listening")) /\ IsEvent(Event("Error"))
  BY EventsAreEvents
<1>4. CASE \E role : Ends(<<Starting(role), Event("Error")>>)
  <2>1. PICK role : Ends(<<Starting(role), Event("Error")>>)
    BY <1>4
  <2>2. IsEvent(Starting(role))
    BY EventsAreEvents
  <2> QED
    BY <1>1, <1>3, <2>1, <2>2, EndsWithTwo
<1>5. CASE Ends(<<Starting("Controller"), Event("Listening"), Event("Error")>>)
  BY <1>1, <1>3, <1>5, EndsWithThree
<1>6. CASE /\ Emit(<<Starting("Controller"), Event("Listening"), FocusChanged(Local)>>)
           /\ worker' = "listening" /\ focus' = Local
           /\ UNCHANGED <<peers, controlled>>
  <2> DEFINE first == Apply(View, Starting("Controller"))
             second == Apply(first, Event("Listening"))
  <2>1. IsList(events') /\ View' = Apply(second, FocusChanged(Local))
    BY <1>1, <1>6, ViewAfterThree
  <2>2. Shows(first, NoPeers, "none", FALSE)
    BY ShowsStarting
  <2> HIDE DEF first
  <2>3. Shows(second, NoPeers, "none", FALSE)
    BY <2>2, ShowsPlain DEF Shows
  <2> HIDE DEF second
  <2>4. Shows(View', NoPeers, Local, FALSE)
    BY <2>1, <2>3, ShowsFocus DEF Shows
  <2> QED
    BY <1>2, <1>6, <2>1, <2>4 DEF ViewInv, Workers, InUse, Shows
<1>7. CASE /\ Emit(<<Starting("Agent"), Event("Connecting")>>)
           /\ worker' = "connecting" /\ UNCHANGED <<peers, controlled>>
  <2> DEFINE first == Apply(View, Starting("Agent"))
  <2>1. IsList(events') /\ View' = Apply(first, Event("Connecting"))
    BY <1>1, <1>7, ViewAfterTwo
  <2>2. Shows(first, NoPeers, "none", FALSE)
    BY ShowsStarting
  <2> HIDE DEF first
  <2>3. Shows(View', NoPeers, "none", FALSE)
    BY <2>1, <2>2, ShowsPlain DEF Shows
  <2> QED
    BY <1>2, <1>7, <2>1, <2>3 DEF ViewInv, Workers, InUse, Shows
<1>8. CASE StartController
  BY <1>4, <1>5, <1>6, <1>8 DEF StartController
<1>9. CASE StartAgent
  BY <1>4, <1>7, <1>9 DEF StartAgent
<1> QED
  BY <1>8, <1>9

(* Connections come and go at a controller.                                *)
LEMMA PeersShow ==
  ASSUME ViewInv, NEW peer, NEW id, AcceptPeer(peer) \/ PeerEnds(peer, id)
  PROVE  ViewInv'
<1>1. /\ UNCHANGED <<session_state, runtime, worker, controlled>>
      /\ worker = "listening"
  BY DEF AcceptPeer, PeerEnds, ui
<1>2. CASE AcceptPeer(peer) /\ peer \in screens
  <2> DEFINE new == Fresh(peer)
  <2>1. /\ peers' = [peers EXCEPT ![peer] = new] /\ Emit(<<Connected(peer, new)>>)
        /\ UNCHANGED focus
    BY <1>2 DEF AcceptPeer
  <2> HIDE DEF new
  <2>2. IsList(events') /\ View' = Apply(View, Connected(peer, new))
    BY <1>1, <2>1, ViewAfterOne
  <2>3. Shows(View', [View.connected EXCEPT ![peer] = new], View.focus,
              View.agent_controlled)
    BY <2>2, ShowsConnected DEF ViewInv
  <2>4. IsFiniteSet(InUse')
    <3>1. IsFiniteSet(InUse \cup {peer})
      BY FS_AddElement DEF ViewInv
    <3>2. InUse' \in SUBSET (InUse \cup {peer})
      BY <2>1 DEF ViewInv, InUse
    <3> QED
      BY <3>1, <3>2, FS_Subset
  <2>5. peers' = [other \in Peers |-> peers'[other]]
    BY <2>1 DEF ViewInv
  <2> QED
    BY <1>1, <2>1, <2>2, <2>3, <2>4, <2>5 DEF ViewInv, Workers, Shows
<1>3. CASE Emit(<<Event("Error")>>) /\ UNCHANGED <<peers, focus>>
  <2>1. IsList(events') /\ View' = Apply(View, Event("Error"))
    BY <1>1, <1>3, ViewAfterOne
  <2>2. Shows(View', View.connected, View.focus, View.agent_controlled)
    BY <2>1, ShowsPlain DEF ViewInv
  <2> QED
    BY <1>1, <1>3, <2>1, <2>2 DEF ViewInv, Shows, InUse
<1>4. CASE PeerEnds(peer, id) /\ peers[peer] = id
  <2>1. /\ peers' = [peers EXCEPT ![peer] = 0]
        /\ focus' = IF focus = peer THEN Local ELSE focus
        /\ Emit(<<Disconnected(peer)>>
                \o IF focus = peer THEN <<FocusChanged(Local)>> ELSE <<>>)
    BY <1>4 DEF PeerEnds
  <2> DEFINE first == Apply(View, Disconnected(peer))
  <2>2. Shows(first, [View.connected EXCEPT ![peer] = 0], View.focus, FALSE)
    BY ShowsDisconnected DEF ViewInv
  <2> DEFINE Good == /\ IsList(events') /\ IsState(View')
                     /\ View'.connected = peers' /\ View'.focus = focus'
  <2>3. ASSUME focus = peer PROVE Good
    <3>1. Emit(<<Disconnected(peer), FocusChanged(Local)>>)
      <4>1. Emit(<<Disconnected(peer)>> \o <<FocusChanged(Local)>>)
        BY <2>1, <2>3
      <4> QED
        BY <4>1, ShortLists
    <3>2. IsList(events') /\ View' = Apply(first, FocusChanged(Local))
      BY <1>1, <3>1, ViewAfterTwo
    <3> HIDE DEF first
    <3>3. Shows(View', [View.connected EXCEPT ![peer] = 0], Local, FALSE)
      BY <2>2, <3>2, ShowsFocus DEF Shows
    <3>4. View.connected = peers /\ focus' = Local
      BY <2>1, <2>3 DEF ViewInv
    <3> QED
      BY <2>1, <3>2, <3>3, <3>4 DEF Shows
  <2>4. ASSUME focus # peer PROVE Good
    <3>1. Emit(<<Disconnected(peer)>>)
      <4>1. Emit(<<Disconnected(peer)>> \o <<>>)
        BY <2>1, <2>4
      <4> QED
        BY <4>1
    <3>2. IsList(events') /\ View' = first
      BY <1>1, <3>1, ViewAfterOne
    <3> HIDE DEF first
    <3>3. View.connected = peers /\ focus' = focus /\ View.focus = focus
      BY <1>1, <2>1, <2>4 DEF ViewInv
    <3> QED
      BY <2>1, <2>2, <3>2, <3>3 DEF Shows
  <2>5. Good
    BY <2>3, <2>4
  <2>6. InUse' \in SUBSET InUse /\ peers' = [other \in Peers |-> peers'[other]]
    BY <2>1 DEF ViewInv, InUse
  <2>7. IsFiniteSet(InUse')
    BY <2>6, FS_Subset DEF ViewInv
  <2> QED
    BY <1>1, <2>5, <2>6, <2>7 DEF ViewInv, Workers
<1>5. CASE UNCHANGED <<peers, focus, events>>
  BY <1>1, <1>5, UnseenSteps DEF Unseen
<1> QED
  BY <1>2, <1>3, <1>4, <1>5 DEF AcceptPeer, PeerEnds

LEMMA FocusShows ==
  ASSUME ViewInv, NEW node, focus' = node, Emit(<<FocusChanged(node)>>),
         worker = "listening", UNCHANGED <<session_state, runtime, worker, peers, controlled>>
  PROVE  ViewInv'
<1>1. IsList(events') /\ View' = Apply(View, FocusChanged(node))
  BY ViewAfterOne
<1>2. Shows(View', View.connected, node, View.agent_controlled)
  BY <1>1, ShowsFocus DEF ViewInv
<1> QED
  BY <1>1, <1>2 DEF ViewInv, Shows, InUse

LEMMA RejectionShows ==
  ASSUME ViewInv, RejectConnection
  PROVE  ViewInv'
<1>1. /\ UNCHANGED <<session_state, runtime, worker, peers, focus, controlled>>
      /\ worker = "listening" /\ Emit(<<Event("Error")>>)
  BY DEF RejectConnection, ui, session
<1>2. IsList(events') /\ View' = Apply(View, Event("Error"))
  BY <1>1, ViewAfterOne
<1>3. Shows(View', View.connected, View.focus, View.agent_controlled)
  BY <1>2, ShowsPlain DEF ViewInv
<1> QED
  BY <1>1, <1>2, <1>3 DEF ViewInv, Shows, InUse

LEMMA ControlShows ==
  ASSUME ViewInv, ControlAgent
  PROVE  ViewInv'
<1>1. /\ UNCHANGED <<session_state, runtime, worker, peers, focus>>
      /\ worker = "connected"
  BY DEF ControlAgent, ui
<1> DEFINE active == controlled'
<1>2. Emit(<<AgentControl(active)>>)
  BY DEF ControlAgent
<1> HIDE DEF active
<1>3. IsList(events') /\ View' = Apply(View, AgentControl(active))
  BY <1>1, <1>2, ViewAfterOne
<1>4. Shows(View', View.connected, View.focus, active)
  BY <1>3, ShowsControl DEF ViewInv
<1> QED
  BY <1>1, <1>3, <1>4 DEF ViewInv, Shows, InUse, Controller, active

(* An agent tries again, or gives up, after it lost its controller.        *)
LEMMA RetriesShow ==
  ASSUME ViewInv, NEW tried, UNCHANGED session_state,
         RetryOrGiveUp(tried, <<Disconnected(Controller)>>),
         \A peer \in Peers : peer # Controller => peers[peer] = 0
  PROVE  ViewInv'
<1> DEFINE lost == Disconnected(Controller)
<1>1. CASE Ends(<<lost>> \o <<Event("Error")>>)
  <2>1. Ends(<<lost, Event("Error")>>)
    BY <1>1, ShortLists
  <2>2. IsEvent(lost) /\ IsEvent(Event("Error"))
    BY EventsAreEvents
  <2> HIDE DEF lost
  <2> QED
    BY <2>1, <2>2, EndsWithTwo
<1>2. CASE /\ Emit(<<lost>>) /\ worker' = "delaying"
           /\ peers' = NoPeers /\ controlled' = FALSE
  <2>1. IsList(events') /\ View' = Apply(View, lost)
    BY <1>2, ViewAfterOne
  <2>2. Shows(View', [View.connected EXCEPT ![Controller] = 0], View.focus, FALSE)
    BY <2>1, ShowsDisconnected DEF ViewInv
  <2>3. [peers EXCEPT ![Controller] = 0] = NoPeers
    BY DEF ViewInv, NoPeers
  <2>4. IsFiniteSet(InUse') /\ peers' = [peer \in Peers |-> peers'[peer]]
    BY <1>2, NoneInUse DEF InUse
  <2> QED
    BY <1>2, <2>1, <2>2, <2>3, <2>4 DEF ViewInv, Workers, Shows
<1> QED
  BY <1>1, <1>2 DEF RetryOrGiveUp

LEMMA AttemptsShow ==
  ASSUME ViewInv, ConnectFails \/ LoseController
  PROVE  ViewInv'
<1>1. CASE ConnectFails
  <2>1. /\ UNCHANGED session_state /\ worker = "connecting"
        /\ RetryOrGiveUp(attempt, <<Disconnected(Controller)>>)
    BY <1>1 DEF ConnectFails, ui
  <2>2. \A peer \in Peers : peers[peer] = 0
    BY <2>1 DEF ViewInv, NoPeers
  <2> QED
    BY <2>1, <2>2, RetriesShow
<1>2. CASE LoseController
  <2>1. /\ UNCHANGED session_state /\ worker = "connected"
        /\ RetryOrGiveUp(0, <<Disconnected(Controller)>>) \/ Ends(<<Event("Error")>>)
    BY <1>2 DEF LoseController, ui
  <2>2. \A peer \in Peers : peer # Controller => peers[peer] = 0
    BY <2>1 DEF ViewInv
  <2>3. IsEvent(Event("Error"))
    BY EventsAreEvents
  <2> QED
    BY <2>1, <2>2, <2>3, RetriesShow, EndsWithOne
<1> QED
  BY <1>1, <1>2

(* Another attempt begins, by itself or for a command.                     *)
LEMMA ConnectingShows ==
  ASSUME ViewInv, worker \in {"connecting", "delaying"}, worker' = "connecting",
         Emit(<<Event("Connecting")>>), UNCHANGED <<session_state, peers, controlled>>
  PROVE  ViewInv'
<1>1. IsList(events') /\ View' = Apply(View, Event("Connecting"))
  BY ViewAfterOne
<1>2. Shows(View', View.connected, View.focus, View.agent_controlled)
  BY <1>1, ShowsPlain DEF ViewInv
<1> QED
  BY <1>1, <1>2 DEF ViewInv, Workers, Shows, InUse

LEMMA ConnectShows ==
  ASSUME ViewInv, Connect
  PROVE  ViewInv'
<1> DEFINE id == Fresh(Controller)
<1>1. /\ UNCHANGED session_state /\ worker = "connecting"
      /\ \/ Ends(<<Connected(Controller, id)>> \o <<Event("Error")>>)
         \/ /\ worker' = "connected" /\ peers' = [peers EXCEPT ![Controller] = id]
            /\ Emit(<<Connected(Controller, id)>>) /\ UNCHANGED <<runtime, controlled>>
  BY DEF Connect, ui
<1> HIDE DEF id
<1>2. CASE Ends(<<Connected(Controller, id)>> \o <<Event("Error")>>)
  <2>1. Ends(<<Connected(Controller, id), Event("Error")>>)
    BY <1>2, ShortLists
  <2>2. IsEvent(Connected(Controller, id)) /\ IsEvent(Event("Error"))
    BY EventsAreEvents
  <2> QED
    BY <1>1, <2>1, <2>2, EndsWithTwo
<1>3. CASE /\ worker' = "connected" /\ peers' = [peers EXCEPT ![Controller] = id]
           /\ Emit(<<Connected(Controller, id)>>) /\ UNCHANGED <<runtime, controlled>>
  <2>1. IsList(events') /\ View' = Apply(View, Connected(Controller, id))
    BY <1>1, <1>3, ViewAfterOne
  <2>2. Shows(View', [View.connected EXCEPT ![Controller] = id], View.focus,
              View.agent_controlled)
    BY <2>1, ShowsConnected DEF ViewInv
  <2>3. \A peer \in Peers : peers[peer] = 0
    BY <1>1 DEF ViewInv, NoPeers
  <2>4. /\ peers' = [peer \in Peers |-> peers'[peer]]
        /\ \A peer \in Peers : peer # Controller => peers'[peer] = 0
    BY <1>3, <2>3 DEF ViewInv
  <2>5. IsFiniteSet(InUse')
    <3>1. InUse' \in SUBSET {Controller}
      BY <2>4 DEF InUse
    <3> QED
      BY <3>1, FS_Singleton, FS_Subset
  <2>6. Controller' = Controller
    BY <1>3 DEF Controller
  <2> QED
    BY <1>1, <1>3, <2>1, <2>2, <2>4, <2>5, <2>6 DEF ViewInv, Workers, Shows
<1> QED
  BY <1>1, <1>2, <1>3

(* The peers without a place are dropped.                                  *)
LEMMA ReconfiguresShow ==
  ASSUME ViewInv, TakeReconfigure, UNCHANGED session_state
  PROVE  ViewInv'
<1> DEFINE placed == Head(commands).screens
           dropped == {peer \in Peers \ placed : peers[peer] # 0}
           goodbyes == SetToSeq({Disconnected(peer) : peer \in dropped})
           stays == IF focus \in placed THEN focus ELSE Local
           longer == events \o goodbyes
           told == Seen(session_state, longer)
           left == [peer \in Peers |-> IF peer \in dropped THEN 0 ELSE peers[peer]]
<1>1. /\ worker = "listening"
      /\ \/ Ends(goodbyes \o <<Event("Error")>>)
         \/ /\ Emit(goodbyes \o <<FocusChanged(stays)>>)
            /\ focus' = stays /\ peers' = left
            /\ UNCHANGED <<runtime, worker, controlled>>
  BY DEF TakeReconfigure
<1>2. dropped \in SUBSET Peers /\ IsFiniteSet(dropped)
  <2>1. dropped \in SUBSET InUse
    BY DEF InUse
  <2> HIDE DEF dropped
  <2> QED
    BY <2>1, FS_Subset DEF ViewInv, InUse
<1> HIDE DEF dropped
<1>3. /\ IsList(goodbyes) /\ IsList(longer) /\ IsState(told)
      /\ told.connected = left
  BY <1>2, SeenGoodbyes DEF ViewInv, View
<1> HIDE DEF goodbyes, stays, left
<1>4. ASSUME NEW event
      PROVE  /\ IsList(goodbyes \o <<event>>) /\ IsList(longer \o <<event>>)
             /\ events \o (goodbyes \o <<event>>) = longer \o <<event>>
             /\ Seen(session_state, longer \o <<event>>) = Apply(told, event)
  <2>1. IsList(<<event>>) /\ IsList(events)
    BY ShortLists DEF ViewInv
  <2>2. IsList(goodbyes \o <<event>>) /\ IsList(longer \o <<event>>)
    <3> HIDE DEF longer
    <3> QED
      BY <1>3, <2>1, OneMore
  <2>3. events \o (goodbyes \o <<event>>) = longer \o <<event>>
    BY <1>3, <2>1, OneMore
  <2> HIDE DEF longer
  <2>4. Seen(session_state, longer \o <<event>>) = Apply(told, event)
    BY <1>3, SeenOne
  <2> QED
    BY <2>2, <2>3, <2>4
<1> HIDE DEF longer, told
<1>5. CASE Ends(goodbyes \o <<Event("Error")>>)
  <2>1. IsState(Apply(told, Event("Error")))
    BY <1>3, EventsAreEvents DEF IsEvent
  <2> DEFINE new == goodbyes \o <<Event("Error")>>
  <2>2. IsList(new) /\ IsList(events \o new) /\ IsState(Seen(session_state, events \o new))
    BY <1>4, <2>1
  <2> HIDE DEF new
  <2>3. IsList(events)
    BY DEF ViewInv
  <2> QED
    BY <1>5, <2>2, <2>3, EndsShow DEF new
<1>6. CASE /\ Emit(goodbyes \o <<FocusChanged(stays)>>)
           /\ focus' = stays /\ peers' = left
           /\ UNCHANGED <<runtime, worker, controlled>>
  <2>1. events' = longer \o <<FocusChanged(stays)>>
    BY <1>4, <1>6 DEF Emit
  <2>2. IsList(events') /\ View' = Apply(told, FocusChanged(stays))
    BY <1>4, <2>1 DEF View
  <2>3. Shows(View', left, stays, told.agent_controlled)
    BY <1>3, <2>2, ShowsFocus DEF Shows
  <2>4. InUse' \in SUBSET InUse /\ peers' = [peer \in Peers |-> peers'[peer]]
    BY <1>6 DEF left, InUse
  <2>5. IsFiniteSet(InUse')
    BY <2>4, FS_Subset DEF ViewInv
  <2> QED
    BY <1>1, <1>6, <2>2, <2>3, <2>4, <2>5 DEF ViewInv, Workers, Shows
<1> QED
  BY <1>1, <1>5, <1>6

LEMMA CommandsShow ==
  ASSUME ViewInv, TakeCommand
  PROVE  ViewInv'
<1>1. UNCHANGED session_state /\ Running
  BY DEF TakeCommand, ui
<1>2. CASE TakeStop
  BY <1>1, <1>2, EndsWithNothing DEF TakeStop
<1>3. CASE TakeReturnLocal
  BY <1>1, <1>3, FocusShows DEF TakeReturnLocal
<1>4. CASE TakeReconfigure
  BY <1>1, <1>4, ReconfiguresShow
<1>5. CASE TakeOther
  <2>1. CASE UNCHANGED <<session, events>>
    BY <1>1, <2>1, UnseenSteps DEF Unseen, session
  <2>2. CASE /\ worker \in {"connecting", "delaying"} /\ worker' = "connecting"
             /\ Emit(<<Event("Connecting")>>) /\ UNCHANGED <<peers, controlled>>
    BY <1>1, <2>2, ConnectingShows
  <2> QED
    BY <1>5, <2>1, <2>2 DEF TakeOther
<1> QED
  BY <1>2, <1>3, <1>4, <1>5 DEF TakeCommand

LEMMA WorkersShow ==
  ASSUME ViewInv, WorkerStep
  PROVE  ViewInv'
<1>1. CASE StartController \/ StartAgent
  BY <1>1, StartsShow
<1>2. CASE TakeCommand
  BY <1>2, CommandsShow
<1>3. CASE TakeNativeEvent
  <2>1. UNCHANGED session_state /\ Ends(<<Event("Error")>>) /\ IsEvent(Event("Error"))
    BY <1>3, EventsAreEvents DEF TakeNativeEvent, ui
  <2> QED
    BY <2>1, EndsWithOne
<1>4. CASE Connect
  BY <1>4, ConnectShows
<1>5. CASE ConnectFails
  BY <1>5, AttemptsShow
<1>6. CASE Reconnect
  <2>1. /\ UNCHANGED <<session_state, peers, controlled>> /\ worker = "delaying"
        /\ worker' = "connecting" /\ Emit(<<Event("Connecting")>>)
    BY <1>6 DEF Reconnect, ui
  <2> QED
    BY <2>1, ConnectingShows
<1> QED
  BY <1>1, <1>2, <1>3, <1>4, <1>5, <1>6 DEF WorkerStep

LEMMA SurroundingsShow ==
  ASSUME ViewInv, AroundTheSession
  PROVE  ViewInv'
<1>1. ASSUME NEW peer \in Peers, AcceptPeer(peer) PROVE ViewInv'
  BY <1>1, PeersShow
<1>2. ASSUME NEW end \in open, PeerEnds(end[1], end[2]) PROVE ViewInv'
  BY <1>2, PeersShow
<1>3. ASSUME NEW node \in Peers \cup {Local}, MoveFocus(node) PROVE ViewInv'
  <2>1. /\ UNCHANGED <<session_state, runtime, worker, peers, controlled>>
        /\ worker = "listening" /\ focus' = node /\ Emit(<<FocusChanged(node)>>)
    BY <1>3 DEF MoveFocus, ui
  <2> QED
    BY <2>1, FocusShows
<1>4. CASE RejectConnection
  BY <1>4, RejectionShows
<1>5. CASE ControlAgent
  BY <1>5, ControlShows
<1>6. CASE LoseController
  BY <1>6, AttemptsShow
<1>7. CASE NativeOpens \/ NativeFails \/ NativeCloses \/ NativeFinishes
  <2>1. Unseen
    BY <1>7 DEF NativeOpens, NativeFails, NativeCloses, NativeFinishes, Unseen, ui,
                session, queues
  <2> QED
    BY <2>1, UnseenSteps
<1> QED
  BY <1>1, <1>2, <1>3, <1>4, <1>5, <1>6, <1>7 DEF AroundTheSession

(* A session that has not begun, or is over, shows nobody.                 *)
LEMMA FreshView ==
  ASSUME events' = <<>>, Shows(session_state', NoPeers, "none", FALSE),
         worker' \in {"none", "starting"}, peers' = NoPeers, controlled' = FALSE
  PROVE  ViewInv'
<1>1. IsList(events') /\ View' = session_state'
  BY SeenNothing DEF View
<1>2. peers' = [peer \in Peers |-> peers'[peer]] /\ IsFiniteSet(InUse')
  BY NoneInUse DEF InUse
<1> QED
  BY <1>1, <1>2 DEF ViewInv, Workers, Shows

LEMMA FramesShow ==
  ASSUME ViewInv, FrameStep
  PROVE  ViewInv'
<1>1. CASE StartDeferredSession
  BY <1>1, UnseenSteps DEF StartDeferredSession, Unseen, session
<1>2. CASE Poll
  <2>1. /\ session_state' = View /\ events' = <<>>
        /\ UNCHANGED <<peers, focus, controlled>>
        /\ \/ worker = "ended" /\ worker' = "none"
           \/ UNCHANGED <<runtime, worker>>
    BY <1>2 DEF Poll, View, Seen
  <2>2. IsList(events') /\ View' = View
    BY <2>1, SeenNothing DEF View
  <2>3. CASE worker = "ended" /\ worker' = "none"
    BY <2>1, <2>2, <2>3 DEF ViewInv, Workers, InUse
  <2>4. CASE UNCHANGED <<runtime, worker>>
    BY <2>1, <2>2, <2>4 DEF ViewInv, InUse, Controller
  <2> QED
    BY <2>1, <2>3, <2>4
<1>3. CASE Joined
  <2>1. /\ worker \in {"none", "ended"} /\ events' = <<>>
        /\ UNCHANGED <<peers, controlled>>
    BY <1>3 DEF Joined
  <2>2. peers' = NoPeers /\ controlled' = FALSE
    BY <2>1 DEF ViewInv
  <2>3. /\ worker' \in {"none", "starting"}
        /\ session_state' \in
             {DefaultState, [DefaultState EXCEPT !.phase = "Failed", !.error = TRUE]}
    BY <1>3 DEF Joined, StartSession, NoSession
  <2>4. /\ Shows(DefaultState, NoPeers, "none", FALSE)
        /\ Shows([DefaultState EXCEPT !.phase = "Failed", !.error = TRUE],
                 NoPeers, "none", FALSE)
    <3>1. ASSUME NEW failed, failed = [DefaultState EXCEPT !.phase = "Failed", !.error = TRUE]
          PROVE  Shows(failed, NoPeers, "none", FALSE)
      BY <3>1, ShowsDefault DEF Shows, IsState
    <3> QED
      BY <3>1, ShowsDefault
  <2>5. Shows(session_state', NoPeers, "none", FALSE)
    BY <2>3, <2>4
  <2> QED
    BY <2>1, <2>2, <2>3, <2>5, FreshView
<1> QED
  BY <1>1, <1>2, <1>3 DEF FrameStep

(* The user works on files, and asks; the session follows later.           *)
LEMMA UsersShow ==
  ASSUME ViewInv, UserStep
  PROVE  ViewInv'
<1>1. CASE Exit
  <2>1. /\ events' = <<>> /\ worker' = "none" /\ peers' = NoPeers
        /\ controlled' = FALSE /\ session_state' = DefaultState
    BY <1>1 DEF Exit
  <2> QED
    BY <2>1, FreshView, ShowsDefault
<1>2. CASE ~Exit
  <2> USE DEF Unseen, UserActs, session, queues
  <2>1. ASSUME NEW config, SaveConfig(config) PROVE Unseen
    BY <2>1 DEF SaveConfig
  <2>2. CASE SaveConfigFails
    BY <2>2, UnseenSteps DEF SaveConfigFails
  <2>3. ASSUME NEW config, LoadConfig(config) PROVE Unseen
    BY <2>3 DEF LoadConfig
  <2>4. ASSUME NEW node, NEW certificate,
               \/ ImportPairing(node, certificate)
               \/ ImportPairingFails(node, certificate)
        PROVE  Unseen
    BY <2>4 DEF ImportPairing, ImportPairingFails
  <2>5. ASSUME NEW node, RemovePeer(node) PROVE Unseen
    BY <2>5 DEF RemovePeer
  <2>6. ASSUME NEW kind, SendCommand(kind) PROVE Unseen
    BY <2>6 DEF SendCommand
  <2>7. ASSUME NEW role, ChangeRole(role) PROVE Unseen
    BY <2>7 DEF ChangeRole
  <2>8. CASE CreateIdentity
    BY <2>8, UnseenSteps DEF CreateIdentity
  <2>9. CASE Launch
    BY <2>9, UnseenSteps DEF Launch
  <2> QED
    BY <1>2, <2>1, <2>2, <2>3, <2>4, <2>5, <2>6, <2>7, <2>8, <2>9, UnseenSteps
       DEF UserStep
<1> QED
  BY <1>1, <1>2

(* Once every event is taken the user sees what the runtime's thread does: *)
(* the connections in use, the focus, the control; whatever connects,      *)
(* replaces, ends or fails in between, and for queues of any size.         *)
THEOREM UserSeesTheWorker == AppSpec => []StateFollowsWorker
<1>1. AppInit => ViewInv
  <2> SUFFICES ASSUME AppInit PROVE ViewInv
    OBVIOUS
  <2>1. /\ events = <<>> /\ session_state = DefaultState /\ worker = "none"
        /\ peers = NoPeers /\ controlled = FALSE
    BY DEF AppInit
  <2>2. IsList(events) /\ View = DefaultState
    BY <2>1, SeenNothing DEF View
  <2>3. peers = [peer \in Peers |-> peers[peer]] /\ IsFiniteSet(InUse)
    BY <2>1, NoneInUse DEF InUse
  <2> QED
    BY <2>1, <2>2, <2>3, ShowsDefault DEF ViewInv, Workers, Shows
<1>2. ViewInv /\ [AppNext]_appVars => ViewInv'
  <2> SUFFICES ASSUME ViewInv, [AppNext]_appVars PROVE ViewInv'
    OBVIOUS
  <2>1. CASE UNCHANGED appVars
    BY <2>1, UnseenSteps DEF appVars, ui, session, queues, Unseen
  <2> QED
    BY <2>1, WorkersShow, FramesShow, SurroundingsShow, UsersShow DEF AppNext
<1>3. ViewInv => StateFollowsWorker
  BY DEF ViewInv, StateFollowsWorker, View, Seen
<1> QED
  BY <1>1, <1>2, <1>3, PTL DEF AppSpec

=============================================================================
