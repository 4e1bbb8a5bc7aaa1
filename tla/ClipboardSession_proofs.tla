------------------------ MODULE ClipboardSession_proofs ------------------------
(***************************************************************************)
(* Proofs about ClipboardSession for any ends, texts and range of          *)
(* sequences, exhausted ones included: which generation is under           *)
(* application and which one waits, that the state the code takes to be    *)
(* impossible is never reached, and which local change is pending.         *)
(***************************************************************************)
EXTENDS ClipboardSession, TLAPS

-----------------------------------------------------------------------------
(* The inductive invariant, by session.                                    *)

(* `next` follows the last sequence sent, until it is exhausted.           *)
NextFollowsSent(s) == s.next # 0 => s.next = s.sent + 1

SessionInv(s) == NewestWaits(s) /\ PendingMatches(s) /\ NextFollowsSent(s)

ClipboardInv ==
  /\ TypeOK
  /\ \A e \in Ends : SessionInv(session[e])
  /\ NeverStateInvariant

LEMMA SequenceTypes ==
  /\ Sequences \subseteq Nat
  /\ 0 \in Sequences /\ 1 \in Sequences
  /\ \A n \in Sequences : Successor(n) \in Sequences
  /\ \A n \in Sequences : Successor(n) # 0 => Successor(n) = n + 1
BY SequenceAssumption DEF Sequences, Successor

LEMMA ActionTypes ==
  ASSUME NEW n \in Sequences, NEW text \in Texts
  PROVE  /\ SendOffer(n, text) \in ClipboardActions
         /\ SendTransfer(n, text) \in ClipboardActions
         /\ ApplyRemote(n, text) \in ClipboardActions
         /\ SendApplied(n) \in ClipboardActions
BY DEF ClipboardActions, SendOffer, SendTransfer, ApplyRemote, SendApplied

LEMMA NoClipType == NoClip \in Clips
BY SequenceTypes DEF NoClip, Clip, Clips

LEMMA NewSessionInv == NewSession \in ClipboardSessions /\ SessionInv(NewSession)
<1>1. NewSession \in ClipboardSessions
  BY SequenceTypes, NoClipType DEF NewSession, ClipboardSessions
<1>2. SessionInv(NewSession)
  BY DEF NewSession, SessionInv, NewestWaits, PendingMatches, NextFollowsSent, IsApplying
<1> QED
  BY <1>1, <1>2

LEMMA InitInv == Init => ClipboardInv
<1> SUFFICES ASSUME Init PROVE ClipboardInv
  OBVIOUS
<1>1. TypeOK
  BY NewSessionInv DEF Init, TypeOK, Errors
<1>2. \A e \in Ends : SessionInv(session[e])
  BY NewSessionInv DEF Init
<1>3. NeverStateInvariant
  BY DEF Init, NeverStateInvariant
<1> QED
  BY <1>1, <1>2, <1>3 DEF ClipboardInv

-----------------------------------------------------------------------------
(* The three ways a call ends.                                             *)

(* A call that returns a session with the invariant keeps it.              *)
LEMMA ReturnKeepsInv ==
  ASSUME ClipboardInv, NEW e \in Ends, NEW after \in ClipboardSessions,
         NEW list \in Seq(ClipboardActions), SessionInv(after), Return(e, after, list)
  PROVE  ClipboardInv'
<1>1. TypeOK'
  BY DEF ClipboardInv, TypeOK, Return
<1>2. session' = [session EXCEPT ![e] = after] /\ session \in [Ends -> ClipboardSessions]
  BY DEF ClipboardInv, TypeOK, Return
<1>3. ASSUME NEW f \in Ends PROVE SessionInv(session'[f])
  <2>1. CASE f = e
    BY <1>2, <2>1
  <2>2. CASE f # e
    BY <1>2, <2>2 DEF ClipboardInv
  <2> QED
    BY <2>1, <2>2
<1>4. (\A f \in Ends : SessionInv(session[f]))'
  BY <1>3
<1>5. NeverStateInvariant'
  BY DEF ClipboardInv, NeverStateInvariant, Return
<1> QED
  BY <1>1, <1>4, <1>5 DEF ClipboardInv

(* A call that fails with any error but StateInvariant keeps it.           *)
LEMMA FailKeepsInv ==
  ASSUME ClipboardInv, NEW e \in Ends, NEW reason \in Errors, reason # "StateInvariant",
         Fail(e, reason)
  PROVE  ClipboardInv'
<1>1. TypeOK'
  BY DEF ClipboardInv, TypeOK, Fail
<1>2. (\A f \in Ends : SessionInv(session[f]))'
  BY DEF ClipboardInv, Fail
<1>3. NeverStateInvariant'
  BY DEF ClipboardInv, TypeOK, NeverStateInvariant, Fail
<1> QED
  BY <1>1, <1>2, <1>3 DEF ClipboardInv

LEMMA StutterKeepsInv ==
  ASSUME ClipboardInv, UNCHANGED vars
  PROVE  ClipboardInv'
BY DEF ClipboardInv, TypeOK, NeverStateInvariant, vars

-----------------------------------------------------------------------------
(* Each call keeps the invariant.                                          *)

LEMMA LocalChangedKeepsInv ==
  ASSUME ClipboardInv, NEW e \in Ends, NEW text \in Texts, LocalChanged(e, text)
  PROVE  ClipboardInv'
<1> DEFINE s == session[e]
           after == [s EXCEPT !.next = Successor(s.next), !.sent = s.next,
                              !.pending = s.next, !.remote_text = NoText]
           list == <<SendOffer(s.next, text), SendTransfer(s.next, text)>>
<1>0. s \in ClipboardSessions /\ SessionInv(s)
  BY DEF ClipboardInv, TypeOK
<1>1. CASE UNCHANGED vars
  BY <1>1, StutterKeepsInv
<1>2. CASE Fail(e, "LocalSequenceExhausted")
  BY <1>2, FailKeepsInv DEF Errors
<1>3. CASE s.next # 0 /\ Return(e, after, list)
  <2>1. s.next \in Sequences
    BY <1>0 DEF ClipboardSessions
  <2>2. after \in ClipboardSessions
    BY <1>0, <2>1, SequenceTypes DEF ClipboardSessions
  <2>3. list \in Seq(ClipboardActions)
    BY <2>1, ActionTypes
  <2>4. NewestWaits(after)
    BY <1>0 DEF SessionInv, NewestWaits, IsApplying, ClipboardSessions
  <2>5. PendingMatches(after) /\ NextFollowsSent(after)
    BY <1>0, <1>3, <2>1, SequenceTypes
    DEF SessionInv, PendingMatches, NextFollowsSent, ClipboardSessions
  <2> HIDE DEF after, list
  <2> QED
    BY <1>3, <2>2, <2>3, <2>4, <2>5, ReturnKeepsInv DEF SessionInv
<1> QED
  BY <1>1, <1>2, <1>3 DEF LocalChanged

LEMMA ReceiveAcknowledgementKeepsInv ==
  ASSUME ClipboardInv, NEW e \in Ends, NEW owner \in Nodes, NEW n \in Sequences \ {0},
         ReceiveAcknowledgement(e, owner, n)
  PROVE  ClipboardInv'
<1> DEFINE s == session[e]
           after == [s EXCEPT !.acknowledged = n, !.pending = PendingAfter(s, n)]
<1>0. s \in ClipboardSessions /\ SessionInv(s)
  BY DEF ClipboardInv, TypeOK
<1>1. CASE UNCHANGED vars
  BY <1>1, StutterKeepsInv
<1>2. CASE Fail(e, "UnexpectedGenerationOwner") \/ Fail(e, "AcknowledgementBeyondSent")
  BY <1>2, FailKeepsInv DEF Errors
<1>3. CASE n <= s.sent /\ n > s.acknowledged /\ Return(e, after, <<>>)
  <2>1. after \in ClipboardSessions
    BY <1>0, SequenceTypes DEF ClipboardSessions, PendingAfter
  <2>2. NewestWaits(after)
    BY <1>0 DEF SessionInv, NewestWaits, IsApplying, ClipboardSessions
  <2>3. PendingMatches(after) /\ NextFollowsSent(after)
    BY <1>0, <1>3, SequenceTypes
    DEF SessionInv, PendingMatches, NextFollowsSent, ClipboardSessions, PendingAfter
  <2> HIDE DEF after
  <2>4. <<>> \in Seq(ClipboardActions)
    OBVIOUS
  <2> QED
    BY <1>3, <2>1, <2>2, <2>3, <2>4, ReturnKeepsInv DEF SessionInv
<1> QED
  BY <1>1, <1>2, <1>3 DEF ReceiveAcknowledgement

(* A verified pair: what may go under application.                         *)
LEMMA BeginningClip ==
  ASSUME NEW clip \in Clips, Begins(clip), ~Mismatched(clip)
  PROVE  /\ clip.transfer \in Texts
         /\ clip.offer = clip.transfer
         /\ Application(clip) \in Seq(ClipboardActions)
<1>1. clip.transfer \in Texts /\ clip.offer = clip.transfer /\ clip.sequence \in Sequences
  BY DEF Begins, Ready, Mismatched, Clips
<1>2. ApplyRemote(clip.sequence, clip.transfer) \in ClipboardActions
  BY <1>1, ActionTypes
<1> QED
  BY <1>1, <1>2 DEF Application

(* The incoming clipboard of a generation that is not ignored nor under    *)
(* application is of that generation, newer than both.                     *)
LEMMA StagedIsNewest ==
  ASSUME NEW s \in ClipboardSessions, SessionInv(s), NEW n \in Sequences \ {0},
         ~Ignored(s, n), ~ApplyingThis(s, n)
  PROVE  /\ Staged(s, n) \in Clips
         /\ Staged(s, n).sequence = n
         /\ ~Mismatched(Staged(s, n))
         /\ n > s.applied /\ n >= s.highest
         /\ IsApplying(s) => n > s.applying.sequence
<1>1. /\ n \in Nat /\ s.applied \in Nat /\ s.highest \in Nat
      /\ s.applying \in Clips /\ s.applying.sequence \in Nat /\ s.incoming \in Clips
  BY SequenceTypes DEF ClipboardSessions, Clips
<1>2. n > s.applied /\ n >= s.highest
  BY <1>1 DEF Ignored
<1>3. IsApplying(s) => n > s.applying.sequence
  BY <1>1, <1>2 DEF SessionInv, NewestWaits, ApplyingThis
<1>4. Clip(n, NoText, NoText) \in Clips /\ ~Mismatched(Clip(n, NoText, NoText))
  BY DEF Clip, Clips, Mismatched, Ready
<1>5. CASE n > s.highest \/ s.incoming = NoClip
  <2>1. Staged(s, n) = Clip(n, NoText, NoText)
    BY <1>5 DEF Staged
  <2> QED
    BY <1>2, <1>3, <1>4, <2>1 DEF Clip
<1>6. CASE ~(n > s.highest) /\ s.incoming # NoClip
  <2>1. Staged(s, n) = s.incoming
    BY <1>6 DEF Staged
  <2>2. n = s.highest
    BY <1>1, <1>2, <1>6
  <2> QED
    BY <1>1, <1>2, <1>3, <1>6, <2>1, <2>2 DEF SessionInv, NewestWaits
<1> QED
  BY <1>5, <1>6

(* finish_incoming keeps the invariant.                                    *)
LEMMA FinishIncomingKeepsInv ==
  ASSUME ClipboardInv, NEW e \in Ends, NEW clip \in Clips, ~Mismatched(clip), clip # NoClip,
         clip.sequence > session[e].applied, clip.sequence >= session[e].highest,
         IsApplying(session[e]) => clip.sequence > session[e].applying.sequence,
         FinishIncoming(e, clip)
  PROVE  ClipboardInv'
<1> DEFINE s == session[e]
           h == [s EXCEPT !.highest = IF clip.sequence > @ THEN clip.sequence ELSE @]
           begun == [h EXCEPT !.incoming = NoClip, !.applying = clip]
           staged == [h EXCEPT !.incoming = clip]
<1>0. s \in ClipboardSessions /\ SessionInv(s)
  BY DEF ClipboardInv, TypeOK
<1>1. clip.sequence \in Sequences /\ clip.sequence \in Nat /\ s.highest \in Nat
  BY <1>0, SequenceTypes DEF Clips, ClipboardSessions
<1>2. h = [s EXCEPT !.highest = clip.sequence]
  BY <1>0, <1>1 DEF ClipboardSessions
<1>3. CASE ~IsApplying(h) /\ Begins(clip) /\ Return(e, begun, Application(clip))
  <2>1. begun = [s EXCEPT !.highest = clip.sequence, !.incoming = NoClip, !.applying = clip]
    BY <1>0, <1>2 DEF ClipboardSessions
  <2>2. begun \in ClipboardSessions
    BY <1>0, <1>1, <2>1, NoClipType DEF ClipboardSessions
  <2>3. NewestWaits(begun)
    BY <1>0, <1>1, <1>3, <2>1, BeginningClip DEF NewestWaits, IsApplying, ClipboardSessions
  <2>4. PendingMatches(begun) /\ NextFollowsSent(begun)
    BY <1>0, <2>1 DEF SessionInv, PendingMatches, NextFollowsSent, ClipboardSessions
  <2>5. Application(clip) \in Seq(ClipboardActions)
    BY <1>3, BeginningClip
  <2> HIDE DEF begun
  <2> QED
    BY <1>3, <2>2, <2>3, <2>4, <2>5, ReturnKeepsInv DEF SessionInv
<1>4. CASE (IsApplying(h) \/ ~Begins(clip)) /\ Return(e, staged, <<>>)
  <2>1. staged = [s EXCEPT !.highest = clip.sequence, !.incoming = clip]
    BY <1>0, <1>2 DEF ClipboardSessions
  <2>2. staged \in ClipboardSessions
    BY <1>0, <1>1, <2>1 DEF ClipboardSessions
  <2>3. NewestWaits(staged)
    <3>1. /\ staged.applying = s.applying /\ staged.applied = s.applied
          /\ staged.incoming = clip /\ staged.highest = clip.sequence
      BY <1>0, <2>1 DEF ClipboardSessions
    <3>2. s.applied \in Nat /\ s.applying.sequence \in Nat
      BY <1>0, SequenceTypes DEF ClipboardSessions, Clips
    <3> QED
      BY <1>0, <1>1, <3>1, <3>2 DEF SessionInv, NewestWaits, IsApplying
  <2>4. PendingMatches(staged) /\ NextFollowsSent(staged)
    BY <1>0, <2>1 DEF SessionInv, PendingMatches, NextFollowsSent, ClipboardSessions
  <2>5. <<>> \in Seq(ClipboardActions)
    OBVIOUS
  <2> HIDE DEF staged
  <2> QED
    BY <1>4, <2>2, <2>3, <2>4, <2>5, ReturnKeepsInv DEF SessionInv
<1> QED
  BY <1>3, <1>4 DEF FinishIncoming

LEMMA ReceivePartKeepsInv ==
  ASSUME ClipboardInv, NEW e \in Ends, NEW part \in Parts, NEW owner \in Nodes,
         NEW n \in Sequences \ {0}, NEW text \in Texts, ReceivePart(e, part, owner, n, text)
  PROVE  ClipboardInv'
<1> DEFINE s == session[e]
           clip == Staged(s, n)
           filled == [clip EXCEPT ![part] = text]
           reason == StagingError(clip, part, n, text)
<1>0. s \in ClipboardSessions /\ SessionInv(s)
  BY DEF ClipboardInv, TypeOK
<1>1. CASE UNCHANGED vars
  BY <1>1, StutterKeepsInv
<1>2. CASE Fail(e, "UnexpectedGenerationOwner") \/ Fail(e, Conflict(part))
  BY <1>2, FailKeepsInv DEF Errors, Conflict
<1>3. CASE /\ ~Ignored(s, n) /\ ~ApplyingThis(s, n)
           /\ \/ reason # "none" /\ Fail(e, reason)
              \/ reason = "none" /\ clip[part] = NoText /\ FinishIncoming(e, filled)
  <2>1. /\ clip \in Clips /\ clip.sequence = n /\ ~Mismatched(clip)
        /\ n > s.applied /\ n >= s.highest
        /\ IsApplying(s) => n > s.applying.sequence
    BY <1>0, <1>3, StagedIsNewest
  <2>2. reason \in {Conflict(part), "Mismatch", "none"}
    BY <2>1 DEF StagingError
  <2>3. CASE reason # "none" /\ Fail(e, reason)
    <3>1. reason \in Errors /\ reason # "StateInvariant"
      BY <2>2 DEF Conflict, Errors
    <3> QED
      BY <2>3, <3>1, FailKeepsInv
  <2>4. CASE reason = "none" /\ clip[part] = NoText /\ FinishIncoming(e, filled)
    <3>1. ~Mismatched(filled)
      BY <2>1, <2>4 DEF StagingError
    <3>2. filled \in Clips /\ filled.sequence = n /\ filled # NoClip
      <4>1. n # 0
        OBVIOUS
      <4>2. CASE part = "offer"
        BY <2>1, <4>1, <4>2 DEF Clips, NoClip, Clip
      <4>3. CASE part = "transfer"
        BY <2>1, <4>1, <4>3 DEF Clips, NoClip, Clip
      <4> QED
        BY <4>2, <4>3 DEF Parts
    <3> HIDE DEF filled
    <3> QED
      BY <2>1, <2>4, <3>1, <3>2, FinishIncomingKeepsInv
  <2> QED
    BY <1>3, <2>3, <2>4
<1>4. \/ UNCHANGED vars
      \/ Fail(e, "UnexpectedGenerationOwner") \/ Fail(e, Conflict(part))
      \/ /\ ~Ignored(s, n) /\ ~ApplyingThis(s, n)
         /\ \/ reason # "none" /\ Fail(e, reason)
            \/ reason = "none" /\ clip[part] = NoText /\ FinishIncoming(e, filled)
  BY Zenon DEF ReceivePart
<1> HIDE DEF clip, filled, reason
<1> QED
  BY <1>1, <1>2, <1>3, <1>4

LEMMA ConfirmAppliedKeepsInv ==
  ASSUME ClipboardInv, NEW e \in Ends, NEW owner \in Nodes, NEW n \in Sequences \ {0},
         ConfirmApplied(e, owner, n)
  PROVE  ClipboardInv'
<1> DEFINE s == session[e]
           reason == ConfirmationError(s, Peer(e), owner, n)
           after == [s EXCEPT !.applied = n, !.remote_text = s.applying.transfer]
           begun == [after EXCEPT !.applying = s.incoming, !.incoming = NoClip]
           done == [after EXCEPT !.applying = NoClip]
<1>0. s \in ClipboardSessions /\ SessionInv(s)
  BY DEF ClipboardInv, TypeOK
<1>1. s.applying \in Clips /\ s.incoming \in Clips /\ n \in Nat /\ s.highest \in Nat
  BY <1>0, SequenceTypes DEF ClipboardSessions
<1>2. SendApplied(n) \in ClipboardActions
  BY DEF ClipboardActions, SendApplied
<1>3. CASE reason # "none" /\ Fail(e, reason)
  <2>1. IsApplying(s) => s.applying.transfer # NoText
    BY <1>0, TextsAssumption DEF SessionInv, NewestWaits
  <2>2. reason \in Errors /\ reason # "StateInvariant"
    BY <1>0, <2>1 DEF ConfirmationError, Errors, SessionInv
  <2> QED
    BY <1>3, <2>2, FailKeepsInv
<1>4. ASSUME reason = "none"
      PROVE  /\ IsApplying(s) /\ n = s.applying.sequence /\ ~Mismatched(s.incoming)
             /\ s.applying.transfer \in Texts
  BY <1>0, <1>4 DEF ConfirmationError, SameGeneration, SessionInv, NewestWaits
<1>5. CASE reason = "none" /\ Begins(s.incoming)
           /\ Return(e, begun, <<SendApplied(n)>> \o Application(s.incoming))
  <2>1. begun = [s EXCEPT !.applied = n, !.remote_text = s.applying.transfer,
                          !.applying = s.incoming, !.incoming = NoClip]
    BY <1>0 DEF ClipboardSessions
  <2>2. begun \in ClipboardSessions
    BY <1>0, <1>1, <1>4, <1>5, <2>1, NoClipType DEF ClipboardSessions
  <2>3. NewestWaits(begun)
    <3>1. s.incoming # NoClip /\ s.incoming.sequence = s.highest /\ s.incoming.sequence > n
      BY <1>0, <1>4, <1>5 DEF SessionInv, NewestWaits, NoClip, Clip, Begins, Ready
    <3>2. s.incoming.transfer \in Texts /\ s.incoming.offer = s.incoming.transfer
      BY <1>1, <1>4, <1>5, BeginningClip
    <3>3. /\ begun.applying = s.incoming /\ begun.applied = n
          /\ begun.incoming = NoClip /\ begun.highest = s.highest
      BY <1>0, <2>1 DEF ClipboardSessions
    <3> QED
      BY <1>1, <3>1, <3>2, <3>3 DEF NewestWaits, IsApplying
  <2>4. PendingMatches(begun) /\ NextFollowsSent(begun)
    BY <1>0, <2>1 DEF SessionInv, PendingMatches, NextFollowsSent, ClipboardSessions
  <2>5. <<SendApplied(n)>> \o Application(s.incoming) \in Seq(ClipboardActions)
    BY <1>1, <1>2, <1>4, <1>5, BeginningClip
  <2> HIDE DEF begun
  <2> QED
    BY <1>5, <2>2, <2>3, <2>4, <2>5, ReturnKeepsInv DEF SessionInv
<1>6. CASE reason = "none" /\ ~Begins(s.incoming) /\ Return(e, done, <<SendApplied(n)>>)
  <2>1. done = [s EXCEPT !.applied = n, !.remote_text = s.applying.transfer,
                         !.applying = NoClip]
    BY <1>0 DEF ClipboardSessions
  <2>2. done \in ClipboardSessions
    BY <1>0, <1>1, <1>4, <1>6, <2>1, NoClipType DEF ClipboardSessions
  <2>3. NewestWaits(done)
    BY <1>0, <1>1, <1>4, <1>6, <2>1 DEF SessionInv, NewestWaits, IsApplying, ClipboardSessions
  <2>4. PendingMatches(done) /\ NextFollowsSent(done)
    BY <1>0, <2>1 DEF SessionInv, PendingMatches, NextFollowsSent, ClipboardSessions
  <2>5. <<SendApplied(n)>> \in Seq(ClipboardActions)
    BY <1>2
  <2> HIDE DEF done
  <2> QED
    BY <1>6, <2>2, <2>3, <2>4, <2>5, ReturnKeepsInv DEF SessionInv
<1> QED
  BY <1>3, <1>5, <1>6 DEF ConfirmApplied

LEMMA TakeActionKeepsInv ==
  ASSUME ClipboardInv, NEW e \in Ends, TakeAction(e)
  PROVE  ClipboardInv'
<1>1. actions[e] \in Seq(ClipboardActions) /\ actions[e] # <<>>
  BY DEF ClipboardInv, TypeOK, TakeAction
<1>2. Tail(actions[e]) \in Seq(ClipboardActions)
  BY <1>1
<1>3. TypeOK'
  BY <1>2 DEF ClipboardInv, TypeOK, TakeAction
<1> QED
  BY <1>3 DEF ClipboardInv, NeverStateInvariant, TakeAction

LEMMA StepKeepsInv == ClipboardInv /\ [Next]_vars => ClipboardInv'
<1> SUFFICES ASSUME ClipboardInv, [Next]_vars PROVE ClipboardInv'
  OBVIOUS
<1>1. CASE UNCHANGED vars
  BY <1>1, StutterKeepsInv
<1>2. ASSUME NEW e \in Ends, NEW text \in Texts, LocalChanged(e, text)
      PROVE  ClipboardInv'
  BY <1>2, LocalChangedKeepsInv
<1>3. ASSUME NEW e \in Ends, NEW owner \in Nodes, NEW n \in Sequences \ {0},
             NEW text \in Texts,
             ReceiveOffer(e, owner, n, text) \/ ReceiveTransfer(e, owner, n, text)
      PROVE  ClipboardInv'
  BY <1>3, ReceivePartKeepsInv DEF ReceiveOffer, ReceiveTransfer, Parts
<1>4. ASSUME NEW e \in Ends, NEW owner \in Nodes, NEW n \in Sequences \ {0},
             ReceiveAcknowledgement(e, owner, n)
      PROVE  ClipboardInv'
  BY <1>4, ReceiveAcknowledgementKeepsInv
<1>5. ASSUME NEW e \in Ends, NEW owner \in Nodes, NEW n \in Sequences \ {0},
             ConfirmApplied(e, owner, n)
      PROVE  ClipboardInv'
  BY <1>5, ConfirmAppliedKeepsInv
<1>6. ASSUME NEW e \in Ends, TakeAction(e)
      PROVE  ClipboardInv'
  BY <1>6, TakeActionKeepsInv
<1> QED
  BY <1>1, <1>2, <1>3, <1>4, <1>5, <1>6 DEF Next

LEMMA AlwaysInv == Spec => []ClipboardInv
BY InitInv, StepKeepsInv, PTL DEF Spec

-----------------------------------------------------------------------------
(* What a step does to the generation applied last.                        *)

(* A call that returns either leaves it or makes it the one applying.      *)
LEMMA ReturnApplies ==
  ASSUME ClipboardInv, NEW e \in Ends, NEW after, NEW list, Return(e, after, list),
         \/ after.applied = session[e].applied
         \/ IsApplying(session[e]) /\ after.applied = session[e].applying.sequence,
         NEW f \in Ends
  PROVE  AppliesNext(f)
<1>1. session' = [session EXCEPT ![e] = after] /\ session \in [Ends -> ClipboardSessions]
  BY DEF ClipboardInv, TypeOK, Return
<1>2. CASE f # e
  BY <1>1, <1>2 DEF AppliesNext
<1>3. CASE f = e
  <2>1. session'[f] = after
    BY <1>1, <1>3
  <2>2. IsApplying(session[e]) => session[e].applying.sequence > session[e].applied
    BY DEF ClipboardInv, SessionInv, NewestWaits
  <2> QED
    BY <1>3, <2>1, <2>2 DEF AppliesNext
<1> QED
  BY <1>2, <1>3

LEMMA SameSessionApplies ==
  ASSUME UNCHANGED session, NEW f \in Ends
  PROVE  AppliesNext(f)
BY DEF AppliesNext

LEMMA FinishIncomingApplies ==
  ASSUME ClipboardInv, NEW e \in Ends, NEW clip, FinishIncoming(e, clip), NEW f \in Ends
  PROVE  AppliesNext(f)
<1> DEFINE s == session[e]
           h == [s EXCEPT !.highest = IF clip.sequence > @ THEN clip.sequence ELSE @]
<1>1. s \in ClipboardSessions
  BY DEF ClipboardInv, TypeOK
<1>2. /\ [h EXCEPT !.incoming = NoClip, !.applying = clip].applied = s.applied
      /\ [h EXCEPT !.incoming = clip].applied = s.applied
  BY <1>1 DEF ClipboardSessions
<1> QED
  BY <1>2, ReturnApplies DEF FinishIncoming

LEMMA ReceivePartApplies ==
  ASSUME ClipboardInv, NEW e \in Ends, NEW part, NEW owner, NEW n, NEW text,
         ReceivePart(e, part, owner, n, text), NEW f \in Ends
  PROVE  AppliesNext(f)
<1>1. \/ UNCHANGED session
      \/ \E clip : FinishIncoming(e, clip)
  BY Zenon DEF ReceivePart, Fail, vars
<1> QED
  BY <1>1, FinishIncomingApplies, SameSessionApplies

LEMMA ConfirmAppliedApplies ==
  ASSUME ClipboardInv, NEW e \in Ends, NEW owner, NEW n,
         ConfirmApplied(e, owner, n), NEW f \in Ends
  PROVE  AppliesNext(f)
<1> DEFINE s == session[e]
           reason == ConfirmationError(s, Peer(e), owner, n)
           after == [s EXCEPT !.applied = n, !.remote_text = s.applying.transfer]
           begun == [after EXCEPT !.applying = s.incoming, !.incoming = NoClip]
           done == [after EXCEPT !.applying = NoClip]
<1>1. s \in ClipboardSessions
  BY DEF ClipboardInv, TypeOK
<1>2. begun.applied = n /\ done.applied = n
  BY <1>1 DEF ClipboardSessions
<1>3. reason = "none" => IsApplying(s) /\ n = s.applying.sequence
  BY DEF ConfirmationError, SameGeneration
<1>4. \/ UNCHANGED session
      \/ reason = "none" /\ \E list : Return(e, begun, list)
      \/ reason = "none" /\ \E list : Return(e, done, list)
  BY Zenon DEF ConfirmApplied, Fail
<1> HIDE DEF begun, done, reason
<1> QED
  BY <1>2, <1>3, <1>4, ReturnApplies, SameSessionApplies

LEMMA LocalCallsApply ==
  ASSUME ClipboardInv, NEW e \in Ends, NEW owner, NEW n, NEW text,
         LocalChanged(e, text) \/ ReceiveAcknowledgement(e, owner, n) \/ TakeAction(e),
         NEW f \in Ends
  PROVE  AppliesNext(f)
<1> DEFINE s == session[e]
           changed == [s EXCEPT !.next = Successor(s.next), !.sent = s.next,
                                !.pending = s.next, !.remote_text = NoText]
           acknowledged == [s EXCEPT !.acknowledged = n, !.pending = PendingAfter(s, n)]
<1>1. s \in ClipboardSessions
  BY DEF ClipboardInv, TypeOK
<1>2. changed.applied = s.applied /\ acknowledged.applied = s.applied
  BY <1>1 DEF ClipboardSessions
<1>3. \/ UNCHANGED session
      \/ \E list : Return(e, changed, list)
      \/ \E list : Return(e, acknowledged, list)
  BY Zenon DEF LocalChanged, ReceiveAcknowledgement, TakeAction, Fail, vars
<1> HIDE DEF changed, acknowledged
<1> QED
  BY <1>2, <1>3, ReturnApplies, SameSessionApplies

-----------------------------------------------------------------------------
(* Theorems.                                                               *)

(* Every variable of a clipboard session keeps its type.                   *)
THEOREM TypeCorrect == Spec => []TypeOK
<1>1. ClipboardInv => TypeOK
  BY DEF ClipboardInv
<1> QED
  BY <1>1, AlwaysInv, PTL

(* The generation under application is verified and newer than what was    *)
(* applied; only the newest known one waits behind it.                     *)
THEOREM NewestWaitsForApplication == Spec => []NewestGenerationWaits
<1>1. ClipboardInv => NewestGenerationWaits
  BY DEF ClipboardInv, SessionInv, NewestGenerationWaits
<1> QED
  BY <1>1, AlwaysInv, PTL

(* ClipboardSessionError::StateInvariant is never returned.                *)
THEOREM StateInvariantHolds == Spec => []NeverStateInvariant
<1>1. ClipboardInv => NeverStateInvariant
  BY DEF ClipboardInv
<1> QED
  BY <1>1, AlwaysInv, PTL

(* The peer's generations are applied in increasing order, each one once.  *)
THEOREM GenerationsApplyInOrder == Spec => AppliedInOrder
<1>1. ASSUME ClipboardInv, [Next]_vars, NEW f \in Ends PROVE AppliesNext(f)
  <2>1. CASE UNCHANGED vars
    BY <2>1, SameSessionApplies DEF vars
  <2>2. CASE Next
    BY <1>1, <2>2, LocalCallsApply, ReceivePartApplies, ConfirmAppliedApplies
    DEF Next, ReceiveOffer, ReceiveTransfer
  <2> QED
    BY <1>1, <2>1, <2>2
<1>2. ClipboardInv /\ [Next]_vars => [\A e \in Ends : AppliesNext(e)]_vars
  BY <1>1
<1> QED
  BY <1>2, AlwaysInv, PTL DEF Spec, AppliedInOrder, AppliesNext

(* The newest local change is pending until it is acknowledged.            *)
THEOREM NewestChangePending == Spec => []PendingUntilAcknowledged
<1>1. ClipboardInv => PendingUntilAcknowledged
  BY DEF ClipboardInv, SessionInv, PendingUntilAcknowledged
<1> QED
  BY <1>1, AlwaysInv, PTL

=============================================================================
