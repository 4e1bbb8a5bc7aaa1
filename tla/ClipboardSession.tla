-------------------------- MODULE ClipboardSession --------------------------
(***************************************************************************)
(* The clipboard session (session/src/clipboard.rs), one for each end      *)
(* of a connection.  An end <<node, peer>> numbers the node's own changes, *)
(* offers them, and takes the peer's: an offer on the control stream and a *)
(* text on a transfer stream, in either order.  One generation at a time   *)
(* is under native application and at most one newer one is incoming.      *)
(*                                                                         *)
(* A generation is its owner and its sequence; every generation an end     *)
(* keeps is the peer's, or its own, so that only the sequence is kept.  An *)
(* offer's length and digest stand for the text they were taken from.      *)
(* `actions[e]` is what the last call returned; the caller carries it out  *)
(* before the next call.  Every caller gives up a session that fails.      *)
(***************************************************************************)
EXTENDS Integers, Sequences

CONSTANTS
  Nodes,
  Ends,          \* the pairs <<node, peer>>
  Texts,         \* clipboard contents within the protocol limit
  NoText,        \* no text: None in the code
  LastSequence   \* the greatest sequence (u64::MAX in the code)

ASSUME EndsAssumption == Ends \subseteq Nodes \X Nodes /\ \A e \in Ends : e[1] # e[2]
ASSUME TextsAssumption == NoText \notin Texts
ASSUME SequenceAssumption == LastSequence \in Nat \ {0}

VARIABLES
  session,   \* the fields of ClipboardSession, by end
  actions,   \* what the last call returned
  error      \* the error that ended the session, or "none"

vars == <<session, actions, error>>

Sequences == 0 .. LastSequence
Owner(e) == e[1]
Peer(e) == e[2]

(* IncomingClipboard; `offer` and `transfer` are texts or NoText.          *)
Clip(n, offer, transfer) == [sequence |-> n, offer |-> offer, transfer |-> transfer]
Clips == [sequence : Sequences, offer : Texts \cup {NoText}, transfer : Texts \cup {NoText}]
NoClip == Clip(0, NoText, NoText)
Parts == {"offer", "transfer"}

(* A sequence of 0 in `next` means exhausted, in `pending` nothing pending.*)
NewSession ==
  [next |-> 1, sent |-> 0, acknowledged |-> 0, pending |-> 0,
   applied |-> 0, highest |-> 0,
   incoming |-> NoClip, applying |-> NoClip, remote_text |-> NoText]

ClipboardSessions ==
  [next : Sequences, sent : Sequences, acknowledged : Sequences, pending : Sequences,
   applied : Sequences, highest : Sequences,
   incoming : Clips, applying : Clips, remote_text : Texts \cup {NoText}]

SendOffer(n, text) == [type |-> "SendOffer", sequence |-> n, text |-> text]
SendTransfer(n, text) == [type |-> "SendTransfer", sequence |-> n, text |-> text]
SendApplied(n) == [type |-> "SendApplied", sequence |-> n]
ApplyRemote(n, text) == [type |-> "ApplyRemote", sequence |-> n, text |-> text]

ClipboardActions ==
  [type : {"SendOffer", "SendTransfer", "ApplyRemote"}, sequence : Sequences, text : Texts]
    \cup [type : {"SendApplied"}, sequence : Sequences]

Errors ==
  {"none", "LocalSequenceExhausted", "UnexpectedGenerationOwner",
   "AcknowledgementBeyondSent", "ConflictingOffer", "ConflictingTransfer", "Mismatch",
   "NoApplicationPending", "ApplicationGenerationMismatch", "StateInvariant"}

Init ==
  /\ session = [e \in Ends |-> NewSession]
  /\ actions = [e \in Ends |-> <<>>]
  /\ error = [e \in Ends |-> "none"]

Idle(e) == actions[e] = <<>> /\ error[e] = "none"

Fail(e, reason) ==
  /\ error' = [error EXCEPT ![e] = reason]
  /\ UNCHANGED <<session, actions>>

(* ClipboardSession::new, for a new connection.                            *)
Start(e) ==
  /\ session' = [session EXCEPT ![e] = NewSession]
  /\ actions' = [actions EXCEPT ![e] = <<>>]
  /\ error' = [error EXCEPT ![e] = "none"]

(* A call returns `list` and leaves the session as `after`.                *)
Return(e, after, list) ==
  /\ session' = [session EXCEPT ![e] = after]
  /\ actions' = [actions EXCEPT ![e] = list]
  /\ UNCHANGED error

-----------------------------------------------------------------------------
(* The node's own changes.                                                 *)

(* checked_add; none after the greatest.  Mutant: it goes on.              *)
Unbounded(n) == n + 1
Successor(n) == IF n = LastSequence THEN 0 ELSE n + 1

(* What the peer's text already is, is an echo of its application.         *)
(* Mutant: not suppressed.                                                 *)
NoEcho(s, text) == FALSE
Echo(s, text) == s.remote_text = text

(* The native clipboard changed.                                           *)
LocalChanged(e, text) ==
  LET s == session[e] IN
  /\ Idle(e)
  /\ \/ Echo(s, text) /\ UNCHANGED vars
     \/ ~Echo(s, text) /\ s.next = 0 /\ Fail(e, "LocalSequenceExhausted")
     \/ /\ ~Echo(s, text) /\ s.next # 0
        /\ Return(e, [s EXCEPT !.next = Successor(s.next), !.sent = s.next,
                               !.pending = s.next, !.remote_text = NoText],
                     <<SendOffer(s.next, text), SendTransfer(s.next, text)>>)

(* Mutants: any acknowledgement clears what is pending; or only one beyond *)
(* it does.                                                                *)
NothingPending(s, n) == 0
PendingThrough(s, n) == IF s.pending < n THEN 0 ELSE s.pending

PendingAfter(s, n) == IF s.pending <= n THEN 0 ELSE s.pending

(* The peer has applied our generation n.                                  *)
ReceiveAcknowledgement(e, owner, n) ==
  LET s == session[e] IN
  /\ Idle(e)
  /\ \/ owner # Owner(e) /\ Fail(e, "UnexpectedGenerationOwner")
     \/ owner = Owner(e) /\ n > s.sent /\ Fail(e, "AcknowledgementBeyondSent")
     \/ owner = Owner(e) /\ n <= s.acknowledged /\ UNCHANGED vars
     \/ /\ owner = Owner(e) /\ n <= s.sent /\ n > s.acknowledged
        /\ Return(e, [s EXCEPT !.acknowledged = n, !.pending = PendingAfter(s, n)], <<>>)

-----------------------------------------------------------------------------
(* The peer's changes.                                                     *)

(* Mutant: a generation older than the newest known one is still taken.    *)
IgnoreApplied(s, n) == n <= s.applied

Ignored(s, n) == n <= s.applied \/ n < s.highest

IsApplying(s) == s.applying # NoClip
ApplyingThis(s, n) == IsApplying(s) /\ s.applying.sequence = n

(* stage_generation: the incoming clipboard that a part of n belongs to.   *)
(* Mutant: a newer one does not replace an incomplete one.                 *)
StagedOlder(s, n) == IF s.incoming = NoClip THEN Clip(n, NoText, NoText) ELSE s.incoming

Staged(s, n) ==
  IF n > s.highest \/ s.incoming = NoClip THEN Clip(n, NoText, NoText) ELSE s.incoming

Conflict(part) == IF part = "offer" THEN "ConflictingOffer" ELSE "ConflictingTransfer"

Ready(clip) == clip.offer # NoText /\ clip.transfer # NoText

(* validate_incoming.                                                      *)
Mismatched(clip) == Ready(clip) /\ clip.offer # clip.transfer

(* The error of a part that belongs to the incoming clipboard `clip`.      *)
StagingError(clip, part, n, text) ==
  IF clip.sequence # n THEN "StateInvariant"
  ELSE IF clip[part] \notin {NoText, text} THEN Conflict(part)
  ELSE IF clip[part] = NoText /\ Mismatched([clip EXCEPT ![part] = text]) THEN "Mismatch"
  ELSE "none"

(* begin_application of `clip`, when nothing is applying.  Mutant: a text   *)
(* is enough, whether or not its offer came.                               *)
HasText(clip) == clip.transfer # NoText
Begins(clip) == Ready(clip)

Application(clip) == <<ApplyRemote(clip.sequence, clip.transfer)>>

(* finish_incoming, `clip` being the incoming clipboard.                   *)
FinishIncoming(e, clip) ==
  LET s == [session[e] EXCEPT !.highest = IF clip.sequence > @ THEN clip.sequence ELSE @] IN
  \/ /\ ~IsApplying(s) /\ Begins(clip)
     /\ Return(e, [s EXCEPT !.incoming = NoClip, !.applying = clip], Application(clip))
  \/ /\ IsApplying(s) \/ ~Begins(clip)
     /\ Return(e, [s EXCEPT !.incoming = clip], <<>>)

(* receive_offer and receive_transfer, for the two values of `part`.       *)
ReceivePart(e, part, owner, n, text) ==
  LET s == session[e]
      clip == Staged(s, n)
      reason == StagingError(clip, part, n, text)
  IN
  /\ Idle(e)
  /\ \/ owner # Peer(e) /\ Fail(e, "UnexpectedGenerationOwner")
     \/ owner = Peer(e) /\ Ignored(s, n) /\ UNCHANGED vars
     \/ /\ owner = Peer(e) /\ ~Ignored(s, n) /\ ApplyingThis(s, n)
        /\ IF s.applying[part] = text THEN UNCHANGED vars ELSE Fail(e, Conflict(part))
     \/ /\ owner = Peer(e) /\ ~Ignored(s, n) /\ ~ApplyingThis(s, n)
        /\ \/ reason # "none" /\ Fail(e, reason)
           \/ reason = "none" /\ clip[part] = text /\ UNCHANGED vars
           \/ /\ reason = "none" /\ clip[part] = NoText
              /\ FinishIncoming(e, [clip EXCEPT ![part] = text])

ReceiveOffer(e, owner, n, text) == ReceivePart(e, "offer", owner, n, text)
ReceiveTransfer(e, owner, n, text) == ReceivePart(e, "transfer", owner, n, text)

(* Mutant: any generation of the peer is confirmed.                        *)
SameOwner(s, expected, owner, n) == owner = expected
SameGeneration(s, expected, owner, n) == owner = expected /\ n = s.applying.sequence

ConfirmationError(s, expected, owner, n) ==
  IF ~IsApplying(s) THEN "NoApplicationPending"
  ELSE IF ~SameGeneration(s, expected, owner, n) THEN "ApplicationGenerationMismatch"
  ELSE IF Mismatched(s.incoming) THEN "Mismatch"
  ELSE IF s.applying.transfer = NoText THEN "StateInvariant"
  ELSE "none"

(* The native service has written the text of generation n.                *)
ConfirmApplied(e, owner, n) ==
  LET s == session[e]
      reason == ConfirmationError(s, Peer(e), owner, n)
      after == [s EXCEPT !.applied = n, !.remote_text = s.applying.transfer]
  IN
  /\ Idle(e)
  /\ \/ reason # "none" /\ Fail(e, reason)
     \/ /\ reason = "none" /\ Begins(s.incoming)
        /\ Return(e, [after EXCEPT !.applying = s.incoming, !.incoming = NoClip],
                     <<SendApplied(n)>> \o Application(s.incoming))
     \/ /\ reason = "none" /\ ~Begins(s.incoming)
        /\ Return(e, [after EXCEPT !.applying = NoClip], <<SendApplied(n)>>)

(* The caller has carried out the first action returned.                   *)
TakeAction(e) ==
  /\ actions[e] # <<>>
  /\ actions' = [actions EXCEPT ![e] = Tail(actions[e])]
  /\ UNCHANGED <<session, error>>

-----------------------------------------------------------------------------
(* An end that any peer talks to: every message and report at any time.    *)

Next ==
  \E e \in Ends :
    \/ \E text \in Texts : LocalChanged(e, text)
    \/ \E owner \in Nodes, n \in Sequences \ {0}, text \in Texts :
         ReceiveOffer(e, owner, n, text) \/ ReceiveTransfer(e, owner, n, text)
    \/ \E owner \in Nodes, n \in Sequences \ {0} :
         ReceiveAcknowledgement(e, owner, n) \/ ConfirmApplied(e, owner, n)
    \/ TakeAction(e)

Spec == Init /\ [][Next]_vars

-----------------------------------------------------------------------------
(* Properties.                                                             *)

(* Every variable keeps its type.                                          *)
TypeOK ==
  /\ session \in [Ends -> ClipboardSessions]
  /\ actions \in [Ends -> Seq(ClipboardActions)]
  /\ error \in [Ends -> Errors]

(* What is under application was verified, is newer than what was applied  *)
(* and never newer than the newest known; a generation is incoming only as *)
(* the newest known, behind the one under application: "newer updates      *)
(* replace incomplete older ones".                                         *)
NewestWaits(s) ==
  /\ IsApplying(s) =>
       /\ s.applying.sequence > s.applied /\ s.applying.sequence <= s.highest
       /\ s.applying.transfer \in Texts /\ s.applying.offer = s.applying.transfer
  /\ s.incoming # NoClip =>
       /\ s.incoming.sequence = s.highest /\ s.incoming.sequence > s.applied
       /\ IsApplying(s) => s.incoming.sequence > s.applying.sequence
       /\ ~Mismatched(s.incoming)

NewestGenerationWaits == \A e \in Ends : NewestWaits(session[e])

(* The code's own error for a state it takes to be impossible: no sequence *)
(* of messages and confirmations, from whatever peer, leads to it.         *)
NeverStateInvariant == \A e \in Ends : error[e] # "StateInvariant"

(* Our newest change is pending until exactly it is acknowledged, whatever *)
(* acknowledgements of older changes arrive, in whatever order.            *)
PendingMatches(s) ==
  /\ s.acknowledged <= s.sent
  /\ s.pending = IF s.acknowledged < s.sent THEN s.sent ELSE 0

PendingUntilAcknowledged == \A e \in Ends : PendingMatches(session[e])

(* Generations are applied in increasing order, each one once, and each    *)
(* only after its application began.                                       *)
AppliesNext(e) ==
  session'[e].applied # session[e].applied =>
    /\ session'[e].applied > session[e].applied
    /\ session'[e].applied = session[e].applying.sequence

AppliedInOrder == [][\A e \in Ends : AppliesNext(e)]_vars

=============================================================================
