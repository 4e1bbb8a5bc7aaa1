---------------------------- MODULE ReplayGuard ----------------------------
(***************************************************************************)
(* The server's memory of the handshakes it admitted (transport/replay.rs): *)
(* a hello is told by its node and its nonce, and only the newest Capacity *)
(* of them are remembered.                                                 *)
(***************************************************************************)
EXTENDS Naturals, Sequences

CONSTANTS
  Hellos,    \* what a hello can be: pairs of a node and a nonce
  Capacity   \* DEFAULT_REPLAY_CAPACITY

ASSUME ReplayAssumption == Capacity \in Nat

VARIABLES
  order, entries,  \* fields of ReplayGuard
  admitted         \* history: every hello admitted, the oldest first

guardVars == <<order, entries, admitted>>

GuardInit ==
  /\ order = <<>>
  /\ entries = {}
  /\ admitted = <<>>

(* Mutant: a hello is remembered twice over when it is offered again.      *)
AdmitAnyHello(hello) ==
  LET longer == Append(order, hello)
      full == Len(longer) > Capacity
  IN /\ order' = IF full THEN Tail(longer) ELSE longer
     /\ entries' = (entries \cup {hello})
                   \ (IF full THEN {Head(longer)} ELSE {})
     /\ admitted' = Append(admitted, hello)

(* admit, for a hello that is not remembered: the oldest makes room.       *)
Admit(hello) ==
  LET longer == Append(order, hello)
      full == Len(longer) > Capacity
  IN /\ hello \notin entries
     /\ order' = IF full THEN Tail(longer) ELSE longer
     /\ entries' = (entries \cup {hello})
                   \ (IF full THEN {Head(longer)} ELSE {})
     /\ admitted' = Append(admitted, hello)

(* admit, for one that is: nothing changes.                                *)
Replayed(hello) == hello \in entries /\ UNCHANGED guardVars

GuardNext == \E hello \in Hellos : Admit(hello) \/ Replayed(hello)

GuardSpec == GuardInit /\ [][GuardNext]_guardVars

-----------------------------------------------------------------------------

(* A hello that was admitted is not admitted again before Capacity others  *)
(* were (replay.rs:22-34).                                                 *)
AdmittedOnce ==
  \A i, j \in 1 .. Len(admitted) :
    i < j /\ admitted[i] = admitted[j] => j - i > Capacity
=============================================================================
