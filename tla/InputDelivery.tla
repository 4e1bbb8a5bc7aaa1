--------------------------- MODULE InputDelivery ---------------------------
(***************************************************************************)
(* What the input path promises while its connections and displays hold:   *)
(* a key is injected on the node that had focus when it was captured, in   *)
(* the order of capture and once.  Keys captured for the focused node and  *)
(* not injected yet are discarded only when control returns to the         *)
(* controller's node, the newest first (return_to_local in                 *)
(* crates/session/controller.rs).                                          *)
(***************************************************************************)
EXTENDS Naturals, Sequences

CONSTANTS Receivers, Controller

VARIABLES
  focused,    \* the node that has focus
  captured,   \* how many keys were captured so far
  owed,       \* keys captured for a receiver and not injected
  injected    \* keys injected by a receiver

vars == <<focused, captured, owed, injected>>

Init ==
  /\ focused = Controller
  /\ captured = 0
  /\ owed = [n \in Receivers |-> <<>>]
  /\ injected = [n \in Receivers |-> <<>>]

Move(n) == focused' = n /\ UNCHANGED <<captured, owed, injected>>

Capture(n) ==
  /\ focused = n
  /\ captured' = captured + 1
  /\ owed' = [owed EXCEPT ![n] = Append(@, captured + 1)]
  /\ UNCHANGED <<focused, injected>>

Deliver(n) ==
  \E count \in 1 .. Len(owed[n]) :
    /\ injected' = [injected EXCEPT ![n] = @ \o SubSeq(owed[n], 1, count)]
    /\ owed' = [owed EXCEPT ![n] = SubSeq(@, count + 1, Len(@))]
    /\ UNCHANGED <<focused, captured>>

Return(n) ==
  /\ focused = n
  /\ focused' = Controller
  /\ \E count \in 0 .. Len(owed[n]) : owed' = [owed EXCEPT ![n] = SubSeq(@, 1, count)]
  /\ UNCHANGED <<captured, injected>>

Next ==
  \/ \E n \in Receivers \cup {Controller} : Move(n)
  \/ \E n \in Receivers : Capture(n) \/ Deliver(n) \/ Return(n)

Spec == Init /\ [][Next]_vars

=============================================================================
