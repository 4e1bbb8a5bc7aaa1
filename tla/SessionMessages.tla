-------------------------- MODULE SessionMessages --------------------------
(***************************************************************************)
(* The messages of one Tevir session and the data they carry, as far as    *)
(* focus and input delivery tell them apart (crates/protocol, `Session`).  *)
(*                                                                         *)
(* Geometry is abstracted to one dimension: a desktop has an extent, and a *)
(* position on it is an offset below that extent.  An input event is       *)
(* either pointer motion, which may be coalesced, or a key transition,     *)
(* which is numbered in the order of capture so that loss, duplication and *)
(* reordering show.  `epoch` on an event is not in the code: it records    *)
(* the focus epoch the event was captured in.                              *)
(***************************************************************************)
EXTENDS Naturals, Sequences

CONSTANTS
  Nodes,     \* the nodes a topology may name
  Local,     \* the controller's own node
  Sizes,     \* the extents a desktop may have
  MaxBatch,  \* MAX_INPUT_EVENTS_PER_BATCH (512 in the code)
  MaxEpoch   \* bound on the focus epochs explored (u64 in the code)

ASSUME NodesAssumption == Local \in Nodes
ASSUME SizesAssumption == Sizes \subseteq Nat \ {0}
ASSUME BatchAssumption == MaxBatch \in Nat \ {0}

Agents == Nodes \ {Local}

(* Positions a pointer may have on some desktop.                           *)
Positions == Nat

Motion == 0
InputEvents == [key : Nat, epoch : Nat]
MotionEvent(epoch) == [key |-> Motion, epoch |-> epoch]
KeyEvent(number, epoch) == [key |-> number, epoch |-> epoch]

FocusChanged(epoch, target, entry) ==
  [type |-> "FocusChanged", epoch |-> epoch, target |-> target, entry |-> entry]

InputBatch(epoch, sequence, events) ==
  [type |-> "Input", epoch |-> epoch, sequence |-> sequence, events |-> events]

InputAcknowledged(through) == [type |-> "InputAcknowledged", through |-> through]

DisplayChanged(size) == [type |-> "DisplayChanged", size |-> size]

Disconnect == [type |-> "Disconnect"]

FocusMessages == [type : {"FocusChanged"}, epoch : Nat, target : Nodes, entry : Positions]

InputMessages ==
  [type : {"Input"}, epoch : Nat, sequence : Nat, events : Seq(InputEvents)]

=============================================================================
