---------------------------- MODULE MCCapturePath ----------------------------
(* An instance of CapturePath.  One key stands for a Control and an Alt key: *)
(* the runtime keeps a flag for each pair and sets the two independently.    *)
EXTENDS CapturePath

=============================================================================
