------------------------- MODULE MCClipboardSession -------------------------
(* TLC instance of ClipboardSession: one end, whose peer may send anything.*)
EXTENDS ClipboardSession, TLC

CONSTANTS left, right, first, second

OneEnd == {<<left, right>>}
TextSymmetry == Permutations(Texts)

=============================================================================
