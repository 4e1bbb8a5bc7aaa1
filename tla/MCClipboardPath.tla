-------------------------- MODULE MCClipboardPath --------------------------
(* TLC instances of ClipboardPath: one agent, and how often each user      *)
(* copies.                                                                 *)
EXTENDS ClipboardPath

CONSTANTS left, local

AgentCopiesTwice == [n \in Nodes |-> IF n = Local THEN 1 ELSE 2]
OnlyAgentCopies == [n \in Nodes |-> IF n = Local THEN 0 ELSE 2]

=============================================================================
