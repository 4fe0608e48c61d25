------------------------------- MODULE MCXplHub -------------------------------
(* Two clients of the hub. *)
EXTENDS XplHub

CONSTANTS c1, c2

=============================================================================
