-------------------------- MODULE MCClientRegistry --------------------------
(* One or two plugins, and an xPL client in some runs. *)
EXTENDS ClientRegistry, TLC

CONSTANTS plugin1, xpl1, xpl2

MCDeadAfter == [c \in Clients |-> IF c \in Plugins THEN 1 ELSE 2]

=============================================================================
