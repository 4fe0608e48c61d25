---------------------------- MODULE MCXplCommand ----------------------------
(***************************************************************************)
(* Two lamps of one kind: their packets have the same schema and keys and  *)
(* differ by the address.                                                  *)
(***************************************************************************)
EXTENDS XplCommand, TLC

CONSTANTS lamp1, lamp2, r1, r2, p1, p2

\* Both requests for one lamp, or one for each.
OneLamp == [r \in Requests |-> lamp1]
TwoLamps == (r1 :> lamp1) @@ (r2 :> lamp2)
MCSchemaOf == [d \in Devices |-> "ac.basic"]
MCKeysOf == [d \in Devices |-> {"address", "level"}]

\* Packets that carry every key the lamps have.
CompleteBodies == [schema : {"ac.basic"}, keys : {{"address", "level"}}, about : Devices]

\* One of them (no step looks at its address), and a packet without the address.
AnyBodies ==
  {[schema |-> "ac.basic", keys |-> {"address", "level"}, about |-> lamp1],
   [schema |-> "ac.basic", keys |-> {"level"}, about |-> lamp1]}

=============================================================================
