---------------------------- MODULE MCSensorStore ----------------------------
(* One device, there from the start or created later. *)
EXTENDS SensorStore

CONSTANT d1

OneDevice == {d1}

=============================================================================
