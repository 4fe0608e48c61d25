--------------------------- MODULE CommandService ---------------------------
(***************************************************************************)
(* What the xPL gateway promises to whoever sends a command with the MQ    *)
(* request cmd.send: the command is refused, or done by its plugin, or it  *)
(* is taken in charge and may later be confirmed by a command.result       *)
(* event.  A confirmation never precedes the taking in charge and is never *)
(* taken back.                                                             *)
(***************************************************************************)
CONSTANT Requests   \* the cmd.send requests

VARIABLE status     \* status[r]: how far request r has come

Status == {"idle", "refused", "done", "pending", "confirmed"}

Init == status = [r \in Requests |-> "idle"]

Move(r, from, to) ==
  /\ status[r] = from
  /\ status' = [status EXCEPT ![r] = to]

Refuse(r)  == Move(r, "idle", "refused")
Serve(r)   == Move(r, "idle", "done")
Accept(r)  == Move(r, "idle", "pending")
Confirm(r) == Move(r, "pending", "confirmed")

Next == \E r \in Requests : Refuse(r) \/ Serve(r) \/ Accept(r) \/ Confirm(r)

Spec == Init /\ [][Next]_status

=============================================================================
