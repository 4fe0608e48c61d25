-------------------------------- MODULE XplHub --------------------------------
(***************************************************************************)
(* The xPL hub (xpl/hub/lib.py): the list of local clients, which the      *)
(* reactor of twisted reads and changes for each datagram while the thread *)
(* of the timer takes dead clients out of it.  Nothing is locked.          *)
(*                                                                         *)
(* Both go through the list with for, that is by position: an entry that   *)
(* leaves the list moves the ones behind it, and the one that follows is   *)
(* passed over by whoever is beyond it.                                    *)
(*                                                                         *)
(* A tick is the minute between two rounds of the timer.  A datagram and a *)
(* round take less than that.                                              *)
(***************************************************************************)
EXTENDS Naturals, Sequences, FiniteSets, SequencesExt

CONSTANTS
  Clients,   \* local xPL clients, by address and port
  DeadAfter, \* ticks without a heartbeat that a client survives: 1 + 2 * interval
  MaxSent,   \* bound: datagrams sent in a tick
  None       \* no datagram

ASSUME HubAssumption == DeadAfter \in Nat /\ MaxSent \in Nat \ {0} /\ IsFiniteSet(Clients)

VARIABLES
  client_list, \* _client_list
  running,     \* clients that run
  quiet,       \* ticks since the last heartbeat a client has sent
  inbox,       \* datagrams that wait in the socket
  sent,        \* datagrams sent in this tick
  reactor,     \* where datagramReceived is
  timer,       \* where _check_dead_clients is
  owed,        \* clients that have been in the list since the message was looked at
  cut          \* entries that have left the list since then

vars == <<client_list, running, quiet, inbox, sent, reactor, timer, owed, cut>>

-----------------------------------------------------------------------------
\* held: the threads that are about to remove the entry.  The reactor has set it to
\* STOPPED before, the timer sets it to DEAD right before.
Entries == [id : Clients, age : 0..(DeadAfter + 1), held : SUBSET {"reactor", "timer"}]

\* The heartbeats, hbeat.end and everything else; the target is a source or all.
Messages == [kind : {"hbeat", "end", "data"}, from : Clients \cup {None}, to : SUBSET Clients]

\* i: the position the loop has reached.
Idle == [at |-> "idle", i |-> 1, msg |-> None, addresses |-> {}]
Waiting == [at |-> "wait", i |-> 1]

Init ==
  /\ client_list = <<>>
  /\ running = {}
  /\ quiet = [c \in Clients |-> 0]
  /\ inbox = <<>>
  /\ sent = 0
  /\ reactor = Idle
  /\ timer = Waiting
  /\ owed = {}
  /\ cut = 0

Positions(c) == {i \in DOMAIN client_list : client_list[i].id = c}
Listed(c) == Positions(c) # {}

HeldBy(thread) == {i \in DOMAIN client_list : thread \in client_list[i].held}

\* list.remove of the entry a thread holds, if it is still there.
Removed(thread) ==
  IF HeldBy(thread) = {} THEN client_list
  ELSE RemoveAt(client_list, CHOOSE i \in HeldBy(thread) : TRUE)

NewEntry(c) == [id |-> c, age |-> 0, held |-> {}]

-----------------------------------------------------------------------------
(* The clients.                                                            *)

Post(m) ==
  /\ sent < MaxSent
  /\ sent' = sent + 1
  /\ inbox' = Append(inbox, m)
  /\ UNCHANGED <<client_list, reactor, timer, owed, cut>>

Heartbeat(c) ==
  /\ running' = running \cup {c}
  /\ quiet' = [quiet EXCEPT ![c] = 0]
  /\ Post([kind |-> "hbeat", from |-> c, to |-> Clients])

\* Any other message to one client, from whomever.
Send(c) ==
  /\ UNCHANGED <<running, quiet>>
  /\ Post([kind |-> "data", from |-> None, to |-> {c}])

Leave(c) ==
  /\ c \in running
  /\ running' = running \ {c}
  /\ quiet' = [quiet EXCEPT ![c] = 0]
  /\ Post([kind |-> "end", from |-> c, to |-> Clients])

\* A client that is killed says nothing.
Kill(c) ==
  /\ c \in running
  /\ running' = running \ {c}
  /\ quiet' = [quiet EXCEPT ![c] = 0]
  /\ UNCHANGED <<client_list, inbox, sent, reactor, timer, owed, cut>>

-----------------------------------------------------------------------------
(* The reactor: datagramReceived.                                          *)

reactorRest == <<running, quiet, sent, timer>>

Client == reactor.msg.from
AtEnd == reactor.i > Len(client_list)
Here == client_list[reactor.i]
Found == ~ AtEnd /\ Here.id = Client

Step(at) == reactor' = [reactor EXCEPT !.at = at, !.i = 1]
Pass(at) == ~ AtEnd /\ reactor.at = at /\ reactor' = [reactor EXCEPT !.i = @ + 1]

Receive ==
  /\ reactor = Idle /\ inbox # <<>>
  /\ inbox' = Tail(inbox)
  /\ LET m == Head(inbox) IN
     /\ reactor' = [Idle EXCEPT !.at = IF m.kind = "hbeat" THEN "look" ELSE "collect", !.msg = m]
  /\ UNCHANGED <<client_list, owed, cut, reactorRest>>

\* Mutant: the loop says what the first entry says.
LookAtFirst ==
  /\ reactor.at = "look"
  /\ Step(IF AtEnd THEN "add" ELSE "update")
  /\ UNCHANGED <<client_list, inbox, owed, cut, reactorRest>>

\* _is_new_client.
Look ==
  /\ reactor.at = "look"
  /\ \/ Found /\ Step("update")
     \/ ~ Found /\ Pass("look")
     \/ AtEnd /\ Step("add")
  /\ UNCHANGED <<client_list, inbox, owed, cut, reactorRest>>

AddClient ==
  /\ reactor.at = "add"
  /\ client_list' = Append(client_list, NewEntry(Client))
  /\ Step("collect")
  /\ UNCHANGED <<inbox, owed, cut, reactorRest>>

\* Mutant: last_seen is not set.
UpdateNothing ==
  /\ reactor.at = "update"
  /\ \/ Found /\ Step("collect")
     \/ ~ Found /\ Pass("update")
     \/ AtEnd /\ Step("collect")
  /\ UNCHANGED <<client_list, inbox, owed, cut, reactorRest>>

\* _update_client: the first entry of the client, if the loop gets to one.
UpdateClient ==
  /\ reactor.at = "update"
  /\ \/ /\ Found
        /\ client_list' = [client_list EXCEPT ![reactor.i].age = 0]
        /\ Step("collect")
     \/ ~ Found /\ Pass("update") /\ UNCHANGED client_list
     \/ AtEnd /\ Step("collect") /\ UNCHANGED client_list
  /\ UNCHANGED <<inbox, owed, cut, reactorRest>>

\* Mutant: the loop ends with the first client that is to get the message.
CollectFirst ==
  /\ reactor.at = "collect"
  /\ IF AtEnd \/ reactor.addresses # {} THEN Step("deliver")
     ELSE reactor' = [reactor EXCEPT !.i = @ + 1,
                        !.addresses = @ \cup ({Here.id} \cap reactor.msg.to)]
  /\ IF reactor.i = 1
     THEN owed' = {c \in reactor.msg.to : Listed(c)} /\ cut' = 0
     ELSE UNCHANGED <<owed, cut>>
  /\ UNCHANGED <<client_list, inbox, reactorRest>>

\* _get_delivery_addresses; the first look at the list says who is owed the message.
Collect ==
  /\ reactor.at = "collect"
  /\ IF AtEnd THEN Step("deliver")
     ELSE reactor' = [reactor EXCEPT !.i = @ + 1,
                        !.addresses = @ \cup ({Here.id} \cap reactor.msg.to)]
  /\ IF reactor.i = 1
     THEN owed' = {c \in reactor.msg.to : Listed(c)} /\ cut' = 0
     ELSE UNCHANGED <<owed, cut>>
  /\ UNCHANGED <<client_list, inbox, reactorRest>>

\* _deliver_xpl.
Deliver ==
  /\ reactor.at = "deliver"
  /\ IF reactor.msg.kind = "end" THEN Step("find") ELSE reactor' = Idle
  /\ owed' = {} /\ cut' = 0
  /\ UNCHANGED <<client_list, inbox, reactorRest>>

\* _remove_client: the entry is stopped and taken out of the list.  When it is not
\* there any more, remove raises ValueError and twisted goes on.
FindClient ==
  /\ reactor.at = "find"
  /\ \/ /\ Found
        /\ client_list' = [client_list EXCEPT ![reactor.i].age = 0, ![reactor.i].held = @ \cup {"reactor"}]
        /\ Step("drop")
     \/ ~ Found /\ Pass("find") /\ UNCHANGED client_list
     \/ AtEnd /\ reactor' = Idle /\ UNCHANGED client_list
  /\ UNCHANGED <<inbox, owed, cut, reactorRest>>

DropClient ==
  /\ reactor.at = "drop"
  /\ client_list' = Removed("reactor")
  /\ reactor' = Idle
  /\ UNCHANGED <<inbox, owed, cut, reactorRest>>

-----------------------------------------------------------------------------
(* The timer: _check_dead_clients.                                         *)

timerRest == <<running, quiet, inbox, sent, reactor>>

\* A minute passes and the next round begins, unless an exception has ended it.
Tick ==
  /\ timer.at \in {"wait", "ended"}
  /\ reactor = Idle /\ inbox = <<>>
  /\ client_list' = [i \in DOMAIN client_list |->
                       [client_list[i] EXCEPT !.age = IF @ > DeadAfter THEN @ ELSE @ + 1]]
  /\ quiet' = [c \in Clients |-> IF c \in running /\ quiet[c] <= DeadAfter
                                 THEN quiet[c] + 1 ELSE quiet[c]]
  /\ timer' = IF timer.at = "wait" THEN [timer EXCEPT !.at = "round"] ELSE timer
  /\ sent' = 0
  /\ UNCHANGED <<running, inbox, reactor, owed, cut>>

\* Mutant: the two sides of the comparison are swapped.
IsDeadSwapped(e) == "reactor" \notin e.held /\ e.age < DeadAfter

IsDead(e) == "reactor" \notin e.held /\ e.age > DeadAfter

Visit ==
  /\ timer.at = "round"
  /\ \/ timer.i > Len(client_list) /\ timer' = Waiting /\ UNCHANGED client_list
     \/ /\ timer.i <= Len(client_list)
        /\ IF IsDead(client_list[timer.i])
           THEN /\ client_list' = [client_list EXCEPT ![timer.i].held = @ \cup {"timer"}]
                /\ timer' = [at |-> "bury", i |-> timer.i + 1]
           ELSE timer' = [timer EXCEPT !.i = @ + 1] /\ UNCHANGED client_list
  /\ UNCHANGED <<owed, cut, timerRest>>

\* remove raises ValueError for a client that an hbeat.end has just removed.
Bury ==
  /\ timer.at = "bury"
  /\ client_list' = Removed("timer")
  /\ timer' = IF HeldBy("timer") # {} THEN [timer EXCEPT !.at = "round"]
              ELSE [Waiting EXCEPT !.at = "ended"]
  /\ owed' = {c \in owed : \E i \in DOMAIN client_list' : client_list'[i].id = c}
  /\ cut' = IF reactor.at = "collect" /\ reactor.i > 1 THEN cut + 1 ELSE cut
  /\ UNCHANGED timerRest

-----------------------------------------------------------------------------
Reactor ==
  \/ Receive \/ Look \/ AddClient \/ UpdateClient \/ Collect \/ Deliver
  \/ FindClient \/ DropClient

Timer == Visit \/ Bury

Next ==
  \/ Reactor \/ Timer \/ Tick
  \/ \E c \in Clients : Heartbeat(c) \/ Send(c) \/ Leave(c) \/ Kill(c)

Spec == Init /\ [][Next]_vars

\* Both threads run and time passes.  No client has to do anything.
FairSpec == Spec /\ WF_vars(Reactor) /\ WF_vars(Timer) /\ WF_vars(Tick)

-----------------------------------------------------------------------------
(* Properties.                                                             *)

\* A message reaches every client that stays in the list while it is delivered,
\* but for one at most for each entry that the timer removes meanwhile
\* (_get_delivery_addresses, _check_dead_clients).
MissedAreFew == reactor.at = "deliver" => Cardinality(owed \ reactor.addresses) <= cut

InTime(c) == c \in running /\ 2 * quiet[c] <= DeadAfter

\* A client that goes on sending its heartbeats in time gets into the list again,
\* whatever the races and whoever else comes and goes (_is_new_client).
ListedAgain == \A c \in Clients : <>[]InTime(c) => []<>Listed(c)

\* When in the end every client stays away or goes on in time, the list comes to
\* hold those that run, each of them once, whatever the races before have left
\* in it: entries of clients that are gone, and second entries of others, which
\* get every message twice and which no heartbeat updates.
ListConverges ==
  [](timer.at # "ended") /\ (\A c \in Clients : <>[]InTime(c) \/ <>[](c \notin running))
    => <>[](\A c \in Clients : Cardinality(Positions(c)) = IF c \in running THEN 1 ELSE 0)

\* A client that is gone leaves the list, although each removal makes the round
\* pass over the next entry, as long as the thread of the timer goes on
\* (_check_dead_clients).
GoneLeave ==
  [](timer.at # "ended") => \A c \in Clients : c \notin running ~> ~ Listed(c) \/ c \in running

=============================================================================
