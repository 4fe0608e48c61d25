----------------------------- MODULE XplCommand -----------------------------
(***************************************************************************)
(* The command side of the xPL gateway (bin/xplgw.py).                     *)
(*                                                                         *)
(* Three kinds of threads share two tables.  The MQ thread serves cmd.send *)
(* requests and device.update events; one callback thread is started per   *)
(* xPL packet that the listeners let through; the command thread matches   *)
(* the packets of _cmd_pkt with the commands of _cmd_dict and publishes    *)
(* command.result.  A request stands for the uuid that is drawn for it.    *)
(* The command of a device without xPL command goes to its plugin over MQ. *)
(***************************************************************************)
EXTENDS Naturals, FiniteSets

CONSTANTS
  Devices,        \* devices with one command
  Requests,       \* cmd.send requests that may be made
  DeviceOf,       \* DeviceOf[r]: the device of the command of request r
  Packets,        \* xPL packets that may arrive
  Schemas, Keys,  \* schemas and data keys of xPL packets
  SchemaOf,       \* SchemaOf[d]: schema of the xPL stat of d
  KeysOf,         \* KeysOf[d]: keys of the parameters of the xPL stat of d
  Bodies,         \* contents a packet may have
  None            \* no thread, no packet

ASSUME CommandAssumption ==
  /\ DeviceOf \in [Requests -> Devices]
  /\ SchemaOf \in [Devices -> Schemas]
  /\ KeysOf \in [Devices -> SUBSET Keys]
  /\ Bodies \subseteq [schema : Schemas, keys : SUBSET Keys, about : Devices]
  /\ None \notin Packets

VARIABLES
  mq_devices,    \* devices whose command is no xPL command; the others have also
                 \* the xPL stat of the answer
  devices,       \* devices in the database
  deleted,       \* devices that were in the database before
  all_devices,   \* devices the gateway has loaded
  all_commands,  \* devices whose command the gateway has loaded
  all_xpl_stats, \* devices whose xPL stat the gateway has loaded
  req,           \* req[r]: where request r is
  cmd_dict,      \* _cmd_dict: commands that wait for an answer
  cmd_pkt,       \* _cmd_pkt: packets kept for the command thread
  lock_p,        \* holder of _cmd_lock_p
  callback,      \* callback[p]: where the callback thread of packet p is
  body,          \* body[p]: content of p, once it is there
  old,           \* packets of cmd_pkt that are older than CMDTIMEOUT
  thread,        \* where the command thread is
  scan,          \* commands the command thread has still to look at
  round,         \* matches of this round: todel_dict and todel_pkt
  results        \* every <<request, packet>> a command.result was sent for

deviceVars   == <<mq_devices, devices, deleted>>
tableVars    == <<all_devices, all_commands, all_xpl_stats>>
requestVars  == <<deviceVars, tableVars, req>>
packetVars   == <<callback, body>>
threadVars   == <<thread, scan, round, results>>
vars == <<requestVars, cmd_dict, cmd_pkt, lock_p, packetVars, old, threadVars>>

-----------------------------------------------------------------------------
RequestState == {"new", "queued", "sending", "registering", "replying", "asking",
                 "accepted", "done", "rejected", "unanswered"}
CallbackState == {"idle", "started", "storing", "stored", "dropped"}
ThreadState == {"purge", "test", "scan", "forget", "dead"}

\* about: the device whose address and other fixed values the packet carries.
Body == [schema : Schemas, keys : SUBSET Keys, about : Devices]

\* Requests the MQ thread is busy with.
InService ==
  {r \in Requests : req[r] \in {"sending", "registering", "replying", "asking"}}

\* Requests that have been put in _cmd_dict at some time.
Registered == {r \in Requests : req[r] \in {"replying", "accepted"}}

\* Requests for which a command.result has been published.
Confirmed == {r \in Requests : \E p \in Packets : <<r, p>> \in results}

Init ==
  /\ mq_devices \in SUBSET Devices
  /\ devices \in SUBSET Devices
  /\ deleted = {}
  /\ all_devices = devices
  /\ all_commands = devices
  /\ all_xpl_stats = devices \ mq_devices
  /\ req = [r \in Requests |-> "new"]
  /\ cmd_dict = {}
  /\ cmd_pkt = {}
  /\ lock_p = None
  /\ callback = [p \in Packets |-> "idle"]
  /\ body = [p \in Packets |-> None]
  /\ old = {}
  /\ thread = "purge"
  /\ scan = {}
  /\ round = {}
  /\ results = {}

-----------------------------------------------------------------------------
(* The database and the requesters.                                        *)

\* The database manager creates a device, under an id never used before.
CreateDevice(d) ==
  /\ d \notin devices \cup deleted
  /\ devices' = devices \cup {d}
  /\ UNCHANGED <<mq_devices, deleted, tableVars, req, cmd_dict, cmd_pkt, lock_p,
                 packetVars, old, threadVars>>

\* It deletes one with its commands.
DeleteDevice(d) ==
  /\ d \in devices
  /\ devices' = devices \ {d}
  /\ deleted' = deleted \cup {d}
  /\ UNCHANGED <<mq_devices, tableVars, req, cmd_dict, cmd_pkt, lock_p, packetVars,
                 old, threadVars>>

\* Somebody asks for the command of a device that exists.
Request(r) ==
  /\ req[r] = "new"
  /\ DeviceOf[r] \in devices
  /\ req' = [req EXCEPT ![r] = "queued"]
  /\ UNCHANGED <<deviceVars, tableVars, cmd_dict, cmd_pkt, lock_p, packetVars,
                 old, threadVars>>

-----------------------------------------------------------------------------
(* The MQ thread: one event at a time.                                     *)

Step(r, from, to) ==
  /\ req[r] = from
  /\ req' = [req EXCEPT ![r] = to]

\* _handle_mq_device_update.  Each table is emptied before it is loaded: an
\* exception of the database leaves the devices empty, or some commands out.
\* (An exception of the sensor threads, asked first, changes no table.)
DeviceUpdate ==
  /\ InService = {}
  /\ \/ /\ all_devices' \in {{}, devices}
        /\ UNCHANGED all_commands
     \/ /\ all_devices' = devices
        /\ all_commands' \in SUBSET devices
  /\ UNCHANGED <<deviceVars, all_xpl_stats, req, cmd_dict, cmd_pkt, lock_p,
                 packetVars, old, threadVars>>

\* Every table the command of r is looked up in has it.
Known(r) ==
  /\ DeviceOf[r] \in all_commands \cap all_devices
  /\ DeviceOf[r] \in mq_devices \cup all_xpl_stats

\* One of the tables lacks it: the KeyError goes up to on_mdp_request, which
\* logs it and sends no reply.
LookupFails(r) ==
  /\ InService = {}
  /\ ~ Known(r)
  /\ Step(r, "queued", "unanswered")
  /\ UNCHANGED <<deviceVars, tableVars, cmd_dict, cmd_pkt, lock_p, packetVars,
                 old, threadVars>>

\* So does an exception of the conversion of a parameter, which is code of the
\* client's package.
ConversionFails(r) ==
  /\ InService = {}
  /\ Known(r)
  /\ Step(r, "queued", "unanswered")
  /\ UNCHANGED <<deviceVars, tableVars, cmd_dict, cmd_pkt, lock_p, packetVars,
                 old, threadVars>>

\* The request lacks data, or the client of the device is not in the client
\* list: the reply has status False.
Reject(r) ==
  /\ InService = {}
  /\ Step(r, "queued", "rejected")
  /\ UNCHANGED <<deviceVars, tableVars, cmd_dict, cmd_pkt, lock_p, packetVars,
                 old, threadVars>>

\* _send_mq_command: the plugin is asked and has ten seconds to answer.
AskPlugin(r) ==
  /\ InService = {}
  /\ Known(r)
  /\ DeviceOf[r] \in mq_devices
  /\ Step(r, "queued", "asking")
  /\ UNCHANGED <<deviceVars, tableVars, cmd_dict, cmd_pkt, lock_p, packetVars,
                 old, threadVars>>

\* Its status is the reply's, no answer is a status False, and a message
\* without status or reason is a KeyError.
PluginAnswers(r) ==
  /\ \E s \in {"done", "rejected", "unanswered"} : Step(r, "asking", s)
  /\ UNCHANGED <<deviceVars, tableVars, cmd_dict, cmd_pkt, lock_p, packetVars,
                 old, threadVars>>

\* Everything is known: _send_xpl_command builds the message.
Build(r) ==
  /\ InService = {}
  /\ Known(r)
  /\ DeviceOf[r] \notin mq_devices
  /\ Step(r, "queued", "sending")
  /\ UNCHANGED <<deviceVars, tableVars, cmd_dict, cmd_pkt, lock_p, packetVars,
                 old, threadVars>>

\* Mutant: an error while sending goes up to on_mdp_request.
SendRaises(r) ==
  /\ req[r] = "sending"
  /\ \E s \in {"registering", "unanswered"} : req' = [req EXCEPT ![r] = s]
  /\ UNCHANGED <<deviceVars, tableVars, cmd_dict, cmd_pkt, lock_p, packetVars,
                 old, threadVars>>

\* myxpl.send: an error while sending is logged by the connector and goes no
\* further, so that the message may be on the network or not.
Send(r) ==
  /\ Step(r, "sending", "registering")
  /\ UNCHANGED <<deviceVars, tableVars, cmd_dict, cmd_pkt, lock_p, packetVars,
                 old, threadVars>>

\* A uuid is drawn and put in _cmd_dict, under _cmd_lock_d.
Register(r) ==
  /\ Step(r, "registering", "replying")
  /\ cmd_dict' = cmd_dict \cup {r}
  /\ UNCHANGED <<deviceVars, tableVars, cmd_pkt, lock_p, packetVars, old,
                 threadVars>>

\* Mutant: status False is sent although the command waits in _cmd_dict.
ReplyFalse(r) ==
  /\ Step(r, "replying", "rejected")
  /\ UNCHANGED <<deviceVars, tableVars, cmd_dict, cmd_pkt, lock_p, packetVars,
                 old, threadVars>>

\* cmd.send.result with status True and the uuid.
Reply(r) ==
  /\ Step(r, "replying", "accepted")
  /\ UNCHANGED <<deviceVars, tableVars, cmd_dict, cmd_pkt, lock_p, packetVars,
                 old, threadVars>>

-----------------------------------------------------------------------------
(* The callback threads.                                                   *)

\* A packet arrives: a device answers, or it speaks by itself.
Arrive(p) ==
  /\ callback[p] = "idle"
  /\ callback' = [callback EXCEPT ![p] = "started"]
  /\ \E b \in Bodies : body' = [body EXCEPT ![p] = b]
  /\ UNCHANGED <<requestVars, cmd_dict, cmd_pkt, lock_p, old, threadVars>>

\* Under _cmd_lock_p: is there a command that waits?
Check(p) ==
  /\ callback[p] = "started"
  /\ lock_p = None
  /\ \/ /\ cmd_dict # {}
        /\ lock_p' = p
        /\ callback' = [callback EXCEPT ![p] = "storing"]
     \/ /\ cmd_dict = {}
        /\ callback' = [callback EXCEPT ![p] = "dropped"]
        /\ UNCHANGED lock_p
  /\ UNCHANGED <<requestVars, cmd_dict, cmd_pkt, body, old, threadVars>>

\* Still under the lock: the packet is kept with the time of its arrival.
Store(p) ==
  /\ callback[p] = "storing"
  /\ cmd_pkt' = cmd_pkt \cup {p}
  /\ lock_p' = None
  /\ callback' = [callback EXCEPT ![p] = "stored"]
  /\ UNCHANGED <<requestVars, cmd_dict, body, old, threadVars>>

\* CMDTIMEOUT seconds have passed since p was stored.
GetOld(p) ==
  /\ p \in cmd_pkt \ old
  /\ old' = old \cup {p}
  /\ UNCHANGED <<requestVars, cmd_dict, cmd_pkt, lock_p, packetVars, threadVars>>

-----------------------------------------------------------------------------
(* The command thread.                                                     *)

\* The search of a command looks at the packets of the same schema.
Candidates(r) == {p \in cmd_pkt : body[p].schema = SchemaOf[DeviceOf[r]]}

\* A parameter that p lacks is looked up in p nevertheless: a KeyError.
Fatal(r) == {p \in Candidates(r) : ~ KeysOf[DeviceOf[r]] \subseteq body[p].keys}

\* The values are only compared for a parameter that p lacks, that is never.
Found(r) == Candidates(r) \ Fatal(r)

\* Mutant: old packets are only removed while a command waits.
PurgeIfWaiting ==
  /\ thread = "purge"
  /\ lock_p = None
  /\ IF cmd_dict = {} THEN UNCHANGED <<cmd_pkt, old>>
                      ELSE cmd_pkt' = cmd_pkt \ old /\ old' = {}
  /\ thread' = "test"
  /\ UNCHANGED <<requestVars, cmd_dict, lock_p, packetVars, scan, round, results>>

\* Under _cmd_lock_p: the packets that are too old are removed.
Purge ==
  /\ thread = "purge"
  /\ lock_p = None
  /\ cmd_pkt' = cmd_pkt \ old
  /\ old' = {}
  /\ thread' = "test"
  /\ UNCHANGED <<requestVars, cmd_dict, lock_p, packetVars, scan, round, results>>

\* Mutant: off by one, a round needs two packets.
TestTwo ==
  /\ thread = "test"
  /\ IF cmd_dict # {} /\ Cardinality(cmd_pkt) > 1
       THEN scan' = cmd_dict /\ thread' = "scan"
       ELSE UNCHANGED scan /\ thread' = "purge"
  /\ UNCHANGED <<requestVars, cmd_dict, cmd_pkt, lock_p, packetVars, old, round, results>>

\* With a command and a packet at hand a round starts on a copy of _cmd_dict,
\* else the thread sleeps for a second.
Test ==
  /\ thread = "test"
  /\ \/ /\ cmd_dict # {} /\ cmd_pkt # {}
        /\ scan' = cmd_dict
        /\ thread' = "scan"
     \/ /\ cmd_dict = {} \/ cmd_pkt = {}
        /\ thread' = "purge"
        /\ UNCHANGED scan
  /\ UNCHANGED <<requestVars, cmd_dict, cmd_pkt, lock_p, packetVars, old, round, results>>

\* Mutant: todel_dict and todel_pkt are swapped.
PublishSwapped(r, ps) ==
  /\ round' = round \cup (ps \X {r})
  /\ results' = results \cup (ps \X {r})

Publish(r, ps) ==
  /\ round' = round \cup ({r} \X ps)
  /\ results' = results \cup ({r} \X ps)

\* The next command is compared with a copy of _cmd_pkt.
Search(r) ==
  /\ thread = "scan"
  /\ r \in scan
  /\ Fatal(r) = {}
  /\ Publish(r, Found(r))
  /\ scan' = scan \ {r}
  /\ UNCHANGED <<requestVars, cmd_dict, cmd_pkt, lock_p, packetVars, old, thread>>

\* The KeyError leaves run() after the packets that came before in the copy:
\* the thread ends, holding no lock.
Die(r) ==
  /\ thread = "scan"
  /\ r \in scan
  /\ Fatal(r) # {}
  /\ \E ps \in SUBSET Found(r) : Publish(r, ps)
  /\ thread' = "dead"
  /\ UNCHANGED <<requestVars, cmd_dict, cmd_pkt, lock_p, packetVars, old, scan>>

\* Under _cmd_lock_p: the packets that matched are deleted.
ForgetPackets ==
  /\ thread = "scan"
  /\ scan = {}
  /\ lock_p = None
  /\ cmd_pkt' = {p \in cmd_pkt : \A r \in Requests : <<r, p>> \notin round}
  /\ old' = old \cap cmd_pkt'
  /\ thread' = "forget"
  /\ UNCHANGED <<requestVars, cmd_dict, lock_p, packetVars, scan, round, results>>

\* Mutant: the table is emptied after a round.
ForgetAllCommands ==
  /\ thread = "forget"
  /\ cmd_dict' = {}
  /\ round' = {}
  /\ thread' = "purge"
  /\ UNCHANGED <<requestVars, cmd_pkt, lock_p, packetVars, old, scan, results>>

\* Mutant: answered commands stay in the table.
ForgetNoCommand ==
  /\ thread = "forget"
  /\ round' = {}
  /\ thread' = "purge"
  /\ UNCHANGED <<requestVars, cmd_dict, cmd_pkt, lock_p, packetVars, old, scan, results>>

\* Under _cmd_lock_d: so are the commands that were answered.
ForgetCommands ==
  /\ thread = "forget"
  /\ cmd_dict' = {r \in cmd_dict : \A p \in Packets : <<r, p>> \notin round}
  /\ round' = {}
  /\ thread' = "purge"
  /\ UNCHANGED <<requestVars, cmd_pkt, lock_p, packetVars, old, scan, results>>

-----------------------------------------------------------------------------
MqThread(r) ==
  \/ LookupFails(r) \/ ConversionFails(r) \/ Reject(r)
  \/ AskPlugin(r) \/ PluginAnswers(r)
  \/ Build(r) \/ Send(r) \/ Register(r) \/ Reply(r)

CallbackThread(p) == Check(p) \/ Store(p)

CommandThread ==
  \/ Purge \/ Test \/ ForgetPackets \/ ForgetCommands
  \/ \E r \in Requests : Search(r) \/ Die(r)

Next ==
  \/ \E d \in Devices : CreateDevice(d) \/ DeleteDevice(d)
  \/ DeviceUpdate
  \/ \E r \in Requests : Request(r) \/ MqThread(r)
  \/ \E p \in Packets : Arrive(p) \/ CallbackThread(p) \/ GetOld(p)
  \/ CommandThread

Spec == Init /\ [][Next]_vars

\* Every thread is scheduled, and a conversion returns or raises; nobody has to
\* ask, no device has to answer, no device.update has to come, and CMDTIMEOUT
\* need not pass.
Fairness ==
  /\ \A r \in Requests : WF_vars(MqThread(r))
  /\ \A p \in Packets : WF_vars(CallbackThread(p))
  /\ WF_vars(CommandThread)

FairSpec == Spec /\ Fairness

-----------------------------------------------------------------------------
\* Every variable has its type (the tables of XplManager and its threads).
TypeOK ==
  /\ mq_devices \subseteq Devices
  /\ devices \subseteq Devices
  /\ deleted \subseteq Devices
  /\ all_devices \subseteq Devices
  /\ all_commands \subseteq Devices
  /\ all_xpl_stats \subseteq Devices
  /\ req \in [Requests -> RequestState]
  /\ cmd_dict \subseteq Requests
  /\ cmd_pkt \subseteq Packets
  /\ lock_p \in Packets \cup {None}
  /\ callback \in [Packets -> CallbackState]
  /\ body \in [Packets -> Body \cup {None}]
  /\ old \subseteq Packets
  /\ thread \in ThreadState
  /\ scan \subseteq Requests
  /\ round \subseteq Requests \X Packets
  /\ results \subseteq Requests \X Packets

\* A command whose uuid was given to the requester is never forgotten: it is in
\* _cmd_dict or its command.result was published, even when the command thread
\* dies in the middle of a round.
NoCommandForgotten ==
  \A r \in Requests : req[r] = "accepted" => r \in cmd_dict \cup Confirmed

\* Between two rounds of the command thread neither a command that was answered
\* nor a packet that answered is still in its table, whatever was registered or
\* stored in the meantime: no later round can publish the same answer again.
NothingMatchedSurvives ==
  thread \in {"purge", "test"} =>
    \A r \in Requests, p \in Packets :
      <<r, p>> \in results => r \notin cmd_dict /\ p \notin cmd_pkt

\* The abstract status of a request.
AbstractStatus ==
  [r \in Requests |->
    IF r \in Confirmed THEN "confirmed"
    ELSE IF req[r] \in {"replying", "accepted"} THEN "pending"
    ELSE IF req[r] = "done" THEN "done"
    ELSE IF req[r] \in {"rejected", "unanswered"} THEN "refused"
    ELSE "idle"]

Service == INSTANCE CommandService WITH status <- AbstractStatus

\* The gateway implements CommandService: a confirmation comes after the command
\* was taken in charge, and a refused command is never confirmed.
ImplementsService == Service!Spec

\* The MQ thread comes to the end of every cmd.send, with or without a reply.
\* From the sending of its xPL message on, no exception keeps a requester from
\* the reply with status True and the uuid of its command.result.
RequestsAreServed ==
  /\ \A r \in Requests :
       req[r] = "queued" ~> req[r] \in {"accepted", "done", "rejected", "unanswered"}
  /\ [][\A r \in Requests :
          req[r] \in {"sending", "registering", "replying"} =>
            req'[r] \in {"sending", "registering", "replying", "accepted"}]_vars

\* A packet leaves _cmd_pkt some time after CMDTIMEOUT, as long as no packet
\* without an expected key has ended the command thread.
OldPacketsLeave ==
  \A p \in Packets : (p \in cmd_pkt \cap old) ~> (p \notin cmd_pkt \/ thread = "dead")

\* When a packet was kept that answers a command that waits, the command is
\* confirmed or the packet confirms another one, unless it gets too old first
\* or another packet ends the command thread.
KeptAnswerIsUsed ==
  \A r \in Requests, p \in Packets :
    (r \in cmd_dict /\ p \in Found(r)) ~>
      \/ r \in Confirmed \/ p \in old \/ thread = "dead"
      \/ \E q \in Requests : <<q, p>> \in results

\* "Thread that waits for the coresponding reply to a xpl command. It will send
\* out a pub message when the reply is found": the packet a result is sent for
\* carries the values of the stat of that command, not those of another device.
ResultComesFromTheDevice ==
  \A r \in Requests, p \in Packets :
    <<r, p>> \in results => body[p].about = DeviceOf[r]

=============================================================================
