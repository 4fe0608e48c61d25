-------------------------- MODULE XplCommandProofs --------------------------
(***************************************************************************)
(* Proofs about the command side of the xPL gateway, for any set of        *)
(* requests, packets, devices and packet contents.                         *)
(***************************************************************************)
EXTENDS XplCommand, TLAPS

\* What is in the tables was put there by the threads that fill them.
TablesInv ==
  /\ cmd_dict \subseteq Registered
  /\ \A p \in cmd_pkt : callback[p] = "stored"
  /\ thread = "scan" => scan \subseteq cmd_dict
  /\ thread \in {"purge", "test"} => round = {}
  /\ round \subseteq results

\* What was matched: it was registered and stored, and as long as it is still in
\* a table the round that matched it has not come to the deletion.
MatchInv ==
  \A r \in Requests, p \in Packets : <<r, p>> \in results =>
    /\ r \in Registered
    /\ callback[p] = "stored"
    /\ r \in cmd_dict => \E q \in Packets : <<r, q>> \in round
    /\ p \in cmd_pkt => thread # "forget" /\ \E s \in Requests : <<s, p>> \in round

\* No registered command is lost.
KeptInv == Registered \subseteq cmd_dict \cup Confirmed

\* The inductive invariant.
IInv == TypeOK /\ TablesInv /\ MatchInv /\ KeptInv

-----------------------------------------------------------------------------
\* The initial state satisfies the invariant.
LEMMA InitInv == Init => IInv
  BY CommandAssumption DEF Init, IInv, TypeOK, TablesInv, MatchInv, KeptInv,
     RequestState, CallbackState, ThreadState, Body, Registered, Confirmed

\* Every step of the gateway keeps the types.
LEMMA TypeStep == TypeOK /\ [Next]_vars => TypeOK'
<1> SUFFICES ASSUME TypeOK, [Next]_vars
             PROVE  TypeOK'
  OBVIOUS
<1> USE DEF TypeOK, RequestState, CallbackState, ThreadState, Body
<1>1. ASSUME NEW d \in Devices, CreateDevice(d) PROVE TypeOK'
  BY <1>1, CommandAssumption DEF CreateDevice, requestVars, deviceVars, tableVars, packetVars, threadVars
<1>2. ASSUME DeviceUpdate PROVE TypeOK'
  BY <1>2, CommandAssumption DEF DeviceUpdate, requestVars, deviceVars, tableVars, packetVars, threadVars
<1>3. ASSUME NEW r \in Requests, Request(r) PROVE TypeOK'
  BY <1>3, CommandAssumption DEF Request, requestVars, deviceVars, tableVars, packetVars, threadVars
<1>4. ASSUME NEW r \in Requests, LookupFails(r) PROVE TypeOK'
  BY <1>4, CommandAssumption DEF LookupFails, Step, requestVars, deviceVars, tableVars, packetVars, threadVars
<1>5. ASSUME NEW r \in Requests, Reject(r) PROVE TypeOK'
  BY <1>5, CommandAssumption DEF Reject, Step, requestVars, deviceVars, tableVars, packetVars, threadVars
<1>6. ASSUME NEW r \in Requests, Build(r) PROVE TypeOK'
  BY <1>6, CommandAssumption DEF Build, Step, requestVars, deviceVars, tableVars, packetVars, threadVars
<1>7. ASSUME NEW r \in Requests, Send(r) PROVE TypeOK'
  BY <1>7, CommandAssumption DEF Send, Step, requestVars, deviceVars, tableVars, packetVars, threadVars
<1>8. ASSUME NEW r \in Requests, Register(r) PROVE TypeOK'
  BY <1>8, CommandAssumption DEF Register, Step, requestVars, deviceVars, tableVars, packetVars, threadVars
<1>9. ASSUME NEW r \in Requests, Reply(r) PROVE TypeOK'
  BY <1>9, CommandAssumption DEF Reply, Step, requestVars, deviceVars, tableVars, packetVars, threadVars
<1>10. ASSUME NEW p \in Packets, Arrive(p) PROVE TypeOK'
  BY <1>10, CommandAssumption DEF Arrive, requestVars, deviceVars, tableVars, packetVars, threadVars
<1>11. ASSUME NEW p \in Packets, Check(p) PROVE TypeOK'
  BY <1>11, CommandAssumption DEF Check, requestVars, deviceVars, tableVars, packetVars, threadVars
<1>12. ASSUME NEW p \in Packets, Store(p) PROVE TypeOK'
  BY <1>12, CommandAssumption DEF Store, requestVars, deviceVars, tableVars, packetVars, threadVars
<1>13. ASSUME NEW p \in Packets, GetOld(p) PROVE TypeOK'
  BY <1>13, CommandAssumption DEF GetOld, requestVars, deviceVars, tableVars, packetVars, threadVars
<1>14. ASSUME Purge PROVE TypeOK'
  BY <1>14, CommandAssumption DEF Purge, requestVars, deviceVars, tableVars, packetVars, threadVars
<1>15. ASSUME Test PROVE TypeOK'
  BY <1>15, CommandAssumption DEF Test, requestVars, deviceVars, tableVars, packetVars, threadVars
<1>16. ASSUME NEW r \in Requests, Search(r) PROVE TypeOK'
  BY <1>16, CommandAssumption DEF Search, Publish, Found, Candidates, requestVars, deviceVars, tableVars, packetVars, threadVars
<1>17. ASSUME NEW r \in Requests, Die(r) PROVE TypeOK'
  BY <1>17, CommandAssumption DEF Die, Publish, Found, Candidates, requestVars, deviceVars, tableVars, packetVars, threadVars
<1>18. ASSUME ForgetPackets PROVE TypeOK'
  BY <1>18, CommandAssumption DEF ForgetPackets, requestVars, deviceVars, tableVars, packetVars, threadVars
<1>19. ASSUME ForgetCommands PROVE TypeOK'
  BY <1>19, CommandAssumption DEF ForgetCommands, requestVars, deviceVars, tableVars, packetVars, threadVars
<1>21. ASSUME NEW d \in Devices, DeleteDevice(d) PROVE TypeOK'
  BY <1>21, CommandAssumption DEF DeleteDevice, requestVars, deviceVars, tableVars, packetVars, threadVars
<1>22. ASSUME NEW r \in Requests, ConversionFails(r) PROVE TypeOK'
  BY <1>22, CommandAssumption DEF ConversionFails, Step, requestVars, deviceVars, tableVars, packetVars, threadVars
<1>23. ASSUME NEW r \in Requests, AskPlugin(r) PROVE TypeOK'
  BY <1>23, CommandAssumption DEF AskPlugin, Step, requestVars, deviceVars, tableVars, packetVars, threadVars
<1>24. ASSUME NEW r \in Requests, PluginAnswers(r) PROVE TypeOK'
  BY <1>24, CommandAssumption DEF PluginAnswers, Step, requestVars, deviceVars, tableVars, packetVars, threadVars
<1>20. ASSUME UNCHANGED vars PROVE TypeOK'
  BY <1>20 DEF vars, requestVars, deviceVars, tableVars, packetVars, threadVars
<1> QED
  BY <1>1, <1>2, <1>3, <1>4, <1>5, <1>6, <1>7, <1>8, <1>9, <1>10, <1>11, <1>12, <1>13, <1>14, <1>15, <1>16, <1>17, <1>18, <1>19, <1>20, <1>21, <1>22, <1>23, <1>24
  DEF Next, MqThread, CallbackThread, CommandThread

\* Every step keeps the tables consistent with the threads that fill them.
LEMMA TablesStep == IInv /\ [Next]_vars => TablesInv'
<1> SUFFICES ASSUME IInv, [Next]_vars
             PROVE  TablesInv'
  OBVIOUS
<1> USE DEF IInv, TypeOK, TablesInv, MatchInv, Registered
<1>1. ASSUME NEW d \in Devices, CreateDevice(d) PROVE TablesInv'
  BY <1>1, CommandAssumption DEF CreateDevice, requestVars, deviceVars, tableVars, packetVars, threadVars
<1>2. ASSUME DeviceUpdate PROVE TablesInv'
  BY <1>2, CommandAssumption DEF DeviceUpdate, requestVars, deviceVars, tableVars, packetVars, threadVars
<1>3. ASSUME NEW r \in Requests, Request(r) PROVE TablesInv'
  BY <1>3, CommandAssumption DEF Request, requestVars, deviceVars, tableVars, packetVars, threadVars
<1>4. ASSUME NEW r \in Requests, LookupFails(r) PROVE TablesInv'
  BY <1>4, CommandAssumption DEF LookupFails, Step, requestVars, deviceVars, tableVars, packetVars, threadVars
<1>5. ASSUME NEW r \in Requests, Reject(r) PROVE TablesInv'
  BY <1>5, CommandAssumption DEF Reject, Step, requestVars, deviceVars, tableVars, packetVars, threadVars
<1>6. ASSUME NEW r \in Requests, Build(r) PROVE TablesInv'
  BY <1>6, CommandAssumption DEF Build, Step, requestVars, deviceVars, tableVars, packetVars, threadVars
<1>7. ASSUME NEW r \in Requests, Send(r) PROVE TablesInv'
  BY <1>7, CommandAssumption DEF Send, Step, requestVars, deviceVars, tableVars, packetVars, threadVars
<1>8. ASSUME NEW r \in Requests, Register(r) PROVE TablesInv'
  BY <1>8, CommandAssumption DEF Register, Step, requestVars, deviceVars, tableVars, packetVars, threadVars
<1>9. ASSUME NEW r \in Requests, Reply(r) PROVE TablesInv'
  BY <1>9, CommandAssumption DEF Reply, Step, requestVars, deviceVars, tableVars, packetVars, threadVars
<1>10. ASSUME NEW p \in Packets, Arrive(p) PROVE TablesInv'
  BY <1>10, CommandAssumption DEF Arrive, requestVars, deviceVars, tableVars, packetVars, threadVars
<1>11. ASSUME NEW p \in Packets, Check(p) PROVE TablesInv'
  BY <1>11, CommandAssumption DEF Check, requestVars, deviceVars, tableVars, packetVars, threadVars
<1>12. ASSUME NEW p \in Packets, Store(p) PROVE TablesInv'
  BY <1>12, CommandAssumption DEF Store, requestVars, deviceVars, tableVars, packetVars, threadVars
<1>13. ASSUME NEW p \in Packets, GetOld(p) PROVE TablesInv'
  BY <1>13, CommandAssumption DEF GetOld, requestVars, deviceVars, tableVars, packetVars, threadVars
<1>14. ASSUME Purge PROVE TablesInv'
  BY <1>14, CommandAssumption DEF Purge, requestVars, deviceVars, tableVars, packetVars, threadVars
<1>15. ASSUME Test PROVE TablesInv'
  BY <1>15, CommandAssumption DEF Test, requestVars, deviceVars, tableVars, packetVars, threadVars
<1>16. ASSUME NEW r \in Requests, Search(r) PROVE TablesInv'
  BY <1>16, CommandAssumption DEF Search, Publish, Found, Candidates, requestVars, deviceVars, tableVars, packetVars, threadVars
<1>17. ASSUME NEW r \in Requests, Die(r) PROVE TablesInv'
  BY <1>17, CommandAssumption DEF Die, Publish, Found, Candidates, requestVars, deviceVars, tableVars, packetVars, threadVars
<1>18. ASSUME ForgetPackets PROVE TablesInv'
  BY <1>18, CommandAssumption DEF ForgetPackets, requestVars, deviceVars, tableVars, packetVars, threadVars
<1>19. ASSUME ForgetCommands PROVE TablesInv'
  BY <1>19, CommandAssumption DEF ForgetCommands, requestVars, deviceVars, tableVars, packetVars, threadVars
<1>21. ASSUME NEW d \in Devices, DeleteDevice(d) PROVE TablesInv'
  BY <1>21, CommandAssumption DEF DeleteDevice, requestVars, deviceVars, tableVars, packetVars, threadVars
<1>22. ASSUME NEW r \in Requests, ConversionFails(r) PROVE TablesInv'
  BY <1>22, CommandAssumption DEF ConversionFails, Step, requestVars, deviceVars, tableVars, packetVars, threadVars
<1>23. ASSUME NEW r \in Requests, AskPlugin(r) PROVE TablesInv'
  BY <1>23, CommandAssumption DEF AskPlugin, Step, requestVars, deviceVars, tableVars, packetVars, threadVars
<1>24. ASSUME NEW r \in Requests, PluginAnswers(r) PROVE TablesInv'
  BY <1>24, CommandAssumption DEF PluginAnswers, Step, requestVars, deviceVars, tableVars, packetVars, threadVars
<1>20. ASSUME UNCHANGED vars PROVE TablesInv'
  BY <1>20 DEF vars, requestVars, deviceVars, tableVars, packetVars, threadVars
<1> QED
  BY <1>1, <1>2, <1>3, <1>4, <1>5, <1>6, <1>7, <1>8, <1>9, <1>10, <1>11, <1>12, <1>13, <1>14, <1>15, <1>16, <1>17, <1>18, <1>19, <1>20, <1>21, <1>22, <1>23, <1>24
  DEF Next, MqThread, CallbackThread, CommandThread

\* Every step keeps what was matched out of later rounds.
LEMMA MatchStep == IInv /\ [Next]_vars => MatchInv'
<1> SUFFICES ASSUME IInv, [Next]_vars
             PROVE  MatchInv'
  OBVIOUS
<1> USE DEF IInv, TypeOK, TablesInv, MatchInv, Registered
<1>1. ASSUME NEW d \in Devices, CreateDevice(d) PROVE MatchInv'
  BY <1>1, CommandAssumption DEF CreateDevice, requestVars, deviceVars, tableVars, packetVars, threadVars
<1>2. ASSUME DeviceUpdate PROVE MatchInv'
  BY <1>2, CommandAssumption DEF DeviceUpdate, requestVars, deviceVars, tableVars, packetVars, threadVars
<1>3. ASSUME NEW r \in Requests, Request(r) PROVE MatchInv'
  BY <1>3, CommandAssumption DEF Request, requestVars, deviceVars, tableVars, packetVars, threadVars
<1>4. ASSUME NEW r \in Requests, LookupFails(r) PROVE MatchInv'
  BY <1>4, CommandAssumption DEF LookupFails, Step, requestVars, deviceVars, tableVars, packetVars, threadVars
<1>5. ASSUME NEW r \in Requests, Reject(r) PROVE MatchInv'
  BY <1>5, CommandAssumption DEF Reject, Step, requestVars, deviceVars, tableVars, packetVars, threadVars
<1>6. ASSUME NEW r \in Requests, Build(r) PROVE MatchInv'
  BY <1>6, CommandAssumption DEF Build, Step, requestVars, deviceVars, tableVars, packetVars, threadVars
<1>7. ASSUME NEW r \in Requests, Send(r) PROVE MatchInv'
  BY <1>7, CommandAssumption DEF Send, Step, requestVars, deviceVars, tableVars, packetVars, threadVars
<1>8. ASSUME NEW r \in Requests, Register(r) PROVE MatchInv'
  BY <1>8, CommandAssumption DEF Register, Step, requestVars, deviceVars, tableVars, packetVars, threadVars
<1>9. ASSUME NEW r \in Requests, Reply(r) PROVE MatchInv'
  BY <1>9, CommandAssumption DEF Reply, Step, requestVars, deviceVars, tableVars, packetVars, threadVars
<1>10. ASSUME NEW p \in Packets, Arrive(p) PROVE MatchInv'
  BY <1>10, CommandAssumption DEF Arrive, requestVars, deviceVars, tableVars, packetVars, threadVars
<1>11. ASSUME NEW p \in Packets, Check(p) PROVE MatchInv'
  BY <1>11, CommandAssumption DEF Check, requestVars, deviceVars, tableVars, packetVars, threadVars
<1>12. ASSUME NEW p \in Packets, Store(p) PROVE MatchInv'
  BY <1>12, CommandAssumption DEF Store, requestVars, deviceVars, tableVars, packetVars, threadVars
<1>13. ASSUME NEW p \in Packets, GetOld(p) PROVE MatchInv'
  BY <1>13, CommandAssumption DEF GetOld, requestVars, deviceVars, tableVars, packetVars, threadVars
<1>14. ASSUME Purge PROVE MatchInv'
  BY <1>14, CommandAssumption DEF Purge, requestVars, deviceVars, tableVars, packetVars, threadVars
<1>15. ASSUME Test PROVE MatchInv'
  BY <1>15, CommandAssumption DEF Test, requestVars, deviceVars, tableVars, packetVars, threadVars
<1>16. ASSUME NEW r \in Requests, Search(r) PROVE MatchInv'
  BY <1>16, CommandAssumption DEF Search, Publish, Found, Candidates, requestVars, deviceVars, tableVars, packetVars, threadVars
<1>17. ASSUME NEW r \in Requests, Die(r) PROVE MatchInv'
  BY <1>17, CommandAssumption DEF Die, Publish, Found, Candidates, requestVars, deviceVars, tableVars, packetVars, threadVars
<1>18. ASSUME ForgetPackets PROVE MatchInv'
  BY <1>18, CommandAssumption DEF ForgetPackets, requestVars, deviceVars, tableVars, packetVars, threadVars
<1>19. ASSUME ForgetCommands PROVE MatchInv'
  BY <1>19, CommandAssumption DEF ForgetCommands, requestVars, deviceVars, tableVars, packetVars, threadVars
<1>21. ASSUME NEW d \in Devices, DeleteDevice(d) PROVE MatchInv'
  BY <1>21, CommandAssumption DEF DeleteDevice, requestVars, deviceVars, tableVars, packetVars, threadVars
<1>22. ASSUME NEW r \in Requests, ConversionFails(r) PROVE MatchInv'
  BY <1>22, CommandAssumption DEF ConversionFails, Step, requestVars, deviceVars, tableVars, packetVars, threadVars
<1>23. ASSUME NEW r \in Requests, AskPlugin(r) PROVE MatchInv'
  BY <1>23, CommandAssumption DEF AskPlugin, Step, requestVars, deviceVars, tableVars, packetVars, threadVars
<1>24. ASSUME NEW r \in Requests, PluginAnswers(r) PROVE MatchInv'
  BY <1>24, CommandAssumption DEF PluginAnswers, Step, requestVars, deviceVars, tableVars, packetVars, threadVars
<1>20. ASSUME UNCHANGED vars PROVE MatchInv'
  BY <1>20 DEF vars, requestVars, deviceVars, tableVars, packetVars, threadVars
<1> QED
  BY <1>1, <1>2, <1>3, <1>4, <1>5, <1>6, <1>7, <1>8, <1>9, <1>10, <1>11, <1>12, <1>13, <1>14, <1>15, <1>16, <1>17, <1>18, <1>19, <1>20, <1>21, <1>22, <1>23, <1>24
  DEF Next, MqThread, CallbackThread, CommandThread

\* No step loses a registered command.
LEMMA KeptStep == IInv /\ [Next]_vars => KeptInv'
<1> SUFFICES ASSUME IInv, [Next]_vars
             PROVE  KeptInv'
  OBVIOUS
<1> USE DEF IInv, TypeOK, TablesInv, MatchInv, KeptInv, Registered, Confirmed
<1>1. ASSUME NEW d \in Devices, CreateDevice(d) PROVE KeptInv'
  BY <1>1, CommandAssumption DEF CreateDevice, requestVars, deviceVars, tableVars, packetVars, threadVars
<1>2. ASSUME DeviceUpdate PROVE KeptInv'
  BY <1>2, CommandAssumption DEF DeviceUpdate, requestVars, deviceVars, tableVars, packetVars, threadVars
<1>3. ASSUME NEW r \in Requests, Request(r) PROVE KeptInv'
  BY <1>3, CommandAssumption DEF Request, requestVars, deviceVars, tableVars, packetVars, threadVars
<1>4. ASSUME NEW r \in Requests, LookupFails(r) PROVE KeptInv'
  BY <1>4, CommandAssumption DEF LookupFails, Step, requestVars, deviceVars, tableVars, packetVars, threadVars
<1>5. ASSUME NEW r \in Requests, Reject(r) PROVE KeptInv'
  BY <1>5, CommandAssumption DEF Reject, Step, requestVars, deviceVars, tableVars, packetVars, threadVars
<1>6. ASSUME NEW r \in Requests, Build(r) PROVE KeptInv'
  BY <1>6, CommandAssumption DEF Build, Step, requestVars, deviceVars, tableVars, packetVars, threadVars
<1>7. ASSUME NEW r \in Requests, Send(r) PROVE KeptInv'
  BY <1>7, CommandAssumption DEF Send, Step, requestVars, deviceVars, tableVars, packetVars, threadVars
<1>8. ASSUME NEW r \in Requests, Register(r) PROVE KeptInv'
  BY <1>8, CommandAssumption DEF Register, Step, requestVars, deviceVars, tableVars, packetVars, threadVars
<1>9. ASSUME NEW r \in Requests, Reply(r) PROVE KeptInv'
  BY <1>9, CommandAssumption DEF Reply, Step, requestVars, deviceVars, tableVars, packetVars, threadVars
<1>10. ASSUME NEW p \in Packets, Arrive(p) PROVE KeptInv'
  BY <1>10, CommandAssumption DEF Arrive, requestVars, deviceVars, tableVars, packetVars, threadVars
<1>11. ASSUME NEW p \in Packets, Check(p) PROVE KeptInv'
  BY <1>11, CommandAssumption DEF Check, requestVars, deviceVars, tableVars, packetVars, threadVars
<1>12. ASSUME NEW p \in Packets, Store(p) PROVE KeptInv'
  BY <1>12, CommandAssumption DEF Store, requestVars, deviceVars, tableVars, packetVars, threadVars
<1>13. ASSUME NEW p \in Packets, GetOld(p) PROVE KeptInv'
  BY <1>13, CommandAssumption DEF GetOld, requestVars, deviceVars, tableVars, packetVars, threadVars
<1>14. ASSUME Purge PROVE KeptInv'
  BY <1>14, CommandAssumption DEF Purge, requestVars, deviceVars, tableVars, packetVars, threadVars
<1>15. ASSUME Test PROVE KeptInv'
  BY <1>15, CommandAssumption DEF Test, requestVars, deviceVars, tableVars, packetVars, threadVars
<1>16. ASSUME NEW r \in Requests, Search(r) PROVE KeptInv'
  BY <1>16, CommandAssumption DEF Search, Publish, Found, Candidates, requestVars, deviceVars, tableVars, packetVars, threadVars
<1>17. ASSUME NEW r \in Requests, Die(r) PROVE KeptInv'
  BY <1>17, CommandAssumption DEF Die, Publish, Found, Candidates, requestVars, deviceVars, tableVars, packetVars, threadVars
<1>18. ASSUME ForgetPackets PROVE KeptInv'
  BY <1>18, CommandAssumption DEF ForgetPackets, requestVars, deviceVars, tableVars, packetVars, threadVars
<1>19. ASSUME ForgetCommands PROVE KeptInv'
  BY <1>19, CommandAssumption DEF ForgetCommands, requestVars, deviceVars, tableVars, packetVars, threadVars
<1>21. ASSUME NEW d \in Devices, DeleteDevice(d) PROVE KeptInv'
  BY <1>21, CommandAssumption DEF DeleteDevice, requestVars, deviceVars, tableVars, packetVars, threadVars
<1>22. ASSUME NEW r \in Requests, ConversionFails(r) PROVE KeptInv'
  BY <1>22, CommandAssumption DEF ConversionFails, Step, requestVars, deviceVars, tableVars, packetVars, threadVars
<1>23. ASSUME NEW r \in Requests, AskPlugin(r) PROVE KeptInv'
  BY <1>23, CommandAssumption DEF AskPlugin, Step, requestVars, deviceVars, tableVars, packetVars, threadVars
<1>24. ASSUME NEW r \in Requests, PluginAnswers(r) PROVE KeptInv'
  BY <1>24, CommandAssumption DEF PluginAnswers, Step, requestVars, deviceVars, tableVars, packetVars, threadVars
<1>20. ASSUME UNCHANGED vars PROVE KeptInv'
  BY <1>20 DEF vars, requestVars, deviceVars, tableVars, packetVars, threadVars
<1> QED
  BY <1>1, <1>2, <1>3, <1>4, <1>5, <1>6, <1>7, <1>8, <1>9, <1>10, <1>11, <1>12, <1>13, <1>14, <1>15, <1>16, <1>17, <1>18, <1>19, <1>20, <1>21, <1>22, <1>23, <1>24
  DEF Next, MqThread, CallbackThread, CommandThread

\* The invariant is inductive and holds in every reachable state.
THEOREM Invariance == Spec => []IInv
<1>1. IInv /\ [Next]_vars => IInv'
  BY TypeStep, TablesStep, MatchStep, KeptStep DEF IInv
<1> QED
  BY InitInv, <1>1, PTL DEF Spec

\* The tables and threads of XplManager always have their types.
THEOREM TypeCorrect == Spec => []TypeOK
<1>1. IInv => TypeOK
  BY DEF IInv
<1> QED
  BY Invariance, <1>1, PTL

\* An accepted command is in _cmd_dict or its command.result was published, for
\* any number of requests and packets and even when the command thread dies.
THEOREM CommandsAreKept == Spec => []NoCommandForgotten
<1>1. IInv => NoCommandForgotten
  BY DEF IInv, KeptInv, Registered, NoCommandForgotten
<1> QED
  BY Invariance, <1>1, PTL

\* Nothing that was matched in a round is there for a later one, whatever the
\* callbacks and the MQ thread did in the meantime.
THEOREM RoundsAreDisjoint == Spec => []NothingMatchedSurvives
<1>1. IInv => NothingMatchedSurvives
  BY DEF IInv, TablesInv, MatchInv, NothingMatchedSurvives
<1> QED
  BY Invariance, <1>1, PTL

\* The initial state of the gateway is one of CommandService.
LEMMA ServiceInit == Init => Service!Init
  BY DEF Init, Service!Init, AbstractStatus, Confirmed

\* A step of the gateway is a step of CommandService or leaves the status of
\* every request as it is.
LEMMA ServiceStep == IInv /\ [Next]_vars => [Service!Next]_AbstractStatus
<1> SUFFICES ASSUME IInv, [Next]_vars
             PROVE  Service!Next \/ UNCHANGED AbstractStatus
  OBVIOUS
<1> USE DEF IInv, TypeOK, AbstractStatus, Confirmed
<1>1. ASSUME NEW d \in Devices, CreateDevice(d) PROVE UNCHANGED AbstractStatus
  BY <1>1 DEF CreateDevice, requestVars, deviceVars, tableVars, threadVars
<1>2. ASSUME DeviceUpdate PROVE UNCHANGED AbstractStatus
  BY <1>2 DEF DeviceUpdate, requestVars, deviceVars, tableVars, threadVars
<1>3. ASSUME NEW r \in Requests, Request(r) PROVE UNCHANGED AbstractStatus
  BY <1>3 DEF Request, requestVars, deviceVars, tableVars, threadVars
<1>4. ASSUME NEW r \in Requests, LookupFails(r) PROVE Service!Next
  <2>1. Service!Refuse(r)
    BY <1>4 DEF LookupFails, Step, threadVars, MatchInv, Registered, RequestState,
       Service!Refuse, Service!Move
  <2> QED
    BY <2>1 DEF Service!Next
<1>5. ASSUME NEW r \in Requests, Reject(r) PROVE Service!Next
  <2>1. Service!Refuse(r)
    BY <1>5 DEF Reject, Step, threadVars, MatchInv, Registered, RequestState,
       Service!Refuse, Service!Move
  <2> QED
    BY <2>1 DEF Service!Next
<1>6. ASSUME NEW r \in Requests, Build(r) PROVE UNCHANGED AbstractStatus
  BY <1>6 DEF Build, Step, requestVars, deviceVars, tableVars, threadVars
<1>7. ASSUME NEW r \in Requests, Send(r) PROVE UNCHANGED AbstractStatus
  BY <1>7 DEF Send, Step, requestVars, deviceVars, tableVars, threadVars
<1>8. ASSUME NEW r \in Requests, Register(r) PROVE Service!Next
  <2>1. Service!Accept(r)
    BY <1>8 DEF Register, Step, threadVars, MatchInv, Registered, RequestState,
       Service!Accept, Service!Move
  <2> QED
    BY <2>1 DEF Service!Next
<1>9. ASSUME NEW r \in Requests, Reply(r) PROVE UNCHANGED AbstractStatus
  BY <1>9 DEF Reply, Step, requestVars, deviceVars, tableVars, threadVars
<1>10. ASSUME NEW p \in Packets, Arrive(p) PROVE UNCHANGED AbstractStatus
  BY <1>10 DEF Arrive, requestVars, deviceVars, tableVars, threadVars
<1>11. ASSUME NEW p \in Packets, Check(p) PROVE UNCHANGED AbstractStatus
  BY <1>11 DEF Check, requestVars, deviceVars, tableVars, threadVars
<1>12. ASSUME NEW p \in Packets, Store(p) PROVE UNCHANGED AbstractStatus
  BY <1>12 DEF Store, requestVars, deviceVars, tableVars, threadVars
<1>13. ASSUME NEW p \in Packets, GetOld(p) PROVE UNCHANGED AbstractStatus
  BY <1>13 DEF GetOld, requestVars, deviceVars, tableVars, threadVars
<1>14. ASSUME Purge PROVE UNCHANGED AbstractStatus
  BY <1>14 DEF Purge, requestVars, deviceVars, tableVars, threadVars
<1>15. ASSUME Test PROVE UNCHANGED AbstractStatus
  BY <1>15 DEF Test, requestVars, deviceVars, tableVars, threadVars
<1>16. ASSUME NEW r \in Requests, Search(r) PROVE Service!Next \/ UNCHANGED AbstractStatus
  <2>1. PICK ps \in SUBSET Packets : Publish(r, ps)
    BY <1>16 DEF Search, Found, Candidates
  <2>2. req[r] \in {"replying", "accepted"}
    BY <1>16 DEF Search, TablesInv, Registered
  <2>3. CASE ps = {} \/ \E p \in Packets : <<r, p>> \in results
    BY <1>16, <2>1, <2>3 DEF Search, Publish, requestVars, deviceVars, tableVars
  <2>4. CASE ps # {} /\ \A p \in Packets : <<r, p>> \notin results
    <3>1. Service!Confirm(r)
      BY <1>16, <2>1, <2>2, <2>4 DEF Search, Publish, requestVars, deviceVars, tableVars, Service!Confirm, Service!Move
    <3> QED
      BY <3>1 DEF Service!Next
  <2> QED
    BY <2>3, <2>4
<1>17. ASSUME NEW r \in Requests, Die(r) PROVE Service!Next \/ UNCHANGED AbstractStatus
  <2>1. PICK ps \in SUBSET Packets : Publish(r, ps)
    BY <1>17 DEF Die, Found, Candidates
  <2>2. req[r] \in {"replying", "accepted"}
    BY <1>17 DEF Die, TablesInv, Registered
  <2>3. CASE ps = {} \/ \E p \in Packets : <<r, p>> \in results
    BY <1>17, <2>1, <2>3 DEF Die, Publish, requestVars, deviceVars, tableVars
  <2>4. CASE ps # {} /\ \A p \in Packets : <<r, p>> \notin results
    <3>1. Service!Confirm(r)
      BY <1>17, <2>1, <2>2, <2>4 DEF Die, Publish, requestVars, deviceVars, tableVars, Service!Confirm, Service!Move
    <3> QED
      BY <3>1 DEF Service!Next
  <2> QED
    BY <2>3, <2>4
<1>18. ASSUME ForgetPackets PROVE UNCHANGED AbstractStatus
  BY <1>18 DEF ForgetPackets, requestVars, deviceVars, tableVars, threadVars
<1>19. ASSUME ForgetCommands PROVE UNCHANGED AbstractStatus
  BY <1>19 DEF ForgetCommands, requestVars, deviceVars, tableVars, threadVars
<1>21. ASSUME NEW d \in Devices, DeleteDevice(d) PROVE UNCHANGED AbstractStatus
  BY <1>21 DEF DeleteDevice, requestVars, deviceVars, tableVars, threadVars
<1>22. ASSUME NEW r \in Requests, ConversionFails(r) PROVE Service!Next
  <2>1. Service!Refuse(r)
    BY <1>22 DEF ConversionFails, Step, threadVars, MatchInv, Registered, RequestState,
       Service!Refuse, Service!Move
  <2> QED
    BY <2>1 DEF Service!Next
<1>23. ASSUME NEW r \in Requests, AskPlugin(r) PROVE UNCHANGED AbstractStatus
  BY <1>23 DEF AskPlugin, Step, requestVars, deviceVars, tableVars, threadVars
<1>24. ASSUME NEW r \in Requests, PluginAnswers(r) PROVE Service!Next
  <2>1. PICK s \in {"done", "rejected", "unanswered"} : Step(r, "asking", s)
    BY <1>24 DEF PluginAnswers
  <2>2. r \notin Confirmed
    BY <2>1 DEF Step, MatchInv, Registered
  <2>3. CASE s = "done"
    <3>1. Service!Serve(r)
      BY <1>24, <2>1, <2>2, <2>3 DEF PluginAnswers, Step, threadVars, Service!Serve, Service!Move
    <3> QED
      BY <3>1 DEF Service!Next
  <2>4. CASE s # "done"
    <3>1. Service!Refuse(r)
      BY <1>24, <2>1, <2>2, <2>4 DEF PluginAnswers, Step, threadVars, Service!Refuse, Service!Move
    <3> QED
      BY <3>1 DEF Service!Next
  <2> QED
    BY <2>3, <2>4
<1>20. ASSUME UNCHANGED vars PROVE UNCHANGED AbstractStatus
  BY <1>20 DEF vars, requestVars, deviceVars, tableVars, threadVars
<1> QED
  BY <1>1, <1>2, <1>3, <1>4, <1>5, <1>6, <1>7, <1>8, <1>9, <1>10, <1>11, <1>12, <1>13, <1>14, <1>15, <1>16, <1>17, <1>18, <1>19, <1>20, <1>21, <1>22, <1>23, <1>24
  DEF Next, MqThread, CallbackThread, CommandThread

\* The gateway implements CommandService: every cmd.send is refused, or taken in
\* charge and then confirmed at most once as far as its requester can tell.
THEOREM Implementation == Spec => ImplementsService
<1>1. Init => Service!Init
  BY ServiceInit
<1>2. IInv /\ [Next]_vars => [Service!Next]_AbstractStatus
  BY ServiceStep
<1> QED
  BY <1>1, <1>2, Invariance, PTL DEF Spec, ImplementsService, Service!Spec

=============================================================================
