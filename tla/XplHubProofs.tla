------------------------------ MODULE XplHubProofs ------------------------------
(***************************************************************************)
(* Proofs about the hub, for any clients and any length of the list.       *)
(***************************************************************************)
EXTENDS XplHub, SequenceTheorems, FiniteSetTheorems, TLAPS

Entry == [id : Clients \cup {None}, age : Nat, held : SUBSET {"reactor", "timer"}]

Phases == {"idle", "look", "add", "update", "collect", "deliver", "find", "drop"}

\* The types of the list and of the messages that wait.
ListType == client_list \in Seq(Entry)
InboxType == inbox \in Seq(Messages)

\* The reactor and the timer know where they are, and the reactor for which message.
ReactorType ==
  /\ reactor \in [at : Phases, i : Nat \ {0}, msg : Messages \cup {None}, addresses : SUBSET Clients]
  /\ reactor.at # "idle" => reactor.msg \in Messages
TimerType == timer \in [at : {"wait", "round", "bury", "ended"}, i : Nat \ {0}]
OwedType == owed \subseteq Clients /\ cut \in Nat

HubType == ListType /\ InboxType /\ ReactorType /\ TimerType /\ OwedType

\* The timer holds one entry at most.
HeldInv ==
  /\ timer.at # "bury" => HeldBy("timer") = {}
  /\ \A j, k \in HeldBy("timer") : j = k

\* The loop of the reactor gets to an entry of client c.
Ahead(c) == \E j \in DOMAIN client_list : j >= reactor.i /\ client_list[j].id = c

\* Clients that are owed the message and that the loop will not get to any more.
Behind == {c \in owed \ reactor.addresses : ~ Ahead(c)}

\* Each entry that leaves makes the loop miss one client at most.
CollectInv ==
  /\ reactor.at \in {"look", "add", "update"} => reactor.addresses = {}
  /\ reactor.at = "collect" /\ reactor.i = 1 => reactor.addresses = {}
  /\ reactor.at = "collect" /\ reactor.i > 1 =>
       owed \subseteq reactor.msg.to /\ Cardinality(Behind) <= cut

\* The inductive invariant.
IInv == HubType /\ HeldInv /\ CollectInv /\ MissedAreFew

-----------------------------------------------------------------------------
\* What RemoveAt leaves of a sequence.
LEMMA RemoveAtProperties ==
  ASSUME NEW S, NEW s \in Seq(S), NEW k \in 1..Len(s)
  PROVE  /\ RemoveAt(s, k) \in Seq(S)
         /\ Len(RemoveAt(s, k)) = Len(s) - 1
         /\ \A i \in 1..(Len(s) - 1) : RemoveAt(s, k)[i] = s[IF i < k THEN i ELSE i + 1]
<1> DEFINE a == SubSeq(s, 1, k - 1)
           b == SubSeq(s, k + 1, Len(s))
<1>1. Len(s) \in Nat /\ k - 1 \in Int /\ k + 1 \in Int /\ \A i \in 1..Len(s) : s[i] \in S
  OBVIOUS
<1>2. a \in Seq(S) /\ Len(a) = k - 1 /\ \A i \in 1..(k - 1) : a[i] = s[i]
  <2>1. \A i \in 1..(k - 1) : s[i] \in S
    BY <1>1
  <2>2. /\ a \in Seq(S)
        /\ Len(a) = IF 1 <= k - 1 THEN (k - 1) - 1 + 1 ELSE 0
        /\ \A i \in 1..((k - 1) - 1 + 1) : a[i] = s[1 + i - 1]
    BY <1>1, <2>1, SubSeqProperties
  <2> QED
    BY <2>2, <1>1
<1>3. b \in Seq(S) /\ Len(b) = Len(s) - k /\ \A i \in 1..(Len(s) - k) : b[i] = s[k + i]
  <2>1. \A i \in (k + 1)..Len(s) : s[i] \in S
    BY <1>1
  <2>2. /\ b \in Seq(S)
        /\ Len(b) = IF k + 1 <= Len(s) THEN Len(s) - (k + 1) + 1 ELSE 0
        /\ \A i \in 1..(Len(s) - (k + 1) + 1) : b[i] = s[(k + 1) + i - 1]
    BY <1>1, <2>1, SubSeqProperties
  <2> QED
    BY <2>2, <1>1
<1>4. RemoveAt(s, k) = a \o b
  BY DEF RemoveAt
<1> HIDE DEF a, b
<1>5. /\ a \o b \in Seq(S)
      /\ Len(a \o b) = Len(a) + Len(b)
      /\ \A i \in 1..(Len(a) + Len(b)) : (a \o b)[i] = IF i <= Len(a) THEN a[i] ELSE b[i - Len(a)]
  BY <1>2, <1>3, ConcatProperties
<1>6. ASSUME NEW i \in 1..(Len(s) - 1) PROVE (a \o b)[i] = s[IF i < k THEN i ELSE i + 1]
  <2>1. CASE i < k
    BY <1>2, <1>3, <1>5, <2>1
  <2>2. CASE i >= k
    <3>1. (a \o b)[i] = b[i - (k - 1)] /\ i - (k - 1) \in 1..(Len(s) - k)
      BY <1>2, <1>3, <1>5, <2>2
    <3> QED
      BY <1>3, <3>1, <2>2
  <2>3. i < k \/ i >= k
    OBVIOUS
  <2> QED
    BY ONLY <2>1, <2>2, <2>3
<1> QED
  BY <1>2, <1>3, <1>4, <1>5, <1>6

\* Where the entries were that are left: no two at the same position, none at the one
\* that was removed.
LEMMA OldPositions ==
  ASSUME NEW k \in Nat, NEW i \in Nat, NEW j \in Nat
  PROVE  /\ (IF i < k THEN i ELSE i + 1) # k
         /\ (IF i < k THEN i ELSE i + 1) = (IF j < k THEN j ELSE j + 1) => i = j
OBVIOUS

\* list.remove takes one entry out, or nothing.
LEMMA RemovedProperties ==
  ASSUME HubType, NEW thread \in {"reactor", "timer"}
  PROVE  \/ HeldBy(thread) = {} /\ Removed(thread) = client_list
         \/ \E k \in HeldBy(thread) :
              /\ k \in 1..Len(client_list)
              /\ Removed(thread) \in Seq(Entry)
              /\ Len(Removed(thread)) = Len(client_list) - 1
              /\ \A i \in 1..(Len(client_list) - 1) :
                   Removed(thread)[i] = client_list[IF i < k THEN i ELSE i + 1]
<1>1. CASE HeldBy(thread) = {}
  BY <1>1 DEF Removed
<1>2. CASE HeldBy(thread) # {}
  <2> DEFINE k == CHOOSE i \in HeldBy(thread) : TRUE
  <2>1. k \in HeldBy(thread)
    BY <1>2
  <2> HIDE DEF k
  <2>2. k \in 1..Len(client_list) /\ client_list \in Seq(Entry)
    BY <2>1 DEF HeldBy, HubType, ListType
  <2>3. Removed(thread) = RemoveAt(client_list, k)
    BY <1>2 DEF Removed, k
  <2> QED
    BY <2>1, <2>2, <2>3, RemoveAtProperties
<1> QED
  BY <1>1, <1>2

\* Where a loop of the reactor goes on and where the next one begins.
LEMMA Moved ==
  ASSUME ReactorType, reactor.at # "idle", NEW at \in Phases, NEW i \in Nat \ {0},
         NEW a \in SUBSET Clients,
         reactor' = [reactor EXCEPT !.at = at, !.i = i, !.addresses = a]
  PROVE  /\ ReactorType'
         /\ reactor'.at = at /\ reactor'.i = i
         /\ reactor'.msg = reactor.msg /\ reactor'.addresses = a
<1>1. reactor \in [at : Phases, i : Nat \ {0}, msg : Messages \cup {None}, addresses : SUBSET Clients]
  BY DEF ReactorType
<1>2. reactor' = [at |-> at, i |-> i, msg |-> reactor.msg, addresses |-> a]
  BY <1>1
<1>3. reactor' \in [at : Phases, i : Nat \ {0}, msg : Messages \cup {None}, addresses : SUBSET Clients]
  BY <1>1, <1>2
<1> QED
  BY <1>2, <1>3 DEF ReactorType

LEMMA Stepped ==
  ASSUME ReactorType, reactor.at # "idle", NEW at \in Phases, Step(at)
  PROVE  /\ ReactorType'
         /\ reactor'.at = at /\ reactor'.i = 1
         /\ reactor'.msg = reactor.msg /\ reactor'.addresses = reactor.addresses
<1>1. reactor \in [at : Phases, i : Nat \ {0}, msg : Messages \cup {None}, addresses : SUBSET Clients]
  BY DEF ReactorType
<1>2. reactor' = [reactor EXCEPT !.at = at, !.i = 1, !.addresses = reactor.addresses]
  BY <1>1 DEF Step
<1>3. 1 \in Nat \ {0} /\ reactor.addresses \in SUBSET Clients
  BY <1>1
<1> QED
  BY <1>2, <1>3, Moved

LEMMA Passed ==
  ASSUME ReactorType, reactor.at # "idle", reactor' = [reactor EXCEPT !.i = @ + 1]
  PROVE  /\ ReactorType'
         /\ reactor'.at = reactor.at /\ reactor'.i = reactor.i + 1
         /\ reactor'.msg = reactor.msg /\ reactor'.addresses = reactor.addresses
<1>1. reactor \in [at : Phases, i : Nat \ {0}, msg : Messages \cup {None}, addresses : SUBSET Clients]
  BY DEF ReactorType
<1>2. reactor' = [at |-> reactor.at, i |-> reactor.i + 1, msg |-> reactor.msg, addresses |-> reactor.addresses]
  BY <1>1
<1>3. reactor' \in [at : Phases, i : Nat \ {0}, msg : Messages \cup {None}, addresses : SUBSET Clients]
  BY <1>1, <1>2
<1> QED
  BY <1>2, <1>3 DEF ReactorType

\* The reactor is free again.
LEMMA Freed ==
  ASSUME reactor' = Idle
  PROVE  ReactorType' /\ reactor'.at = "idle"
<1>1. 1 \in Nat \ {0} /\ "idle" \in Phases
  BY DEF Phases
<1> QED
  BY <1>1 DEF Idle, ReactorType

\* The same clients at the same positions.
SameClients ==
  /\ client_list' \in Seq(Entry) /\ Len(client_list') = Len(client_list)
  /\ \A j \in 1..Len(client_list) : client_list'[j].id = client_list[j].id

\* An entry that is changed stays where it is.
LEMMA EntryChanged ==
  ASSUME ListType, NEW i \in 1..Len(client_list), NEW e \in Entry, e.id = client_list[i].id,
         client_list' = [client_list EXCEPT ![i] = e]
  PROVE  /\ SameClients
         /\ client_list'[i] = e
         /\ \A j \in 1..Len(client_list) : j # i => client_list'[j] = client_list[j]
<1>1. client_list \in Seq(Entry)
  BY DEF ListType
<1> HIDE DEF Entry
<1>2. client_list' \in Seq(Entry) /\ Len(client_list') = Len(client_list)
  BY <1>1
<1>3. \A j \in 1..Len(client_list) : client_list'[j] = IF j = i THEN e ELSE client_list[j]
  BY <1>1
<1> QED
  BY <1>2, <1>3 DEF SameClients

\* _update_client sets last_seen of one entry or of none.
LEMMA Updated ==
  ASSUME HubType, UpdateClient
  PROVE  SameClients /\ HeldBy("timer")' = HeldBy("timer")
<1>1. CASE client_list' = client_list
  BY <1>1 DEF SameClients, HeldBy, HubType, ListType
<1>2. CASE Found /\ client_list' = [client_list EXCEPT ![reactor.i].age = 0]
  <2> DEFINE e == [client_list[reactor.i] EXCEPT !.age = 0]
  <2>1. reactor.i \in 1..Len(client_list)
    BY <1>2 DEF Found, AtEnd, HubType, ReactorType, ListType
  <2>2. client_list[reactor.i] \in Entry
    BY <2>1 DEF HubType, ListType
  <2>3. e \in Entry /\ e.id = client_list[reactor.i].id /\ e.held = client_list[reactor.i].held
    BY <2>2 DEF Entry
  <2>4. client_list' = [client_list EXCEPT ![reactor.i] = e]
    BY <1>2
  <2> HIDE DEF e
  <2>5. /\ SameClients
        /\ client_list'[reactor.i] = e
        /\ \A j \in 1..Len(client_list) : j # reactor.i => client_list'[j] = client_list[j]
    BY <2>1, <2>3, <2>4, EntryChanged DEF HubType
  <2>6. \A j \in 1..Len(client_list) : client_list'[j].held = client_list[j].held
    BY <2>3, <2>5
  <2> QED
    BY <2>5, <2>6 DEF HeldBy, SameClients, HubType, ListType
<1> QED
  BY <1>1, <1>2 DEF UpdateClient

\* _remove_client stops one entry or none.
LEMMA Stopped ==
  ASSUME HubType, FindClient
  PROVE  SameClients /\ HeldBy("timer")' = HeldBy("timer")
<1>1. CASE client_list' = client_list
  BY <1>1 DEF SameClients, HeldBy, HubType, ListType
<1>2. CASE /\ Found
           /\ client_list' = [client_list EXCEPT ![reactor.i].age = 0, ![reactor.i].held = @ \cup {"reactor"}]
  <2> DEFINE e == [client_list[reactor.i] EXCEPT !.age = 0,
                                                 !.held = client_list[reactor.i].held \cup {"reactor"}]
  <2>1. reactor.i \in 1..Len(client_list)
    BY <1>2 DEF Found, AtEnd, HubType, ReactorType, ListType
  <2>2. client_list[reactor.i] \in Entry
    BY <2>1 DEF HubType, ListType
  <2>3. /\ e \in Entry /\ e.id = client_list[reactor.i].id
        /\ "timer" \in e.held <=> "timer" \in client_list[reactor.i].held
    BY <2>2 DEF Entry
  <2>4. client_list' = [client_list EXCEPT ![reactor.i] = e]
    <3>1. client_list \in Seq(Entry)
      BY DEF HubType, ListType
    <3> QED
      BY <1>2, <2>1, <2>2, <3>1 DEF Entry
  <2> HIDE DEF e
  <2>5. /\ SameClients
        /\ client_list'[reactor.i] = e
        /\ \A j \in 1..Len(client_list) : j # reactor.i => client_list'[j] = client_list[j]
    BY <2>1, <2>3, <2>4, EntryChanged DEF HubType
  <2>6. \A j \in 1..Len(client_list) :
          "timer" \in client_list'[j].held <=> "timer" \in client_list[j].held
    BY <2>3, <2>5
  <2> QED
    BY <2>5, <2>6 DEF HeldBy, SameClients, HubType, ListType
<1> QED
  BY <1>1, <1>2 DEF FindClient

\* A visit of the timer takes hold of one entry, which it then removes, or of none.
LEMMA Visited ==
  ASSUME HubType, HeldBy("timer") = {}, Visit
  PROVE  /\ SameClients
         /\ timer'.at # "bury" => HeldBy("timer")' = {}
         /\ \A j, k \in HeldBy("timer")' : j = k
<1>0. SUFFICES ASSUME client_list' # client_list
               PROVE  /\ SameClients /\ timer'.at = "bury"
                      /\ \A j, k \in HeldBy("timer")' : j = k
  <2>1. ASSUME client_list' = client_list
        PROVE  SameClients /\ HeldBy("timer")' = {}
    BY <2>1 DEF SameClients, HeldBy, HubType, ListType
  <2> QED
    BY <2>1
<1> DEFINE e == [client_list[timer.i] EXCEPT !.held = client_list[timer.i].held \cup {"timer"}]
<1>1. /\ timer.i \in 1..Len(client_list)
      /\ client_list' = [client_list EXCEPT ![timer.i] = e]
      /\ timer'.at = "bury"
  BY <1>0 DEF Visit, HubType, TimerType, ListType
<1>2. client_list[timer.i] \in Entry
  BY <1>1 DEF HubType, ListType
<1>3. e \in Entry /\ e.id = client_list[timer.i].id
  BY <1>2 DEF Entry
<1> HIDE DEF e
<1>4. /\ SameClients
      /\ \A j \in 1..Len(client_list) : j # timer.i => client_list'[j] = client_list[j]
  BY <1>1, <1>3, EntryChanged DEF HubType
<1>5. \A j \in HeldBy("timer")' : j = timer.i
  BY <1>4 DEF HeldBy, SameClients, HubType, ListType
<1> QED
  BY <1>1, <1>4, <1>5

\* A minute makes the entries older.
LEMMA Aged ==
  ASSUME HubType, Tick
  PROVE  SameClients /\ HeldBy("timer")' = HeldBy("timer")
<1> DEFINE older(e) == [e EXCEPT !.age = IF @ > DeadAfter THEN @ ELSE @ + 1]
<1>1. client_list' = [i \in DOMAIN client_list |-> older(client_list[i])]
  BY DEF Tick
<1>2. \A e \in Entry : older(e) \in Entry /\ older(e).id = e.id /\ older(e).held = e.held
  BY DEF Entry
<1>3. client_list \in Seq(Entry) /\ DOMAIN client_list = 1..Len(client_list)
  BY DEF HubType, ListType
<1> HIDE DEF older
<1>4. \A i \in 1..Len(client_list) : client_list[i] \in Entry /\ client_list'[i] = older(client_list[i])
  BY <1>1, <1>3
<1>5. client_list' \in Seq(Entry) /\ Len(client_list') = Len(client_list)
  BY <1>1, <1>2, <1>3, <1>4
<1> QED
  BY <1>2, <1>3, <1>4, <1>5 DEF SameClients, HeldBy

\* What a client sends is a message.
LEMMA Posted ==
  ASSUME HubType, NEW m \in Messages, Post(m)
  PROVE  InboxType'
<1>1. inbox \in Seq(Messages) /\ inbox' = Append(inbox, m)
  BY DEF HubType, InboxType, Post
<1> HIDE DEF Messages
<1> QED
  BY <1>1 DEF InboxType

\* The clients that are passed over are few.
LEMMA FewerBehind ==
  ASSUME HubType, Behind' \subseteq Behind, Cardinality(Behind) <= cut
  PROVE  Cardinality(Behind') <= cut
<1>1. IsFiniteSet(Behind)
  BY HubAssumption, FS_Subset DEF Behind, HubType, OwedType
<1>2. IsFiniteSet(Behind') /\ Cardinality(Behind') <= Cardinality(Behind)
  BY <1>1, FS_Subset
<1>3. Cardinality(Behind') \in Nat /\ Cardinality(Behind) \in Nat /\ cut \in Nat
  BY <1>1, <1>2, FS_CardinalityType DEF HubType, OwedType
<1> QED
  BY ONLY <1>2, <1>3, Cardinality(Behind) <= cut

LEMMA OneMoreBehind ==
  ASSUME HubType, Cardinality(Behind) <= cut, \E x : Behind' \subseteq Behind \cup {x}
  PROVE  Cardinality(Behind') <= cut + 1
<1>1. PICK x : Behind' \subseteq Behind \cup {x}
  OBVIOUS
<1>2. IsFiniteSet(Behind)
  BY HubAssumption, FS_Subset DEF Behind, HubType, OwedType
<1>3. /\ IsFiniteSet(Behind \cup {x})
      /\ Cardinality(Behind \cup {x}) = IF x \in Behind THEN Cardinality(Behind) ELSE Cardinality(Behind) + 1
  BY <1>2, FS_AddElement
<1>4. IsFiniteSet(Behind') /\ Cardinality(Behind') <= Cardinality(Behind \cup {x})
  BY <1>1, <1>3, FS_Subset
<1>5. Cardinality(Behind') \in Nat /\ Cardinality(Behind) \in Nat /\ cut \in Nat
  BY <1>2, <1>4, FS_CardinalityType DEF HubType, OwedType
<1> QED
  BY ONLY <1>3, <1>4, <1>5, Cardinality(Behind) <= cut

\* When an entry leaves, the loop passes over the one that moves to a position it has
\* been at, or does not get to the one that leaves.
LEMMA OneIsPassed ==
  ASSUME HubType, reactor' = reactor, owed' \subseteq owed, client_list' = Removed("timer")
  PROVE  \E x : Behind' \subseteq Behind \cup {x}
<1>1. CASE client_list' = client_list
  BY <1>1 DEF Behind, Ahead
<1>2. ASSUME NEW k \in 1..Len(client_list), Len(client_list') = Len(client_list) - 1,
             client_list' \in Seq(Entry),
             \A i \in 1..(Len(client_list) - 1) : client_list'[i] = client_list[IF i < k THEN i ELSE i + 1]
      PROVE  \E x : Behind' \subseteq Behind \cup {x}
  <2>1. client_list \in Seq(Entry) /\ reactor.i \in Nat \ {0}
    BY DEF HubType, ListType, ReactorType
  <2> DEFINE gone == IF k < reactor.i THEN reactor.i ELSE k
  <2>2. \A j \in 1..Len(client_list) :
          j >= reactor.i /\ j # gone =>
            \E i \in 1..(Len(client_list) - 1) : i >= reactor.i /\ client_list'[i] = client_list[j]
    <3> SUFFICES ASSUME NEW j \in 1..Len(client_list), j >= reactor.i, j # gone
                 PROVE  \E i \in 1..(Len(client_list) - 1) :
                          i >= reactor.i /\ client_list'[i] = client_list[j]
      OBVIOUS
    <3>1. CASE j < k
      <4>1. j \in 1..(Len(client_list) - 1) /\ client_list'[j] = client_list[j]
        BY <1>2, <2>1, <3>1
      <4> QED
        BY <4>1
    <3>2. CASE j > k
      <4>1. j - 1 \in 1..(Len(client_list) - 1) /\ ~ (j - 1 < k) /\ (j - 1) + 1 = j /\ j - 1 >= reactor.i
        BY <1>2, <2>1, <3>2
      <4>2. client_list'[j - 1] = client_list[j]
        BY <1>2, <4>1
      <4> QED
        BY <4>1, <4>2
    <3>3. j # k
      BY <2>1
    <3>4. j < k \/ j > k
      BY <3>3
    <3> QED
      BY ONLY <3>1, <3>2, <3>4
  <2> HIDE DEF gone
  <2>3. \A c : Ahead(c) => Ahead(c)' \/ c = client_list[gone].id
    <3> SUFFICES ASSUME NEW c, Ahead(c), c # client_list[gone].id PROVE Ahead(c)'
      OBVIOUS
    <3>1. PICK j \in 1..Len(client_list) : j >= reactor.i /\ client_list[j].id = c
      BY <2>1 DEF Ahead
    <3>2. j # gone
      BY <3>1
    <3>3. PICK i \in 1..(Len(client_list) - 1) : i >= reactor.i /\ client_list'[i] = client_list[j]
      BY <2>2, <3>1, <3>2
    <3>4. DOMAIN client_list' = 1..(Len(client_list) - 1) /\ reactor'.i = reactor.i
      BY <1>2
    <3> QED
      BY <3>1, <3>3, <3>4 DEF Ahead
  <2>4. Behind' \subseteq Behind \cup {client_list[gone].id}
    BY <2>3 DEF Behind
  <2> QED
    BY <2>4
<1> QED
  BY <1>1, <1>2, RemovedProperties

-----------------------------------------------------------------------------
\* The initial state satisfies the invariant.
LEMMA InitInv == Init => IInv
<1> SUFFICES ASSUME Init PROVE IInv
  OBVIOUS
<1> USE HubAssumption DEF Init
<1>1. HubType
  BY DEF HubType, ListType, InboxType, ReactorType, TimerType, OwedType, Phases, Idle, Waiting
<1>2. HeldInv
  BY DEF HeldInv, HeldBy, Waiting
<1>3. CollectInv /\ MissedAreFew
  BY DEF CollectInv, MissedAreFew, Idle
<1> QED
  BY <1>1, <1>2, <1>3 DEF IInv

\* Every step keeps the types.
LEMMA HubTypeStep == IInv /\ [Next]_vars => HubType'
<1> SUFFICES ASSUME IInv, [Next]_vars
             PROVE  HubType'
  OBVIOUS
<1> USE HubAssumption DEF IInv
<1>1. ASSUME Receive PROVE HubType'
  <2>1. /\ Head(inbox) \in Messages /\ Tail(inbox) \in Seq(Messages)
        /\ reactor' = [Idle EXCEPT !.at = IF Head(inbox).kind = "hbeat" THEN "look" ELSE "collect",
                                   !.msg = Head(inbox)]
    <3>1. inbox \in Seq(Messages) /\ inbox # <<>>
      BY <1>1 DEF Receive, HubType, InboxType
    <3>2. Head(inbox) \in Messages /\ Tail(inbox) \in Seq(Messages)
      BY ONLY <3>1
    <3> QED
      BY <1>1, <3>2 DEF Receive
  <2>2. ReactorType'
    <3>1. \E at \in {"look", "collect"} :
            reactor' = [at |-> at, i |-> 1, msg |-> Head(inbox), addresses |-> {}]
      BY <2>1 DEF Idle
    <3>2. 1 \in Nat \ {0} /\ {"look", "collect"} \subseteq Phases
      BY DEF Phases
    <3> QED
      BY <2>1, <3>1, <3>2 DEF ReactorType
  <2>3. InboxType' /\ ListType'
    BY <1>1, <2>1 DEF Receive, HubType, InboxType, ListType
  <2>4. TimerType' /\ OwedType'
    BY <1>1 DEF Receive, reactorRest, HubType, TimerType, OwedType
  <2> QED
    BY <2>2, <2>3, <2>4 DEF HubType
<1>2. ASSUME Look PROVE HubType'
  <2>1. ListType'
    BY <1>2 DEF Look, Step, Pass, reactorRest, HubType, ListType
  <2>2. InboxType'
    BY <1>2 DEF Look, Step, Pass, reactorRest, HubType, InboxType
  <2>3. ReactorType'
    <3>1. ReactorType /\ reactor.at # "idle"
      BY <1>2 DEF Look, HubType
    <3>2. {"update", "add", "collect", "deliver", "find", "drop"} \subseteq Phases
      BY DEF Phases
    <3> QED
      BY <1>2, <3>1, <3>2, Stepped, Passed, Freed DEF Look, Pass
  <2>4. TimerType' /\ OwedType'
    BY <1>2 DEF Look, Step, Pass, reactorRest, HubType, TimerType, OwedType
  <2> QED
    BY <2>1, <2>2, <2>3, <2>4 DEF HubType
<1>3. ASSUME AddClient PROVE HubType'
  <2>1. ListType'
    <3>1. reactor.msg.from \in Clients \cup {None}
      BY <1>3 DEF AddClient, HubType, ReactorType, Messages
    <3>2. NewEntry(Client) \in Entry
      BY <3>1 DEF NewEntry, Client, Entry
    <3>3. client_list \in Seq(Entry) /\ client_list' = Append(client_list, NewEntry(Client))
      BY <1>3 DEF AddClient, HubType, ListType
    <3> HIDE DEF Entry
    <3> QED
      BY <3>2, <3>3 DEF ListType
  <2>2. InboxType'
    BY <1>3 DEF AddClient, Step, reactorRest, HubType, InboxType
  <2>3. ReactorType'
    <3>1. ReactorType /\ reactor.at # "idle"
      BY <1>3 DEF AddClient, HubType
    <3>2. {"update", "add", "collect", "deliver", "find", "drop"} \subseteq Phases
      BY DEF Phases
    <3> QED
      BY <1>3, <3>1, <3>2, Stepped, Passed, Freed DEF AddClient, Pass
  <2>4. TimerType' /\ OwedType'
    BY <1>3 DEF AddClient, Step, reactorRest, HubType, TimerType, OwedType
  <2> QED
    BY <2>1, <2>2, <2>3, <2>4 DEF HubType
<1>4. ASSUME UpdateClient PROVE HubType'
  <2>1. ListType'
    BY <1>4, Updated DEF SameClients, ListType
  <2>2. InboxType'
    BY <1>4 DEF UpdateClient, Step, Pass, reactorRest, HubType, InboxType
  <2>3. ReactorType'
    <3>1. ReactorType /\ reactor.at # "idle"
      BY <1>4 DEF UpdateClient, HubType
    <3>2. {"update", "add", "collect", "deliver", "find", "drop"} \subseteq Phases
      BY DEF Phases
    <3> QED
      BY <1>4, <3>1, <3>2, Stepped, Passed, Freed DEF UpdateClient, Pass
  <2>4. TimerType' /\ OwedType'
    BY <1>4 DEF UpdateClient, Step, Pass, reactorRest, HubType, TimerType, OwedType
  <2> QED
    BY <2>1, <2>2, <2>3, <2>4 DEF HubType
<1>5. ASSUME Collect PROVE HubType'
  <2>0. reactor.msg \in Messages /\ reactor.msg.to \subseteq Clients
    BY <1>5 DEF Collect, HubType, ReactorType, Messages
  <2>1. ListType'
    BY <1>5 DEF Collect, Step, reactorRest, HubType, ListType
  <2>2. InboxType'
    BY <1>5 DEF Collect, Step, reactorRest, HubType, InboxType
  <2>3. ReactorType'
    <3>1. ({Here.id} \cap reactor.msg.to) \subseteq Clients
      BY <2>0
    <3>2. ReactorType /\ reactor.at = "collect" /\ {"deliver", "collect"} \subseteq Phases
      BY <1>5 DEF Collect, HubType, Phases
    <3>3. CASE AtEnd
      BY <1>5, <3>2, <3>3, Stepped DEF Collect
    <3>4. CASE ~ AtEnd
      <4>1. reactor' = [reactor EXCEPT !.at = "collect", !.i = reactor.i + 1,
                          !.addresses = reactor.addresses \cup ({Here.id} \cap reactor.msg.to)]
        BY <1>5, <3>2, <3>4 DEF Collect, ReactorType
      <4>2. /\ reactor.i + 1 \in Nat \ {0}
            /\ reactor.addresses \cup ({Here.id} \cap reactor.msg.to) \in SUBSET Clients
        BY <3>1, <3>2 DEF ReactorType
      <4> QED
        BY <3>2, <4>1, <4>2, Moved
    <3> QED
      BY <3>3, <3>4
  <2>4. TimerType' /\ OwedType'
    BY <1>5, <2>0 DEF Collect, reactorRest, HubType, TimerType, OwedType
  <2> QED
    BY <2>1, <2>2, <2>3, <2>4 DEF HubType
<1>6. ASSUME Deliver PROVE HubType'
  <2>1. ListType'
    BY <1>6 DEF Deliver, Step, Idle, reactorRest, HubType, ListType
  <2>2. InboxType'
    BY <1>6 DEF Deliver, Step, Idle, reactorRest, HubType, InboxType
  <2>3. ReactorType'
    <3>1. ReactorType /\ reactor.at # "idle"
      BY <1>6 DEF Deliver, HubType
    <3>2. {"update", "add", "collect", "deliver", "find", "drop"} \subseteq Phases
      BY DEF Phases
    <3> QED
      BY <1>6, <3>1, <3>2, Stepped, Passed, Freed DEF Deliver, Pass
  <2>4. TimerType' /\ OwedType'
    BY <1>6 DEF Deliver, Step, Idle, reactorRest, HubType, TimerType, OwedType
  <2> QED
    BY <2>1, <2>2, <2>3, <2>4 DEF HubType
<1>7. ASSUME FindClient PROVE HubType'
  <2>1. ListType'
    BY <1>7, Stopped DEF SameClients, ListType
  <2>2. InboxType'
    BY <1>7 DEF FindClient, Step, Pass, Idle, reactorRest, HubType, InboxType
  <2>3. ReactorType'
    <3>1. ReactorType /\ reactor.at # "idle"
      BY <1>7 DEF FindClient, HubType
    <3>2. {"update", "add", "collect", "deliver", "find", "drop"} \subseteq Phases
      BY DEF Phases
    <3> QED
      BY <1>7, <3>1, <3>2, Stepped, Passed, Freed DEF FindClient, Pass
  <2>4. TimerType' /\ OwedType'
    BY <1>7 DEF FindClient, Step, Pass, Idle, reactorRest, HubType, TimerType, OwedType
  <2> QED
    BY <2>1, <2>2, <2>3, <2>4 DEF HubType
<1>8. ASSUME DropClient PROVE HubType'
  <2>1. ListType'
    BY <1>8, RemovedProperties DEF DropClient, HubType, ListType
  <2>2. InboxType'
    BY <1>8 DEF DropClient, Idle, reactorRest, HubType, InboxType
  <2>3. ReactorType'
    BY <1>8 DEF DropClient, Idle, reactorRest, HubType, ReactorType, Phases
  <2>4. TimerType' /\ OwedType'
    BY <1>8 DEF DropClient, Idle, reactorRest, HubType, TimerType, OwedType
  <2> QED
    BY <2>1, <2>2, <2>3, <2>4 DEF HubType
<1>9. ASSUME Visit PROVE HubType'
  <2>1. ListType'
    BY <1>9, Visited DEF Visit, SameClients, ListType, HeldInv
  <2>2. InboxType'
    BY <1>9 DEF Visit, Waiting, timerRest, HubType, InboxType
  <2>3. ReactorType'
    BY <1>9 DEF Visit, Waiting, timerRest, HubType, ReactorType, Phases
  <2>4. TimerType' /\ OwedType'
    BY <1>9 DEF Visit, Waiting, timerRest, HubType, TimerType, OwedType
  <2> QED
    BY <2>1, <2>2, <2>3, <2>4 DEF HubType
<1>10. ASSUME Bury PROVE HubType'
  <2>1. ListType'
    BY <1>10, RemovedProperties DEF Bury, HubType, ListType
  <2>2. InboxType'
    BY <1>10 DEF Bury, Waiting, timerRest, HubType, InboxType
  <2>3. ReactorType'
    BY <1>10 DEF Bury, Waiting, timerRest, HubType, ReactorType, Phases
  <2>4. TimerType' /\ OwedType'
    BY <1>10 DEF Bury, Waiting, timerRest, HubType, TimerType, OwedType
  <2> QED
    BY <2>1, <2>2, <2>3, <2>4 DEF HubType
<1>11. ASSUME Tick PROVE HubType'
  <2>1. ListType'
    BY <1>11, Aged DEF SameClients, ListType
  <2>2. InboxType'
    BY <1>11 DEF Tick, Waiting, HubType, InboxType
  <2>3. ReactorType'
    BY <1>11 DEF Tick, Waiting, HubType, ReactorType, Phases
  <2>4. TimerType' /\ OwedType'
    BY <1>11 DEF Tick, Waiting, HubType, TimerType, OwedType
  <2> QED
    BY <2>1, <2>2, <2>3, <2>4 DEF HubType
<1>12. ASSUME NEW c \in Clients, Heartbeat(c) PROVE HubType'
  <2>1. ListType'
    BY <1>12 DEF Heartbeat, Post, HubType, ListType
  <2>2. InboxType'
    <3>1. [kind |-> "hbeat", from |-> c, to |-> Clients] \in Messages
      BY DEF Messages
    <3> QED
      BY <1>12, <3>1, Posted DEF Heartbeat
  <2>3. ReactorType'
    BY <1>12 DEF Heartbeat, Post, HubType, ReactorType, Phases
  <2>4. TimerType' /\ OwedType'
    BY <1>12 DEF Heartbeat, Post, HubType, TimerType, OwedType
  <2> QED
    BY <2>1, <2>2, <2>3, <2>4 DEF HubType
<1>13. ASSUME NEW c \in Clients, Send(c) PROVE HubType'
  <2>1. ListType'
    BY <1>13 DEF Send, Post, HubType, ListType
  <2>2. InboxType'
    <3>1. [kind |-> "data", from |-> None, to |-> {c}] \in Messages
      BY DEF Messages
    <3> QED
      BY <1>13, <3>1, Posted DEF Send
  <2>3. ReactorType'
    BY <1>13 DEF Send, Post, HubType, ReactorType, Phases
  <2>4. TimerType' /\ OwedType'
    BY <1>13 DEF Send, Post, HubType, TimerType, OwedType
  <2> QED
    BY <2>1, <2>2, <2>3, <2>4 DEF HubType
<1>14. ASSUME NEW c \in Clients, Leave(c) PROVE HubType'
  <2>1. ListType'
    BY <1>14 DEF Leave, Post, HubType, ListType
  <2>2. InboxType'
    <3>1. [kind |-> "end", from |-> c, to |-> Clients] \in Messages
      BY DEF Messages
    <3> QED
      BY <1>14, <3>1, Posted DEF Leave
  <2>3. ReactorType'
    BY <1>14 DEF Leave, Post, HubType, ReactorType, Phases
  <2>4. TimerType' /\ OwedType'
    BY <1>14 DEF Leave, Post, HubType, TimerType, OwedType
  <2> QED
    BY <2>1, <2>2, <2>3, <2>4 DEF HubType
<1>15. ASSUME NEW c \in Clients, Kill(c) PROVE HubType'
  <2>1. ListType'
    BY <1>15 DEF Kill, vars, HubType, ListType
  <2>2. InboxType'
    BY <1>15 DEF Kill, vars, HubType, InboxType
  <2>3. ReactorType'
    BY <1>15 DEF Kill, vars, HubType, ReactorType, Phases
  <2>4. TimerType' /\ OwedType'
    BY <1>15 DEF Kill, vars, HubType, TimerType, OwedType
  <2> QED
    BY <2>1, <2>2, <2>3, <2>4 DEF HubType
<1>16. ASSUME UNCHANGED vars PROVE HubType'
  BY <1>16 DEF vars, HubType, ListType, InboxType, ReactorType, TimerType, OwedType
<1> QED
  BY <1>1, <1>2, <1>3, <1>4, <1>5, <1>6, <1>7, <1>8, <1>9, <1>10, <1>11, <1>12, <1>13, <1>14, <1>15, <1>16
  DEF Next, Reactor, Timer

\* When one entry leaves, an entry that the timer holds after that was held before,
\* one position further if it comes after the one that left.
LEMMA HeldMoved ==
  ASSUME ListType, NEW k \in 1..Len(client_list), Len(client_list') = Len(client_list) - 1,
         client_list' \in Seq(Entry),
         \A i \in 1..(Len(client_list) - 1) : client_list'[i] = client_list[IF i < k THEN i ELSE i + 1],
         NEW i \in HeldBy("timer")'
  PROVE  i \in 1..(Len(client_list) - 1) /\ (IF i < k THEN i ELSE i + 1) \in HeldBy("timer")
<1> DEFINE old == IF i < k THEN i ELSE i + 1
<1>1. client_list \in Seq(Entry) /\ Len(client_list) \in Nat
  BY DEF ListType
<1>2. i \in 1..(Len(client_list) - 1) /\ "timer" \in client_list'[i].held
  <2>1. DOMAIN client_list' = 1..(Len(client_list) - 1)
    BY ONLY <1>1, client_list' \in Seq(Entry), Len(client_list') = Len(client_list) - 1
  <2> QED
    BY <2>1 DEF HeldBy
<1>3. client_list'[i] = client_list[old]
  BY <1>2
<1>4. old \in 1..Len(client_list)
  BY ONLY <1>1, <1>2, k \in 1..Len(client_list)
<1>5. DOMAIN client_list = 1..Len(client_list)
  BY ONLY <1>1
<1> HIDE DEF old
<1>6. old \in HeldBy("timer")
  BY ONLY <1>2, <1>3, <1>4, <1>5 DEF HeldBy
<1> QED
  BY ONLY <1>2, <1>6 DEF old

\* Every step keeps the timer to one entry.
LEMMA HeldInvStep == IInv /\ [Next]_vars => HeldInv'
<1> SUFFICES ASSUME IInv, [Next]_vars
             PROVE  HeldInv'
  OBVIOUS
<1> USE DEF IInv, HubType, ListType, TimerType, HeldInv, HeldBy, Entry, Idle
<1>1. ASSUME Receive PROVE HeldInv'
  BY <1>1 DEF Receive, Idle, Entry, Phases, reactorRest
<1>2. ASSUME Look PROVE HeldInv'
  BY <1>2 DEF Look, Step, Pass, reactorRest
<1>3. ASSUME AddClient PROVE HeldInv'
  BY <1>3 DEF AddClient, Step, NewEntry, reactorRest
<1>4. ASSUME UpdateClient PROVE HeldInv'
  BY <1>4, Updated DEF UpdateClient, reactorRest
<1>5. ASSUME Collect PROVE HeldInv'
  BY <1>5 DEF Collect, Step, AtEnd, Here, reactorRest
<1>6. ASSUME Deliver PROVE HeldInv'
  BY <1>6 DEF Deliver, Step, reactorRest
<1>7. ASSUME FindClient PROVE HeldInv'
  BY <1>7, Stopped DEF FindClient, reactorRest
<1>8. ASSUME DropClient PROVE HeldInv'
  <2>1. client_list' = Removed("reactor") /\ timer' = timer
    BY <1>8 DEF DropClient, reactorRest
  <2>2. CASE client_list' = client_list
    BY <2>1, <2>2
  <2>3. ASSUME NEW k \in 1..Len(client_list), Len(client_list') = Len(client_list) - 1, client_list' \in Seq(Entry),
               \A i \in 1..(Len(client_list) - 1) : client_list'[i] = client_list[IF i < k THEN i ELSE i + 1]
        PROVE  HeldInv'
    <3> DEFINE old(i) == IF i < k THEN i ELSE i + 1
    <3>1. ASSUME NEW i \in HeldBy("timer")'
          PROVE  i \in 1..(Len(client_list) - 1) /\ old(i) \in HeldBy("timer")
      <4>1. ListType
        OBVIOUS
      <4> HIDE DEF IInv, HubType, ListType, TimerType, HeldInv, HeldBy, Entry, Idle
      <4> QED
        BY <2>3, <3>1, <4>1, HeldMoved
    <3>2. \A i, j \in 1..(Len(client_list) - 1) : old(i) = old(j) => i = j
      BY ONLY k \in 1..Len(client_list), Len(client_list) \in Nat, OldPositions
    <3> HIDE DEF old
    <3>3. \A i, j \in HeldBy("timer")' : i = j
      <4> HIDE DEF HeldBy
      <4>1. \A i, j \in HeldBy("timer") : i = j
        BY DEF HeldInv
      <4> QED
        BY ONLY <3>1, <3>2, <4>1
    <3>4. timer'.at # "bury" => HeldBy("timer")' = {}
      BY <2>1, <3>1 DEF HeldInv
    <3> QED
      BY <3>3, <3>4 DEF HeldInv
  <2> QED
    BY <2>1, <2>2, <2>3, RemovedProperties
<1>9. ASSUME Visit PROVE HeldInv'
  BY <1>9, Visited DEF Visit
<1>10. ASSUME Bury PROVE HeldInv'
  <2>1. client_list' = Removed("timer")
    BY <1>10 DEF Bury
  <2>2. CASE HeldBy("timer") = {} /\ client_list' = client_list
    BY <2>1, <2>2
  <2>3. ASSUME NEW k \in HeldBy("timer"), k \in 1..Len(client_list), Len(client_list') = Len(client_list) - 1,
               client_list' \in Seq(Entry),
               \A i \in 1..(Len(client_list) - 1) : client_list'[i] = client_list[IF i < k THEN i ELSE i + 1]
        PROVE  HeldInv'
    <3> DEFINE old(i) == IF i < k THEN i ELSE i + 1
    <3>1. ASSUME NEW i \in HeldBy("timer")'
          PROVE  i \in 1..(Len(client_list) - 1) /\ old(i) \in HeldBy("timer")
      <4>1. ListType
        OBVIOUS
      <4> HIDE DEF IInv, HubType, ListType, TimerType, HeldInv, HeldBy, Entry, Idle
      <4> QED
        BY <2>3, <3>1, <4>1, HeldMoved
    <3>2. \A i \in 1..(Len(client_list) - 1) : old(i) # k
      BY ONLY k \in 1..Len(client_list), Len(client_list) \in Nat, OldPositions
    <3> HIDE DEF old
    <3>3. HeldBy("timer")' = {}
      BY <2>3, <3>1, <3>2 DEF HeldInv
    <3> QED
      BY <3>3 DEF HeldInv
  <2> QED
    BY <2>1, <2>2, <2>3, RemovedProperties
<1>11. ASSUME Tick PROVE HeldInv'
  BY <1>11, Aged DEF Tick
<1>12. ASSUME NEW c \in Clients, Heartbeat(c) PROVE HeldInv'
  BY <1>12 DEF Heartbeat, Post
<1>13. ASSUME NEW c \in Clients, Send(c) PROVE HeldInv'
  BY <1>13 DEF Send, Post
<1>14. ASSUME NEW c \in Clients, Leave(c) PROVE HeldInv'
  BY <1>14 DEF Leave, Post
<1>15. ASSUME NEW c \in Clients, Kill(c) PROVE HeldInv'
  BY <1>15 DEF Kill
<1>16. ASSUME UNCHANGED vars PROVE HeldInv'
  BY <1>16 DEF vars
<1> QED
  BY <1>1, <1>2, <1>3, <1>4, <1>5, <1>6, <1>7, <1>8, <1>9, <1>10, <1>11, <1>12, <1>13, <1>14, <1>15, <1>16
  DEF Next, Reactor, Timer

\* Every step keeps the account of the loop.
LEMMA CollectInvStep == IInv /\ [Next]_vars => CollectInv'
<1> SUFFICES ASSUME IInv, [Next]_vars
             PROVE  CollectInv'
  OBVIOUS
<1> USE DEF IInv, HubType, ListType, ReactorType, CollectInv, Behind, Ahead, Idle
<1>1. ASSUME Receive PROVE CollectInv'
  BY <1>1 DEF Receive, Idle, Entry, Phases, reactorRest
<1>2. ASSUME Look PROVE CollectInv'
  BY <1>2 DEF Look, Step, Pass, reactorRest
<1>3. ASSUME AddClient PROVE CollectInv'
  BY <1>3 DEF AddClient, Step, NewEntry, reactorRest
<1>4. ASSUME UpdateClient PROVE CollectInv'
  <2>1. reactor'.addresses = reactor.addresses /\ (reactor'.at = "update" \/ (reactor'.at = "collect" /\ reactor'.i = 1))
    <3>1. ReactorType /\ reactor.at = "update" /\ "collect" \in Phases
      BY <1>4 DEF UpdateClient, Phases
    <3> HIDE DEF ReactorType
    <3>2. CASE Step("collect")
      BY <3>1, <3>2, Stepped
    <3>3. CASE Pass("update")
      <4>1. reactor' = [reactor EXCEPT !.i = @ + 1] /\ reactor.at # "idle"
        BY <3>1, <3>3 DEF Pass
      <4>2. reactor'.at = reactor.at /\ reactor'.addresses = reactor.addresses
        BY ONLY <3>1, <4>1, Passed
      <4> QED
        BY ONLY <3>1, <4>2
    <3> QED
      BY <1>4, <3>2, <3>3 DEF UpdateClient
  <2>2. reactor.addresses = {}
    BY <1>4 DEF UpdateClient
  <2> QED
    BY <2>1, <2>2
<1>5. ASSUME Collect PROVE CollectInv'
  <2>1. CASE AtEnd
    <3>1. reactor'.at = "deliver"
      BY <1>5, <2>1 DEF Collect, Step
    <3> QED
      BY <3>1
  <2>2. CASE ~ AtEnd
    <3>1. /\ reactor'.at = "collect" /\ reactor'.i = reactor.i + 1 /\ reactor'.i > 1
          /\ reactor'.msg = reactor.msg /\ client_list' = client_list
          /\ reactor'.addresses = reactor.addresses \cup ({Here.id} \cap reactor.msg.to)
      <4>1. reactor \in [at : Phases, i : Nat \ {0}, msg : Messages \cup {None}, addresses : SUBSET Clients]
        OBVIOUS
      <4>2. reactor' = [at |-> "collect", i |-> reactor.i + 1, msg |-> reactor.msg,
                        addresses |-> reactor.addresses \cup ({Here.id} \cap reactor.msg.to)]
        BY <1>5, <2>2, <4>1 DEF Collect
      <4> QED
        BY <1>5, <4>1, <4>2 DEF Collect
    <3>2. client_list \in Seq(Entry) /\ reactor.i \in 1..Len(client_list)
      BY <2>2 DEF AtEnd, ListType
    <3>3. \A c : Ahead(c) => Ahead(c)' \/ c = Here.id
      BY <3>1, <3>2 DEF Ahead, Here
    <3>4. CASE reactor.i = 1
      <4>1. owed' = {c \in reactor.msg.to : Listed(c)} /\ cut' = 0
        BY <1>5, <3>4 DEF Collect
      <4>2. \A c : Listed(c) => Ahead(c)
        BY <3>2, <3>4 DEF Listed, Positions, Ahead
      <4>3. Behind' = {}
        <5>1. \A c \in owed' : c \in reactor'.addresses \/ Ahead(c)'
          BY <3>1, <3>3, <4>1, <4>2
        <5> QED
          BY <5>1 DEF Behind
      <4>4. Cardinality(Behind') = 0
        BY <4>3, FS_EmptySet
      <4> QED
        BY <3>1, <4>1, <4>4 DEF CollectInv
    <3>5. CASE reactor.i # 1
      <4>1. owed' = owed /\ cut' = cut
        BY <1>5, <3>5 DEF Collect
      <4>2. owed \subseteq reactor.msg.to /\ Cardinality(Behind) <= cut
        BY <1>5, <3>2, <3>5 DEF Collect, CollectInv
      <4>3. Behind' \subseteq Behind
        BY <3>1, <3>3, <4>1, <4>2 DEF Behind
      <4>4. Cardinality(Behind') <= cut
        BY <4>2, <4>3, FewerBehind
      <4> QED
        BY <3>1, <4>1, <4>2, <4>4 DEF CollectInv
    <3> QED
      BY <3>4, <3>5
  <2> QED
    BY <2>1, <2>2
<1>6. ASSUME Deliver PROVE CollectInv'
  <2>1. reactor'.at \in {"find", "idle"}
    <3>1. ReactorType /\ reactor.at \in {"deliver", "find"} /\ {"find", "drop"} \subseteq Phases
      BY <1>6 DEF Deliver, Phases
    <3> HIDE DEF ReactorType, Idle
    <3> QED
      BY <1>6, <3>1, Stepped, Passed, Freed DEF Deliver, Pass
  <2> QED
    BY <2>1
<1>7. ASSUME FindClient PROVE CollectInv'
  <2>1. reactor'.at \in {"find", "idle", "drop"}
    <3>1. ReactorType /\ reactor.at \in {"deliver", "find"} /\ {"find", "drop"} \subseteq Phases
      BY <1>7 DEF FindClient, Phases
    <3> HIDE DEF ReactorType, Idle
    <3> QED
      BY <1>7, <3>1, Stepped, Passed, Freed DEF FindClient, Pass
  <2> QED
    BY <2>1
<1>8. ASSUME DropClient PROVE CollectInv'
  BY <1>8 DEF DropClient, reactorRest
<1>9. ASSUME Visit PROVE CollectInv'
  <2>1. SameClients /\ reactor' = reactor /\ owed' = owed /\ cut' = cut
    BY <1>9, Visited DEF Visit, timerRest, HeldInv
  <2>2. \A c : Ahead(c)' <=> Ahead(c)
    <3>1. DOMAIN client_list' = DOMAIN client_list
          /\ \A j \in DOMAIN client_list : client_list'[j].id = client_list[j].id
      BY <2>1 DEF SameClients, ListType
    <3> QED
      BY ONLY <2>1, <3>1 DEF Ahead
  <2>3. Behind' = Behind
    BY <2>1, <2>2
  <2> QED
    BY <2>1, <2>3
<1>10. ASSUME Bury PROVE CollectInv'
  <2>1. reactor' = reactor /\ owed' \subseteq owed /\ client_list' = Removed("timer")
    BY <1>10 DEF Bury, timerRest
  <2>2. CASE ~ (reactor.at = "collect" /\ reactor.i > 1)
    BY <2>1, <2>2
  <2>3. CASE reactor.at = "collect" /\ reactor.i > 1
    <3>1. cut' = cut + 1 /\ owed \subseteq reactor.msg.to /\ Cardinality(Behind) <= cut /\ cut \in Nat
      BY <1>10, <2>3 DEF Bury, CollectInv, OwedType
    <3>2. \E x : Behind' \subseteq Behind \cup {x}
      BY <2>1, OneIsPassed
    <3>3. Cardinality(Behind') <= cut + 1
      BY <3>1, <3>2, OneMoreBehind
    <3> QED
      BY <2>1, <2>3, <3>1, <3>3
  <2> QED
    BY <2>2, <2>3
<1>11. ASSUME Tick PROVE CollectInv'
  BY <1>11 DEF Tick
<1>12. ASSUME NEW c \in Clients, Heartbeat(c) PROVE CollectInv'
  BY <1>12 DEF Heartbeat, Post
<1>13. ASSUME NEW c \in Clients, Send(c) PROVE CollectInv'
  BY <1>13 DEF Send, Post
<1>14. ASSUME NEW c \in Clients, Leave(c) PROVE CollectInv'
  BY <1>14 DEF Leave, Post
<1>15. ASSUME NEW c \in Clients, Kill(c) PROVE CollectInv'
  BY <1>15 DEF Kill
<1>16. ASSUME UNCHANGED vars PROVE CollectInv'
  BY <1>16 DEF vars
<1> QED
  BY <1>1, <1>2, <1>3, <1>4, <1>5, <1>6, <1>7, <1>8, <1>9, <1>10, <1>11, <1>12, <1>13, <1>14, <1>15, <1>16
  DEF Next, Reactor, Timer

\* Every step keeps the bound when the message is delivered.
LEMMA MissedAreFewStep == IInv /\ [Next]_vars => MissedAreFew'
<1> SUFFICES ASSUME IInv, [Next]_vars
             PROVE  MissedAreFew'
  OBVIOUS
<1> USE DEF IInv, HubType, ReactorType, CollectInv, MissedAreFew, Idle
<1>1. ASSUME Receive PROVE MissedAreFew'
  BY <1>1 DEF Receive, Idle, Entry, Phases, reactorRest
<1>2. ASSUME Look PROVE MissedAreFew'
  BY <1>2 DEF Look, Step, Pass, reactorRest
<1>3. ASSUME AddClient PROVE MissedAreFew'
  BY <1>3 DEF AddClient, Step, NewEntry, reactorRest
<1>4. ASSUME UpdateClient PROVE MissedAreFew'
  BY <1>4 DEF UpdateClient, Step, Pass, AtEnd, Found, reactorRest
<1>5. ASSUME Collect PROVE MissedAreFew'
  <2>1. CASE ~ AtEnd
    <3>1. reactor'.at = "collect"
      BY <1>5, <2>1 DEF Collect
    <3> QED
      BY <3>1
  <2>2. CASE AtEnd /\ reactor.i = 1
    <3>1. Len(client_list) = 0 /\ client_list \in Seq(Entry)
      BY <2>2 DEF AtEnd, ListType
    <3>2. \A c : ~ Listed(c)
      BY <3>1 DEF Listed, Positions
    <3>3. owed' = {} /\ cut' = 0
      BY <1>5, <2>2, <3>2 DEF Collect
    <3> QED
      BY <3>3, FS_EmptySet
  <2>3. CASE AtEnd /\ reactor.i # 1
    <3>1. /\ owed' = owed /\ cut' = cut /\ reactor'.addresses = reactor.addresses
      BY <1>5, <2>3 DEF Collect, Step
    <3>2. \A c : ~ Ahead(c)
      BY <2>3 DEF AtEnd, Ahead, ListType
    <3>3. Behind = owed \ reactor.addresses
      BY <3>2 DEF Behind
    <3>4. Cardinality(Behind) <= cut
      BY <1>5, <2>3 DEF Collect, CollectInv, ReactorType
    <3> QED
      BY <3>1, <3>3, <3>4
  <2> QED
    BY <2>1, <2>2, <2>3
<1>6. ASSUME Deliver PROVE MissedAreFew'
  <2>1. reactor'.at \in {"find", "idle"}
    <3>1. ReactorType /\ reactor.at \in {"deliver", "find"} /\ {"find", "drop"} \subseteq Phases
      BY <1>6 DEF Deliver, Phases
    <3> HIDE DEF ReactorType, Idle
    <3> QED
      BY <1>6, <3>1, Stepped, Passed, Freed DEF Deliver, Pass
  <2> QED
    BY <2>1
<1>7. ASSUME FindClient PROVE MissedAreFew'
  <2>1. reactor'.at \in {"find", "idle", "drop"}
    <3>1. ReactorType /\ reactor.at \in {"deliver", "find"} /\ {"find", "drop"} \subseteq Phases
      BY <1>7 DEF FindClient, Phases
    <3> HIDE DEF ReactorType, Idle
    <3> QED
      BY <1>7, <3>1, Stepped, Passed, Freed DEF FindClient, Pass
  <2> QED
    BY <2>1
<1>8. ASSUME DropClient PROVE MissedAreFew'
  BY <1>8 DEF DropClient, reactorRest
<1>9. ASSUME Visit PROVE MissedAreFew'
  BY <1>9 DEF Visit, timerRest
<1>10. ASSUME Bury PROVE MissedAreFew'
  <2>1. reactor' = reactor /\ owed' \subseteq owed /\ (reactor.at = "deliver" => cut' = cut)
    BY <1>10 DEF Bury, timerRest
  <2>2. ASSUME reactor.at = "deliver"
        PROVE  Cardinality(owed' \ reactor.addresses) <= cut
    <3>1. IsFiniteSet(owed \ reactor.addresses)
      BY HubAssumption, FS_Subset DEF OwedType
    <3>2. /\ IsFiniteSet(owed' \ reactor.addresses)
          /\ Cardinality(owed' \ reactor.addresses) <= Cardinality(owed \ reactor.addresses)
      BY <2>1, <3>1, FS_Subset
    <3>3. /\ Cardinality(owed' \ reactor.addresses) \in Nat
          /\ Cardinality(owed \ reactor.addresses) \in Nat
      BY <3>1, <3>2, FS_CardinalityType
    <3>4. Cardinality(owed \ reactor.addresses) <= cut /\ cut \in Nat
      BY <2>2 DEF OwedType
    <3> QED
      BY ONLY <3>2, <3>3, <3>4
  <2> QED
    BY <2>1, <2>2
<1>11. ASSUME Tick PROVE MissedAreFew'
  BY <1>11 DEF Tick
<1>12. ASSUME NEW c \in Clients, Heartbeat(c) PROVE MissedAreFew'
  BY <1>12 DEF Heartbeat, Post
<1>13. ASSUME NEW c \in Clients, Send(c) PROVE MissedAreFew'
  BY <1>13 DEF Send, Post
<1>14. ASSUME NEW c \in Clients, Leave(c) PROVE MissedAreFew'
  BY <1>14 DEF Leave, Post
<1>15. ASSUME NEW c \in Clients, Kill(c) PROVE MissedAreFew'
  BY <1>15 DEF Kill
<1>16. ASSUME UNCHANGED vars PROVE MissedAreFew'
  BY <1>16 DEF vars
<1> QED
  BY <1>1, <1>2, <1>3, <1>4, <1>5, <1>6, <1>7, <1>8, <1>9, <1>10, <1>11, <1>12, <1>13, <1>14, <1>15, <1>16
  DEF Next, Reactor, Timer
-----------------------------------------------------------------------------
\* The invariant holds in every reachable state.
LEMMA Inductive == Spec => []IInv
<1>1. IInv /\ [Next]_vars => IInv'
  BY HubTypeStep, HeldInvStep, CollectInvStep, MissedAreFewStep DEF IInv
<1> QED
  BY InitInv, <1>1, PTL DEF Spec

\* A message reaches every client that stays in the list while it is delivered, but
\* for one at most for each entry that the timer removes meanwhile, however long the
\* list is (_get_delivery_addresses, _check_dead_clients).
THEOREM FewAreMissed == Spec => []MissedAreFew
<1>1. IInv => MissedAreFew
  BY DEF IInv
<1> QED
  BY <1>1, Inductive, PTL
=============================================================================
