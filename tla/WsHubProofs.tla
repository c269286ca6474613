---------------------------- MODULE WsHubProofs ----------------------------
(***************************************************************************)
(* Proofs about WsHub, for any number of users, connections and senders    *)
(* and any capacities of the channels.                                     *)
(***************************************************************************)
EXTENDS WsHub, FiniteSetTheorems, TLAPS

USE ConnsAssumption, BoundsAssumption

-----------------------------------------------------------------------------
(* Queues.                                                                  *)

LEMMA QueueAppend ==
    ASSUME NEW S, NEW q \in Seq(S), NEW e \in S
    PROVE  /\ Append(q, e) \in Seq(S)
           /\ Len(Append(q, e)) = Len(q) + 1
           /\ \A c : InQueue(c, Append(q, e)) <=> InQueue(c, q) \/ c = e
<1>1. /\ Append(q, e) \in Seq(S)
      /\ Len(Append(q, e)) = Len(q) + 1
      /\ Append(q, e)[Len(q) + 1] = e
      /\ \A i \in 1..Len(q) : Append(q, e)[i] = q[i]
      OBVIOUS
<1>2. Len(q) \in Nat
      OBVIOUS
<1>3. ASSUME NEW c
      PROVE  InQueue(c, Append(q, e)) <=> InQueue(c, q) \/ c = e
      <2>1. InQueue(c, Append(q, e)) => InQueue(c, q) \/ c = e
            BY <1>1, <1>2, SMTT(30) DEF InQueue
      <2>2. InQueue(c, q) => InQueue(c, Append(q, e))
            BY <1>1, <1>2, SMTT(30) DEF InQueue
      <2>3. c = e => InQueue(c, Append(q, e))
            BY <1>1, <1>2, SMTT(30) DEF InQueue
      <2> QED
          BY <2>1, <2>2, <2>3
<1> QED
    BY <1>1, <1>3

LEMMA QueueTail ==
    ASSUME NEW S, NEW q \in Seq(S), q # <<>>
    PROVE  /\ Head(q) \in S
           /\ Tail(q) \in Seq(S)
           /\ Len(q) \in Nat \ {0}
           /\ Len(Tail(q)) = Len(q) - 1
           /\ \A c : InQueue(c, q) <=> c = Head(q) \/ InQueue(c, Tail(q))
<1>1. /\ Head(q) = q[1] /\ Head(q) \in S
      /\ Tail(q) \in Seq(S)
      /\ Len(q) \in Nat \ {0}
      /\ Len(Tail(q)) = Len(q) - 1
      /\ \A i \in 1..Len(q) - 1 : Tail(q)[i] = q[i + 1]
      OBVIOUS
<1>2. ASSUME NEW c
      PROVE  InQueue(c, q) <=> c = Head(q) \/ InQueue(c, Tail(q))
      <2>1. ASSUME NEW i \in 1..Len(q), q[i] = c, i # 1
            PROVE  InQueue(c, Tail(q))
            <3>1. i - 1 \in 1..Len(Tail(q)) /\ Tail(q)[i - 1] = c
                  BY <1>1, <2>1
            <3> QED
                BY <3>1 DEF InQueue
      <2>2. ASSUME NEW i \in 1..Len(Tail(q)), Tail(q)[i] = c
            PROVE  InQueue(c, q)
            <3>1. i + 1 \in 1..Len(q) /\ q[i + 1] = c
                  BY <1>1, <2>2
            <3> QED
                BY <3>1 DEF InQueue
      <2>3. InQueue(Head(q), q)
            BY <1>1 DEF InQueue
      <2> QED
          BY <1>1, <2>1, <2>2, <2>3 DEF InQueue
<1> QED
    BY <1>1, <1>2

-----------------------------------------------------------------------------
(* The types, and that the map agrees with itself.  What a sender has in    *)
(* hand counts against the bound on messages; while the hub writes, only    *)
(* the entry it visits may be empty.                                        *)

Pending == {s \in Senders : waiting[s] # <<>>}

RoomOK == IsFiniteSet(Pending) /\ sent + Cardinality(Pending) <= MaxMessages

PhaseOK ==
    /\ hub = "select" => audience = {}
    /\ hub # "select" => message \in Numbered
    /\ hub = "write" => visiting \in Users
    /\ hub # "write" => visiting = NoUser /\ todo = {}

MapOK ==
    /\ \A u \in Users \ {visiting} : u \in known <=> clients[u] # {}
    /\ visiting \in Users => visiting \in known
    /\ audience \subseteq known /\ visiting \notin audience

HubInv == TypeOK /\ RoomOK /\ PhaseOK /\ MapOK

LEMMA InitHub == Init => HubInv
<1> SUFFICES ASSUME Init PROVE HubInv
    OBVIOUS
<1>1. Pending = {}
      BY DEF Init, Pending
<1>2. RoomOK
      BY <1>1, FS_EmptySet DEF Init, RoomOK
<1> QED
    BY <1>2 DEF Init, HubInv, TypeOK, PhaseOK, MapOK, Stages

LEMMA ConnHub ==
    ASSUME HubInv, NEW c \in Conns, Conn(c) \/ PeerGoes(c)
    PROVE  HubInv'
<1> USE DEF HubInv, channelVars, mapVars, hubVars, senderVars
<1>1. UNCHANGED <<broadcast, mapVars, hubVars, closed, received, senderVars>>
      BY DEF Conn, Upgrade, Register, PeerGoes, ReadFails, Unregister
<1>2. RoomOK' /\ PhaseOK' /\ MapOK'
      BY <1>1 DEF RoomOK, Pending, PhaseOK, MapOK
<1>3. overtaken' = overtaken /\ gone' \subseteq Conns
      BY DEF Conn, Upgrade, Register, PeerGoes, ReadFails, Unregister, TypeOK
<1>4. stage' \in [Conns -> Stages]
      BY DEF Conn, Upgrade, Register, PeerGoes, ReadFails, Unregister, TypeOK,
             Stages, AfterReadError
<1>5. register' \in Seq(Conns) /\ Len(register') <= RegisterCap
      <2>1. CASE register' = register
            BY <2>1 DEF TypeOK
      <2>2. CASE Register(c)
            BY <2>2, QueueAppend DEF Register, HasRoom, TypeOK
      <2> QED
          BY <2>1, <2>2
          DEF Conn, Upgrade, Register, PeerGoes, ReadFails, Unregister
<1>6. unregister' \in Seq(Conns) /\ Len(unregister') <= UnregisterCap
      <2>1. CASE unregister' = unregister
            BY <2>1 DEF TypeOK
      <2>2. CASE Unregister(c)
            BY <2>2, QueueAppend DEF Unregister, HasRoom, TypeOK
      <2> QED
          BY <2>1, <2>2
          DEF Conn, Upgrade, Register, PeerGoes, ReadFails, Unregister
<1>7. TypeOK'
      BY <1>1, <1>3, <1>4, <1>5, <1>6 DEF TypeOK
<1> QED
    BY <1>2, <1>7

LEMMA PrepareHub ==
    ASSUME HubInv, NEW s \in Senders, Prepare(s)
    PROVE  HubInv'
<1> USE DEF HubInv, Prepare, channelVars, mapVars, hubVars, connVars
<1>1. PICK m \in Sendable : waiting' = [waiting EXCEPT ![s] = m]
      OBVIOUS
<1>2. TypeOK' /\ PhaseOK' /\ MapOK'
      BY <1>1 DEF TypeOK, PhaseOK, MapOK
<1>3. Pending' = Pending \/ Pending' = Pending \cup {s}
      BY <1>1 DEF Pending, TypeOK
<1>4. sent + Cardinality(Pending) < MaxMessages
      BY DEF Pending
<1>5. /\ IsFiniteSet(Pending \cup {s})
      /\ Cardinality(Pending \cup {s}) =
             IF s \in Pending THEN Cardinality(Pending) ELSE Cardinality(Pending) + 1
      BY FS_AddElement, IsFiniteSet(Pending) DEF RoomOK
<1>6. Cardinality(Pending) \in Nat
      BY FS_CardinalityType, IsFiniteSet(Pending) DEF RoomOK
<1>7. RoomOK'
      <2> HIDE DEF Prepare
      <2>1. sent' = sent /\ sent \in Nat
            BY DEF Prepare, TypeOK
      <2>2. CASE Pending' = Pending
            BY <2>1, <2>2 DEF RoomOK
      <2>3. CASE Pending' = Pending \cup {s}
            <3>1. Cardinality(Pending') <= Cardinality(Pending) + 1
                  BY <1>5, <1>6, <2>3
            <3>2. Cardinality(Pending') \in Nat
                  BY <1>5, <1>6, <2>3
            <3> QED
                BY <1>4, <1>5, <1>6, <2>1, <2>3, <3>1, <3>2 DEF RoomOK
      <2> QED
          BY <1>3, <2>2, <2>3
<1> QED
    BY <1>2, <1>7

LEMMA SendHub ==
    ASSUME HubInv, NEW s \in Senders, Send(s)
    PROVE  /\ HubInv'
           /\ \E m \in Numbered : /\ broadcast' = Append(broadcast, m)
                                  /\ m.number = sent' /\ sent' = sent + 1
<1> USE DEF HubInv, mapVars, hubVars, connVars
<1>1. waiting[s] \in Sendable /\ s \in Pending
      BY DEF Send, TypeOK, Pending
<1>2. Pending' = Pending \ {s}
      <2>1. waiting' = [waiting EXCEPT ![s] = <<>>]
            BY DEF Send
      <2> QED
          BY <2>1 DEF Pending, TypeOK
<1>3. /\ IsFiniteSet(Pending \ {s})
      /\ Cardinality(Pending \ {s}) =
             IF s \in Pending THEN Cardinality(Pending) - 1 ELSE Cardinality(Pending)
      BY FS_RemoveElement, IsFiniteSet(Pending) DEF RoomOK
<1>4. Cardinality(Pending) \in Nat /\ Cardinality(Pending \ {s}) \in Nat
      BY <1>3, FS_CardinalityType, IsFiniteSet(Pending) DEF RoomOK
<1>5. sent' = sent + 1 /\ sent \in Nat
      BY DEF Send, TypeOK
<1>6. RoomOK'
      BY <1>1, <1>2, <1>3, <1>4, <1>5 DEF RoomOK
<1>7. sent' \in 1..MaxMessages
      BY <1>2, <1>4, <1>5, <1>6 DEF RoomOK
<1> DEFINE m == [number |-> sent', user |-> waiting[s].user,
                 kind |-> waiting[s].kind]
<1>8. m \in Numbered
      <2>1. waiting[s] \in Messages
            BY <1>1
      <2> QED
          BY <1>7, <2>1 DEF Numbered, Messages
<1>9. broadcast' = Append(broadcast, m) /\ Len(broadcast) < BroadcastCap
      BY DEF Send, HasRoom
<1>10. broadcast' \in Seq(Numbered) /\ Len(broadcast') = Len(broadcast) + 1
      <2> HIDE DEF m
      <2> QED
          BY <1>8, <1>9, QueueAppend DEF TypeOK
<1>11. Len(broadcast') <= BroadcastCap
      BY <1>9, <1>10 DEF TypeOK
<1>12. waiting' \in [Senders -> Sendable \cup {<<>>}]
      BY DEF Send, TypeOK
<1>13. UNCHANGED <<register, unregister, mapVars, hubVars, connVars, overtaken>>
      BY DEF Send
<1>14. TypeOK'
      BY <1>7, <1>10, <1>11, <1>12, <1>13 DEF TypeOK
<1>YY. PhaseOK' /\ MapOK'
      BY <1>13 DEF PhaseOK, MapOK
<1>XX. m.number = sent'
      OBVIOUS
<1> QED
    BY <1>5, <1>6, <1>8, <1>9, <1>14, <1>YY, <1>XX

\* What the hub does between two messages to the map: add the head of register
\* or remove the head of unregister.
LEMMA TakeRegisterHub ==
    ASSUME HubInv, TakeRegister
    PROVE  /\ HubInv'
           /\ \E c \in Conns :
                 /\ clients' = [clients EXCEPT ![UserOf[c]] = @ \cup {c}]
                 /\ \A d : InQueue(d, register) <=>
                              d = c \/ InQueue(d, register')
<1> USE DEF HubInv, hubVars, connVars, senderVars
<1> DEFINE c == Head(register)
<1>1. /\ c \in Conns /\ register' \in Seq(Conns)
      /\ Len(register') = Len(register) - 1 /\ Len(register) \in Nat \ {0}
      /\ \A d : InQueue(d, register) <=> d = c \/ InQueue(d, register')
      <2>1. register # <<>> /\ register' = Tail(register)
            BY DEF TakeRegister
      <2> QED
          BY <2>1, QueueTail DEF TypeOK
<1>2. /\ known' = known \cup {UserOf[c]}
      /\ clients' = [clients EXCEPT ![UserOf[c]] = @ \cup {c}]
      BY DEF TakeRegister
<1> HIDE DEF c
<1>3. UserOf[c] \in Users
      BY <1>1
<1>4. UNCHANGED <<unregister, broadcast, hubVars, connVars, senderVars, overtaken>>
      BY DEF TakeRegister
<1>5. hub = "select" /\ visiting = NoUser /\ audience = {}
      BY DEF TakeRegister, PhaseOK
<1>6. TypeOK'
      BY <1>1, <1>2, <1>3, <1>4 DEF TypeOK
<1>7. RoomOK' /\ PhaseOK'
      BY <1>4 DEF RoomOK, Pending, PhaseOK
<1>8. MapOK'
      BY <1>2, <1>3, <1>4, <1>5 DEF MapOK, TypeOK
<1> QED
    BY <1>1, <1>2, <1>6, <1>7, <1>8

LEMMA TakeUnregisterHub ==
    ASSUME HubInv, TakeUnregister
    PROVE  /\ HubInv'
           /\ \E c \in Conns :
                 /\ \A d : InQueue(d, unregister) <=>
                              d = c \/ InQueue(d, unregister')
                 /\ \A u \in Users : clients'[u] \subseteq clients[u]
                 /\ \A d \in Conns \ {c} :
                       d \in clients[UserOf[d]] => d \in clients'[UserOf[d]]
                 /\ c \in clients[UserOf[c]] => c \in closed'
                 /\ c \notin clients'[UserOf[c]]
                 /\ InQueue(c, register) => c \in overtaken'
                 /\ closed \subseteq closed' /\ overtaken \subseteq overtaken'
<1> USE DEF HubInv, hubVars, connVars, senderVars
<1> DEFINE c == Head(unregister)
           u == UserOf[c]
<1>1. /\ c \in Conns /\ unregister' \in Seq(Conns)
      /\ Len(unregister') = Len(unregister) - 1 /\ Len(unregister) \in Nat \ {0}
      /\ \A d : InQueue(d, unregister) <=> d = c \/ InQueue(d, unregister')
      <2>1. unregister # <<>> /\ unregister' = Tail(unregister)
            BY DEF TakeUnregister
      <2> QED
          BY <2>1, QueueTail DEF TypeOK
<1>2. IF u \in known
        THEN /\ clients' = [clients EXCEPT ![u] = @ \ {c}]
             /\ known' = IF clients[u] \ {c} = {} THEN known \ {u} ELSE known
             /\ closed' = closed \cup {c}
        ELSE UNCHANGED <<clients, known, closed>>
      BY DEF TakeUnregister, Without, Entries
<1>3. overtaken' = IF InQueue(c, register) THEN overtaken \cup {c} ELSE overtaken
      BY DEF TakeUnregister
<1>4. \/ clients' = clients
       \/ clients' = [clients EXCEPT ![u] = @ \ {c}]
       BY <1>2
<1>5. clients \in [Users -> SUBSET Conns]
       BY DEF TypeOK
<1>6. UNCHANGED <<register, broadcast, hubVars, stage, gone, received, senderVars>>
      BY DEF TakeUnregister
<1>7. hub = "select" /\ visiting = NoUser /\ audience = {}
      BY DEF TakeUnregister, PhaseOK
<1> HIDE DEF c
<1>8. u \in Users
      BY <1>1
<1> HIDE DEF u
<1>9. TypeOK'
      <2>1. known' \subseteq Users /\ closed' \subseteq Conns
            BY <1>1, <1>2 DEF TypeOK
      <2>2. clients' \in [Users -> SUBSET Conns]
            BY <1>4, <1>5
      <2>3. overtaken' \subseteq Conns
            BY <1>1, <1>3 DEF TypeOK
      <2> QED
          BY <1>1, <1>6, <2>1, <2>2, <2>3 DEF TypeOK
<1>10. RoomOK' /\ PhaseOK'
      BY <1>6 DEF RoomOK, Pending, PhaseOK
<1>11. MapOK'
      <2>1. CASE u \in known
            <3>1. \A v \in Users : v # u => /\ clients'[v] = clients[v]
                                            /\ v \in known' <=> v \in known
                  BY <1>2, <2>1 DEF TypeOK
            <3>2. u \in known' <=> clients'[u] # {}
                  BY <1>2, <1>8, <2>1 DEF TypeOK
            <3> QED
                BY <1>6, <1>7, <3>1, <3>2 DEF MapOK
      <2>2. CASE u \notin known
            BY <1>2, <1>6, <2>2 DEF MapOK
      <2> QED
          BY <2>1, <2>2
<1>12. u \notin known => clients[u] = {}
       BY <1>7, <1>8 DEF MapOK
<1>13. \A v \in Users : clients'[v] \subseteq clients[v]
       BY <1>4, <1>5
<1>14. \A d \in Conns \ {c} : \A v \in Users : d \in clients[v] => d \in clients'[v]
       BY <1>4, <1>5
<1>15. (c \in clients[u] => c \in closed') /\ c \notin clients'[u]
       BY <1>2, <1>8, <1>12 DEF TypeOK
<1>16. closed \subseteq closed' /\ overtaken \subseteq overtaken'
       BY <1>2, <1>3
<1> QED
    BY <1>1, <1>3, <1>9, <1>10, <1>11, <1>13, <1>14, <1>15, <1>16 DEF u

\* The steps of a delivery.
LEMMA TakeMessageHub ==
    ASSUME HubInv, TakeMessage
    PROVE  /\ HubInv'
           /\ message' = Head(broadcast) /\ broadcast' = Tail(broadcast)
           /\ message' \in Numbered
<1> USE DEF HubInv, mapVars, connVars, senderVars
<1>1. /\ message' \in Numbered /\ broadcast' \in Seq(Numbered)
      /\ Len(broadcast') = Len(broadcast) - 1 /\ Len(broadcast) \in Nat \ {0}
      <2>1. broadcast # <<>> /\ message' = Head(broadcast)
            /\ broadcast' = Tail(broadcast)
            BY DEF TakeMessage
      <2> QED
          BY <2>1, QueueTail DEF TypeOK
<1>2. audience' \subseteq known
      BY DEF TakeMessage, Audience
<1>3. /\ hub = "select" /\ hub' = "deliver"
      /\ UNCHANGED <<register, unregister, mapVars, visiting, todo, connVars,
                     senderVars, overtaken>>
      BY DEF TakeMessage
<1>4. TypeOK'
      BY <1>1, <1>2, <1>3 DEF TypeOK
<1>5. RoomOK' /\ PhaseOK'
      BY <1>1, <1>3 DEF RoomOK, Pending, PhaseOK
<1>6. MapOK'
      BY <1>2, <1>3 DEF MapOK, PhaseOK, TypeOK
<1> QED
    BY <1>1, <1>4, <1>5, <1>6 DEF TakeMessage

LEMMA VisitHub ==
    ASSUME HubInv, NEW u \in Users, Visit(u)
    PROVE  HubInv'
<1> USE DEF HubInv, channelVars, mapVars, connVars, senderVars
<1>1. UNCHANGED <<channelVars, mapVars, message, connVars, senderVars, overtaken>>
      BY DEF Visit
<1>2. /\ hub = "deliver" /\ hub' = "write" /\ u \in audience
      /\ audience' = audience \ {u} /\ visiting' = u /\ todo' = clients[u]
      BY DEF Visit
<1>3. TypeOK'
      BY <1>1, <1>2 DEF TypeOK
<1>4. RoomOK' /\ PhaseOK'
      BY <1>1, <1>2 DEF RoomOK, Pending, PhaseOK
<1>5. MapOK'
      BY <1>1, <1>2 DEF MapOK, PhaseOK
<1> QED
    BY <1>3, <1>4, <1>5

LEMMA WriteHub ==
    ASSUME HubInv, NEW c \in Conns, Write(c)
    PROVE  HubInv'
<1> USE DEF HubInv, channelVars, mapVars, senderVars
<1>1. /\ UNCHANGED <<channelVars, known, hub, audience, visiting, message,
                     stage, gone, senderVars, overtaken>>
      /\ hub = "write" /\ c \in todo /\ todo' = todo \ {c}
      BY DEF Write, WriteSucceeds, WriteFails
<1>2. visiting \in Users /\ message \in Numbered
      BY <1>1 DEF PhaseOK
<1>3. \/ clients' = clients
      \/ clients' = [clients EXCEPT ![visiting] = @ \ {c}]
      BY DEF Write, WriteSucceeds, WriteFails, Without
<1>4. closed' = closed \/ closed' = closed \cup {c}
      BY DEF Write, WriteSucceeds, WriteFails, Closing
<1>5. \/ received' = received
      \/ received' = [received EXCEPT ![c] = Append(@, message)]
      BY DEF Write, WriteSucceeds, WriteFails, Written
<1>6. received' \in [Conns -> Seq(Numbered)]
      <2>1. Append(received[c], message) \in Seq(Numbered)
            BY <1>2, QueueAppend DEF TypeOK
      <2> QED
          BY <1>5, <2>1 DEF TypeOK
<1>7. TypeOK'
      <2>1. clients' \in [Users -> SUBSET Conns]
            <3>1. clients \in [Users -> SUBSET Conns]
                  BY DEF TypeOK
            <3> QED
                BY <1>3, <3>1
      <2>2. closed' \subseteq Conns /\ todo' \subseteq Conns
            BY <1>1, <1>4 DEF TypeOK
      <2> QED
          BY <1>1, <1>6, <2>1, <2>2 DEF TypeOK
<1>8. RoomOK' /\ PhaseOK'
      BY <1>1 DEF RoomOK, Pending, PhaseOK
<1>9. MapOK'
      BY <1>1, <1>3 DEF MapOK, TypeOK
<1> QED
    BY <1>7, <1>8, <1>9

LEMMA EndVisitHub == HubInv /\ EndVisit => HubInv'
<1> SUFFICES ASSUME HubInv, EndVisit PROVE HubInv'
    OBVIOUS
<1> USE DEF HubInv, EndVisit, Entries, channelVars, connVars, senderVars
<1>1. visiting \in Users
      BY DEF PhaseOK
<1>2. TypeOK'
      BY DEF TypeOK
<1>3. RoomOK' /\ PhaseOK'
      BY DEF RoomOK, Pending, PhaseOK
<1>4. MapOK'
      <2>1. visiting' = NoUser /\ audience' = audience /\ clients' = clients
            BY DEF EndVisit
      <2>2. known' = IF clients[visiting] = {} THEN known \ {visiting} ELSE known
            BY DEF EndVisit
      <2> HIDE DEF EndVisit
      <2>3. \A u \in Users : u # visiting => (u \in known' <=> u \in known)
            BY <2>2
      <2>4. visiting \in known' <=> clients[visiting] # {}
            BY <1>1, <2>2 DEF MapOK
      <2>5. audience \subseteq known' /\ NoUser \notin audience
            BY <2>2 DEF MapOK, TypeOK
      <2> QED
          BY <2>1, <2>3, <2>4, <2>5 DEF MapOK
<1> QED
    BY <1>2, <1>3, <1>4

LEMMA EndDeliveryHub == HubInv /\ EndDelivery => HubInv'
BY DEF HubInv, EndDelivery, AfterDelivery, channelVars, mapVars, connVars,
       senderVars, TypeOK, RoomOK, Pending, PhaseOK, MapOK

LEMMA StepHub == HubInv /\ [Next]_vars => HubInv'
<1> SUFFICES ASSUME HubInv, [Next]_vars PROVE HubInv'
    OBVIOUS
<1>1. CASE \E c \in Conns : Conn(c) \/ PeerGoes(c)
      BY <1>1, ConnHub
<1>2. CASE \E s \in Senders : Prepare(s) \/ Send(s)
      BY <1>2, PrepareHub, SendHub
<1>3. CASE Hub
      BY <1>3, TakeRegisterHub, TakeUnregisterHub, TakeMessageHub, VisitHub,
         WriteHub, EndVisitHub, EndDeliveryHub DEF Hub
<1>4. CASE UNCHANGED vars
      BY <1>4 DEF vars, channelVars, mapVars, hubVars, connVars, senderVars,
                  HubInv, TypeOK, RoomOK, Pending, PhaseOK, MapOK
<1> QED
    BY <1>1, <1>2, <1>3, <1>4 DEF Next

LEMMA AlwaysHub == Spec => []HubInv
BY InitHub, StepHub, PTL DEF Spec

\* Channels and numbers stay in their bounds, and between two turns of the
\* loop of Run the map h.Clients has an entry for exactly the users that have a
\* connection in it.
THEOREM ConsistentCorrect == Spec => []Consistent
<1>1. ASSUME HubInv, hub = "select"
      PROVE  known = {u \in Users : clients[u] # {}}
      <2>1. known \subseteq Users /\ visiting \notin Users
            BY <1>1 DEF HubInv, TypeOK, PhaseOK
      <2> QED
          BY <1>1, <2>1 DEF HubInv, MapOK
<1>2. HubInv => Consistent
      BY <1>1 DEF HubInv, Consistent
<1> QED
    BY <1>2, AlwaysHub, PTL

-----------------------------------------------------------------------------
(* Who is written to: the connections of an entry are those of its user, and *)
(* the users who are visited are those the message is for.                  *)

IsFor(m, u) == m.user = u \/ (m.user = NoUser /\ m.kind = "balance")

OwnersOK ==
    /\ \A u \in Users : \A c \in clients[u] : UserOf[c] = u
    /\ \A c \in todo : UserOf[c] = visiting

AddressOK == \A u \in Users : u \in audience \/ u = visiting => IsFor(message, u)

OwnInv == OwnersOK /\ AddressOK /\ OnlyOwnMessages

LEMMA InitOwn == Init => OwnInv
BY DEF Init, OwnInv, OwnersOK, AddressOK, OnlyOwnMessages

\* What happens outside the hub does not reach the map or a delivery.
LEMMA OutsideHub ==
    ASSUME \/ \E c \in Conns : Conn(c) \/ PeerGoes(c)
           \/ \E s \in Senders : Prepare(s) \/ Send(s)
    PROVE  UNCHANGED <<mapVars, hubVars, closed, received, overtaken>>
BY DEF Conn, Upgrade, Register, ReadFails, Unregister, PeerGoes, Prepare, Send,
       mapVars, hubVars, connVars

LEMMA WriteOwn ==
    ASSUME HubInv, OwnInv, NEW c \in Conns, Write(c)
    PROVE  OwnInv'
<1>1. /\ UNCHANGED <<audience, visiting, message>> /\ hub = "write"
      /\ c \in todo /\ todo' = todo \ {c}
      BY DEF Write, WriteSucceeds, WriteFails
<1>2. /\ visiting \in Users /\ message \in Numbered
      /\ clients \in [Users -> SUBSET Conns]
      /\ received \in [Conns -> Seq(Numbered)]
      BY <1>1 DEF HubInv, PhaseOK, TypeOK
<1>3. \/ clients' = clients
      \/ clients' = [clients EXCEPT ![visiting] = @ \ {c}]
      BY DEF Write, WriteSucceeds, WriteFails, Without, mapVars
<1>4. OwnersOK'
      <2>1. \A u \in Users : clients'[u] \subseteq clients[u]
            BY <1>2, <1>3
      <2> QED
          BY <1>1, <2>1 DEF OwnInv, OwnersOK
<1>5. AddressOK'
      BY <1>1 DEF OwnInv, AddressOK
<1>6. UserOf[c] = visiting /\ IsFor(message, visiting)
      BY <1>1, <1>2 DEF OwnInv, OwnersOK, AddressOK
<1>7. \/ received' = received
      \/ received' = [received EXCEPT ![c] = Append(@, message)]
      BY DEF Write, WriteSucceeds, WriteFails, Written
<1>8. ASSUME NEW d \in Conns, NEW i \in 1..Len(received'[d])
      PROVE  IsFor(received'[d][i], UserOf[d])
      <2>1. CASE received'[d] = received[d]
            BY <2>1 DEF OwnInv, OnlyOwnMessages, IsFor
      <2>2. CASE d = c /\ received'[d] = Append(received[c], message)
            <3>1. /\ Len(received'[d]) = Len(received[c]) + 1
                  /\ Len(received[c]) \in Nat
                  /\ received'[d][Len(received[c]) + 1] = message
                  /\ \A j \in 1..Len(received[c]) :
                        received'[d][j] = received[c][j]
                  BY <1>2, <2>2
            <3>2. CASE i \in 1..Len(received[c])
                  BY <2>2, <3>1, <3>2 DEF OwnInv, OnlyOwnMessages, IsFor
            <3>3. CASE i = Len(received[c]) + 1
                  BY <1>6, <2>2, <3>1, <3>3
            <3> QED
                BY <3>1, <3>2, <3>3
      <2> QED
          BY <1>2, <1>7, <2>1, <2>2
<1>9. OnlyOwnMessages'
      BY <1>8 DEF OnlyOwnMessages, IsFor
<1> QED
    BY <1>4, <1>5, <1>9 DEF OwnInv

LEMMA StepOwn == HubInv /\ OwnInv /\ [Next]_vars => OwnInv'
<1> SUFFICES ASSUME HubInv, OwnInv, [Next]_vars PROVE OwnInv'
    OBVIOUS
<1> USE DEF OwnInv, mapVars, hubVars, connVars
<1>1. CASE \/ \E c \in Conns : Conn(c) \/ PeerGoes(c)
           \/ \E s \in Senders : Prepare(s) \/ Send(s)
           \/ UNCHANGED vars
      <2>1. UNCHANGED <<mapVars, hubVars, received>>
            BY <1>1, OutsideHub DEF vars
      <2> QED
          BY <2>1 DEF OwnersOK, AddressOK, OnlyOwnMessages
<1>2. CASE TakeRegister
      <2>1. PICK c \in Conns :
                clients' = [clients EXCEPT ![UserOf[c]] = @ \cup {c}]
            BY <1>2, TakeRegisterHub
      <2>2. UNCHANGED <<hubVars, received>>
            BY <1>2 DEF TakeRegister
      <2>3. clients \in [Users -> SUBSET Conns]
            BY DEF HubInv, TypeOK
      <2>4. OwnersOK'
            BY <2>1, <2>2, <2>3 DEF OwnersOK
      <2> QED
          BY <2>2, <2>4 DEF AddressOK, OnlyOwnMessages
<1>3. CASE TakeUnregister
      <2>1. \A u \in Users : clients'[u] \subseteq clients[u]
            BY <1>3, TakeUnregisterHub
      <2>2. UNCHANGED <<hubVars, received>>
            BY <1>3 DEF TakeUnregister
      <2> QED
          BY <2>1, <2>2 DEF OwnersOK, AddressOK, OnlyOwnMessages
<1>4. CASE TakeMessage
      <2>1. visiting = NoUser /\ todo = {}
            BY <1>4 DEF TakeMessage, HubInv, PhaseOK
      <2>2. UNCHANGED <<clients, visiting, todo, received>>
            BY <1>4 DEF TakeMessage
      <2>3. \A u \in audience' : IsFor(message', u)
            BY <1>4 DEF TakeMessage, Audience, IsFor
      <2> QED
          BY <2>1, <2>2, <2>3 DEF OwnersOK, AddressOK, OnlyOwnMessages
<1>5. CASE \E u \in Users : Visit(u)
      BY <1>5 DEF Visit, OwnersOK, AddressOK, OnlyOwnMessages
<1>6. CASE \E c \in Conns : Write(c)
      BY <1>6, WriteOwn
<1>7. CASE EndVisit
      BY <1>7 DEF EndVisit, OwnersOK, AddressOK, OnlyOwnMessages
<1>8. CASE EndDelivery
      <2>1. UNCHANGED <<clients, todo, visiting, audience, received>>
            /\ audience = {} /\ visiting = NoUser
            BY <1>8 DEF EndDelivery, HubInv, PhaseOK
      <2> QED
          BY <2>1 DEF OwnersOK, AddressOK, OnlyOwnMessages
<1> QED
    BY <1>1, <1>2, <1>3, <1>4, <1>5, <1>6, <1>7, <1>8 DEF Next, Hub

LEMMA AlwaysOwn == Spec => []OwnInv
BY InitHub, StepHub, InitOwn, StepOwn, PTL DEF Spec

\* No peer receives a message about another user: HandleWebSocket registers a
\* connection under the user it authenticated, and Run writes a message with a
\* user only to the entry of that user.
THEOREM OnlyOwnMessagesCorrect == Spec => []OnlyOwnMessages
BY AlwaysOwn, PTL DEF OwnInv

-----------------------------------------------------------------------------
(* The order of messages.  What peers have got is older than the message    *)
(* that is delivered, unless it is that message and the peer is not written *)
(* to again; that one is older than what waits in the channel; and the      *)
(* numbers in the channel increase up to what was sent.                     *)

QueueOrdered ==
    /\ \A i \in 1..Len(broadcast) : broadcast[i].number <= sent
    /\ \A i, j \in 1..Len(broadcast) :
          i < j => broadcast[i].number < broadcast[j].number

MessageOrdered ==
    hub # "select" =>
        /\ message.number <= sent
        /\ \A i \in 1..Len(broadcast) : message.number < broadcast[i].number

\* c has got the message with number n.
Got(c, n) == \E i \in 1..Len(received[c]) : received[c][i].number = n

Older(c, n) ==
    /\ n <= sent
    /\ \A j \in 1..Len(broadcast) : n < broadcast[j].number
    /\ hub # "select" => n <= message.number
    /\ c \in todo \/ UserOf[c] \in audience => n < message.number

ReceivedOlder == \A c \in Conns, n \in Nat : Got(c, n) => Older(c, n)

OrderInv == QueueOrdered /\ MessageOrdered /\ ReceivedOlder /\ InOrder

LEMMA InitOrder == Init => OrderInv
BY DEF Init, OrderInv, QueueOrdered, MessageOrdered, ReceivedOlder, Got, InOrder

LEMMA NumbersAreNumbers ==
    ASSUME HubInv
    PROVE  /\ sent \in Nat
           /\ Len(broadcast) \in Nat
           /\ \A i \in 1..Len(broadcast) : broadcast[i].number \in Nat
           /\ \A c \in Conns : /\ Len(received[c]) \in Nat
                               /\ \A i \in 1..Len(received[c]) :
                                     received[c][i].number \in Nat
           /\ hub # "select" => message.number \in Nat
<1>1. \A m \in Numbered : m.number \in Nat
      BY DEF Numbered
<1>2. sent \in Nat /\ Len(broadcast) \in Nat
      BY DEF HubInv, TypeOK
<1>3. \A i \in 1..Len(broadcast) : broadcast[i] \in Numbered
      BY DEF HubInv, TypeOK
<1>4. \A c \in Conns : /\ Len(received[c]) \in Nat
                       /\ \A i \in 1..Len(received[c]) :
                             received[c][i] \in Numbered
      BY DEF HubInv, TypeOK
<1>5. hub # "select" => message \in Numbered
      BY DEF HubInv, PhaseOK
<1> QED
    BY <1>1, <1>2, <1>3, <1>4, <1>5

LEMMA SendOrder ==
    ASSUME HubInv, OrderInv, NEW s \in Senders, Send(s)
    PROVE  OrderInv'
<1>1. PICK m \in Numbered : /\ broadcast' = Append(broadcast, m)
                            /\ m.number = sent' /\ sent' = sent + 1
      BY SendHub
<1>2. UNCHANGED <<hub, audience, todo, message, received>>
      BY DEF Send, hubVars, connVars
<1>3. /\ broadcast \in Seq(Numbered)
      /\ broadcast' \in Seq(Numbered)
      /\ Len(broadcast') = Len(broadcast) + 1
      /\ broadcast'[Len(broadcast) + 1] = m
      /\ \A i \in 1..Len(broadcast) : broadcast'[i] = broadcast[i]
      BY <1>1, QueueAppend DEF HubInv, TypeOK
<1>4. ASSUME NEW i \in 1..Len(broadcast')
      PROVE  \/ i \in 1..Len(broadcast) /\ broadcast'[i] = broadcast[i]
             \/ i = Len(broadcast) + 1 /\ broadcast'[i].number = sent + 1
      BY <1>1, <1>3, NumbersAreNumbers
<1>5. QueueOrdered'
      <2>1. \A i \in 1..Len(broadcast) :
                broadcast[i].number \in Nat /\ broadcast[i].number <= sent
            BY NumbersAreNumbers DEF OrderInv, QueueOrdered
      <2>2. \A i \in 1..Len(broadcast') : broadcast'[i].number <= sent'
            BY <1>1, <1>4, <2>1, NumbersAreNumbers
      <2>3. ASSUME NEW i \in 1..Len(broadcast'), NEW j \in 1..Len(broadcast'),
                   i < j
            PROVE  broadcast'[i].number < broadcast'[j].number
            <3>1. i \in 1..Len(broadcast) /\ broadcast'[i] = broadcast[i]
                  BY <1>3, <1>4, <2>3, NumbersAreNumbers
            <3>2. CASE j \in 1..Len(broadcast) /\ broadcast'[j] = broadcast[j]
                  BY <2>3, <3>1, <3>2 DEF OrderInv, QueueOrdered
            <3>3. CASE broadcast'[j].number = sent + 1
                  BY <2>1, <3>1, <3>3, NumbersAreNumbers
            <3> QED
                BY <1>4, <3>2, <3>3
      <2> QED
          BY <2>2, <2>3 DEF QueueOrdered
<1>6. MessageOrdered'
      BY <1>1, <1>2, <1>4, NumbersAreNumbers DEF OrderInv, MessageOrdered
<1>7. ReceivedOlder'
      <2>1. ASSUME NEW c \in Conns, NEW n \in Nat, Older(c, n)
            PROVE  Older(c, n)'
            BY <1>1, <1>2, <1>4, <2>1, NumbersAreNumbers DEF Older
      <2>2. \A c \in Conns, n \in Nat : Got(c, n)' <=> Got(c, n)
            BY <1>2 DEF Got
      <2> QED
          BY <2>1, <2>2 DEF OrderInv, ReceivedOlder
<1>8. InOrder'
      BY <1>2 DEF OrderInv, InOrder
<1> QED
    BY <1>5, <1>6, <1>7, <1>8 DEF OrderInv

LEMMA TakeMessageOrder ==
    ASSUME HubInv, OrderInv, TakeMessage
    PROVE  OrderInv'
<1>1. /\ message' = Head(broadcast) /\ broadcast' = Tail(broadcast)
      /\ broadcast \in Seq(Numbered) /\ broadcast # <<>>
      BY TakeMessageHub DEF TakeMessage, HubInv, TypeOK
<1>2. /\ message' = broadcast[1] /\ Len(broadcast) \in Nat \ {0}
      /\ Len(broadcast') = Len(broadcast) - 1
      /\ \A i \in 1..Len(broadcast') : broadcast'[i] = broadcast[i + 1]
      BY <1>1
<1>3. UNCHANGED <<sent, received, todo>> /\ todo = {}
      BY DEF TakeMessage, connVars, senderVars, HubInv, PhaseOK
<1>4. \A i \in 1..Len(broadcast') : i + 1 \in 1..Len(broadcast)
      BY <1>2
<1>5. QueueOrdered'
      <2>1. ASSUME NEW i \in 1..Len(broadcast'), NEW j \in 1..Len(broadcast'),
                   i < j
            PROVE  broadcast'[i].number < broadcast'[j].number
            BY <1>2, <1>4, <2>1 DEF OrderInv, QueueOrdered
      <2>2. \A i \in 1..Len(broadcast') : broadcast'[i].number <= sent'
            BY <1>2, <1>3, <1>4 DEF OrderInv, QueueOrdered
      <2> QED
          BY <2>1, <2>2 DEF QueueOrdered
<1>6. MessageOrdered'
      <2>1. ASSUME NEW i \in 1..Len(broadcast')
            PROVE  message'.number < broadcast'[i].number
            BY <1>2, <1>4 DEF OrderInv, QueueOrdered
      <2>2. message'.number <= sent'
            BY <1>2, <1>3 DEF OrderInv, QueueOrdered
      <2> QED
          BY <2>1, <2>2 DEF MessageOrdered
<1>7. ReceivedOlder'
      <2>1. ASSUME NEW c \in Conns, NEW n \in Nat, Older(c, n)
            PROVE  Older(c, n)'
            <3>1. n <= sent /\ \A j \in 1..Len(broadcast) : n < broadcast[j].number
                  BY <2>1 DEF Older
            <3>2. \A j \in 1..Len(broadcast') : n < broadcast'[j].number
                  BY <1>2, <1>4, <3>1
            <3>3. n < message'.number /\ message'.number \in Nat
                  BY <1>2, <3>1, NumbersAreNumbers
            <3> QED
                BY <1>3, <3>1, <3>2, <3>3 DEF Older
      <2>2. \A c \in Conns, n \in Nat : Got(c, n)' <=> Got(c, n)
            BY <1>3 DEF Got
      <2> QED
          BY <2>1, <2>2 DEF OrderInv, ReceivedOlder
<1>8. InOrder'
      BY <1>3 DEF OrderInv, InOrder
<1> QED
    BY <1>5, <1>6, <1>7, <1>8 DEF OrderInv

LEMMA WriteOrder ==
    ASSUME HubInv, OwnInv, OrderInv, NEW c \in Conns, Write(c)
    PROVE  OrderInv'
<1>1. /\ UNCHANGED <<broadcast, sent, hub, audience, message>>
      /\ hub = "write" /\ c \in todo /\ todo' = todo \ {c}
      BY DEF Write, WriteSucceeds, WriteFails, channelVars, senderVars
<1>2. /\ message \in Numbered /\ message.number \in Nat
      /\ visiting \notin audience /\ UserOf[c] = visiting
      /\ received \in [Conns -> Seq(Numbered)]
      BY <1>1, NumbersAreNumbers
      DEF HubInv, PhaseOK, MapOK, TypeOK, OwnInv, OwnersOK
<1>3. QueueOrdered' /\ MessageOrdered'
      BY <1>1 DEF OrderInv, QueueOrdered, MessageOrdered
<1>4. \A d \in Conns, n \in Nat : Older(d, n) => Older(d, n)'
      BY <1>1 DEF Older
<1>5. CASE received' = received
      <2>1. \A d \in Conns, n \in Nat : Got(d, n)' <=> Got(d, n)
            BY <1>5 DEF Got
      <2> QED
          BY <1>3, <1>4, <1>5, <2>1 DEF OrderInv, ReceivedOlder, InOrder
<1>6. CASE received' = [received EXCEPT ![c] = Append(@, message)]
      <2>1. /\ Len(received[c]) \in Nat
            /\ Len(received'[c]) = Len(received[c]) + 1
            /\ received'[c][Len(received[c]) + 1] = message
            /\ \A i \in 1..Len(received[c]) : received'[c][i] = received[c][i]
            BY <1>2, <1>6
      <2>2. \A d \in Conns \ {c} : received'[d] = received[d]
            BY <1>2, <1>6
      <2>3. \A i \in 1..Len(received[c]) :
                /\ received[c][i].number \in Nat
                /\ received[c][i].number < message.number
            <3>1. ASSUME NEW i \in 1..Len(received[c]), NEW n \in Nat,
                         received[c][i].number = n
                  PROVE  n < message.number
                  BY <1>1, <3>1 DEF Got, Older, OrderInv, ReceivedOlder
            <3> QED
                BY <3>1, NumbersAreNumbers
      <2>4. InOrder'
            <3>1. ASSUME NEW i \in 1..Len(received'[c]),
                         NEW j \in 1..Len(received'[c]), i < j
                  PROVE  received'[c][i].number < received'[c][j].number
                  <4>1. i \in 1..Len(received[c])
                        BY <2>1, <3>1
                  <4>2. CASE j \in 1..Len(received[c])
                        BY <2>1, <3>1, <4>1, <4>2 DEF OrderInv, InOrder
                  <4>3. CASE j = Len(received[c]) + 1
                        BY <2>1, <2>3, <4>1, <4>3
                  <4> QED
                      BY <2>1, <4>2, <4>3
            <3>2. ASSUME NEW d \in Conns \ {c}, NEW i \in 1..Len(received'[d]),
                         NEW j \in 1..Len(received'[d]), i < j
                  PROVE  received'[d][i].number < received'[d][j].number
                  BY <2>2, <3>2 DEF OrderInv, InOrder
            <3> QED
                BY <3>1, <3>2 DEF InOrder
      <2>5. \A n \in Nat : Got(c, n)' => Got(c, n) \/ n = message.number
            BY <2>1 DEF Got
      <2>6. \A d \in Conns \ {c}, n \in Nat : Got(d, n)' <=> Got(d, n)
            BY <2>2 DEF Got
      <2>7. ReceivedOlder'
            <3>1. ASSUME NEW n \in Nat, n = message.number
                  PROVE  Older(c, n)'
                  <4>1. n <= sent /\ \A j \in 1..Len(broadcast) :
                                         n < broadcast[j].number
                        BY <1>1, <3>1 DEF OrderInv, MessageOrdered
                  <4>2. c \notin todo' /\ UserOf[c] \notin audience'
                        BY <1>1, <1>2
                  <4>3. n <= message'.number
                        BY <1>1, <1>2, <3>1
                  <4> QED
                      BY <1>1, <4>1, <4>2, <4>3 DEF Older
            <3> QED
                BY <1>4, <2>5, <2>6, <3>1 DEF OrderInv, ReceivedOlder
      <2> QED
          BY <1>3, <2>4, <2>7 DEF OrderInv
<1> QED
    BY <1>5, <1>6 DEF Write, WriteSucceeds, WriteFails, Written

LEMMA StepOrder == HubInv /\ OwnInv /\ OrderInv /\ [Next]_vars => OrderInv'
<1> SUFFICES ASSUME HubInv, OwnInv, OrderInv, [Next]_vars PROVE OrderInv'
    OBVIOUS
<1>1. CASE UNCHANGED <<broadcast, sent, hub, audience, todo, message, received>>
      BY <1>1 DEF OrderInv, QueueOrdered, MessageOrdered, ReceivedOlder, Got,
                  Older, InOrder
<1>2. CASE \/ \E c \in Conns : Conn(c) \/ PeerGoes(c)
           \/ \E s \in Senders : Prepare(s)
           \/ TakeRegister \/ TakeUnregister
           \/ UNCHANGED vars
      <2>1. UNCHANGED <<broadcast, sent, hub, audience, todo, message, received>>
            BY <1>2
            DEF Conn, Upgrade, Register, ReadFails, Unregister, PeerGoes, Prepare,
                TakeRegister, TakeUnregister, vars, channelVars, mapVars,
                hubVars, connVars, senderVars
      <2> QED
          BY <1>1, <2>1
<1>3. CASE \E s \in Senders : Send(s)
      BY <1>3, SendOrder
<1>4. CASE TakeMessage
      BY <1>4, TakeMessageOrder
<1>5. CASE \E u \in Users : Visit(u)
      <2>1. PICK u \in Users : Visit(u)
            BY <1>5
      <2>2. /\ UNCHANGED <<broadcast, sent, message, received>>
            /\ hub = "deliver" /\ hub' = "write" /\ u \in audience
            /\ audience' = audience \ {u} /\ todo' = clients[u]
            BY <2>1 DEF Visit, channelVars, connVars, senderVars
      <2>3. \A c \in todo' : UserOf[c] = u
            BY <2>2 DEF OwnInv, OwnersOK
      <2>4. \A c \in Conns, n \in Nat : Older(c, n) => Older(c, n)'
            BY <2>2, <2>3 DEF Older
      <2>5. \A c \in Conns, n \in Nat : Got(c, n)' <=> Got(c, n)
            BY <2>2 DEF Got
      <2>6. QueueOrdered' /\ MessageOrdered' /\ InOrder'
            BY <2>2 DEF OrderInv, QueueOrdered, MessageOrdered, InOrder
      <2> QED
          BY <2>4, <2>5, <2>6 DEF OrderInv, ReceivedOlder
<1>6. CASE \E c \in Conns : Write(c)
      BY <1>6, WriteOrder
<1>7. CASE EndVisit \/ EndDelivery
      <2>1. /\ UNCHANGED <<broadcast, sent, audience, todo, received>>
            /\ hub # "select" /\ todo = {}
            /\ \/ hub' = "deliver" /\ message' = message
               \/ hub' = "select" /\ audience = {}
            BY <1>7 DEF EndVisit, EndDelivery, AfterDelivery, channelVars,
                        connVars, senderVars, HubInv, PhaseOK
      <2>2. \A c \in Conns, n \in Nat : Older(c, n) => Older(c, n)'
            BY <2>1 DEF Older
      <2>3. \A c \in Conns, n \in Nat : Got(c, n)' <=> Got(c, n)
            BY <2>1 DEF Got
      <2>4. QueueOrdered' /\ MessageOrdered' /\ InOrder'
            BY <2>1 DEF OrderInv, QueueOrdered, MessageOrdered, InOrder
      <2> QED
          BY <2>2, <2>3, <2>4 DEF OrderInv, ReceivedOlder
<1> QED
    BY <1>2, <1>3, <1>4, <1>5, <1>6, <1>7 DEF Next, Hub

LEMMA AlwaysOrder == Spec => []OrderInv
BY InitHub, StepHub, InitOwn, StepOwn, InitOrder, StepOrder, PTL DEF Spec

\* A peer gets messages in the order in which they entered h.Broadcast and none
\* of them twice: Run finishes a delivery before it takes the next message and
\* writes to every connection of an entry at most once.
THEOREM InOrderCorrect == Spec => []InOrder
BY AlwaysOrder, PTL DEF OrderInv

-----------------------------------------------------------------------------
(* No open connection is lost.  That the hub has or had a connection holds   *)
(* from its registration on, not only after its reader has ended; and that   *)
(* a removed connection comes back only if its unregistration overtook its   *)
(* registration must hold while the registration still waits.                *)

Met(c) == stage[c] \in {"reading", "leaving", "left"}
Reachable(c) ==
    c \in closed \/ c \in clients[UserOf[c]] \/ InQueue(c, register)
Ghost(c) ==
    Unregistered(c) /\ (c \in clients[UserOf[c]] \/ InQueue(c, register))

LossInv ==
    /\ \A c \in Conns : Met(c) => Reachable(c)
    /\ \A c \in Conns : Ghost(c) => c \in overtaken

LEMMA InitLoss == Init => LossInv
BY DEF Init, LossInv, Met, Ghost, Unregistered

LEMMA ConnLoss ==
    ASSUME HubInv, LossInv, NEW c \in Conns, Conn(c) \/ PeerGoes(c)
    PROVE  LossInv'
<1>1. UNCHANGED <<clients, closed, overtaken>>
      BY OutsideHub DEF mapVars
<1>2. stage \in [Conns -> Stages]
      BY DEF HubInv, TypeOK
<1>3. CASE Register(c)
      <2>1. /\ stage' = [stage EXCEPT ![c] = "reading"]
            /\ unregister' = unregister
            /\ \A d : InQueue(d, register') <=> InQueue(d, register) \/ d = c
            BY <1>3, QueueAppend DEF Register, HubInv, TypeOK
      <2>2. \A d \in Conns : Met(d)' => Reachable(d)'
            BY <1>1, <1>2, <2>1 DEF LossInv, Met, Reachable
      <2>3. \A d \in Conns : Ghost(d)' => Ghost(d)
            BY <1>1, <1>2, <2>1 DEF Ghost, Unregistered
      <2> QED
          BY <1>1, <2>2, <2>3 DEF LossInv
<1>4. CASE Unregister(c)
      <2>1. /\ stage[c] = "leaving" /\ stage' = [stage EXCEPT ![c] = "left"]
            /\ register' = register
            /\ \A d : InQueue(d, unregister') <=> InQueue(d, unregister) \/ d = c
            BY <1>4, QueueAppend DEF Unregister, HubInv, TypeOK
      <2>2. \A d \in Conns : Met(d)' => Met(d) /\ (Reachable(d)' <=> Reachable(d))
            BY <1>1, <1>2, <2>1 DEF Met, Reachable
      <2>3. \A d \in Conns : Ghost(d)' => Ghost(d)
            BY <1>1, <1>2, <2>1 DEF Ghost, Unregistered
      <2> QED
          BY <1>1, <2>2, <2>3 DEF LossInv
<1>5. CASE Upgrade(c) \/ ReadFails(c) \/ PeerGoes(c)
      <2>1. /\ UNCHANGED <<register, unregister>>
            /\ \/ stage' = stage
               \/ stage[c] = "new" /\ stage' = [stage EXCEPT ![c] = "offered"]
               \/ stage[c] = "reading" /\ stage' = [stage EXCEPT ![c] = "leaving"]
            BY <1>5 DEF Upgrade, ReadFails, PeerGoes, AfterReadError, channelVars
      <2>2. \A d \in Conns : /\ Met(d)' => Met(d)
                             /\ stage'[d] = "left" => stage[d] = "left"
            BY <1>2, <2>1 DEF Met
      <2>3. \A d \in Conns : Ghost(d)' => Ghost(d)
            BY <1>1, <2>1, <2>2 DEF Ghost, Unregistered
      <2>4. \A d \in Conns : Reachable(d)' <=> Reachable(d)
            BY <1>1, <2>1 DEF Reachable
      <2> QED
          BY <1>1, <2>2, <2>3, <2>4 DEF LossInv
<1> QED
    BY <1>3, <1>4, <1>5 DEF Conn

LEMMA TakeRegisterLoss ==
    ASSUME HubInv, LossInv, TakeRegister
    PROVE  LossInv'
<1>1. PICK c \in Conns :
          /\ clients' = [clients EXCEPT ![UserOf[c]] = @ \cup {c}]
          /\ \A d : InQueue(d, register) <=> d = c \/ InQueue(d, register')
      BY TakeRegisterHub
<1>2. UNCHANGED <<unregister, stage, closed, overtaken>>
      BY DEF TakeRegister, connVars
<1>3. clients \in [Users -> SUBSET Conns]
      BY DEF HubInv, TypeOK
<1>4. \A d \in Conns : d \in clients'[UserOf[d]] \/ InQueue(d, register')
                   <=> d \in clients[UserOf[d]] \/ InQueue(d, register)
      <2>1. ASSUME NEW d \in Conns
            PROVE  d \in clients'[UserOf[d]] <=> d \in clients[UserOf[d]] \/ d = c
            <3>1. UserOf[d] \in Users /\ UserOf[c] \in Users
                  OBVIOUS
            <3> QED
                BY <1>1, <1>3, <3>1
      <2> QED
          BY <1>1, <2>1
<1>5. \A d \in Conns : /\ Met(d)' <=> Met(d)
                       /\ Reachable(d)' <=> Reachable(d)
                       /\ Ghost(d)' <=> Ghost(d)
      BY <1>2, <1>4 DEF Met, Reachable, Ghost, Unregistered
<1> QED
    BY <1>2, <1>5 DEF LossInv

LEMMA TakeUnregisterLoss ==
    ASSUME HubInv, LossInv, TakeUnregister
    PROVE  LossInv'
<1>1. PICK c \in Conns :
          /\ \A d : InQueue(d, unregister) <=> d = c \/ InQueue(d, unregister')
          /\ \A u \in Users : clients'[u] \subseteq clients[u]
          /\ \A d \in Conns \ {c} :
                d \in clients[UserOf[d]] => d \in clients'[UserOf[d]]
          /\ c \in clients[UserOf[c]] => c \in closed'
          /\ c \notin clients'[UserOf[c]]
          /\ InQueue(c, register) => c \in overtaken'
          /\ closed \subseteq closed' /\ overtaken \subseteq overtaken'
      BY TakeUnregisterHub
<1>2. UNCHANGED <<register, stage>>
      BY DEF TakeUnregister
<1>3. \A d \in Conns : Met(d)' => Met(d) /\ (Reachable(d) => Reachable(d)')
      BY <1>1, <1>2 DEF Met, Reachable
<1>4. \A d \in Conns \ {c} : Ghost(d)' => Ghost(d)
      BY <1>1, <1>2 DEF Ghost, Unregistered
<1>5. Ghost(c)' => c \in overtaken'
      BY <1>1, <1>2 DEF Ghost, Unregistered
<1> QED
    BY <1>1, <1>3, <1>4, <1>5 DEF LossInv

LEMMA WriteLoss ==
    ASSUME HubInv, LossInv, NEW c \in Conns, Write(c)
    PROVE  LossInv'
<1>1. UNCHANGED <<register, unregister, stage, overtaken>>
      BY DEF Write, WriteSucceeds, WriteFails, channelVars
<1>2. clients \in [Users -> SUBSET Conns]
      BY DEF HubInv, TypeOK
<1>3. \/ UNCHANGED <<clients, closed>>
      \/ /\ clients' = [clients EXCEPT ![visiting] = @ \ {c}]
         /\ closed' = closed \cup {c}
      BY DEF Write, WriteSucceeds, WriteFails, Without, Closing, mapVars
<1>4. \A d \in Conns : /\ d \in clients'[UserOf[d]] => d \in clients[UserOf[d]]
                       /\ d \in clients[UserOf[d]] =>
                              d \in clients'[UserOf[d]] \/ d \in closed'
      BY <1>2, <1>3
<1>5. closed \subseteq closed'
      BY <1>3
<1>6. \A d \in Conns : Met(d)' => Met(d) /\ (Reachable(d) => Reachable(d)')
      BY <1>1, <1>4, <1>5 DEF Met, Reachable
<1>7. \A d \in Conns : Ghost(d)' => Ghost(d)
      BY <1>1, <1>4 DEF Ghost, Unregistered
<1> QED
    BY <1>1, <1>6, <1>7 DEF LossInv

LEMMA StepLoss == HubInv /\ LossInv /\ [Next]_vars => LossInv'
<1> SUFFICES ASSUME HubInv, LossInv, [Next]_vars PROVE LossInv'
    OBVIOUS
<1>1. CASE \/ \E s \in Senders : Prepare(s) \/ Send(s)
           \/ TakeMessage \/ (\E u \in Users : Visit(u))
           \/ EndVisit \/ EndDelivery \/ UNCHANGED vars
      <2>1. UNCHANGED <<register, unregister, clients, stage, closed, overtaken>>
            BY <1>1
            DEF Prepare, Send, TakeMessage, Visit, EndVisit, EndDelivery, vars,
                channelVars, mapVars, connVars
      <2> QED
          BY <2>1 DEF LossInv, Met, Reachable, Ghost, Unregistered
<1>2. CASE \E c \in Conns : Conn(c) \/ PeerGoes(c)
      BY <1>2, ConnLoss
<1>3. CASE TakeRegister
      BY <1>3, TakeRegisterLoss
<1>4. CASE TakeUnregister
      BY <1>4, TakeUnregisterLoss
<1>5. CASE \E c \in Conns : Write(c)
      BY <1>5, WriteLoss
<1> QED
    BY <1>1, <1>2, <1>3, <1>4, <1>5 DEF Next, Hub

LEMMA AlwaysLoss == Spec => []LossInv
BY InitHub, StepHub, InitLoss, StepLoss, PTL DEF Spec

\* A connection whose unregistration the hub has handled is closed, or can still
\* be closed by it: Run skips a connection without an entry, but then it was
\* closed by a failed write or its registration is still to come.
THEOREM ClosedOrKnownCorrect == Spec => []ClosedOrKnown
<1>1. LossInv => ClosedOrKnown
      BY DEF LossInv, Met, Reachable, ClosedOrKnown, Unregistered
<1> QED
    BY <1>1, AlwaysLoss, PTL

\* A connection is in the map after its unregistration was handled only if the
\* select of Run took that before the registration.
THEOREM GhostsOvertookCorrect == Spec => []GhostsOvertook
<1>1. LossInv => GhostsOvertook
      BY DEF LossInv, Ghost, GhostsOvertook
<1> QED
    BY <1>1, AlwaysLoss, PTL
=============================================================================
