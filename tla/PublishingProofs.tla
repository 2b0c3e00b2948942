-------------------------- MODULE PublishingProofs --------------------------
(***************************************************************************)
(* Proofs about Publishing for every number of connections, messages and   *)
(* packet identifiers: its steps are steps of the connections underneath;  *)
(* with and without takeovers, a QoS 1 message that is acknowledged was    *)
(* routed; when no client connects before its last connection is over, a   *)
(* QoS 2 message is routed exactly once.                                   *)
(***************************************************************************)
EXTENDS Publishing, BrokerSessionsProofs

Packets(q) == {q[i] : i \in 1..Len(q)}

\* No packet identifier comes twice in a sequence of packets.
DistinctIds(q) ==
    \A i, j \in 1..Len(q) : q[i].id = q[j].id /\ q[i].id # None => i = j

Reached(m) == routed[m] > 0 \/ Pending(m)

\* A connection without an accepted CONNECT has carried nothing.
Fresh ==
    \A h \in Conns :
        cid[h] = None =>
            /\ toBroker[h] = <<>> /\ toClient[h] = <<>> /\ rest[h] = None
            /\ current # h
            /\ \A m \in Messages : sentOn[m] # h

\* No two unfinished messages of the client have one packet identifier.
Identified ==
    /\ \A m \in Unfinished :
          /\ packetId[m] \in PacketIds
          /\ QoSOf[m] # 0
          /\ phase[m] = "release" => QoSOf[m] = 2
    /\ \A m, n \in Unfinished : packetId[m] = packetId[n] => m = n

\* What a client writes.
Written ==
    \A h \in Conns : \A p \in Packets(toBroker[h]) :
        \/ /\ p.type = "PUBLISH" /\ p.msg \in Messages
           /\ IF QoSOf[p.msg] = 0 THEN p.id = None ELSE p.id \in PacketIds
        \/ p.type = "PUBREL" /\ p.id \in PacketIds

\* The packet p is on its way for an unfinished message, in its phase.
Asked(p) ==
    \E m \in Unfinished :
        /\ packetId[m] = p.id /\ sentOn[m] = current
        /\ IF phase[m] = "publish" THEN p.type = "PUBLISH" /\ p.msg = m
                                   ELSE p.type = "PUBREL"

\* The answer a is on its way back for an unfinished message, in its phase.
Answered(a) ==
    \E m \in Unfinished :
        /\ packetId[m] = a.id /\ sentOn[m] = current
        /\ \/ a.type = "PUBACK" /\ QoSOf[m] = 1 /\ Reached(m)
           \/ a.type = "PUBREC" /\ QoSOf[m] = 2 /\ phase[m] = "publish"
           \/ a.type = "PUBCOMP" /\ phase[m] = "release"

\* On the connection the client uses each identifier is under way once, as a
\* packet or as its answer.
InFlight ==
    current # None =>
        /\ DistinctIds(toBroker[current]) /\ DistinctIds(toClient[current])
        /\ \A p \in Packets(toBroker[current]) : p.id # None => Asked(p)
        /\ \A a \in Packets(toClient[current]) : Answered(a)
        /\ \A p \in Packets(toBroker[current]), a \in Packets(toClient[current]) :
              p.id # a.id

AtLeastOnce ==
    \A m \in Messages : phase[m] = "done" /\ QoSOf[m] = 1 => Reached(m)

PInv ==
    /\ PublishingTypeOK
    /\ Fresh
    /\ Identified
    /\ Written
    /\ InFlight
    /\ AtLeastOnce

-----------------------------------------------------------------------------
(***************************************************************************)
(* Sequences of packets.                                                   *)
(***************************************************************************)
LEMMA TailOfPackets ==
    ASSUME NEW q \in Seq(Packet), q # <<>>
    PROVE  /\ Tail(q) \in Seq(Packet) /\ Head(q) \in Packet /\ Head(q) \in Packets(q)
           /\ Packets(Tail(q)) \subseteq Packets(q)
           /\ DistinctIds(q) =>
                 /\ DistinctIds(Tail(q))
                 /\ \A p \in Packets(Tail(q)) : p.id # None => p.id # Head(q).id
<1>1. /\ Len(q) \in Nat \ {0} /\ Len(Tail(q)) = Len(q) - 1
      /\ \A i \in 1..Len(Tail(q)) : Tail(q)[i] = q[i + 1]
      /\ Tail(q) \in Seq(Packet) /\ Head(q) = q[1] /\ Head(q) \in Packet
    OBVIOUS
<1>2. Packets(Tail(q)) \subseteq Packets(q) /\ Head(q) \in Packets(q)
    BY <1>1 DEF Packets
<1>3. ASSUME DistinctIds(q)
      PROVE  /\ DistinctIds(Tail(q))
             /\ \A p \in Packets(Tail(q)) : p.id # None => p.id # Head(q).id
    <2>1. DistinctIds(Tail(q))
        BY <1>1, <1>3 DEF DistinctIds
    <2>2. ASSUME NEW i \in 1..Len(Tail(q)), Tail(q)[i].id # None
          PROVE  Tail(q)[i].id # Head(q).id
        BY <1>1, <1>3, <2>2 DEF DistinctIds
    <2> QED
        BY <2>1, <2>2 DEF Packets
<1> QED
    BY <1>1, <1>2, <1>3

LEMMA AppendToPackets ==
    ASSUME NEW q \in Seq(Packet), NEW e \in Packet
    PROVE  /\ Append(q, e) \in Seq(Packet)
           /\ Packets(Append(q, e)) = Packets(q) \cup {e}
           /\ DistinctIds(q) /\ (e.id # None => \A p \in Packets(q) : p.id # e.id)
                 => DistinctIds(Append(q, e))
<1>1. /\ Len(q) \in Nat /\ Len(Append(q, e)) = Len(q) + 1
      /\ Append(q, e) \in Seq(Packet)
      /\ \A i \in 1..Len(q) : Append(q, e)[i] = q[i]
      /\ Append(q, e)[Len(q) + 1] = e
    OBVIOUS
<1>2. Packets(Append(q, e)) = Packets(q) \cup {e}
    BY <1>1 DEF Packets
<1>3. ASSUME DistinctIds(q), e.id # None => \A p \in Packets(q) : p.id # e.id
      PROVE  DistinctIds(Append(q, e))
    BY <1>1, <1>3 DEF DistinctIds, Packets
<1> QED
    BY <1>1, <1>2, <1>3

LEMMA NoPackets == Packets(<<>>) = {} /\ DistinctIds(<<>>)
    BY DEF Packets, DistinctIds

-----------------------------------------------------------------------------
(***************************************************************************)
(* The connections underneath.                                             *)
(***************************************************************************)
\* The task of a handler goes on, or leaves its loop.
LEMMA ContinueIsAStep ==
    ASSUME NEW h \in Conns, pc[h] = "loop",
           Continue(h, subs, object) \/ Finish(h, subs, object),
           UNCHANGED <<cid, mine, kick, willsSent, brought>>
    PROVE  [Next]_vars
<1>1. CASE Finish(h, subs, object)
    <2>1. LeaveLoop(h)
        BY <1>1 DEF LeaveLoop
    <2> QED
        BY <2>1 DEF Next, Handler
<1>2. CASE connected[h] /\ Continue(h, subs, object)
    BY <1>2 DEF Continue, vars
<1> QED
    BY <1>1, <1>2 DEF Continue

LEMMA PublishingStep ==
    ASSUME PublishingTypeOK, PublishingNext
    PROVE  [Next]_vars
<1>1. ASSUME NEW m \in Messages, NEW i \in PacketIds, Publish(m, i)
      PROVE  UNCHANGED vars
    BY <1>1 DEF Publish
<1>2. ASSUME NEW m \in Messages, SendAgain(m) PROVE UNCHANGED vars
    BY <1>2 DEF SendAgain
<1>3. CASE ReadAck
    BY <1>3 DEF ReadAck
<1>4. ASSUME NEW h \in Conns, HandlePublish0(h) PROVE [Next]_vars
    BY <1>4, ContinueIsAStep DEF HandlePublish0, CanHandle, CanRead
<1>5. ASSUME NEW h \in Conns, HandlePublish1(h) PROVE UNCHANGED vars
    BY <1>5 DEF HandlePublish1
<1>6. ASSUME NEW h \in Conns, HandlePublish2(h) PROVE [Next]_vars
    BY <1>6, ContinueIsAStep DEF HandlePublish2, CanHandle, CanRead, ContinueAfterSend
<1>7. ASSUME NEW h \in Conns, HandlePubrel(h) PROVE [Next]_vars
    BY <1>7, ContinueIsAStep DEF HandlePubrel, CanHandle, CanRead, ContinueAfterSend
<1>8. ASSUME NEW h \in Conns, RouteRest(h) PROVE [Next]_vars
    BY <1>8, ContinueIsAStep DEF RouteRest, ContinueAfterSend, PublishingTypeOK
<1>9. ASSUME NEW h \in Conns, NEW o \in ConnectOptions, NEW broken \in BOOLEAN,
             ConnectClient(h, o, broken)
      PROVE  Next
    <2>1. Connect(h, Publisher, o, broken) /\ Publisher \in Clients
        BY <1>9, MessageAssumption DEF ConnectClient
    <2> QED
        BY <2>1, Zenon DEF Next, Handler
<1>10. ASSUME NEW h \in Conns, NEW f \in Filters, SubscribeClient(h, f) PROVE Next
    <2>1. PICK fails \in BOOLEAN : Subscribe(h, f, fails)
        BY <1>10 DEF SubscribeClient
    <2> QED
        BY <2>1, Zenon DEF Next, Handler
<1>11. ASSUME NEW h \in Conns, Lifecycle(h) PROVE Next
    BY <1>11, Zenon DEF Lifecycle, Next, Handler
<1> QED
    BY <1>1, <1>2, <1>3, <1>4, <1>5, <1>6, <1>7, <1>8, <1>9, <1>10, <1>11
       DEF PublishingNext

(***************************************************************************)
(* What every step but a CONNECT leaves of the connections: a handler      *)
(* keeps its client and its session, a stored session stays or is          *)
(* discarded, and a task in a send stays in its loop.                      *)
(***************************************************************************)
Onward ==
    /\ UNCHANGED <<cid, mine>>
    /\ \A c \in Clients : sessions'[c] \in {sessions[c], None}
    /\ \A g \in Conns :
          /\ pc'[g] = "connack" => pc[g] = "connack"
          /\ pc'[g] = "loop" => pc[g] \in {"connack", "loop"}
          /\ rest'[g] # None => pc'[g] = "loop"

LEMMA TeardownKeepsOthers ==
    ASSUME TypeOK, NEW h \in Conns, NEW clean, NEW table, NEW objs,
           Teardown(h, clean, table, objs)
    PROVE  \A c \in Clients : sessions'[c] \in {sessions[c], None}
    BY DEF Teardown, TypeOK

LEMMA ContinueGoesOnward ==
    ASSUME TypeOK, PublishingTypeOK, NEW h \in Conns, pc[h] = "loop",
           NEW table, NEW objs,
           Continue(h, table, objs) \/ Finish(h, table, objs),
           rest' = [rest EXCEPT ![h] = None],
           UNCHANGED <<cid, mine>>
    PROVE  Onward
<1>1. \A g \in Conns : rest'[g] # None => g # h /\ rest[g] # None
    BY DEF PublishingTypeOK
<1>2. CASE Finish(h, table, objs)
    <2>1. \A c \in Clients : sessions'[c] \in {sessions[c], None}
        BY <1>2, TeardownKeepsOthers DEF Finish
    <2>2. pc' = [pc EXCEPT ![h] = "final"]
        BY <1>2 DEF Finish
    <2> QED
        BY <1>1, <2>1, <2>2 DEF Onward, PublishingTypeOK, Sending, TypeOK
<1>3. CASE connected[h] /\ Continue(h, table, objs)
    <2>1. UNCHANGED <<pc, sessions>>
        BY <1>3 DEF Continue
    <2> QED
        BY <1>1, <2>1 DEF Onward, PublishingTypeOK, Sending
<1> QED
    BY <1>2, <1>3 DEF Continue

LEMMA LifecycleGoesOnward ==
    ASSUME TypeOK, PublishingTypeOK, NEW h \in Conns, Lifecycle(h)
    PROVE  Onward /\ UNCHANGED flow
<1>1. UNCHANGED flow /\ UNCHANGED rest /\ \A g \in Conns : rest[g] # None => pc[g] = "loop"
    BY DEF Lifecycle, flow, PublishingTypeOK, Sending
<1>2. CASE Accept(h) \/ Reject(h) \/ Connacked(h) \/ SendFails(h) \/ Closed(h)
    <2>1. /\ UNCHANGED <<cid, mine, sessions>>
          /\ \A g \in Conns \ {h} : pc'[g] = pc[g]
          /\ \/ pc[h] = "loop" /\ pc'[h] = "loop"
             \/ pc[h] = "connack" /\ pc'[h] = "loop"
             \/ pc[h] # "loop" /\ pc'[h] \notin {"connack", "loop"}
        BY <1>2 DEF Accept, Reject, Connacked, SendFails, Closed, TypeOK
    <2> QED
        BY <1>1, <2>1 DEF Onward
<1>3. CASE KickTask(h)
    <2>1. /\ UNCHANGED <<cid, mine, pc>>
          /\ \A c \in Clients : sessions'[c] \in {sessions[c], None}
        BY <1>3, TeardownKeepsOthers DEF KickTask
    <2> QED
        BY <1>1, <2>1 DEF Onward
<1>4. CASE DisconnectClosed(h) \/ (~Sending(h) /\ (LeaveLoop(h) \/ Disconnect(h, TRUE)))
    <2>1. /\ UNCHANGED <<cid, mine>>
          /\ \A c \in Clients : sessions'[c] \in {sessions[c], None}
        BY <1>4, TeardownKeepsOthers
           DEF DisconnectClosed, LeaveLoop, Disconnect, Finish
    <2>2. /\ rest[h] = None
          /\ pc'[h] \in {"disconnecting", "final"} /\ \A g \in Conns \ {h} : pc'[g] = pc[g]
        BY <1>1, <1>4 DEF DisconnectClosed, LeaveLoop, Disconnect, Finish, TypeOK, Sending
    <2> QED
        BY <1>1, <2>1, <2>2 DEF Onward
<1> QED
    BY <1>1, <1>2, <1>3, <1>4 DEF Lifecycle

LEMMA SubscribeGoesOnward ==
    ASSUME TypeOK, PublishingTypeOK, NEW h \in Conns, NEW f \in Filters,
           SubscribeClient(h, f)
    PROVE  Onward /\ UNCHANGED flow
<1>1. UNCHANGED flow /\ rest' = [rest EXCEPT ![h] = None]
    BY DEF SubscribeClient, flow, PublishingTypeOK, Sending
<1>2. /\ pc[h] = "loop" /\ UNCHANGED <<cid, mine>>
      /\ \E table, objs : Continue(h, table, objs) \/ Finish(h, table, objs)
    BY DEF SubscribeClient, Subscribe, CanRead
<1> QED
    BY <1>1, <1>2, ContinueGoesOnward

-----------------------------------------------------------------------------
(***************************************************************************)
(* The initial states, and what the steps have in common.                  *)
(***************************************************************************)
LEMMA InitPInv == PublishingInit => PInv
<1> SUFFICES ASSUME PublishingInit PROVE PInv
    OBVIOUS
<1> USE MessageAssumption, ConstantsAssumption DEF PublishingInit, Init
<1>1. PublishingTypeOK
    BY DEF PublishingTypeOK, Sending
<1>2. Fresh /\ Identified /\ InFlight /\ AtLeastOnce
    BY DEF Fresh, Identified, InFlight, AtLeastOnce, Unfinished
<1>3. Written
    BY NoPackets DEF Written
<1> QED
    BY <1>1, <1>2, <1>3 DEF PInv

\* What is under way belongs to an unfinished message sent on this connection.
LEMMA UnderWay ==
    ASSUME PInv, current # None,
           NEW p \in Packets(toBroker[current]) \cup Packets(toClient[current]),
           p.id # None
    PROVE  \E m \in Unfinished : packetId[m] = p.id /\ sentOn[m] = current
    BY DEF PInv, InFlight, Asked, Answered

\* The messages a step does not concern keep their packets and answers.
LEMMA OthersUnderWay ==
    ASSUME NEW m \in Messages,
           \A n \in Messages \ {m} :
               phase'[n] = phase[n] /\ packetId'[n] = packetId[n] /\ sentOn'[n] = sentOn[n],
           current' = current,
           \A n \in Messages : Reached(n) => Reached(n)',
           NEW p, m \in Unfinished => packetId[m] # p.id
    PROVE  (Asked(p) => Asked(p)') /\ (Answered(p) => Answered(p)')
<1>1. \A n \in Unfinished : packetId[n] = p.id => n # m /\ n \in Unfinished'
    BY DEF Unfinished
<1>2. Asked(p) => Asked(p)'
    <2> SUFFICES ASSUME Asked(p) PROVE Asked(p)'
        OBVIOUS
    <2>1. PICK n \in Unfinished :
              /\ packetId[n] = p.id /\ sentOn[n] = current
              /\ IF phase[n] = "publish" THEN p.type = "PUBLISH" /\ p.msg = n
                                         ELSE p.type = "PUBREL"
        BY DEF Asked
    <2>2. n \in Messages \ {m} /\ n \in Unfinished'
        BY <1>1, <2>1 DEF Unfinished
    <2> QED
        BY <2>1, <2>2 DEF Asked
<1>3. Answered(p) => Answered(p)'
    <2> SUFFICES ASSUME Answered(p) PROVE Answered(p)'
        OBVIOUS
    <2>1. PICK n \in Unfinished :
              /\ packetId[n] = p.id /\ sentOn[n] = current
              /\ \/ p.type = "PUBACK" /\ QoSOf[n] = 1 /\ Reached(n)
                 \/ p.type = "PUBREC" /\ QoSOf[n] = 2 /\ phase[n] = "publish"
                 \/ p.type = "PUBCOMP" /\ phase[n] = "release"
        BY DEF Answered
    <2>2. n \in Messages \ {m} /\ n \in Unfinished'
        BY <1>1, <2>1 DEF Unfinished
    <2>3. Reached(n) => Reached(n)'
        BY <2>2
    <2> QED
        BY <2>1, <2>2, <2>3 DEF Answered
<1> QED
    BY <1>2, <1>3

\* The broker reads a packet and sends the answer a, or nothing.
LEMMA ReadingKeepsFlow ==
    ASSUME PInv, NEW h \in Conns, cid[h] # None, toBroker[h] # <<>>,
           toBroker' = [toBroker EXCEPT ![h] = Tail(@)],
           NEW a \in Packet, a.id = Head(toBroker[h]).id,
           \/ toClient' = toClient
           \/ /\ toClient' = [toClient EXCEPT ![h] = Append(@, a)]
              /\ a.id # None
              /\ h = current => Answered(a)',
           \A n \in Messages : Reached(n) => Reached(n)',
           \A g \in Conns \ {h} : rest'[g] = rest[g],
           UNCHANGED <<cid, client>>
    PROVE  /\ toBroker' \in [Conns -> Seq(Packet)] /\ toClient' \in [Conns -> Seq(Packet)]
           /\ Fresh' /\ Identified' /\ Written' /\ InFlight' /\ AtLeastOnce'
<1> USE DEF PInv
<1>1. UNCHANGED <<cid, current, phase, packetId, sentOn>>
    BY DEF client
<1>2. toBroker[h] \in Seq(Packet) /\ toClient[h] \in Seq(Packet)
    BY DEF PublishingTypeOK
<1>3. /\ Tail(toBroker[h]) \in Seq(Packet)
      /\ Head(toBroker[h]) \in Packets(toBroker[h])
      /\ Packets(Tail(toBroker[h])) \subseteq Packets(toBroker[h])
      /\ DistinctIds(toBroker[h]) =>
            /\ DistinctIds(Tail(toBroker[h]))
            /\ \A p \in Packets(Tail(toBroker[h])) :
                  p.id # None => p.id # Head(toBroker[h]).id
    BY <1>2, TailOfPackets
<1>4. /\ Append(toClient[h], a) \in Seq(Packet)
      /\ Packets(Append(toClient[h], a)) = Packets(toClient[h]) \cup {a}
      /\ DistinctIds(toClient[h]) /\ (a.id # None => \A p \in Packets(toClient[h]) : p.id # a.id)
            => DistinctIds(Append(toClient[h], a))
    BY <1>2, AppendToPackets
<1>5. /\ toBroker' \in [Conns -> Seq(Packet)] /\ toClient' \in [Conns -> Seq(Packet)]
      /\ toBroker'[h] = Tail(toBroker[h])
      /\ \A g \in Conns \ {h} : toBroker'[g] = toBroker[g] /\ toClient'[g] = toClient[g]
      /\ \/ toClient'[h] = toClient[h]
         \/ /\ toClient'[h] = Append(toClient[h], a)
            /\ a.id # None
            /\ h = current => Answered(a)'
    BY <1>2, <1>3, <1>4 DEF PublishingTypeOK
<1>6. Fresh'
    BY <1>1, <1>5 DEF Fresh
<1>7. Identified' /\ AtLeastOnce'
    BY <1>1 DEF Identified, AtLeastOnce, Unfinished
<1>8. Written'
    <2>1. \A g \in Conns : Packets(toBroker'[g]) \subseteq Packets(toBroker[g])
        BY <1>3, <1>5
    <2> QED
        BY <2>1 DEF Written
<1>9. \A p : (Asked(p) => Asked(p)') /\ (Answered(p) => Answered(p)')
    <2> TAKE p
    <2>1. Unfinished' = Unfinished
        BY <1>1 DEF Unfinished
    <2>2. Asked(p) => Asked(p)'
        BY <1>1, <2>1 DEF Asked
    <2>3. Answered(p) => Answered(p)'
        BY <1>1, <2>1 DEF Answered, Unfinished
    <2> QED
        BY <2>2, <2>3
<1>10. InFlight'
    <2> SUFFICES ASSUME current # None
                 PROVE  /\ DistinctIds(toBroker'[current]) /\ DistinctIds(toClient'[current])
                        /\ \A p \in Packets(toBroker'[current]) : p.id # None => Asked(p)'
                        /\ \A b \in Packets(toClient'[current]) : Answered(b)'
                        /\ \A p \in Packets(toBroker'[current]),
                              b \in Packets(toClient'[current]) : p.id # b.id
        BY <1>1 DEF InFlight
    <2>1. /\ DistinctIds(toBroker[current]) /\ DistinctIds(toClient[current])
          /\ \A p \in Packets(toBroker[current]) : p.id # None => Asked(p)
          /\ \A b \in Packets(toClient[current]) : Answered(b)
          /\ \A p \in Packets(toBroker[current]), b \in Packets(toClient[current]) :
                p.id # b.id
        BY DEF InFlight
    <2>2. CASE current # h
        <3>1. current \in Conns \ {h}
            BY <2>2 DEF PublishingTypeOK
        <3>2. toBroker'[current] = toBroker[current] /\ toClient'[current] = toClient[current]
            BY <1>5, <3>1
        <3> QED
            BY <1>9, <2>1, <3>2
    <2>3. CASE current = h /\ toClient'[h] = toClient[h]
        BY <1>3, <1>5, <1>9, <2>1, <2>3
    <2>4. CASE current = h /\ toClient'[h] # toClient[h]
        <3>1. /\ toClient'[h] = Append(toClient[h], a) /\ a.id # None /\ Answered(a)'
              /\ \A b \in Packets(toClient[h]) : b.id # a.id
              /\ \A p \in Packets(Tail(toBroker[h])) : p.id # a.id
            BY <1>3, <1>5, <2>1, <2>4
        <3>2. DistinctIds(toClient'[h]) /\ Packets(toClient'[h]) = Packets(toClient[h]) \cup {a}
            BY <1>4, <2>1, <2>4, <3>1
        <3> QED
            BY <1>3, <1>5, <1>9, <2>1, <2>4, <3>1, <3>2
    <2> QED
        BY <2>2, <2>3, <2>4
<1> QED
    BY <1>5, <1>6, <1>7, <1>8, <1>10

-----------------------------------------------------------------------------
(***************************************************************************)
(* The broker.                                                             *)
(***************************************************************************)
LEMMA NextPacket ==
    ASSUME TypeOK, PInv, NEW h \in Conns, NEW type, CanHandle(h, type)
    PROVE  /\ pc[h] = "loop" /\ rest[h] = None /\ toBroker[h] # <<>>
           /\ cid[h] \in Clients /\ cid[h] # None
           /\ Head(toBroker[h]) \in Packet /\ Head(toBroker[h]).type = type
           /\ type = "PUBLISH" =>
                 /\ Head(toBroker[h]).msg \in Messages
                 /\ QoSOf[Head(toBroker[h]).msg] # 0 => Head(toBroker[h]).id \in PacketIds
           /\ type = "PUBREL" => Head(toBroker[h]).id \in PacketIds
           /\ h = current /\ Head(toBroker[h]).id # None => Asked(Head(toBroker[h]))
<1>1. /\ pc[h] = "loop" /\ rest[h] = None /\ toBroker[h] # <<>>
      /\ Head(toBroker[h]).type = type
    BY DEF CanHandle, CanRead, Sending
<1>2. cid[h] \in Clients /\ cid[h] # None
    BY <1>1, ConstantsAssumption DEF TypeOK
<1>3. Head(toBroker[h]) \in Packet /\ Head(toBroker[h]) \in Packets(toBroker[h])
    BY <1>1, TailOfPackets DEF PInv, PublishingTypeOK
<1>4. /\ type = "PUBLISH" =>
            /\ Head(toBroker[h]).msg \in Messages
            /\ QoSOf[Head(toBroker[h]).msg] # 0 => Head(toBroker[h]).id \in PacketIds
      /\ type = "PUBREL" => Head(toBroker[h]).id \in PacketIds
    BY <1>1, <1>3 DEF PInv, Written
<1>5. h = current /\ Head(toBroker[h]).id # None => Asked(Head(toBroker[h]))
    BY <1>3, ConstantsAssumption DEF PInv, InFlight
<1> QED
    BY <1>1, <1>2, <1>3, <1>4, <1>5

\* The handler holds a message it routes after the send, and none is forgotten.
LEMMA StaysReached ==
    ASSUME PublishingTypeOK, NEW h \in Conns, NEW m \in Messages \cup {None}, rest[h] = None,
           rest' = [rest EXCEPT ![h] = m],
           routed' \in [Messages -> Nat],
           \A n \in Messages : routed'[n] >= routed[n]
    PROVE  /\ \A n \in Messages : Reached(n) => Reached(n)'
           /\ m # None => Reached(m)'
<1>1. \A n \in Messages : Pending(n) => Pending(n)'
    <2> SUFFICES ASSUME NEW n \in Messages, NEW g \in Conns, rest[g] = n PROVE rest'[g] = n
        BY DEF Pending
    <2> QED
        BY MessageAssumption
<1>2. m # None => Pending(m)'
    BY DEF Pending, PublishingTypeOK
<1>3. \A n \in Messages : routed[n] > 0 => routed'[n] > 0
    <2> TAKE n \in Messages
    <2>1. routed[n] \in Nat /\ routed'[n] \in Nat /\ routed'[n] >= routed[n]
        BY DEF PublishingTypeOK
    <2> QED
        BY <2>1
<1> QED
    BY <1>1, <1>2, <1>3 DEF Reached

LEMMA OnceMore ==
    ASSUME NEW count \in [Messages -> Nat], NEW m \in Messages
    PROVE  /\ [count EXCEPT ![m] = @ + 1] \in [Messages -> Nat]
           /\ \A n \in Messages : [count EXCEPT ![m] = @ + 1][n] >= count[n]
<1> SUFFICES ASSUME NEW n \in Messages
             PROVE  /\ [count EXCEPT ![m] = @ + 1] \in [Messages -> Nat]
                    /\ [count EXCEPT ![m] = @ + 1][n] >= count[n]
    OBVIOUS
<1>1. count[n] \in Nat /\ count[n] + 1 >= count[n]
    OBVIOUS
<1>2. [count EXCEPT ![m] = @ + 1][n] = IF n = m THEN count[n] + 1 ELSE count[n]
    OBVIOUS
<1> QED
    BY <1>1, <1>2

LEMMA AnswerIs ==
    ASSUME NEW h \in Conns, NEW type, NEW i, Answer(h, type, i)
    PROVE  \/ toClient' = toClient
           \/ toClient' = [toClient EXCEPT ![h] =
                              Append(@, [type |-> type, id |-> i, msg |-> None])]
    BY DEF Answer

LEMMA RetainedStays ==
    ASSUME PublishingTypeOK, NEW m \in Messages
    PROVE  RetainedAfter(m) \in Messages \cup {None, Tombstone}
    BY DEF RetainedAfter, PublishingTypeOK

LEMMA HandlePublish0KeepsPInv ==
    ASSUME TypeOK, PInv, NEW h \in Conns, HandlePublish0(h)
    PROVE  PInv' /\ Onward
<1> DEFINE p == Head(toBroker[h])
<1>1. /\ CanHandle(h, "PUBLISH")
      /\ toBroker' = [toBroker EXCEPT ![h] = Tail(@)]
      /\ retained' = RetainedAfter(p.msg)
      /\ routed' = [routed EXCEPT ![p.msg] = @ + 1]
      /\ Continue(h, subs, object)
      /\ UNCHANGED <<cid, mine, kick, willsSent, brought>>
      /\ UNCHANGED <<held, rest, toClient, client>>
    BY DEF HandlePublish0, Routed
<1>2. /\ pc[h] = "loop" /\ rest[h] = None /\ toBroker[h] # <<>> /\ cid[h] # None
      /\ p \in Packet /\ p.msg \in Messages
    BY <1>1, NextPacket
<1>3. rest' = [rest EXCEPT ![h] = None]
    BY <1>1, <1>2 DEF PInv, PublishingTypeOK
<1>4. Onward
    BY <1>1, <1>2, <1>3, ContinueGoesOnward DEF PInv
<1>5. routed' \in [Messages -> Nat] /\ \A n \in Messages : routed'[n] >= routed[n]
    BY <1>1, <1>2, OnceMore DEF PInv, PublishingTypeOK
<1>6. \A n \in Messages : Reached(n) => Reached(n)'
    BY <1>2, <1>3, <1>5, StaysReached DEF PInv
<1>7. /\ toBroker' \in [Conns -> Seq(Packet)] /\ toClient' \in [Conns -> Seq(Packet)]
      /\ Fresh' /\ Identified' /\ Written' /\ InFlight' /\ AtLeastOnce'
    BY <1>1, <1>2, <1>6, ReadingKeepsFlow
<1>8. PublishingTypeOK'
    BY <1>1, <1>2, <1>4, <1>5, <1>7, RetainedStays
       DEF PInv, PublishingTypeOK, Onward, Sending, client
<1> QED
    BY <1>4, <1>7, <1>8 DEF PInv

LEMMA HandlePublish1KeepsPInv ==
    ASSUME TypeOK, PInv, NEW h \in Conns, HandlePublish1(h)
    PROVE  PInv' /\ Onward
<1> PICK p : p = Head(toBroker[h])
    OBVIOUS
<1> DEFINE a == [type |-> "PUBACK", id |-> p.id, msg |-> None]
<1>1. /\ CanHandle(h, "PUBLISH") /\ QoSOf[p.msg] = 1
      /\ toBroker' = [toBroker EXCEPT ![h] = Tail(@)]
      /\ rest' = [rest EXCEPT ![h] = p.msg]
      /\ UNCHANGED vars /\ UNCHANGED <<held, routed, retained, client>>
    BY DEF HandlePublish1
<1>2. /\ pc[h] = "loop" /\ rest[h] = None /\ toBroker[h] # <<>> /\ cid[h] # None
      /\ p \in Packet /\ p.msg \in Messages /\ p.id \in PacketIds /\ p.id # None
      /\ p.type = "PUBLISH"
      /\ h = current => Asked(p)
    BY <1>1, NextPacket, MessageAssumption
<1>3. Onward
    BY <1>1, <1>2 DEF Onward, vars, PInv, PublishingTypeOK, Sending
<1>4. (\A n \in Messages : Reached(n) => Reached(n)') /\ Reached(p.msg)'
    <2>1. routed' = routed /\ routed \in [Messages -> Nat]
        BY <1>1 DEF PInv, PublishingTypeOK
    <2>2. routed' \in [Messages -> Nat] /\ \A n \in Messages : routed'[n] >= routed[n]
        BY <2>1
    <2> QED
        BY <1>1, <1>2, <2>2, StaysReached, MessageAssumption DEF PInv
<1>5. h = current => Answered(a)'
    <2> SUFFICES ASSUME h = current PROVE Answered(a)'
        OBVIOUS
    <2>1. PICK m \in Unfinished :
              /\ packetId[m] = p.id /\ sentOn[m] = current
              /\ IF phase[m] = "publish" THEN p.type = "PUBLISH" /\ p.msg = m
                                         ELSE p.type = "PUBREL"
        BY <1>2 DEF Asked
    <2>2. m = p.msg
        BY <1>2, <2>1
    <2>3. m \in Unfinished' /\ packetId'[m] = a.id /\ sentOn'[m] = current'
        BY <1>1, <2>1 DEF client, Unfinished
    <2> QED
        BY <1>1, <1>4, <2>2, <2>3 DEF Answered
<1>6. toClient' = toClient \/ toClient' = [toClient EXCEPT ![h] = Append(@, a)]
    BY AnswerIs DEF HandlePublish1
<1>7. a \in Packet /\ a.id = p.id
    BY <1>2, MessageAssumption DEF Packet
<1>8. cid' = cid /\ \A g \in Conns \ {h} : rest'[g] = rest[g]
    BY <1>1 DEF vars, PInv, PublishingTypeOK
<1> HIDE DEF a
<1>9. /\ toBroker' \in [Conns -> Seq(Packet)] /\ toClient' \in [Conns -> Seq(Packet)]
      /\ Fresh' /\ Identified' /\ Written' /\ InFlight' /\ AtLeastOnce'
    BY <1>1, <1>2, <1>4, <1>5, <1>6, <1>7, <1>8, ReadingKeepsFlow
<1>10. PublishingTypeOK'
    BY <1>1, <1>2, <1>3, <1>9
       DEF PInv, PublishingTypeOK, Onward, Sending, client
<1> QED
    BY <1>3, <1>9, <1>10 DEF PInv

LEMMA HandlePublish2KeepsPInv ==
    ASSUME TypeOK, PInv, NEW h \in Conns, HandlePublish2(h)
    PROVE  PInv' /\ Onward
<1> PICK p : p = Head(toBroker[h])
    OBVIOUS
<1> DEFINE a == [type |-> "PUBREC", id |-> p.id, msg |-> None]
<1>1. /\ CanHandle(h, "PUBLISH") /\ QoSOf[p.msg] = 2
      /\ toBroker' = [toBroker EXCEPT ![h] = Tail(@)]
      /\ StoreQoS2(h, p)
      /\ ContinueAfterSend(h)
      /\ UNCHANGED <<routed, retained, client>>
    BY DEF HandlePublish2
<1>2. /\ pc[h] = "loop" /\ rest[h] = None /\ toBroker[h] # <<>>
      /\ cid[h] \in Clients /\ cid[h] # None
      /\ p \in Packet /\ p.msg \in Messages /\ p.id \in PacketIds /\ p.id # None
      /\ p.type = "PUBLISH"
      /\ h = current => Asked(p)
    BY <1>1, NextPacket, MessageAssumption
<1>3. rest' = rest /\ rest' = [rest EXCEPT ![h] = None]
    BY <1>1, <1>2 DEF StoreQoS2, PInv, PublishingTypeOK
<1>4. Onward
    BY <1>1, <1>2, <1>3, ContinueGoesOnward DEF PInv, ContinueAfterSend
<1>5. \A n \in Messages : Reached(n) => Reached(n)'
    BY <1>1, <1>3 DEF Reached, Pending
<1>6. h = current => Answered(a)'
    <2> SUFFICES ASSUME h = current PROVE Answered(a)'
        OBVIOUS
    <2>1. PICK m \in Unfinished :
              /\ packetId[m] = p.id /\ sentOn[m] = current
              /\ IF phase[m] = "publish" THEN p.type = "PUBLISH" /\ p.msg = m
                                         ELSE p.type = "PUBREL"
        BY <1>2 DEF Asked
    <2>2. m = p.msg /\ phase[m] = "publish"
        BY <1>2, <2>1
    <2>3. m \in Unfinished' /\ packetId'[m] = a.id /\ sentOn'[m] = current'
        BY <1>1, <2>1 DEF client, Unfinished
    <2> QED
        BY <1>1, <2>2, <2>3 DEF Answered, client
<1>7. toClient' = toClient \/ toClient' = [toClient EXCEPT ![h] = Append(@, a)]
    BY AnswerIs DEF HandlePublish2
<1>8. a \in Packet /\ a.id = p.id
    BY <1>2, MessageAssumption DEF Packet
<1>9. cid' = cid /\ \A g \in Conns \ {h} : rest'[g] = rest[g]
    BY <1>3, <1>4 DEF Onward
<1> HIDE DEF a
<1>10. /\ toBroker' \in [Conns -> Seq(Packet)] /\ toClient' \in [Conns -> Seq(Packet)]
       /\ Fresh' /\ Identified' /\ Written' /\ InFlight' /\ AtLeastOnce'
    BY <1>1, <1>2, <1>5, <1>6, <1>7, <1>8, <1>9, ReadingKeepsFlow
<1>11. held' \in [Conns -> [PacketIds -> Messages \cup {None}]]
    BY <1>1, <1>2 DEF StoreQoS2, TypeOK, PInv, PublishingTypeOK
<1>12. PublishingTypeOK'
    BY <1>1, <1>2, <1>3, <1>4, <1>10, <1>11
       DEF PInv, PublishingTypeOK, Onward, Sending, client
<1> QED
    BY <1>4, <1>10, <1>12 DEF PInv

LEMMA HandlePubrelKeepsPInv ==
    ASSUME TypeOK, PInv, NEW h \in Conns, HandlePubrel(h)
    PROVE  PInv' /\ Onward
<1> PICK p : p = Head(toBroker[h])
    OBVIOUS
<1> PICK s : s = sessions[cid[h]]
    OBVIOUS
<1> PICK m : m = IF s = None THEN None ELSE held[s][p.id]
    OBVIOUS
<1> DEFINE a == [type |-> "PUBCOMP", id |-> p.id, msg |-> None]
<1>1. /\ CanHandle(h, "PUBREL")
      /\ toBroker' = [toBroker EXCEPT ![h] = Tail(@)]
      /\ held' = Release(s, p.id)
      /\ \/ m # None /\ rest' = [rest EXCEPT ![h] = m] /\ UNCHANGED vars
         \/ m = None /\ ContinueAfterSend(h) /\ rest' = rest
      /\ UNCHANGED <<routed, retained, client>>
    BY DEF HandlePubrel
<1>2. /\ pc[h] = "loop" /\ rest[h] = None /\ toBroker[h] # <<>>
      /\ cid[h] \in Clients /\ cid[h] # None
      /\ p \in Packet /\ p.id \in PacketIds /\ p.id # None
      /\ p.type = "PUBREL"
      /\ h = current => Asked(p)
    BY <1>1, NextPacket, MessageAssumption
<1>3. /\ s \in Conns \cup {None} /\ m \in Messages \cup {None}
      /\ rest' = [rest EXCEPT ![h] = m]
    <2>1. s \in Conns \cup {None}
        BY <1>2 DEF TypeOK
    <2>2. s # None => held[s] \in [PacketIds -> Messages \cup {None}]
        BY <2>1 DEF PInv, PublishingTypeOK
    <2>3. m \in Messages \cup {None}
        BY <1>2, <2>2
    <2>4. rest = [rest EXCEPT ![h] = None]
        BY <1>2 DEF PInv, PublishingTypeOK
    <2> QED
        BY <1>1, <2>1, <2>3, <2>4
<1>4. Onward
    <2>1. CASE m # None
        BY <1>1, <1>2, <1>3, <2>1 DEF Onward, vars, PInv, PublishingTypeOK, Sending
    <2>2. CASE m = None
        BY <1>1, <1>2, <1>3, <2>2, ContinueGoesOnward DEF PInv, ContinueAfterSend
    <2> QED
        BY <2>1, <2>2
<1>5. \A n \in Messages : Reached(n) => Reached(n)'
    <2>1. routed' = routed /\ routed \in [Messages -> Nat]
        BY <1>1 DEF PInv, PublishingTypeOK
    <2>2. routed' \in [Messages -> Nat] /\ \A n \in Messages : routed'[n] >= routed[n]
        BY <2>1
    <2> QED
        BY <1>2, <1>3, <2>2, StaysReached DEF PInv
<1>6. h = current => Answered(a)'
    <2> SUFFICES ASSUME h = current PROVE Answered(a)'
        OBVIOUS
    <2>1. PICK n \in Unfinished :
              /\ packetId[n] = p.id /\ sentOn[n] = current
              /\ IF phase[n] = "publish" THEN p.type = "PUBLISH" /\ p.msg = n
                                         ELSE p.type = "PUBREL"
        BY <1>2 DEF Asked
    <2>2. phase[n] = "release"
        BY <1>2, <2>1 DEF Unfinished
    <2>3. n \in Unfinished' /\ packetId'[n] = a.id /\ sentOn'[n] = current'
        BY <1>1, <2>1 DEF client, Unfinished
    <2> QED
        BY <1>1, <2>2, <2>3 DEF Answered, client
<1>7. toClient' = toClient \/ toClient' = [toClient EXCEPT ![h] = Append(@, a)]
    BY AnswerIs DEF HandlePubrel
<1>8. a \in Packet /\ a.id = p.id
    BY <1>2, MessageAssumption DEF Packet
<1>9. cid' = cid /\ \A g \in Conns \ {h} : rest'[g] = rest[g]
    BY <1>3, <1>4 DEF Onward, PInv, PublishingTypeOK
<1> HIDE DEF a
<1>10. /\ toBroker' \in [Conns -> Seq(Packet)] /\ toClient' \in [Conns -> Seq(Packet)]
       /\ Fresh' /\ Identified' /\ Written' /\ InFlight' /\ AtLeastOnce'
    BY <1>1, <1>2, <1>5, <1>6, <1>7, <1>8, <1>9, ReadingKeepsFlow
<1>11. held' \in [Conns -> [PacketIds -> Messages \cup {None}]]
    BY <1>1, <1>2, <1>3 DEF Release, PInv, PublishingTypeOK
<1>12. PublishingTypeOK'
    BY <1>1, <1>2, <1>3, <1>4, <1>10, <1>11
       DEF PInv, PublishingTypeOK, Onward, Sending, client
<1> QED
    BY <1>4, <1>10, <1>12 DEF PInv

LEMMA RouteRestKeepsPInv ==
    ASSUME TypeOK, PInv, NEW h \in Conns, RouteRest(h)
    PROVE  PInv' /\ Onward
<1>1. /\ rest[h] # None
      /\ rest' = [rest EXCEPT ![h] = None]
      /\ retained' = RetainedAfter(rest[h])
      /\ routed' = [routed EXCEPT ![rest[h]] = @ + 1]
      /\ ContinueAfterSend(h)
      /\ UNCHANGED <<held, toBroker, toClient, client>>
    BY DEF RouteRest, Sending, Routed
<1>2. /\ pc[h] = "loop" /\ rest[h] \in Messages /\ cid[h] # None
    <2>1. pc[h] = "loop" /\ rest[h] \in Messages
        BY <1>1 DEF PInv, PublishingTypeOK, Sending
    <2> QED
        BY <2>1 DEF TypeOK
<1>3. Onward
    BY <1>1, <1>2, ContinueGoesOnward DEF PInv, ContinueAfterSend
<1>4. routed' \in [Messages -> Nat] /\ \A n \in Messages : routed'[n] >= routed[n]
    BY <1>1, <1>2, OnceMore DEF PInv, PublishingTypeOK
<1>5. \A n \in Messages : Reached(n) => Reached(n)'
    <2> SUFFICES ASSUME NEW n \in Messages, Reached(n) PROVE Reached(n)'
        OBVIOUS
    <2>1. routed[n] \in Nat /\ routed'[n] \in Nat /\ routed'[n] >= routed[n]
        BY <1>4 DEF PInv, PublishingTypeOK
    <2>2. CASE routed[n] > 0
        BY <2>1, <2>2 DEF Reached
    <2>3. CASE n = rest[h]
        <3>1. routed'[n] = routed[n] + 1
            BY <1>1, <2>3 DEF PInv, PublishingTypeOK
        <3> QED
            BY <2>1, <3>1 DEF Reached
    <2>4. ASSUME NEW g \in Conns \ {h}, rest[g] = n PROVE Reached(n)'
        BY <1>1, <2>4 DEF Reached, Pending, PInv, PublishingTypeOK
    <2> QED
        BY <2>2, <2>3, <2>4 DEF Reached, Pending
<1>6. UNCHANGED <<cid, current, phase, packetId, sentOn, toBroker, toClient>>
    BY <1>1, <1>3 DEF client, Onward
<1>7. Fresh' /\ Identified' /\ Written' /\ AtLeastOnce'
    <2>1. \A g \in Conns : rest[g] = None => rest'[g] = None
        BY <1>1 DEF PInv, PublishingTypeOK
    <2> QED
        BY <1>5, <1>6, <2>1
           DEF PInv, Fresh, Identified, Written, AtLeastOnce, Unfinished
<1>8. InFlight'
    <2>1. Unfinished' = Unfinished
        BY <1>6 DEF Unfinished
    <2>2. \A p : (Asked(p) => Asked(p)') /\ (Answered(p) => Answered(p)')
        BY <1>5, <1>6, <2>1 DEF Asked, Answered, Unfinished
    <2> QED
        BY <1>6, <2>2 DEF PInv, InFlight
<1>9. PublishingTypeOK'
    BY <1>1, <1>2, <1>3, <1>4, RetainedStays
       DEF PInv, PublishingTypeOK, Onward, Sending, client
<1> QED
    BY <1>3, <1>7, <1>8, <1>9 DEF PInv

-----------------------------------------------------------------------------
(***************************************************************************)
(* The client.                                                             *)
(***************************************************************************)
LEMMA ClientGoesOnward ==
    ASSUME PublishingTypeOK, UNCHANGED vars, rest' = rest
    PROVE  Onward
    BY DEF vars, Onward, PublishingTypeOK, Sending

\* The client reads an answer or none, moves the message m on, and writes the
\* packet e or nothing.
LEMMA WritingKeepsFlow ==
    ASSUME PInv, current # None, NEW m \in Messages, NEW e \in Packet,
           \/ toBroker' = toBroker
           \/ /\ toBroker' = [toBroker EXCEPT ![current] = Append(@, e)]
              /\ \/ /\ e.type = "PUBLISH" /\ e.msg \in Messages
                    /\ IF QoSOf[e.msg] = 0 THEN e.id = None ELSE e.id \in PacketIds
                 \/ e.type = "PUBREL" /\ e.id \in PacketIds
              /\ e.id # None => Asked(e)',
           \/ toClient' = toClient
           \/ /\ toClient[current] # <<>>
              /\ toClient' = [toClient EXCEPT ![current] = Tail(@)],
           \A p \in Packets(toBroker[current]) \cup Packets(toClient'[current]) :
               /\ e.id # None => p.id # e.id
               /\ m \in Unfinished => p.id # packetId[m],
           \A n \in Messages \ {m} :
               phase'[n] = phase[n] /\ packetId'[n] = packetId[n] /\ sentOn'[n] = sentOn[n],
           sentOn'[m] \in {sentOn[m], current},
           UNCHANGED <<cid, rest, routed, current>>
    PROVE  /\ toBroker' \in [Conns -> Seq(Packet)] /\ toClient' \in [Conns -> Seq(Packet)]
           /\ Fresh' /\ Written' /\ InFlight'
<1> USE DEF PInv
<1>1. current \in Conns /\ toBroker[current] \in Seq(Packet) /\ toClient[current] \in Seq(Packet)
    BY DEF PublishingTypeOK
<1>2. /\ Append(toBroker[current], e) \in Seq(Packet)
      /\ Packets(Append(toBroker[current], e)) = Packets(toBroker[current]) \cup {e}
      /\ DistinctIds(toBroker[current])
         /\ (e.id # None => \A p \in Packets(toBroker[current]) : p.id # e.id)
            => DistinctIds(Append(toBroker[current], e))
    BY <1>1, AppendToPackets
<1>3. toClient[current] # <<>> =>
          /\ Tail(toClient[current]) \in Seq(Packet)
          /\ Packets(Tail(toClient[current])) \subseteq Packets(toClient[current])
          /\ DistinctIds(toClient[current]) => DistinctIds(Tail(toClient[current]))
    BY <1>1, TailOfPackets
<1>4. /\ toBroker' \in [Conns -> Seq(Packet)] /\ toClient' \in [Conns -> Seq(Packet)]
      /\ \A g \in Conns \ {current} : toBroker'[g] = toBroker[g] /\ toClient'[g] = toClient[g]
      /\ \/ toBroker'[current] = toBroker[current]
         \/ toBroker'[current] = Append(toBroker[current], e)
      /\ \/ toClient'[current] = toClient[current]
         \/ toClient[current] # <<>> /\ toClient'[current] = Tail(toClient[current])
    BY <1>1, <1>2, <1>3 DEF PublishingTypeOK
<1>5. Fresh'
    <2> SUFFICES ASSUME NEW h \in Conns, cid[h] = None
                 PROVE  /\ toBroker'[h] = <<>> /\ toClient'[h] = <<>> /\ rest[h] = None
                        /\ current # h
                        /\ \A n \in Messages : sentOn'[n] # h
        BY DEF Fresh
    <2>1. /\ toBroker[h] = <<>> /\ toClient[h] = <<>> /\ rest[h] = None
          /\ current # h
          /\ \A n \in Messages : sentOn[n] # h
        BY DEF Fresh
    <2>2. ASSUME NEW n \in Messages PROVE sentOn'[n] # h
        <3>1. sentOn'[n] \in {sentOn[n], current}
            OBVIOUS
        <3> QED
            BY <2>1, <3>1
    <2> QED
        BY <1>4, <2>1, <2>2
<1>6. Written'
    <2>1. ASSUME NEW g \in Conns, NEW p \in Packets(toBroker'[g])
          PROVE  p \in Packets(toBroker[g]) \/ (p = e /\ toBroker' # toBroker)
        BY <1>1, <1>2, <1>4
    <2> QED
        BY <2>1 DEF Written
<1>7. ASSUME NEW p, m \in Unfinished => p.id # packetId[m]
      PROVE  (Asked(p) => Asked(p)') /\ (Answered(p) => Answered(p)')
    <2>1. \A n \in Messages : Reached(n) => Reached(n)'
        BY DEF Reached, Pending
    <2> QED
        BY <1>7, <2>1, OthersUnderWay
<1>8. InFlight'
    <2>1. /\ DistinctIds(toBroker[current]) /\ DistinctIds(toClient[current])
          /\ \A p \in Packets(toBroker[current]) : p.id # None => Asked(p)
          /\ \A b \in Packets(toClient[current]) : Answered(b)
          /\ \A p \in Packets(toBroker[current]), b \in Packets(toClient[current]) :
                p.id # b.id
        BY DEF InFlight
    <2>2. DistinctIds(toClient'[current]) /\ Packets(toClient'[current]) \subseteq Packets(toClient[current])
        BY <1>3, <1>4, <2>1
    <2>3. \A b \in Packets(toClient'[current]) : Answered(b)' /\ b.id # None
        <3> SUFFICES ASSUME NEW b \in Packets(toClient'[current])
                     PROVE  Answered(b)' /\ b.id # None
            OBVIOUS
        <3>1. Answered(b)
            BY <2>1, <2>2
        <3>2. b.id # None
            BY <3>1, MessageAssumption DEF Answered, Identified
        <3> QED
            BY <1>7, <3>1, <3>2
    <2>4. DistinctIds(toBroker'[current])
        BY <1>2, <1>4, <2>1
    <2>5. \A p \in Packets(toBroker'[current]) :
              p \in Packets(toBroker[current]) \/ (p = e /\ toBroker' # toBroker)
        BY <1>2, <1>4
    <2>6. \A p \in Packets(toBroker'[current]) : p.id # None => Asked(p)'
        <3> SUFFICES ASSUME NEW p \in Packets(toBroker'[current]), p.id # None
                     PROVE  Asked(p)'
            OBVIOUS
        <3>1. CASE p \in Packets(toBroker[current])
            BY <1>7, <2>1, <3>1
        <3>2. CASE p = e /\ toBroker' # toBroker
            BY <3>2
        <3> QED
            BY <2>5, <3>1, <3>2
    <2>7. \A p \in Packets(toBroker'[current]), b \in Packets(toClient'[current]) : p.id # b.id
        BY <2>1, <2>2, <2>3, <2>5
    <2> QED
        BY <2>2, <2>3, <2>4, <2>6, <2>7 DEF InFlight
<1> QED
    BY <1>4, <1>5, <1>6, <1>8

LEMMA PublishKeepsPInv ==
    ASSUME TypeOK, PInv, NEW m \in Messages, NEW i \in PacketIds, Publish(m, i)
    PROVE  PInv' /\ Onward
<1> DEFINE e == [type |-> "PUBLISH", id |-> IF QoSOf[m] = 0 THEN None ELSE i, msg |-> m]
<1> USE DEF PInv
<1>1. /\ current # None /\ current \in Conns /\ phase[m] = "new"
      /\ \A n \in Unfinished : packetId[n] # i
      /\ \/ /\ QoSOf[m] = 0
            /\ phase' = [phase EXCEPT ![m] = "done"] /\ UNCHANGED <<packetId, sentOn>>
         \/ /\ QoSOf[m] # 0
            /\ phase' = [phase EXCEPT ![m] = "publish"]
            /\ packetId' = [packetId EXCEPT ![m] = i]
            /\ sentOn' = [sentOn EXCEPT ![m] = current]
      /\ toBroker' = [toBroker EXCEPT ![current] = Append(@, e)]
      /\ UNCHANGED vars /\ UNCHANGED <<broker, toClient, current>>
    BY DEF Publish, PublishingTypeOK
<1>2. UNCHANGED <<held, rest, routed, retained, cid>>
    BY <1>1 DEF broker, vars
<1>3. Onward
    BY <1>1, <1>2, ClientGoesOnward
<1>4. m \notin Unfinished /\ \A n \in Messages \ {m} :
          phase'[n] = phase[n] /\ packetId'[n] = packetId[n] /\ sentOn'[n] = sentOn[n]
    BY <1>1 DEF Unfinished, PublishingTypeOK
<1>5. /\ phase' \in [Messages -> {"new", "publish", "release", "done", "given up"}]
      /\ packetId' \in [Messages -> PacketIds \cup {None}]
      /\ sentOn' \in [Messages -> Conns \cup {None}]
    <2>1. /\ phase \in [Messages -> {"new", "publish", "release", "done", "given up"}]
          /\ packetId \in [Messages -> PacketIds \cup {None}]
          /\ sentOn \in [Messages -> Conns \cup {None}]
        BY DEF PublishingTypeOK
    <2>2. CASE QoSOf[m] = 0
        BY <1>1, <2>1, <2>2
    <2>3. CASE QoSOf[m] # 0
        BY <1>1, <2>1, <2>3
    <2> QED
        BY <2>2, <2>3
<1>6. Identified'
    <2>1. CASE QoSOf[m] = 0
        <3>1. Unfinished' = Unfinished
            BY <1>1, <2>1 DEF Unfinished, PublishingTypeOK
        <3> QED
            BY <1>1, <1>4, <2>1, <3>1 DEF Identified, Unfinished
    <2>2. CASE QoSOf[m] # 0
        <3>1. /\ Unfinished' = Unfinished \cup {m}
              /\ packetId'[m] = i /\ phase'[m] = "publish"
              /\ Unfinished \subseteq Messages
            <4>1. \A n \in Messages : phase'[n] = IF n = m THEN "publish" ELSE phase[n]
                BY <1>1, <2>2 DEF PublishingTypeOK
            <4>2. Unfinished' = Unfinished \cup {m}
                BY <4>1 DEF Unfinished
            <4> QED
                BY <1>1, <2>2, <4>1, <4>2 DEF Unfinished, PublishingTypeOK
        <3> QED
            BY <1>1, <1>4, <2>2, <3>1 DEF Identified
    <2> QED
        BY <2>1, <2>2
<1>7. AtLeastOnce'
    <2> SUFFICES ASSUME NEW n \in Messages, phase'[n] = "done", QoSOf[n] = 1
                 PROVE  Reached(n)'
        BY DEF AtLeastOnce
    <2>1. n # m
        <3>1. QoSOf[m] # 0 => phase'[m] = "publish"
            BY <1>1 DEF PublishingTypeOK
        <3> QED
            BY <3>1
    <2>2. Reached(n)
        BY <1>4, <2>1 DEF AtLeastOnce
    <2> QED
        BY <1>2, <2>2 DEF Reached, Pending
<1>8. e \in Packet
    BY DEF Packet
<1>9. e.id # None => Asked(e)'
    BY <1>1, <1>5 DEF Asked, Unfinished, PublishingTypeOK
<1>10. \A p \in Packets(toBroker[current]) \cup Packets(toClient'[current]) :
          e.id # None => p.id # e.id
    BY <1>1, UnderWay, MessageAssumption
<1>11. sentOn'[m] \in {sentOn[m], current}
    BY <1>1 DEF PublishingTypeOK
<1>12. /\ e.type = "PUBLISH" /\ e.msg \in Messages
       /\ IF QoSOf[e.msg] = 0 THEN e.id = None ELSE e.id \in PacketIds
    OBVIOUS
<1>13. toClient' = toClient
    BY <1>1
<1> HIDE DEF e
<1>14. /\ toBroker' \in [Conns -> Seq(Packet)] /\ toClient' \in [Conns -> Seq(Packet)]
       /\ Fresh' /\ Written' /\ InFlight'
    BY <1>1, <1>2, <1>4, <1>8, <1>9, <1>10, <1>11, <1>12, <1>13, WritingKeepsFlow
<1>15. PublishingTypeOK'
    BY <1>1, <1>2, <1>3, <1>5, <1>14 DEF PublishingTypeOK, Sending, Onward
<1> QED
    BY <1>3, <1>6, <1>7, <1>14, <1>15

LEMMA SendAgainKeepsPInv ==
    ASSUME TypeOK, PInv, NEW m \in Messages, SendAgain(m)
    PROVE  PInv' /\ Onward
<1> PICK e : e = ToSend(m)
    OBVIOUS
<1> USE DEF PInv
<1>1. /\ m \in Unfinished
      /\ current # None /\ current \in Conns /\ sentOn[m] # current
      /\ toBroker' = [toBroker EXCEPT ![current] = Append(@, e)]
      /\ sentOn' = [sentOn EXCEPT ![m] = current]
      /\ UNCHANGED vars /\ UNCHANGED <<broker, toClient, current, phase, packetId>>
    BY DEF SendAgain, PublishingTypeOK
<1>2. UNCHANGED <<held, rest, routed, retained, cid>>
    BY <1>1 DEF broker, vars
<1>3. Onward
    BY <1>1, <1>2, ClientGoesOnward
<1>4. packetId[m] \in PacketIds /\ packetId[m] # None /\ QoSOf[m] # 0
    BY <1>1, MessageAssumption DEF Identified
<1>5. /\ e \in Packet /\ e.id = packetId[m]
      /\ IF phase[m] = "publish" THEN e.type = "PUBLISH" /\ e.msg = m
                                 ELSE e.type = "PUBREL"
    BY <1>1, <1>4 DEF ToSend, Packet, Unfinished
<1>6. /\ sentOn' \in [Messages -> Conns \cup {None}] /\ sentOn'[m] = current
      /\ \A n \in Messages \ {m} : sentOn'[n] = sentOn[n]
    BY <1>1 DEF PublishingTypeOK
<1>7. Unfinished' = Unfinished /\ Identified' /\ AtLeastOnce'
    BY <1>1, <1>2 DEF Identified, AtLeastOnce, Unfinished, Reached, Pending
<1>8. Asked(e)'
    BY <1>1, <1>5, <1>6, <1>7 DEF Asked
<1>9. \A p \in Packets(toBroker[current]) \cup Packets(toClient'[current]) : p.id # packetId[m]
    BY <1>1, <1>4, UnderWay DEF Identified
<1>10. \/ /\ e.type = "PUBLISH" /\ e.msg \in Messages
          /\ IF QoSOf[e.msg] = 0 THEN e.id = None ELSE e.id \in PacketIds
       \/ e.type = "PUBREL" /\ e.id \in PacketIds
    BY <1>4, <1>5
<1>11. /\ m \in Messages /\ toClient' = toClient /\ UNCHANGED <<cid, rest, routed, current>>
       /\ \A n \in Messages \ {m} :
             phase'[n] = phase[n] /\ packetId'[n] = packetId[n] /\ sentOn'[n] = sentOn[n]
    BY <1>1, <1>2, <1>6 DEF Unfinished
<1>12. /\ toBroker' \in [Conns -> Seq(Packet)] /\ toClient' \in [Conns -> Seq(Packet)]
       /\ Fresh' /\ Written' /\ InFlight'
    <2>1. /\ current # None /\ toBroker' = [toBroker EXCEPT ![current] = Append(@, e)]
          /\ sentOn'[m] \in {sentOn[m], current}
        BY <1>1, <1>6
    <2>2. \A p \in Packets(toBroker[current]) \cup Packets(toClient'[current]) :
              /\ e.id # None => p.id # e.id
              /\ m \in Unfinished => p.id # packetId[m]
        BY <1>5, <1>9
    <2> QED
        BY <1>5, <1>8, <1>10, <1>11, <2>1, <2>2, WritingKeepsFlow
<1>13. PublishingTypeOK'
    BY <1>1, <1>2, <1>3, <1>6, <1>12 DEF PublishingTypeOK, Sending, Onward
<1> QED
    BY <1>3, <1>7, <1>12, <1>13

\* The next answer moves the message it belongs to, and no other.
LEMMA ReadAckMoves ==
    ASSUME TypeOK, PInv, ReadAck
    PROVE  /\ current \in Conns /\ toClient[current] # <<>>
           /\ toClient' = [toClient EXCEPT ![current] = Tail(@)]
           /\ UNCHANGED vars /\ UNCHANGED <<broker, current, packetId>>
           /\ \E m \in Unfinished, ack \in Packets(toClient[current]) :
                 /\ ack = Head(toClient[current])
                 /\ packetId[m] = ack.id /\ sentOn[m] = current
                 /\ \/ /\ ack.type = "PUBACK" /\ QoSOf[m] = 1 /\ Reached(m)
                       /\ phase' = [phase EXCEPT ![m] = "done"]
                       /\ UNCHANGED <<toBroker, sentOn>>
                    \/ /\ ack.type = "PUBREC" /\ QoSOf[m] = 2 /\ phase[m] = "publish"
                       /\ phase' = [phase EXCEPT ![m] = "release"]
                       /\ toBroker' = [toBroker EXCEPT ![current] =
                             Append(@, [type |-> "PUBREL", id |-> packetId[m], msg |-> None])]
                       /\ sentOn' = [sentOn EXCEPT ![m] = current]
                    \/ /\ ack.type = "PUBCOMP" /\ phase[m] = "release"
                       /\ phase' = [phase EXCEPT ![m] = "done"]
                       /\ UNCHANGED <<toBroker, sentOn>>
<1> USE DEF PInv
<1>1. /\ current \in Conns /\ current # None /\ toClient[current] # <<>>
      /\ toClient' = [toClient EXCEPT ![current] = Tail(@)]
      /\ UNCHANGED vars /\ UNCHANGED <<broker, current, packetId>>
    BY DEF ReadAck, PublishingTypeOK
<1> PICK ack : ack = Head(toClient[current])
    OBVIOUS
<1>2. ack \in Packets(toClient[current])
    BY <1>1, TailOfPackets DEF PublishingTypeOK
<1>3. PICK m \in Unfinished :
          /\ packetId[m] = ack.id /\ sentOn[m] = current
          /\ \/ ack.type = "PUBACK" /\ QoSOf[m] = 1 /\ Reached(m)
             \/ ack.type = "PUBREC" /\ QoSOf[m] = 2 /\ phase[m] = "publish"
             \/ ack.type = "PUBCOMP" /\ phase[m] = "release"
    BY <1>1, <1>2 DEF InFlight, Answered
<1>4. /\ m \in Messages /\ phase[m] \in {"publish", "release"}
      /\ phase[m] = "release" => QoSOf[m] = 2
    BY <1>3 DEF Unfinished, Identified
<1>5. Acknowledged(m, ack)
    BY <1>3, <1>4 DEF Acknowledged
<1>6. \A n \in Messages : Acknowledged(n, ack) => n = m
    BY <1>3 DEF Acknowledged, Identified, Unfinished
<1>7. /\ phase' = [phase EXCEPT ![m] = IF ack.type = "PUBREC" THEN "release" ELSE "done"]
      /\ IF ack.type = "PUBREC"
         THEN /\ toBroker' = [toBroker EXCEPT ![current] =
                     Append(@, [type |-> "PUBREL", id |-> ack.id, msg |-> None])]
              /\ sentOn' = [sentOn EXCEPT ![m] = current]
         ELSE UNCHANGED <<toBroker, sentOn>>
    BY <1>4, <1>5, <1>6 DEF ReadAck
<1> QED
    BY <1>1, <1>2, <1>3, <1>7

LEMMA ReadAckKeepsPInv ==
    ASSUME TypeOK, PInv, ReadAck
    PROVE  PInv' /\ Onward
<1> USE DEF PInv
<1>1. /\ current \in Conns /\ current # None /\ toClient[current] # <<>>
      /\ toClient' = [toClient EXCEPT ![current] = Tail(@)]
      /\ UNCHANGED vars /\ UNCHANGED <<broker, current, packetId>>
    BY ReadAckMoves, ConstantsAssumption
<1>2. PICK m \in Unfinished, ack \in Packets(toClient[current]) :
          /\ ack = Head(toClient[current])
          /\ packetId[m] = ack.id /\ sentOn[m] = current
          /\ \/ /\ ack.type = "PUBACK" /\ QoSOf[m] = 1 /\ Reached(m)
                /\ phase' = [phase EXCEPT ![m] = "done"]
                /\ UNCHANGED <<toBroker, sentOn>>
             \/ /\ ack.type = "PUBREC" /\ QoSOf[m] = 2 /\ phase[m] = "publish"
                /\ phase' = [phase EXCEPT ![m] = "release"]
                /\ toBroker' = [toBroker EXCEPT ![current] =
                      Append(@, [type |-> "PUBREL", id |-> packetId[m], msg |-> None])]
                /\ sentOn' = [sentOn EXCEPT ![m] = current]
             \/ /\ ack.type = "PUBCOMP" /\ phase[m] = "release"
                /\ phase' = [phase EXCEPT ![m] = "done"]
                /\ UNCHANGED <<toBroker, sentOn>>
    BY ReadAckMoves
<1> PICK e : e = [type |-> "PUBREL", id |-> packetId[m], msg |-> None]
    OBVIOUS
<1>3. UNCHANGED <<held, rest, routed, retained, cid>>
    BY <1>1 DEF broker, vars
<1>4. Onward
    BY <1>1, <1>3, ClientGoesOnward
<1>5. /\ m \in Messages /\ packetId[m] \in PacketIds /\ packetId[m] # None
      /\ phase[m] \in {"publish", "release"}
      /\ phase[m] = "release" => QoSOf[m] = 2
    BY MessageAssumption DEF Identified, Unfinished
<1>6. /\ phase' \in [Messages -> {"new", "publish", "release", "done", "given up"}]
      /\ sentOn' \in [Messages -> Conns \cup {None}]
      /\ sentOn'[m] = current
      /\ \A n \in Messages \ {m} : phase'[n] = phase[n] /\ sentOn'[n] = sentOn[n]
      /\ \/ phase'[m] = "release" /\ QoSOf[m] = 2 /\ ack.type = "PUBREC"
         \/ phase'[m] = "done"
    BY <1>1, <1>2, <1>5 DEF PublishingTypeOK
<1>7. Identified'
    <2>1. Unfinished' \subseteq Unfinished
        BY <1>5, <1>6 DEF Unfinished
    <2> QED
        BY <1>1, <1>5, <1>6, <2>1 DEF Identified, Unfinished
<1>8. AtLeastOnce'
    <2> SUFFICES ASSUME NEW n \in Messages, phase'[n] = "done", QoSOf[n] = 1
                 PROVE  Reached(n)'
        BY DEF AtLeastOnce
    <2>1. n = m => Reached(n)
        BY <1>2, <1>5
    <2>2. n # m => Reached(n)
        BY <1>6 DEF AtLeastOnce
    <2>3. Reached(n)
        BY <2>1, <2>2
    <2> QED
        BY <1>3, <2>3 DEF Reached, Pending
<1>9. e \in Packet /\ e.type = "PUBREL" /\ e.id = packetId[m] /\ e.id \in PacketIds
    BY <1>5 DEF Packet
<1>10. toBroker' # toBroker => Asked(e)'
    <2> SUFFICES ASSUME toBroker' # toBroker PROVE Asked(e)'
        OBVIOUS
    <2>1. phase'[m] = "release"
        BY <1>2, <1>5 DEF PublishingTypeOK
    <2>2. m \in Unfinished'
        BY <1>5, <2>1 DEF Unfinished
    <2> QED
        BY <1>1, <1>6, <1>9, <2>1, <2>2 DEF Asked
<1>11. \A p \in Packets(toBroker[current]) \cup Packets(toClient'[current]) : p.id # packetId[m]
    <2>1. /\ DistinctIds(toClient[current])
          /\ \A p \in Packets(toBroker[current]) : p.id # ack.id
        BY <1>1 DEF InFlight
    <2>2. \A p \in Packets(Tail(toClient[current])) : p.id # None => p.id # ack.id
        BY <1>1, <1>2, <2>1, TailOfPackets DEF PublishingTypeOK
    <2>3. toClient'[current] = Tail(toClient[current])
        BY <1>1 DEF PublishingTypeOK
    <2> QED
        BY <1>2, <1>5, <2>1, <2>2, <2>3
<1>12. \/ toBroker' = toBroker
       \/ toBroker' = [toBroker EXCEPT ![current] = Append(@, e)] /\ Asked(e)'
    <2>1. CASE toBroker' = [toBroker EXCEPT ![current] = Append(@, e)]
        BY <1>10, <2>1
    <2> QED
        BY <1>2, <2>1
<1>13. /\ toBroker' \in [Conns -> Seq(Packet)] /\ toClient' \in [Conns -> Seq(Packet)]
       /\ Fresh' /\ Written' /\ InFlight'
    <2>1. \A n \in Messages \ {m} :
             phase'[n] = phase[n] /\ packetId'[n] = packetId[n] /\ sentOn'[n] = sentOn[n]
        BY <1>1, <1>6
    <2>2. UNCHANGED <<cid, rest, routed, current>> /\ sentOn'[m] \in {sentOn[m], current}
        BY <1>1, <1>3, <1>6
    <2> QED
        BY <1>1, <1>5, <1>9, <1>11, <1>12, <2>1, <2>2, WritingKeepsFlow
<1>14. PublishingTypeOK'
    BY <1>1, <1>3, <1>4, <1>6, <1>13 DEF PublishingTypeOK, Sending, Onward
<1> QED
    BY <1>4, <1>7, <1>8, <1>13, <1>14

-----------------------------------------------------------------------------
(***************************************************************************)
(* The connections.                                                        *)
(***************************************************************************)
LEMMA ConnectKeepsPInv ==
    ASSUME IInv, PInv, NEW h \in Conns, NEW o \in ConnectOptions, NEW broken \in BOOLEAN,
           ConnectClient(h, o, broken)
    PROVE  PInv'
<1> USE DEF PInv
<1>1. /\ pc[h] = "first" /\ cid[h] = None
      /\ cid' = [cid EXCEPT ![h] = Publisher]
      /\ \A g \in Conns \ {h} : pc'[g] = pc[g]
      /\ current' = h
      /\ UNCHANGED <<packetId, sentOn, toBroker, toClient, held, rest, routed, retained>>
    BY DEF ConnectClient, Connect, broker, IInv, Untouched, TypeOK
<1>2. Publisher # None /\ h # None
    BY MessageAssumption, ConstantsAssumption
<1>3. /\ toBroker[h] = <<>> /\ toClient[h] = <<>> /\ rest[h] = None
      /\ \A m \in Messages : sentOn[m] # h
    BY <1>1 DEF Fresh
<1>4. \A m \in Messages :
          phase'[m] = phase[m] \/ (m \in Unfinished /\ phase'[m] = "given up")
    BY DEF ConnectClient, PublishingTypeOK
<1>5. phase' \in [Messages -> {"new", "publish", "release", "done", "given up"}]
    BY DEF ConnectClient, PublishingTypeOK
<1>6. PublishingTypeOK'
    BY <1>1, <1>3, <1>5 DEF PublishingTypeOK, Sending
<1>7. Fresh'
    BY <1>1, <1>2 DEF Fresh, IInv, TypeOK
<1>8. Identified'
    <2>1. Unfinished' \subseteq Unfinished /\ \A m \in Unfinished' : phase'[m] = phase[m]
        BY <1>4 DEF Unfinished
    <2> QED
        BY <1>1, <2>1 DEF Identified
<1>9. Written'
    BY <1>1 DEF Written
<1>10. InFlight'
    BY <1>1, <1>3, NoPackets DEF InFlight
<1>11. AtLeastOnce'
    <2>1. \A m \in Messages : Reached(m) => Reached(m)'
        BY <1>1 DEF Reached, Pending
    <2> QED
        BY <1>4, <2>1 DEF AtLeastOnce
<1> QED
    BY <1>6, <1>7, <1>8, <1>9, <1>10, <1>11

LEMMA QuietKeepsPInv ==
    ASSUME PInv, Onward, UNCHANGED flow
    PROVE  PInv'
<1> USE DEF PInv
<1>1. UNCHANGED <<held, rest, routed, retained, toBroker, toClient, current, phase,
                  packetId, sentOn, cid>>
    BY DEF flow, Onward
<1>2. PublishingTypeOK'
    BY <1>1 DEF PublishingTypeOK, Onward, Sending
<1>3. Fresh' /\ Identified' /\ Written' /\ AtLeastOnce'
    BY <1>1 DEF Fresh, Identified, Written, AtLeastOnce, Unfinished, Reached, Pending
<1>4. InFlight'
    BY <1>1 DEF InFlight, Asked, Answered, Unfinished, Reached, Pending
<1> QED
    BY <1>2, <1>3, <1>4

LEMMA NextKeepsPInv ==
    IInv /\ PInv /\ [PublishingNext]_<<vars, flow>> => IInv' /\ PInv'
<1> SUFFICES ASSUME IInv, PInv, [PublishingNext]_<<vars, flow>> PROVE IInv' /\ PInv'
    OBVIOUS
<1>1. TypeOK /\ PublishingTypeOK
    BY DEF IInv, PInv
<1>2. IInv'
    BY <1>1, PublishingStep, NextKeepsIInv DEF vars
<1>3. ASSUME NEW m \in Messages, NEW i \in PacketIds, Publish(m, i) PROVE PInv'
    BY <1>1, <1>3, PublishKeepsPInv
<1>4. ASSUME NEW m \in Messages, SendAgain(m) PROVE PInv'
    BY <1>1, <1>4, SendAgainKeepsPInv
<1>5. ASSUME ReadAck PROVE PInv'
    BY <1>1, <1>5, ReadAckKeepsPInv
<1>6. ASSUME NEW h \in Conns, HandlePublish0(h) PROVE PInv'
    BY <1>1, <1>6, HandlePublish0KeepsPInv
<1>7. ASSUME NEW h \in Conns, HandlePublish1(h) PROVE PInv'
    BY <1>1, <1>7, HandlePublish1KeepsPInv
<1>8. ASSUME NEW h \in Conns, HandlePublish2(h) PROVE PInv'
    BY <1>1, <1>8, HandlePublish2KeepsPInv
<1>9. ASSUME NEW h \in Conns, HandlePubrel(h) PROVE PInv'
    BY <1>1, <1>9, HandlePubrelKeepsPInv
<1>10. ASSUME NEW h \in Conns, RouteRest(h) PROVE PInv'
    BY <1>1, <1>10, RouteRestKeepsPInv
<1>11. ASSUME NEW h \in Conns, NEW o \in ConnectOptions, NEW broken \in BOOLEAN,
              ConnectClient(h, o, broken)
       PROVE  PInv'
    BY <1>11, ConnectKeepsPInv
<1>12. ASSUME NEW h \in Conns, NEW f \in Filters, SubscribeClient(h, f) PROVE PInv'
    BY <1>1, <1>12, SubscribeGoesOnward, QuietKeepsPInv
<1>13. ASSUME NEW h \in Conns, Lifecycle(h) PROVE PInv'
    BY <1>1, <1>13, LifecycleGoesOnward, QuietKeepsPInv
<1>14. ASSUME UNCHANGED <<vars, flow>> PROVE PInv'
    <2>1. UNCHANGED vars /\ UNCHANGED flow /\ rest' = rest
        BY <1>14 DEF flow
    <2> QED
        BY <1>1, <2>1, ClientGoesOnward, QuietKeepsPInv
<1> QED
    BY <1>2, <1>3, <1>4, <1>5, <1>6, <1>7, <1>8, <1>9, <1>10, <1>11, <1>12, <1>13, <1>14
       DEF PublishingNext

-----------------------------------------------------------------------------
\* Both invariants hold of every behaviour, with takeovers and without.
THEOREM PublishingInvariance == PublishingSpec => [](IInv /\ PInv)
<1>1. PublishingInit => IInv /\ PInv
    BY InitIInv, InitPInv DEF PublishingInit
<1> QED
    BY <1>1, NextKeepsPInv, PTL DEF PublishingSpec

\* Whatever is published, acknowledged and routed, the connections behave as
\* BrokerSessions says, so all that is proved of them holds here.
THEOREM PublishingIsOverConnections == PublishingSpec => Spec
<1>1. PublishingInit => Init
    BY DEF PublishingInit
<1>2. PInv /\ [PublishingNext]_<<vars, flow>> => [Next]_vars
    BY PublishingStep DEF PInv, vars
<1> QED
    BY <1>1, <1>2, PublishingInvariance, PTL DEF PublishingSpec, Spec

\* Every variable stays in its type, and a handler suspended in a send is in
\* its packet loop.
THEOREM PublishingTypes == PublishingSpec => []PublishingTypeOK
<1>1. PInv => PublishingTypeOK
    BY DEF PInv
<1> QED
    BY <1>1, PublishingInvariance, PTL

\* With takeovers and without, a QoS 1 message the client sees acknowledged was
\* routed or will be by the handler that answered.
THEOREM AtLeastOnceInvariance == PublishingSpec => []AtLeastOnce
<1>1. PInv => AtLeastOnce
    BY DEF PInv
<1> QED
    BY <1>1, PublishingInvariance, PTL

\* Without messages of QoS 2 that is every acknowledged message.
THEOREM AcknowledgedIsRoutedBelowQoS2 ==
    ASSUME \A m \in Messages : QoSOf[m] < 2
    PROVE  PublishingSpec => []AcknowledgedIsRouted
<1>1. AtLeastOnce => AcknowledgedIsRouted
    <2> SUFFICES ASSUME AtLeastOnce, NEW m \in Messages, phase[m] = "done", QoSOf[m] > 0
                 PROVE  routed[m] > 0 \/ Pending(m)
        BY DEF AcknowledgedIsRouted
    <2>1. QoSOf[m] = 1
        BY MessageAssumption
    <2> QED
        BY <2>1 DEF AtLeastOnce, Reached
<1> QED
    BY <1>1, AtLeastOnceInvariance, PTL

-----------------------------------------------------------------------------
(***************************************************************************)
(* Without overlapping connections of the client.                          *)
(***************************************************************************)
\* Only the handler of the connection the client uses reads packets, and the
\* session in the store is the one it works on.
Latest ==
    /\ \A h \in Conns :
          /\ cid[h] \in {None, Publisher}
          /\ cid[h] # None => current # None
          /\ pc[h] \in {"connack", "loop"} => h = current
    /\ current # None => cid[current] = Publisher
    /\ sessions[Publisher] # None =>
          current # None /\ sessions[Publisher] = mine[current]

\* What the session of the client holds belongs to unfinished messages, and is
\* there from the PUBREC to the PUBCOMP.
HeldByBroker ==
    /\ \A s \in Conns, i \in PacketIds : cid[s] = None => held[s][i] = None
    /\ current # None =>
          /\ \A i \in PacketIds :
                held[mine[current]][i] # None =>
                    /\ held[mine[current]][i] \in Unfinished
                    /\ packetId[held[mine[current]][i]] = i
                    /\ QoSOf[held[mine[current]][i]] = 2
          /\ \A a \in Packets(toClient[current]) :
                /\ a.type = "PUBREC" => held[mine[current]][a.id] # None
                /\ a.type = "PUBCOMP" => held[mine[current]][a.id] = None

Holds(m) == current # None /\ held[mine[current]][packetId[m]] = m

NotRouted(m) == routed[m] = 0 /\ ~Pending(m)

RoutedOnce(m) ==
    \/ routed[m] = 0 /\ Pending(m)
    \/ routed[m] = 1 /\ ~Pending(m)

\* A QoS 2 message is routed when it stops being held, in the release phase.
Progress(m) ==
    /\ phase[m] \in {"new", "publish"} => NotRouted(m)
    /\ phase[m] = "release" => IF Holds(m) THEN NotRouted(m) ELSE RoutedOnce(m)
    /\ phase[m] = "done" => RoutedOnce(m)
    /\ phase[m] = "given up" => NotRouted(m) \/ RoutedOnce(m)

ExactlyOnce == \A m \in Messages : QoSOf[m] = 2 => Progress(m)

EInv ==
    /\ Latest
    /\ HeldByBroker
    /\ ExactlyOnce

LEMMA InitEInv == PublishingInit => EInv
<1> SUFFICES ASSUME PublishingInit PROVE EInv
    OBVIOUS
<1> USE MessageAssumption, ConstantsAssumption DEF PublishingInit, Init
<1>1. Latest /\ HeldByBroker
    BY DEF Latest, HeldByBroker
<1>2. ExactlyOnce
    BY DEF ExactlyOnce, Progress, NotRouted, Pending
<1> QED
    BY <1>1, <1>2 DEF EInv

LEMMA OnwardKeepsLatest ==
    ASSUME TypeOK, Latest, Onward, current' = current
    PROVE  Latest'
    BY MessageAssumption DEF Latest, Onward, TypeOK

\* A handler in its loop serves the publisher, and works on the stored session.
LEMMA ReaderIsLatest ==
    ASSUME IInv, SInv, Latest, NEW h \in Conns, pc[h] = "loop"
    PROVE  /\ h = current /\ cid[h] = Publisher
           /\ mine[h] \in Conns /\ cid[mine[h]] # None
           /\ sessions[cid[h]] = mine[h]
           /\ \A g \in Conns : pc[g] = "loop" => g = h
<1>1. h = current /\ cid[h] # None
    BY DEF Latest, IInv, TypeOK
<1>2. mine[h] \in Conns /\ sessions[cid[h]] = mine[h]
    BY TornDown
<1>3. cid[mine[h]] # None
    BY <1>1, <1>2, ConstantsAssumption DEF IInv, Ownership
<1> QED
    BY <1>1, <1>2, <1>3 DEF Latest

\* A message the step does not concern.
LEMMA ProgressStays ==
    ASSUME NEW m \in Messages, Progress(m),
           phase'[m] = phase[m], routed'[m] = routed[m],
           Pending(m)' <=> Pending(m),
           phase[m] = "release" => (Holds(m)' <=> Holds(m))
    PROVE  Progress(m)'
    BY DEF Progress, NotRouted, RoutedOnce

\* A step that holds and releases nothing.
LEMMA HeldStays ==
    ASSUME HeldByBroker, UNCHANGED <<held, cid, mine, current>>,
           \A n \in Unfinished : packetId'[n] = packetId[n],
           current # None => \A i \in PacketIds :
               held[mine[current]][i] # None => held[mine[current]][i] \in Unfinished',
           current # None => \A a \in Packets(toClient'[current]) :
               a \in Packets(toClient[current]) \/ a.type = "PUBACK"
    PROVE  HeldByBroker'
    BY DEF HeldByBroker

LEMMA PublishKeepsEInv ==
    ASSUME PInv, EInv, NEW m \in Messages, NEW i \in PacketIds, Publish(m, i), Onward
    PROVE  HeldByBroker' /\ ExactlyOnce'
<1> USE DEF EInv
<1>1. /\ UNCHANGED <<held, rest, routed, toClient, current>> /\ UNCHANGED <<cid, mine>>
      /\ phase[m] = "new"
      /\ \A n \in Messages \ {m} : phase'[n] = phase[n] /\ packetId'[n] = packetId[n]
      /\ QoSOf[m] # 0 => phase'[m] = "publish"
    BY DEF Publish, broker, PInv, PublishingTypeOK, Onward
<1>2. m \notin Unfinished /\ Unfinished \subseteq Unfinished'
    BY <1>1 DEF Unfinished
<1>3. HeldByBroker'
    <2>1. \A n \in Unfinished : packetId'[n] = packetId[n]
        BY <1>1, <1>2 DEF Unfinished
    <2>2. current # None => \A j \in PacketIds :
               held[mine[current]][j] # None => held[mine[current]][j] \in Unfinished'
        BY <1>2 DEF HeldByBroker
    <2> QED
        BY <1>1, <2>1, <2>2, HeldStays
<1>4. ExactlyOnce'
    <2> SUFFICES ASSUME NEW n \in Messages, QoSOf[n] = 2 PROVE Progress(n)'
        BY DEF ExactlyOnce
    <2>1. CASE n = m
        <3>1. Progress(m) /\ QoSOf[m] # 0
            BY <2>1 DEF ExactlyOnce
        <3>2. NotRouted(m) /\ phase'[m] = "publish"
            BY <1>1, <3>1 DEF Progress
        <3>3. NotRouted(m)'
            BY <1>1, <3>2 DEF NotRouted, Pending
        <3> QED
            BY <2>1, <3>2, <3>3 DEF Progress
    <2>2. CASE n # m
        BY <1>1, <2>2, ProgressStays DEF ExactlyOnce, Pending, Holds
    <2> QED
        BY <2>1, <2>2
<1> QED
    BY <1>3, <1>4

LEMMA ReadAckKeepsEInv ==
    ASSUME TypeOK, PInv, EInv, ReadAck, Onward
    PROVE  HeldByBroker' /\ ExactlyOnce'
<1> USE DEF EInv
<1>1. /\ current \in Conns /\ current # None /\ toClient[current] # <<>>
      /\ toClient' = [toClient EXCEPT ![current] = Tail(@)]
      /\ UNCHANGED <<held, rest, routed, current, packetId>> /\ UNCHANGED <<cid, mine>>
    BY ReadAckMoves, ConstantsAssumption DEF broker, Onward
<1>2. PICK m \in Unfinished, ack \in Packets(toClient[current]) :
          /\ packetId[m] = ack.id
          /\ \/ /\ ack.type = "PUBACK" /\ QoSOf[m] = 1
                /\ phase' = [phase EXCEPT ![m] = "done"]
             \/ /\ ack.type = "PUBREC" /\ phase[m] = "publish"
                /\ phase' = [phase EXCEPT ![m] = "release"]
             \/ /\ ack.type = "PUBCOMP" /\ phase[m] = "release"
                /\ phase' = [phase EXCEPT ![m] = "done"]
    BY ReadAckMoves
<1>3. m \in Messages /\ packetId[m] \in PacketIds
    BY DEF PInv, Identified, Unfinished
<1>4. \A n \in Messages : phase'[n] = IF n = m THEN phase'[m] ELSE phase[n]
    BY <1>2, <1>3 DEF PInv, PublishingTypeOK
<1>5. /\ ack.type = "PUBREC" => phase'[m] = "release" /\ phase[m] = "publish" /\ Holds(m)
      /\ ack.type # "PUBREC" => phase'[m] = "done"
      /\ ack.type = "PUBCOMP" => phase[m] = "release" /\ ~Holds(m)
                                 /\ held[mine[current]][packetId[m]] = None
      /\ ack.type \in {"PUBACK", "PUBREC", "PUBCOMP"}
      /\ ack.type = "PUBACK" => QoSOf[m] = 1
    <2>1. phase'[m] = IF ack.type = "PUBREC" THEN "release" ELSE "done"
        BY <1>2, <1>3 DEF PInv, PublishingTypeOK
    <2>2. ack.type = "PUBREC" => Holds(m)
        BY <1>1, <1>2, <1>3 DEF HeldByBroker, Holds, PInv, Identified
    <2>3. ack.type = "PUBCOMP" => held[mine[current]][packetId[m]] = None /\ ~Holds(m)
        BY <1>1, <1>2, <1>3, MessageAssumption DEF HeldByBroker, Holds
    <2> QED
        BY <1>2, <2>1, <2>2, <2>3
<1>6. HeldByBroker'
    <2>1. Packets(toClient'[current]) \subseteq Packets(toClient[current])
        BY <1>1, TailOfPackets DEF PInv, PublishingTypeOK
    <2>2. \A j \in PacketIds :
              held[mine[current]][j] # None => held[mine[current]][j] \in Unfinished'
        <3> SUFFICES ASSUME NEW j \in PacketIds, NEW n, n = held[mine[current]][j], n # None
                     PROVE  n \in Unfinished'
            OBVIOUS
        <3>1. n \in Unfinished /\ packetId[n] = j /\ QoSOf[n] = 2
            BY <1>1 DEF HeldByBroker
        <3>2. ASSUME n = m PROVE phase'[m] = "release"
            <4>1. j = packetId[m] /\ QoSOf[m] = 2 /\ held[mine[current]][packetId[m]] # None
                BY <3>1, <3>2
            <4> QED
                BY <1>5, <4>1
        <3> QED
            BY <1>4, <3>1, <3>2 DEF Unfinished
    <2> QED
        BY <1>1, <2>1, <2>2, HeldStays
<1>7. ExactlyOnce'
    <2> SUFFICES ASSUME NEW n \in Messages, QoSOf[n] = 2 PROVE Progress(n)'
        BY DEF ExactlyOnce
    <2>1. Progress(n) /\ (Holds(n)' <=> Holds(n)) /\ (Pending(n)' <=> Pending(n)) /\ routed' = routed
        BY <1>1 DEF ExactlyOnce, Holds, Pending
    <2>2. ASSUME n = m PROVE Progress(m)'
        <3>1. Progress(m) /\ Holds(m)' = Holds(m) /\ (Pending(m)' <=> Pending(m))
            BY <2>1, <2>2 DEF Holds
        <3>2. CASE ack.type = "PUBREC"
            <4>1. NotRouted(m) /\ NotRouted(m)' /\ phase'[m] = "release" /\ Holds(m)'
                BY <1>5, <2>1, <3>1, <3>2 DEF Progress, NotRouted
            <4> QED
                BY <4>1 DEF Progress
        <3>3. CASE ack.type = "PUBCOMP"
            <4>1. RoutedOnce(m) /\ RoutedOnce(m)' /\ phase'[m] = "done"
                BY <1>5, <2>1, <3>1, <3>3 DEF Progress, RoutedOnce
            <4> QED
                BY <4>1 DEF Progress
        <3>4. ack.type # "PUBACK"
            BY <1>5, <2>2
        <3> QED
            BY <1>5, <3>2, <3>3, <3>4
    <2>3. CASE n # m
        BY <1>4, <2>1, <2>3, ProgressStays
    <2> QED
        BY <2>2, <2>3
<1> QED
    BY <1>6, <1>7

\* The answer of a handler is the last of what its client has to read.
LEMMA AnswersAre ==
    ASSUME PublishingTypeOK, NEW h \in Conns, NEW type \in {"PUBACK", "PUBREC", "PUBCOMP"},
           NEW i \in PacketIds, Answer(h, type, i)
    PROVE  \A a \in Packets(toClient'[h]) :
               a \in Packets(toClient[h]) \/ (a.type = type /\ a.id = i)
<1> DEFINE b == [type |-> type, id |-> i, msg |-> None]
<1>1. toClient[h] \in Seq(Packet) /\ b \in Packet
    BY DEF PublishingTypeOK, Packet
<1>2. Packets(Append(toClient[h], b)) = Packets(toClient[h]) \cup {b}
    BY <1>1, AppendToPackets
<1>3. toClient'[h] = toClient[h] \/ toClient'[h] = Append(toClient[h], b)
    <2>1. toClient \in [Conns -> Seq(Packet)]
        BY DEF PublishingTypeOK
    <2>2. toClient' = toClient \/ toClient' = [toClient EXCEPT ![h] = Append(@, b)]
        BY AnswerIs
    <2> QED
        BY <2>1, <2>2
<1>4. b.type = type /\ b.id = i
    OBVIOUS
<1> HIDE DEF b
<1> QED
    BY <1>2, <1>3, <1>4

\* The answers under way do not carry the identifier of the next packet.
LEMMA NoAnswerYet ==
    ASSUME PInv, current # None, toBroker[current] # <<>>
    PROVE  \A a \in Packets(toClient[current]) : a.id # Head(toBroker[current]).id
<1>1. current \in Conns
    BY DEF PInv, PublishingTypeOK
<1>2. Head(toBroker[current]) \in Packets(toBroker[current])
    BY <1>1, TailOfPackets DEF PInv, PublishingTypeOK
<1> QED
    BY <1>2 DEF PInv, InFlight

LEMMA HandlePublish0KeepsEInv ==
    ASSUME TypeOK, PInv, EInv, NEW h \in Conns, HandlePublish0(h), Onward
    PROVE  HeldByBroker' /\ ExactlyOnce'
<1> PICK m : m = Head(toBroker[h]).msg
    OBVIOUS
<1>1. /\ QoSOf[m] = 0
      /\ routed' = [routed EXCEPT ![m] = @ + 1]
      /\ UNCHANGED <<held, rest, toClient, current, phase, packetId>> /\ UNCHANGED <<cid, mine>>
    BY DEF HandlePublish0, Routed, Onward, client
<1>2. HeldByBroker'
    BY <1>1, HeldStays DEF EInv, HeldByBroker, Unfinished
<1>3. ExactlyOnce'
    <2> SUFFICES ASSUME NEW n \in Messages, QoSOf[n] = 2 PROVE Progress(n)'
        BY DEF ExactlyOnce
    <2>1. routed'[n] = routed[n]
        <3>1. n # m
            BY <1>1
        <3>2. routed \in [Messages -> Nat]
            BY DEF PInv, PublishingTypeOK
        <3> QED
            BY <1>1, <3>1, <3>2
    <2>2. Progress(n) /\ (Pending(n)' <=> Pending(n)) /\ (Holds(n)' <=> Holds(n))
        BY <1>1 DEF EInv, ExactlyOnce, Pending, Holds
    <2> QED
        BY <1>1, <2>1, <2>2, ProgressStays
<1> QED
    BY <1>2, <1>3

LEMMA HandlePublish1KeepsEInv ==
    ASSUME TypeOK, PInv, EInv, NEW h \in Conns, HandlePublish1(h), Onward
    PROVE  HeldByBroker' /\ ExactlyOnce'
<1> PICK p : p = Head(toBroker[h])
    OBVIOUS
<1>1. /\ QoSOf[p.msg] = 1 /\ CanHandle(h, "PUBLISH")
      /\ rest' = [rest EXCEPT ![h] = p.msg]
      /\ Answer(h, "PUBACK", p.id)
      /\ UNCHANGED <<held, routed, current, phase, packetId>> /\ UNCHANGED <<cid, mine>>
    BY DEF HandlePublish1, Onward, client
<1>2. rest[h] = None /\ p.id \in PacketIds
    BY <1>1, NextPacket
<1>3. HeldByBroker'
    <2>1. current # None => \A a \in Packets(toClient'[current]) :
               a \in Packets(toClient[current]) \/ a.type = "PUBACK"
        <3>1. CASE current = h
            BY <1>1, <1>2, <3>1, AnswersAre DEF PInv
        <3>2. CASE current # h
            BY <1>1, <3>2, AnswerIs DEF PInv, PublishingTypeOK
        <3> QED
            BY <3>1, <3>2
    <2>2. Unfinished' = Unfinished
        BY <1>1 DEF Unfinished
    <2> QED
        BY <1>1, <2>1, <2>2, HeldStays DEF EInv, HeldByBroker
<1>4. ExactlyOnce'
    <2> SUFFICES ASSUME NEW n \in Messages, QoSOf[n] = 2 PROVE Progress(n)'
        BY DEF ExactlyOnce
    <2>1. Pending(n)' <=> Pending(n)
        <3>1. \A g \in Conns : rest'[g] = IF g = h THEN p.msg ELSE rest[g]
            BY <1>1 DEF PInv, PublishingTypeOK
        <3>2. n # p.msg /\ n # None
            BY <1>1, MessageAssumption
        <3> QED
            BY <1>2, <3>1, <3>2 DEF Pending
    <2>2. Progress(n) /\ (Holds(n)' <=> Holds(n))
        BY <1>1 DEF EInv, ExactlyOnce, Holds
    <2> QED
        BY <1>1, <2>1, <2>2, ProgressStays
<1> QED
    BY <1>3, <1>4

LEMMA HandlePublish2KeepsEInv ==
    ASSUME IInv, SInv, PInv, EInv, NEW h \in Conns, HandlePublish2(h), Onward
    PROVE  HeldByBroker' /\ ExactlyOnce'
<1> PICK p : p = Head(toBroker[h])
    OBVIOUS
<1> PICK s : s = mine[h]
    OBVIOUS
<1>1. /\ QoSOf[p.msg] = 2 /\ CanHandle(h, "PUBLISH")
      /\ StoreQoS2(h, p) /\ Answer(h, "PUBREC", p.id)
      /\ UNCHANGED <<routed, current, phase, packetId>> /\ UNCHANGED <<cid, mine>>
    BY DEF HandlePublish2, Onward, client
<1>2. /\ pc[h] = "loop" /\ p.id \in PacketIds /\ p.msg \in Messages /\ p.type = "PUBLISH"
      /\ toBroker[h] # <<>>
      /\ h = current => Asked(p)
    BY <1>1, NextPacket, MessageAssumption DEF IInv
<1>3. /\ h = current /\ current # None /\ s \in Conns /\ s = mine[current] /\ cid[s] # None
      /\ sessions[cid[h]] = s
    BY <1>2, ReaderIsLatest, ConstantsAssumption DEF EInv
<1>4. /\ held' = [held EXCEPT ![s][p.id] = p.msg] /\ rest' = rest
    BY <1>1, <1>3, ConstantsAssumption DEF StoreQoS2
<1>5. PICK m \in Unfinished : m = p.msg /\ packetId[m] = p.id /\ phase[m] = "publish"
    BY <1>2, <1>3 DEF Asked
<1>6. /\ held'[s][p.id] = m /\ m # None
      /\ \A t \in Conns, i \in PacketIds : t # s \/ i # p.id => held'[t][i] = held[t][i]
    BY <1>2, <1>3, <1>4, <1>5, MessageAssumption DEF PInv, PublishingTypeOK
<1>7. Unfinished' = Unfinished
    BY <1>1 DEF Unfinished
<1>8. HeldByBroker'
    <2>1. \A t \in Conns, i \in PacketIds : cid'[t] = None => held'[t][i] = None
        BY <1>1, <1>3, <1>6 DEF EInv, HeldByBroker
    <2>2. \A i \in PacketIds :
              held'[s][i] # None =>
                  /\ held'[s][i] \in Unfinished
                  /\ packetId[held'[s][i]] = i
                  /\ QoSOf[held'[s][i]] = 2
        BY <1>1, <1>3, <1>5, <1>6 DEF EInv, HeldByBroker
    <2>3. \A a \in Packets(toClient'[h]) :
              /\ a.type = "PUBREC" => held'[s][a.id] # None
              /\ a.type = "PUBCOMP" => held'[s][a.id] = None
        <3> SUFFICES ASSUME NEW a \in Packets(toClient'[h])
                     PROVE  /\ a.type = "PUBREC" => held'[s][a.id] # None
                            /\ a.type = "PUBCOMP" => held'[s][a.id] = None
            OBVIOUS
        <3>1. CASE a \in Packets(toClient[h])
            <4>1. a.id # p.id
                BY <1>2, <1>3, <3>1, NoAnswerYet
            <4>2. a.id \in PacketIds
                BY <1>3, <3>1 DEF PInv, InFlight, Answered, Identified
            <4> QED
                BY <1>3, <1>6, <3>1, <4>1, <4>2 DEF EInv, HeldByBroker
        <3>2. CASE a.type = "PUBREC" /\ a.id = p.id
            BY <1>6, <3>2
        <3> QED
            BY <1>1, <1>2, <3>1, <3>2, AnswersAre DEF PInv
    <2> QED
        BY <1>1, <1>3, <1>7, <2>1, <2>2, <2>3 DEF HeldByBroker
<1>9. ExactlyOnce'
    <2> SUFFICES ASSUME NEW n \in Messages, QoSOf[n] = 2 PROVE Progress(n)'
        BY DEF ExactlyOnce
    <2>1. Progress(n) /\ (Pending(n)' <=> Pending(n))
        BY <1>4 DEF EInv, ExactlyOnce, Pending
    <2>2. ASSUME phase[n] = "release" PROVE Holds(n)' <=> Holds(n)
        <3>1. n \in Unfinished /\ n # m
            BY <1>5, <2>2 DEF Unfinished
        <3>2. packetId[n] \in PacketIds /\ packetId[n] # p.id
            BY <1>5, <3>1 DEF PInv, Identified
        <3> QED
            BY <1>1, <1>3, <1>6, <3>2 DEF Holds
    <2> QED
        BY <1>1, <2>1, <2>2, ProgressStays
<1> QED
    BY <1>8, <1>9

LEMMA HandlePubrelKeepsEInv ==
    ASSUME IInv, SInv, PInv, EInv, NEW h \in Conns, HandlePubrel(h), Onward
    PROVE  HeldByBroker' /\ ExactlyOnce'
<1> PICK p : p = Head(toBroker[h])
    OBVIOUS
<1> PICK s : s = mine[h]
    OBVIOUS
<1> PICK m : m = held[s][p.id]
    OBVIOUS
<1>1. /\ CanHandle(h, "PUBREL") /\ Answer(h, "PUBCOMP", p.id)
      /\ UNCHANGED <<routed, current, phase, packetId>> /\ UNCHANGED <<cid, mine>>
    BY DEF HandlePubrel, Onward, client
<1>2. /\ pc[h] = "loop" /\ rest[h] = None /\ p.id \in PacketIds /\ p.type = "PUBREL"
      /\ toBroker[h] # <<>> /\ p.id # None
      /\ h = current => Asked(p)
    BY <1>1, NextPacket, MessageAssumption DEF IInv
<1>3. /\ h = current /\ current # None /\ s \in Conns /\ s = mine[current] /\ cid[s] # None
      /\ sessions[cid[h]] = s /\ s # None
    BY <1>2, ReaderIsLatest, ConstantsAssumption DEF EInv
<1>4. /\ held' = [held EXCEPT ![s][p.id] = None]
      /\ IF m # None THEN rest' = [rest EXCEPT ![h] = m] ELSE rest' = rest
    BY <1>3 DEF HandlePubrel, Release
<1>5. PICK n \in Unfinished : packetId[n] = p.id /\ phase[n] = "release"
    <2>1. PICK n \in Unfinished :
              /\ packetId[n] = p.id
              /\ IF phase[n] = "publish" THEN p.type = "PUBLISH" /\ p.msg = n
                                         ELSE p.type = "PUBREL"
        BY <1>2, <1>3 DEF Asked
    <2> QED
        BY <1>2, <2>1 DEF Unfinished
<1>6. /\ held'[s][p.id] = None
      /\ \A t \in Conns, i \in PacketIds : t # s \/ i # p.id => held'[t][i] = held[t][i]
    BY <1>2, <1>3, <1>4 DEF PInv, PublishingTypeOK
<1>7. m # None => m = n
    BY <1>2, <1>3, <1>5 DEF EInv, HeldByBroker, PInv, Identified
<1>8. HeldByBroker'
    <2>1. \A t \in Conns, i \in PacketIds : cid'[t] = None => held'[t][i] = None
        BY <1>1, <1>3, <1>6 DEF EInv, HeldByBroker
    <2>2. \A i \in PacketIds :
              held'[s][i] # None =>
                  /\ held'[s][i] \in Unfinished
                  /\ packetId[held'[s][i]] = i
                  /\ QoSOf[held'[s][i]] = 2
        BY <1>1, <1>3, <1>6 DEF EInv, HeldByBroker
    <2>3. \A a \in Packets(toClient'[h]) :
              /\ a.type = "PUBREC" => held'[s][a.id] # None
              /\ a.type = "PUBCOMP" => held'[s][a.id] = None
        <3> SUFFICES ASSUME NEW a \in Packets(toClient'[h])
                     PROVE  /\ a.type = "PUBREC" => held'[s][a.id] # None
                            /\ a.type = "PUBCOMP" => held'[s][a.id] = None
            OBVIOUS
        <3>1. CASE a \in Packets(toClient[h])
            <4>1. a.id # p.id
                BY <1>2, <1>3, <3>1, NoAnswerYet
            <4>2. a.id \in PacketIds
                BY <1>3, <3>1 DEF PInv, InFlight, Answered, Identified
            <4> QED
                BY <1>3, <1>6, <3>1, <4>1, <4>2 DEF EInv, HeldByBroker
        <3>2. CASE a.type = "PUBCOMP" /\ a.id = p.id
            BY <1>6, <3>2
        <3> QED
            BY <1>1, <1>2, <3>1, <3>2, AnswersAre DEF PInv
    <2>4. Unfinished' = Unfinished
        BY <1>1 DEF Unfinished
    <2> QED
        BY <1>1, <1>3, <2>1, <2>2, <2>3, <2>4 DEF HeldByBroker
<1>9. ExactlyOnce'
    <2> SUFFICES ASSUME NEW k \in Messages, QoSOf[k] = 2 PROVE Progress(k)'
        BY DEF ExactlyOnce
    <2>1. Progress(k) /\ k # None
        BY MessageAssumption DEF EInv, ExactlyOnce
    <2>2. \A g \in Conns : rest'[g] = IF g = h THEN m ELSE rest[g]
        BY <1>2, <1>4 DEF PInv, PublishingTypeOK
    <2>3. CASE k # n
        <3>1. Pending(k)' <=> Pending(k)
            BY <1>2, <1>7, <2>1, <2>2, <2>3 DEF Pending
        <3>2. ASSUME phase[k] = "release" PROVE Holds(k)' <=> Holds(k)
            <4>1. k \in Unfinished
                BY <3>2 DEF Unfinished
            <4>2. packetId[k] \in PacketIds /\ packetId[k] # p.id
                BY <1>5, <2>3, <4>1 DEF PInv, Identified
            <4> QED
                BY <1>1, <1>3, <1>6, <4>2 DEF Holds
        <3> QED
            BY <1>1, <2>1, <3>1, <3>2, ProgressStays
    <2>4. ASSUME k = n PROVE Progress(n)'
        <3>1. Holds(n) <=> m = n
            BY <1>3, <1>5 DEF Holds
        <3>2. phase'[n] = "release" /\ ~Holds(n)'
            BY <1>1, <1>3, <1>5, <1>6, <2>1, <2>4 DEF Holds
        <3>3. CASE m = n
            <4>1. NotRouted(n)
                BY <1>5, <2>1, <2>4, <3>1, <3>3 DEF Progress
            <4>2. routed'[n] = 0 /\ Pending(n)'
                BY <1>1, <2>2, <3>3, <4>1 DEF NotRouted, Pending
            <4> QED
                BY <3>2, <4>2 DEF Progress, RoutedOnce
        <3>4. CASE m # n
            <4>1. m = None /\ RoutedOnce(n)
                BY <1>5, <1>7, <2>1, <2>4, <3>1, <3>4 DEF Progress
            <4>2. RoutedOnce(n)'
                BY <1>1, <1>4, <4>1 DEF RoutedOnce, Pending
            <4> QED
                BY <3>2, <4>2 DEF Progress
        <3> QED
            BY <3>3, <3>4
    <2> QED
        BY <2>3, <2>4
<1> QED
    BY <1>8, <1>9

LEMMA RouteRestKeepsEInv ==
    ASSUME IInv, SInv, PInv, EInv, NEW h \in Conns, RouteRest(h), Onward
    PROVE  HeldByBroker' /\ ExactlyOnce'
<1> PICK m : m = rest[h]
    OBVIOUS
<1>1. /\ m # None
      /\ rest' = [rest EXCEPT ![h] = None]
      /\ routed' = [routed EXCEPT ![m] = @ + 1]
      /\ UNCHANGED <<held, toClient, current, phase, packetId>> /\ UNCHANGED <<cid, mine>>
    BY DEF RouteRest, Sending, Routed, Onward, client
<1>2. pc[h] = "loop" /\ m \in Messages
    BY <1>1 DEF PInv, PublishingTypeOK, Sending
<1>3. \A g \in Conns : rest[g] # None => g = h
    BY <1>2, ReaderIsLatest DEF EInv, PInv, PublishingTypeOK, Sending
<1>4. \A g \in Conns : rest'[g] = None
    BY <1>1, <1>3 DEF PInv, PublishingTypeOK
<1>5. HeldByBroker'
    BY <1>1, HeldStays DEF EInv, HeldByBroker, Unfinished
<1>6. ExactlyOnce'
    <2> SUFFICES ASSUME NEW k \in Messages, QoSOf[k] = 2 PROVE Progress(k)'
        BY DEF ExactlyOnce
    <2>1. Progress(k) /\ k # None
        BY MessageAssumption DEF EInv, ExactlyOnce
    <2>2. ~Pending(k)' /\ (Pending(k) <=> k = m)
        BY <1>3, <1>4, <2>1 DEF Pending
    <2>3. routed'[k] = IF k = m THEN routed[k] + 1 ELSE routed[k]
        BY <1>1, <1>2 DEF PInv, PublishingTypeOK
    <2>4. Holds(k)' <=> Holds(k)
        BY <1>1 DEF Holds
    <2>5. CASE k # m
        BY <1>1, <2>1, <2>2, <2>3, <2>4, <2>5, ProgressStays
    <2>6. CASE k = m
        <3>1. ~NotRouted(k) /\ (RoutedOnce(k) => RoutedOnce(k)')
            BY <2>2, <2>3, <2>6 DEF NotRouted, RoutedOnce
        <3> QED
            BY <1>1, <2>1, <2>4, <3>1 DEF Progress
    <2> QED
        BY <2>5, <2>6
<1> QED
    BY <1>5, <1>6

LEMMA ConnectKeepsEInv ==
    ASSUME ~Overlap, IInv, SInv, PInv, EInv,
           NEW h \in Conns, NEW o \in ConnectOptions, NEW broken \in BOOLEAN,
           ConnectClient(h, o, broken)
    PROVE  EInv'
<1> PICK s : s = IF Resumes(Publisher, o) THEN sessions[Publisher] ELSE h
    OBVIOUS
<1>1. /\ pc[h] = "first" /\ cid[h] = None
      /\ \A g \in Conns : cid[g] = Publisher => pc[g] = "done"
      /\ cid' = [cid EXCEPT ![h] = Publisher]
      /\ mine' = [mine EXCEPT ![h] = s]
      /\ sessions' = [sessions EXCEPT ![Publisher] = s]
      /\ \A g \in Conns \ {h} : pc'[g] = pc[g]
      /\ current' = h
      /\ UNCHANGED <<packetId, toClient, held, rest, routed>>
    BY DEF ConnectClient, Connect, MayConnect, broker, IInv, Untouched, TypeOK
<1>2. /\ Publisher \in Clients /\ Publisher # None /\ h # None
      /\ cid'[h] = Publisher /\ mine'[h] = s /\ sessions'[Publisher] = s
      /\ \A g \in Conns \ {h} : cid'[g] = cid[g] /\ mine'[g] = mine[g]
    BY <1>1, MessageAssumption, ConstantsAssumption DEF IInv, TypeOK
<1>3. \/ /\ s # h /\ current # None /\ s = mine[current] /\ phase' = phase
      \/ /\ s = h
         /\ phase' = [m \in Messages |-> IF m \in Unfinished THEN "given up" ELSE phase[m]]
    <2>1. sessions[Publisher] # h
        BY <1>1, <1>2, ConstantsAssumption DEF IInv, Ownership
    <2>2. Resumes(Publisher, o) => current # None /\ sessions[Publisher] = mine[current]
        BY DEF Resumes, EInv, Latest
    <2> QED
        BY <2>1, <2>2 DEF ConnectClient
<1>4. Latest'
    <2>1. \A g \in Conns \ {h} : pc'[g] \notin {"connack", "loop"}
        BY <1>1 DEF EInv, Latest, IInv, TypeOK
    <2> QED
        BY <1>1, <1>2, <2>1 DEF EInv, Latest
<1>5. HeldByBroker'
    <2>1. \A t \in Conns, i \in PacketIds : cid'[t] = None => held'[t][i] = None
        BY <1>1, <1>2 DEF EInv, HeldByBroker
    <2>2. Packets(toClient'[h]) = {}
        BY <1>1, NoPackets DEF PInv, Fresh
    <2>3. \A i \in PacketIds :
              held[s][i] # None =>
                  /\ held[s][i] \in Unfinished'
                  /\ packetId[held[s][i]] = i
                  /\ QoSOf[held[s][i]] = 2
        <3>1. CASE s = h
            BY <1>1, <3>1 DEF EInv, HeldByBroker
        <3>2. CASE s # h
            BY <1>3, <3>2 DEF EInv, HeldByBroker, Unfinished
        <3> QED
            BY <3>1, <3>2
    <2> QED
        BY <1>1, <1>2, <2>1, <2>2, <2>3 DEF HeldByBroker
<1>6. ExactlyOnce'
    <2> SUFFICES ASSUME NEW k \in Messages, QoSOf[k] = 2 PROVE Progress(k)'
        BY DEF ExactlyOnce
    <2>1. Progress(k) /\ (Pending(k)' <=> Pending(k)) /\ routed'[k] = routed[k]
        BY <1>1 DEF EInv, ExactlyOnce, Pending
    <2>2. CASE s # h
        <3>1. Holds(k)' <=> Holds(k)
            BY <1>1, <1>2, <1>3, <2>2 DEF Holds
        <3> QED
            BY <1>3, <2>1, <2>2, <3>1, ProgressStays
    <2>3. CASE s = h
        <3>1. phase'[k] = IF phase[k] \in {"publish", "release"} THEN "given up" ELSE phase[k]
            BY <1>3, <2>3 DEF Unfinished
        <3>2. (NotRouted(k)' <=> NotRouted(k)) /\ (RoutedOnce(k)' <=> RoutedOnce(k))
            BY <2>1 DEF NotRouted, RoutedOnce
        <3> QED
            BY <2>1, <3>1, <3>2 DEF Progress
    <2> QED
        BY <2>2, <2>3
<1> QED
    BY <1>4, <1>5, <1>6 DEF EInv

LEMMA QuietKeepsEInv ==
    ASSUME TypeOK, EInv, Onward,
           UNCHANGED <<held, rest, routed, toClient, current, phase, packetId>>
    PROVE  EInv'
<1>1. Latest'
    BY OnwardKeepsLatest DEF EInv
<1>2. HeldByBroker'
    BY DEF EInv, HeldByBroker, Onward, Unfinished
<1>3. ExactlyOnce'
    <2> SUFFICES ASSUME NEW k \in Messages, QoSOf[k] = 2 PROVE Progress(k)'
        BY DEF ExactlyOnce
    <2>1. Progress(k) /\ (Pending(k)' <=> Pending(k)) /\ (Holds(k)' <=> Holds(k))
        BY DEF EInv, ExactlyOnce, Pending, Holds, Onward
    <2> QED
        BY <2>1, ProgressStays
<1> QED
    BY <1>1, <1>2, <1>3 DEF EInv

LEMMA NextKeepsEInv ==
    ASSUME ~Overlap, IInv, SInv, PInv, EInv, [PublishingNext]_<<vars, flow>>
    PROVE  EInv'
<1> USE OnwardKeepsLatest DEF EInv
<1>1. TypeOK /\ PublishingTypeOK
    BY DEF IInv, PInv
<1>2. ASSUME NEW m \in Messages, NEW i \in PacketIds, Publish(m, i) PROVE EInv'
    BY <1>1, <1>2, PublishKeepsPInv, PublishKeepsEInv DEF Publish
<1>3. ASSUME NEW m \in Messages, SendAgain(m) PROVE EInv'
    BY <1>1, <1>3, SendAgainKeepsPInv, QuietKeepsEInv DEF SendAgain, broker
<1>4. ASSUME ReadAck PROVE EInv'
    BY <1>1, <1>4, ReadAckKeepsPInv, ReadAckKeepsEInv DEF ReadAck
<1>5. ASSUME NEW h \in Conns, HandlePublish0(h) PROVE EInv'
    BY <1>1, <1>5, HandlePublish0KeepsPInv, HandlePublish0KeepsEInv DEF HandlePublish0, client
<1>6. ASSUME NEW h \in Conns, HandlePublish1(h) PROVE EInv'
    BY <1>1, <1>6, HandlePublish1KeepsPInv, HandlePublish1KeepsEInv DEF HandlePublish1, client
<1>7. ASSUME NEW h \in Conns, HandlePublish2(h) PROVE EInv'
    BY <1>1, <1>7, HandlePublish2KeepsPInv, HandlePublish2KeepsEInv DEF HandlePublish2, client
<1>8. ASSUME NEW h \in Conns, HandlePubrel(h) PROVE EInv'
    BY <1>1, <1>8, HandlePubrelKeepsPInv, HandlePubrelKeepsEInv DEF HandlePubrel, client
<1>9. ASSUME NEW h \in Conns, RouteRest(h) PROVE EInv'
    BY <1>1, <1>9, RouteRestKeepsPInv, RouteRestKeepsEInv DEF RouteRest, client
<1>10. ASSUME NEW h \in Conns, NEW o \in ConnectOptions, NEW broken \in BOOLEAN,
              ConnectClient(h, o, broken)
       PROVE  EInv'
    BY <1>10, ConnectKeepsEInv
<1>11. ASSUME NEW h \in Conns, NEW f \in Filters, SubscribeClient(h, f) PROVE EInv'
    BY <1>1, <1>11, SubscribeGoesOnward, QuietKeepsEInv DEF flow
<1>12. ASSUME NEW h \in Conns, Lifecycle(h) PROVE EInv'
    BY <1>1, <1>12, LifecycleGoesOnward, QuietKeepsEInv DEF flow
<1>13. ASSUME UNCHANGED <<vars, flow>> PROVE EInv'
    BY <1>1, <1>13, ClientGoesOnward, QuietKeepsEInv DEF flow
<1> QED
    BY <1>2, <1>3, <1>4, <1>5, <1>6, <1>7, <1>8, <1>9, <1>10, <1>11, <1>12, <1>13
       DEF PublishingNext

-----------------------------------------------------------------------------
\* The invariant holds when no client connects before its last connection is
\* over.
THEOREM ExactlyOnceInvariance == ASSUME ~Overlap PROVE PublishingSpec => []EInv
<1>1. IInv /\ SInv /\ PInv /\ EInv /\ [PublishingNext]_<<vars, flow>> => EInv'
    BY NextKeepsEInv
<1> QED
    BY <1>1, InitEInv, PublishingInvariance, PublishingIsOverConnections,
       SequentialInvariance, PTL DEF PublishingSpec

\* A QoS 2 message is never routed twice, whatever is lost and sent again: the
\* session holds it until the PUBREL that routes it, and a second PUBREL finds
\* nothing.
THEOREM QoS2IsAtMostOnce == ASSUME ~Overlap PROVE PublishingSpec => []RoutedAtMostOnce
<1>1. PInv /\ EInv => RoutedAtMostOnce
    <2> SUFFICES ASSUME PInv, EInv, NEW m \in Messages, QoSOf[m] = 2
                 PROVE  routed[m] <= 1 /\ (routed[m] = 1 => ~Pending(m))
        BY DEF RoutedAtMostOnce
    <2>1. /\ Progress(m)
          /\ phase[m] \in {"new", "publish", "release", "done", "given up"}
        BY DEF PInv, PublishingTypeOK, EInv, ExactlyOnce
    <2>2. NotRouted(m) \/ RoutedOnce(m)
        BY <2>1 DEF Progress
    <2> QED
        BY <2>2 DEF NotRouted, RoutedOnce
<1> QED
    BY <1>1, PublishingInvariance, ExactlyOnceInvariance, PTL

\* A message of QoS 1 or 2 whose flow the client saw to its end was routed, or
\* will be by the handler that answered.
THEOREM AcknowledgedMessagesAreRouted ==
    ASSUME ~Overlap PROVE PublishingSpec => []AcknowledgedIsRouted
<1>1. PInv /\ EInv => AcknowledgedIsRouted
    <2> SUFFICES ASSUME PInv, EInv, NEW m \in Messages, phase[m] = "done", QoSOf[m] > 0
                 PROVE  routed[m] > 0 \/ Pending(m)
        BY DEF AcknowledgedIsRouted
    <2>1. CASE QoSOf[m] = 1
        BY <2>1 DEF PInv, AtLeastOnce, Reached
    <2>2. CASE QoSOf[m] = 2
        <3>1. Progress(m)
            BY <2>2 DEF EInv, ExactlyOnce
        <3>2. RoutedOnce(m)
            BY <3>1 DEF Progress
        <3> QED
            BY <3>2 DEF RoutedOnce
    <2> QED
        BY <2>1, <2>2, MessageAssumption
<1> QED
    BY <1>1, PublishingInvariance, ExactlyOnceInvariance, PTL
=============================================================================
