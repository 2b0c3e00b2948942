----------------------------- MODULE Publishing -----------------------------
(***************************************************************************)
(* How a message enters the broker: the QoS 0, 1 and 2 flows from a client *)
(* to the broker (_handle_publish, _handle_pubrel), the retained message   *)
(* they leave, and the connections of BrokerSessions underneath, which end *)
(* and are taken over at any point of a flow.                              *)
(*                                                                         *)
(* A client is a well-behaved MQTT client.  It gives each message a packet *)
(* identifier that none of its unfinished messages has, sends it again on  *)
(* a new connection that resumes the session, and forgets its unfinished   *)
(* messages when the session is new.  What it wrote on a connection the    *)
(* broker reads in order, or never.                                        *)
(*                                                                         *)
(* All messages have one topic and are published by one client.            *)
(***************************************************************************)
EXTENDS BrokerSessions, Sequences

CONSTANTS Messages,
          Publisher,   \* the client identifier that publishes them
          PacketIds,
          QoSOf,       \* the QoS of each message
          Retain,      \* the messages with the retain flag
          Clear        \* the messages with an empty payload

ASSUME MessageAssumption ==
    /\ Publisher \in Clients
    /\ QoSOf \in [Messages -> 0..2]
    /\ Retain \subseteq Messages /\ Clear \subseteq Messages
    /\ None \notin Messages \cup PacketIds

VARIABLES
    held,       \* qos2_in of each session object: packet identifier -> message
    rest,       \* the message a handler routes once its send is done
    routed,     \* how often each message was routed
    retained,   \* the entry of the topic in MQTTBroker.retained
    toBroker,   \* packets written on a connection and not read
    toClient,   \* acknowledgements written on a connection and not read
    current,    \* the connection the client uses
    phase,      \* the client's state of each message
    packetId,   \* the packet identifier of each message
    sentOn      \* the connection a message was last sent on in its phase

flow == <<held, rest, routed, retained, toBroker, toClient, current, phase,
          packetId, sentOn>>
broker == <<held, rest, routed, retained>>
client == <<current, phase, packetId, sentOn>>

Packet == [type: {"PUBLISH", "PUBREL", "PUBACK", "PUBREC", "PUBCOMP"},
           id: PacketIds \cup {None}, msg: Messages \cup {None}]

Tombstone == "tombstone"

PublishingInit ==
    /\ Init
    /\ held = [s \in Conns |-> [i \in PacketIds |-> None]]
    /\ rest = [h \in Conns |-> None]
    /\ routed = [m \in Messages |-> 0]
    /\ retained = None
    /\ toBroker = [h \in Conns |-> <<>>]
    /\ toClient = [h \in Conns |-> <<>>]
    /\ current = None
    /\ phase = [m \in Messages |-> "new"]
    /\ packetId = [m \in Messages |-> None]
    /\ sentOn = [m \in Messages |-> None]

-----------------------------------------------------------------------------
(***************************************************************************)
(* The client.                                                             *)
(***************************************************************************)
Unfinished == {m \in Messages : phase[m] \in {"publish", "release"}}

ToSend(m) ==
    IF phase[m] = "release"
    THEN [type |-> "PUBREL", id |-> packetId[m], msg |-> None]
    ELSE [type |-> "PUBLISH", id |-> packetId[m], msg |-> m]

Publish(m, i) ==
    /\ current # None
    /\ phase[m] = "new"
    /\ \A n \in Unfinished : packetId[n] # i
    /\ IF QoSOf[m] = 0
       THEN /\ phase' = [phase EXCEPT ![m] = "done"]
            /\ UNCHANGED <<packetId, sentOn>>
       ELSE /\ phase' = [phase EXCEPT ![m] = "publish"]
            /\ packetId' = [packetId EXCEPT ![m] = i]
            /\ sentOn' = [sentOn EXCEPT ![m] = current]
    /\ toBroker' = [toBroker EXCEPT ![current] =
           Append(@, [type |-> "PUBLISH", id |-> IF QoSOf[m] = 0 THEN None ELSE i,
                      msg |-> m])]
    /\ UNCHANGED <<vars, broker, toClient, current>>

\* On a resumed session every unfinished message is sent again, once.
SendAgain(m) ==
    /\ m \in Unfinished
    /\ current # None /\ sentOn[m] # current
    /\ toBroker' = [toBroker EXCEPT ![current] = Append(@, ToSend(m))]
    /\ sentOn' = [sentOn EXCEPT ![m] = current]
    /\ UNCHANGED <<vars, broker, toClient, current, phase, packetId>>

\* An acknowledgement moves the message it names on; others are ignored.
Acknowledged(m, ack) ==
    /\ packetId[m] = ack.id
    /\ \/ phase[m] = "publish" /\ QoSOf[m] = 1 /\ ack.type = "PUBACK"
       \/ phase[m] = "publish" /\ QoSOf[m] = 2 /\ ack.type = "PUBREC"
       \/ phase[m] = "release" /\ ack.type = "PUBCOMP"

ReadAck ==
    /\ current # None
    /\ toClient[current] # <<>>
    /\ toClient' = [toClient EXCEPT ![current] = Tail(@)]
    /\ LET ack == Head(toClient[current])
           next == IF ack.type = "PUBREC" THEN "release" ELSE "done"
       IN  IF \E m \in Messages : Acknowledged(m, ack)
           THEN \E m \in Messages :
                  /\ Acknowledged(m, ack)
                  /\ phase' = [phase EXCEPT ![m] = next]
                  /\ IF next = "release"
                     THEN /\ toBroker' = [toBroker EXCEPT ![current] =
                                Append(@, [type |-> "PUBREL", id |-> ack.id, msg |-> None])]
                          /\ sentOn' = [sentOn EXCEPT ![m] = current]
                     ELSE UNCHANGED <<toBroker, sentOn>>
           ELSE UNCHANGED <<phase, toBroker, sentOn>>
    /\ UNCHANGED <<vars, broker, current, packetId>>

-----------------------------------------------------------------------------
(***************************************************************************)
(* The broker.  After a PUBLISH of QoS 1 or a PUBREL the handler sends its *)
(* answer and only then retains and routes: the send may suspend it.       *)
(***************************************************************************)
\* The task of the handler is in the send that precedes the routing.
Sending(h) == rest[h] # None

CanHandle(h, type) ==
    /\ CanRead(h) /\ ~Sending(h)
    /\ toBroker[h] # <<>>
    /\ Head(toBroker[h]).type = type

Answer(h, type, i) ==
    toClient' = IF transport[h] = "open"
                THEN [toClient EXCEPT ![h] =
                         Append(@, [type |-> type, id |-> i, msg |-> None])]
                ELSE toClient

\* The end of a handler that sent: after a failed send the loop ends.
ContinueAfterSend(h) ==
    /\ IF transport[h] = "open" THEN Continue(h, subs, object)
                                ELSE Finish(h, subs, object)
    /\ UNCHANGED <<cid, mine, kick, willsSent, brought>>

\* The retained entry after the message m: an empty payload removes the entry
\* on QoS 0 and 1, and leaves None under the topic on QoS 2.
RetainedAfter(m) ==
    CASE m \notin Retain -> retained
      [] m \in Retain \ Clear -> m
      [] m \in Retain \cap Clear -> IF QoSOf[m] = 2 THEN Tombstone ELSE None

\* Fault: a handler whose send failed gives up.
RoutedIfConnected(h, m) ==
    IF connected[h] THEN [routed EXCEPT ![m] = @ + 1] ELSE routed

\* MQTTBroker.route, which does not suspend.
Routed(h, m) == [routed EXCEPT ![m] = @ + 1]

\* _handle_publish of a QoS 0 message: retained and routed at once.
HandlePublish0(h) ==
    LET m == Head(toBroker[h]).msg
    IN  /\ CanHandle(h, "PUBLISH") /\ QoSOf[m] = 0
        /\ toBroker' = [toBroker EXCEPT ![h] = Tail(@)]
        /\ retained' = RetainedAfter(m)
        /\ routed' = Routed(h, m)
        /\ Continue(h, subs, object)
        /\ UNCHANGED <<cid, mine, kick, willsSent, brought>>
        /\ UNCHANGED <<held, rest, toClient, client>>

\* _handle_publish of a QoS 1 message: PUBACK, then the rest.
HandlePublish1(h) ==
    LET p == Head(toBroker[h])
    IN  /\ CanHandle(h, "PUBLISH") /\ QoSOf[p.msg] = 1
        /\ toBroker' = [toBroker EXCEPT ![h] = Tail(@)]
        /\ Answer(h, "PUBACK", p.id)
        /\ rest' = [rest EXCEPT ![h] = p.msg]
        /\ UNCHANGED <<vars, held, routed, retained, client>>

\* Fault: a QoS 2 message is routed at once and held as well.
StoreAndRoute(h, p) ==
    /\ held' = [held EXCEPT ![sessions[cid[h]]][p.id] = p.msg]
    /\ rest' = [rest EXCEPT ![h] = p.msg]

\* store_qos2_incoming: held in the stored session, if there is one.
StoreQoS2(h, p) ==
    /\ held' = IF sessions[cid[h]] # None
               THEN [held EXCEPT ![sessions[cid[h]]][p.id] = p.msg]
               ELSE held
    /\ UNCHANGED rest

\* _handle_publish of a QoS 2 message: held, PUBREC, and not routed yet.
HandlePublish2(h) ==
    LET p == Head(toBroker[h])
    IN  /\ CanHandle(h, "PUBLISH") /\ QoSOf[p.msg] = 2
        /\ toBroker' = [toBroker EXCEPT ![h] = Tail(@)]
        /\ StoreQoS2(h, p)
        /\ Answer(h, "PUBREC", p.id)
        /\ ContinueAfterSend(h)
        /\ UNCHANGED <<routed, retained, client>>

\* Fault: the message is looked up and not removed.
ReleaseKeeps(s, i) == held

\* What release_qos2_incoming leaves held.
Release(s, i) == IF s = None THEN held ELSE [held EXCEPT ![s][i] = None]

\* _handle_pubrel: release, PUBCOMP whatever was held, then the rest.
HandlePubrel(h) ==
    LET p == Head(toBroker[h])
        s == sessions[cid[h]]
        m == IF s = None THEN None ELSE held[s][p.id]
    IN  /\ CanHandle(h, "PUBREL")
        /\ toBroker' = [toBroker EXCEPT ![h] = Tail(@)]
        /\ held' = Release(s, p.id)
        /\ Answer(h, "PUBCOMP", p.id)
        /\ IF m # None
           THEN /\ rest' = [rest EXCEPT ![h] = m]
                /\ UNCHANGED vars
           ELSE /\ ContinueAfterSend(h)
                /\ UNCHANGED rest
        /\ UNCHANGED <<routed, retained, client>>

\* The send is over, failed or not: retain, route and go on.
RouteRest(h) ==
    /\ Sending(h)
    /\ rest' = [rest EXCEPT ![h] = None]
    /\ retained' = RetainedAfter(rest[h])
    /\ routed' = Routed(h, rest[h])
    /\ ContinueAfterSend(h)
    /\ UNCHANGED <<held, toBroker, toClient, client>>

-----------------------------------------------------------------------------
(***************************************************************************)
(* The connections underneath.                                             *)
(***************************************************************************)
\* The client learns whether its session is resumed; if not, it starts anew.
ConnectClient(h, o, broken) ==
    /\ Connect(h, Publisher, o, broken)
    /\ current' = h
    /\ phase' = IF Resumes(Publisher, o) THEN phase
                ELSE [m \in Messages |->
                         IF m \in Unfinished THEN "given up" ELSE phase[m]]
    /\ UNCHANGED <<packetId, sentOn, toBroker, toClient, broker>>

\* What the client wrote before is read before; replaying the tombstone to a
\* subscriber raises.
SubscribeClient(h, f) ==
    /\ ~Sending(h) /\ toBroker[h] = <<>>
    /\ Subscribe(h, f, retained = Tombstone)
    /\ UNCHANGED flow

Lifecycle(h) ==
    /\ \/ Accept(h)
       \/ Reject(h)
       \/ Connacked(h)
       \/ ~Sending(h) /\ toBroker[h] = <<>> /\ Disconnect(h, TRUE)
       \/ DisconnectClosed(h)
       \/ ~Sending(h) /\ LeaveLoop(h)
       \/ SendFails(h)
       \/ KickTask(h)
       \/ Closed(h)
    /\ UNCHANGED flow

PublishingNext ==
    \/ \E m \in Messages, i \in PacketIds : Publish(m, i)
    \/ \E m \in Messages : SendAgain(m)
    \/ ReadAck
    \/ \E h \in Conns :
          \/ HandlePublish0(h)
          \/ HandlePublish1(h)
          \/ HandlePublish2(h)
          \/ HandlePubrel(h)
          \/ RouteRest(h)
          \/ \E o \in ConnectOptions, broken \in BOOLEAN :
                ~o.will /\ ConnectClient(h, o, broken)
          \/ \E f \in Filters : SubscribeClient(h, f)
          \/ Lifecycle(h)

PublishingSpec == PublishingInit /\ [][PublishingNext]_<<vars, flow>>

\* A suspended send is resumed: it succeeds, or fails with the connection.
FairPublishing ==
    PublishingSpec /\ \A h \in Conns : WF_<<vars, flow>>(RouteRest(h))

-----------------------------------------------------------------------------
\* Types; a handler in a send is in its packet loop.
PublishingTypeOK ==
    /\ held \in [Conns -> [PacketIds -> Messages \cup {None}]]
    /\ rest \in [Conns -> Messages \cup {None}]
    /\ routed \in [Messages -> Nat]
    /\ retained \in Messages \cup {None, Tombstone}
    /\ toBroker \in [Conns -> Seq(Packet)]
    /\ toClient \in [Conns -> Seq(Packet)]
    /\ current \in Conns \cup {None}
    /\ phase \in [Messages -> {"new", "publish", "release", "done", "given up"}]
    /\ packetId \in [Messages -> PacketIds \cup {None}]
    /\ sentOn \in [Messages -> Conns \cup {None}]
    /\ \A h \in Conns : Sending(h) => pc[h] = "loop"

Pending(m) == \E h \in Conns : rest[h] = m

\* "QoS 2 (exactly once)", first half: whatever is lost and sent again, no
\* QoS 2 message is routed twice, and none is about to be routed again.
RoutedAtMostOnce ==
    \A m \in Messages :
        QoSOf[m] = 2 => /\ routed[m] <= 1
                        /\ routed[m] = 1 => ~Pending(m)

\* The other half, and "QoS 1 (at least once)": a message the client sees
\* acknowledged to the end was routed, or is by the handler that answered.
AcknowledgedIsRouted ==
    \A m \in Messages :
        phase[m] = "done" /\ QoSOf[m] > 0 => routed[m] > 0 \/ Pending(m)

\* A message that is acknowledged to the end is routed in the end.
AcknowledgedGetsRouted ==
    \A m \in Messages : (phase[m] = "done" /\ QoSOf[m] > 0) ~> routed[m] > 0

\* "topic → retained pub": the dictionary maps topics to packets.
RetainedIsPacket == retained # Tombstone

=============================================================================
