--------------------------- MODULE MCPacketStream ---------------------------
(***************************************************************************)
(* Scripts for PacketStream: every CONNECT, good or bad, and after a good  *)
(* one short sequences of packets that meet the aliases, the sizes around  *)
(* the limits, and every type.                                             *)
(***************************************************************************)
EXTENDS PacketStream

\* The passwords of two users are not ASCII; one of them is stored as a digest.
MCUsers == <<1>> :> <<2, 3>> @@ <<2>> :> <<200>> @@ <<4>> :> <<201>>
MCHashed == {<<4>>}

\* The filter '+'.
MCTombstoned == {<<43>>}

Plain(l) ==
    [level |-> l, clean |-> FALSE, keepalive |-> 7, cid |-> <<5>>, props |-> <<>>,
     willTopic |-> None, willPayload |-> None, willProps |-> <<>>, willQos |-> 0,
     willRetain |-> FALSE, username |-> <<1>>, password |-> <<2, 3>>]

Nameless(l, clean) == [Plain(l) EXCEPT !.cid = <<>>, !.clean = clean]

Full ==
    [Plain(5) EXCEPT
        !.clean = TRUE, !.props = 17 :> 40 @@ 38 :> <<<<<<1>>, <<2>>>>, <<<<3>>, <<>>>>>>,
        !.willTopic = <<9>>, !.willPayload = <<1, 1>>, !.willProps = 24 :> 2,
        !.willQos = 2, !.willRetain = TRUE]

Packet(type, val) == [type |-> type, val |-> val]
Connect(c) == Packet(PacketType.CONNECT, c)

Connects ==
    {Connect(c) : c \in {Plain(3), Plain(4), Plain(6), Full,
                         Nameless(4, TRUE), Nameless(4, FALSE), Nameless(5, FALSE),
                         [Plain(4) EXCEPT !.password = <<2>>],
                         [Plain(4) EXCEPT !.username = <<7>>],
                         [Plain(4) EXCEPT !.username = None, !.password = None]}
                            \cup {[Plain(4) EXCEPT !.username = u, !.password = w] :
                                     u \in DOMAIN MCUsers, w \in {<<200>>, <<201>>}}}

Publish(topic, qos, props, payload) ==
    Packet(PacketType.PUBLISH,
           [topic |-> topic, id |-> IF qos > 0 THEN 8 ELSE None, props |-> props,
            payload |-> payload, qos |-> qos, retain |-> qos = 1, dup |-> qos = 2])

Alias(topic, a) == Publish(topic, a - 1, 35 :> a, <<>>)

Aliases == {Alias(topic, a) : topic \in {<<>>, <<10>>, <<11>>}, a \in {1, 2}}

Sized(n, l) == Publish(<<10>>, 0, <<>>, [i \in 1..(n - IF l = 5 THEN 4 ELSE 3) |-> i])

Filter(qos, b, h) == [qos |-> qos, noLocal |-> b, asPublished |-> b, handling |-> h]

Filters(type, filters) ==
    Packet(type, [id |-> 9, props |-> <<>>, filters |-> filters])

SubscribePlainly ==
    Filters(PacketType.SUBSCRIBE, <<<<<<10>>, Filter(1, FALSE, 0)>>>>)

Subscribe(l) ==
    Filters(PacketType.SUBSCRIBE,
            <<<<<<10>>, Filter(1, FALSE, 0)>>, <<<<>>, Filter(0, FALSE, 0)>>,
              <<<<43>>, Filter(2, l = 5, IF l = 5 THEN 2 ELSE 0)>>>>)

Unsubscribe == Filters(PacketType.UNSUBSCRIBE, <<<<10>>, <<12>>>>)

Disconnect(l) ==
    Packet(PacketType.DISCONNECT, [rc |-> IF l = 5 THEN 4 ELSE 0, props |-> <<>>])

\* Packets of every type, and some malformed ones.
Others(l) ==
    {Subscribe(l), SubscribePlainly, Unsubscribe, Disconnect(l)}
        \cup {Packet(type, 13) : type \in {4, 5, 6, 7}}
        \cup {Packet(type, None) : type \in {1, 3, 4, 8, 10, 12, 15}}

Ping == Packet(PacketType.PINGREQ, None)

Messages(l) ==
    {Sized(n, l) : n \in {MaxPacket, MaxPacket + 1, 81}}
        \cup {Publish(<<10, 43>>, 0, <<>>, <<>>), Publish(<<>>, 1, <<>>, <<1>>),
              Publish(<<10>>, 2, IF l = 5 THEN 3 :> <<4>> ELSE <<>>, <<1>>)}

MCScripts ==
    {<<c, Ping>> : c \in Connects}
        \cup {<<Packet(PacketType.CONNECT, None)>>, <<Ping, Connect(Plain(4))>>}
        \cup {<<Connect(Plain(5)), p, q>> : p, q \in Aliases}
        \cup UNION {{<<Connect(Plain(l)), p, Ping>> : p \in Others(l) \cup Messages(l)} :
                        l \in {4, 5}}
        \cup {<<Connect(Plain(5)), Alias(<<10>>, 1), p, Alias(<<>>, 1)>> : p \in Aliases}

\* The limit leaves room for a topic in place of an alias.
ASSUME RoomAssumption == RoomForTopics

=============================================================================
