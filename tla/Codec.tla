------------------------------- MODULE Codec -------------------------------
(***************************************************************************)
(* The packets of mqtt_broker/protocol.py: records to bytes and back.      *)
(*                                                                         *)
(* A byte is a number.  Text and binary data are sequences of bytes: UTF-8 *)
(* decoding, which replaces what it cannot read, is left out.  The base of *)
(* the variable-length integers is a constant, and a byte has twice as     *)
(* many values, so that an instance meets the limits of the formats with   *)
(* short packets.  An exception of a parser is the result Bad.             *)
(***************************************************************************)
EXTENDS Integers, SequencesExt

CONSTANTS Base,  \* 128 in the code
          None   \* an optional field that is absent

ASSUME BaseAssumption == Base \in Nat \ {0, 1, 2}

Radix == 2 * Base

PacketType ==
    [CONNECT |-> 1, CONNACK |-> 2, PUBLISH |-> 3, PUBACK |-> 4, PUBREC |-> 5,
     PUBREL |-> 6, PUBCOMP |-> 7, SUBSCRIBE |-> 8, SUBACK |-> 9,
     UNSUBSCRIBE |-> 10, UNSUBACK |-> 11, PINGREQ |-> 12, PINGRESP |-> 13,
     DISCONNECT |-> 14, AUTH |-> 15]

\* The type of a property; an unknown one is read as a byte.
PropType(id) ==
    CASE id \in {2, 17, 24, 39} -> "u32"
      [] id \in {3, 8, 18, 21, 26, 28, 31} -> "text"
      [] id \in {9, 22} -> "text"
      [] id = 11 -> "varint"
      [] id \in {19, 33, 34, 35} -> "u16"
      [] id = 38 -> "pair"
      [] OTHER -> "byte"

\* What a decoder returns: a value and the number of bytes read so far.
Got(val, at) == [ok |-> TRUE, val |-> val, at |-> at]
Bad == [ok |-> FALSE, val |-> None, at |-> 0]

\* Goes on with what was read, if anything was.  (The set has TLC evaluate r
\* once.)
Then(r, Next(_)) ==
    CHOOSE s \in {IF x.ok THEN Next(x) ELSE Bad : x \in {r}} : TRUE

\* A flag of a byte.
Bit(n, mask) == (n \div mask) % 2 = 1
When(test, seq) == IF test THEN seq ELSE <<>>

-----------------------------------------------------------------------------
\* encode_varint: digits from the lowest on, all but the last one marked.
EncodeVarint[n \in Nat] ==
    IF n < Base THEN <<n>> ELSE <<Base + (n % Base)>> \o EncodeVarint[n \div Base]

\* decode_varint: up to four digits, the first unmarked one is the last.
DecodeVarint(data, at) ==
    LET ends == {k \in 1..4 : at + k <= Len(data) /\ data[at + k] < Base}
        Digit(k) == IF k <= Min(ends) THEN data[at + k] % Base ELSE 0
    IN  IF ends = {} THEN Bad
        ELSE Got(Digit(1) + Base * (Digit(2) + Base * (Digit(3) + Base * Digit(4))),
                 at + Min(ends))

\* struct.pack, big-endian, in the formats "!H" and "!I"; n fits into the width.
Word(n) == <<n \div Radix, n % Radix>>
Long(n) == Word(n \div (Radix * Radix)) \o Word(n % (Radix * Radix))

\* struct.unpack, and the byte at an offset.
DecodeByte(data, at) ==
    IF at + 1 > Len(data) THEN Bad ELSE Got(data[at + 1], at + 1)

DecodeWord(data, at) ==
    IF at + 2 > Len(data) THEN Bad
    ELSE Got(Radix * data[at + 1] + data[at + 2], at + 2)

DecodeLong(data, at) ==
    Then(DecodeWord(data, at), LAMBDA high :
        Then(DecodeWord(data, high.at), LAMBDA low :
            Got(Radix * Radix * high.val + low.val, low.at)))

\* encode_utf8, encode_binary and their decoders.
EncodeText(s) == Word(Len(s)) \o s

DecodeText(data, at) ==
    Then(DecodeWord(data, at), LAMBDA len :
        IF len.at + len.val > Len(data) THEN Bad
        ELSE Got(SubSeq(data, len.at + 1, len.at + len.val), len.at + len.val))

DecodePair(data, at) ==
    Then(DecodeText(data, at), LAMBDA k :
        Then(DecodeText(data, k.at), LAMBDA v : Got(<<k.val, v.val>>, v.at)))

\* One value of a given type.
DecodeValue(type, data, at) ==
    CASE type = "byte" -> DecodeByte(data, at)
      [] type = "u16" -> DecodeWord(data, at)
      [] type = "u32" -> DecodeLong(data, at)
      [] type = "varint" -> DecodeVarint(data, at)
      [] type = "text" -> DecodeText(data, at)
      [] type = "pair" -> DecodePair(data, at)
      [] type = "rest" -> Got(SubSeq(data, at + 1, Len(data)), Len(data))

EncodeValue(type, val) ==
    CASE type = "byte" -> <<val>>
      [] type = "u16" -> Word(val)
      [] type = "u32" -> Long(val)
      [] type = "varint" -> EncodeVarint[val]
      [] type = "text" -> EncodeText(val)
      [] type = "pair" -> EncodeText(val[1]) \o EncodeText(val[2])

-----------------------------------------------------------------------------
\* Properties are a function from identifiers to values, and to the sequence
\* of values for the one that may be repeated.
Put(props, entry) ==
    LET id == entry[1]
        list == IF id \in DOMAIN props THEN props[id] ELSE <<>>
    IN  [i \in DOMAIN props \cup {id} |->
            IF i # id THEN props[i]
            ELSE IF PropType(id) = "pair" THEN Append(list, entry[2]) ELSE entry[2]]

\* What the loops of the parsers read: a filter, a filter and its options, a
\* property and its value.
Item(kind, data, at) ==
    CASE kind = "filter" -> DecodeText(data, at)
      [] kind = "subscription" ->
            Then(DecodeText(data, at), LAMBDA f :
                Then(DecodeByte(data, f.at), LAMBDA opts :
                    Got(<<f.val, opts.val>>, opts.at)))
      [] kind = "property" ->
            Then(DecodeByte(data, at), LAMBDA id :
                Then(DecodeValue(PropType(id.val), data, id.at), LAMBDA v :
                    Got(<<id.val, v.val>>, v.at)))

Add(kind, list, item) == IF kind = "property" THEN Put(list, item) ELSE Append(list, item)

\* One iteration, if the end was not reached.
More(kind, data, end, read) ==
    Then(read, LAMBDA r :
        IF r.at >= end THEN r
        ELSE Then(Item(kind, data, r.at), LAMBDA item :
                 Got(Add(kind, r.val, item.val), item.at)))

\* The loop; each iteration reads a byte at least.
Repeat(kind, data, start, end) ==
    LET Loop[k \in 0..end] ==
            IF k = 0 THEN Got(<<>>, start) ELSE More(kind, data, end, Loop[k - 1])
    IN  Loop[end]

\* encode_properties, in the order of the identifiers; a repeated one has an
\* entry for each of its values.
EntryBytes(id, val) == <<id>> \o EncodeValue(PropType(id), val)

PropBytes(props, id) ==
    CASE id \notin DOMAIN props -> <<>>
      [] id \in DOMAIN props /\ PropType(id) = "pair" ->
            FlattenSeq([i \in DOMAIN props[id] |-> EntryBytes(id, props[id][i])])
      [] OTHER -> EntryBytes(id, props[id])

EncodeProps(props) ==
    LET ids == 1..Max(DOMAIN props)
        body == FlattenSeq([id \in ids |-> PropBytes(props, id)])
    IN  IF DOMAIN props = {} THEN <<0>> ELSE EncodeVarint[Len(body)] \o body

\* decode_properties: what follows is read from the announced end on, even if
\* the last property went past it.
DecodeProps(data, at) ==
    Then(DecodeVarint(data, at), LAMBDA len :
        Then(Repeat("property", data, len.at, len.at + len.val), LAMBDA props :
            Got(props.val, len.at + len.val)))

\* One field of a packet: a value, properties, or a list up to the end.
DecodeField(type, data, at) ==
    CASE type = "props" -> DecodeProps(data, at)
      [] type \in {"filter", "subscription"} -> Repeat(type, data, at, Len(data))
      [] OTHER -> DecodeValue(type, data, at)

\* Reads one more field, a pair of name and type, into a record.
NextField(read, field, data) ==
    Then(read, LAMBDA r :
        Then(DecodeField(field[2], data, r.at), LAMBDA v :
            Got([r.val EXCEPT ![field[1]] = v.val], v.at)))

Fields(layout, data, at, record) ==
    LET Read[k \in 0..Len(layout)] ==
            IF k = 0 THEN Got(record, at) ELSE NextField(Read[k - 1], layout[k], data)
    IN  Read[Len(layout)]

PropsField(name, level) == When(level = 5, <<<<name, "props">>>>)
PropsBytes(props, level) == When(level = 5, EncodeProps(props))

BuildPacket(type, flags, body) ==
    <<16 * type + flags>> \o EncodeVarint[Len(body)] \o body

-----------------------------------------------------------------------------
Credentials(flags) ==
    When(Bit(flags, 128), <<<<"username", "text">>>>)
        \o When(Bit(flags, 64), <<<<"password", "text">>>>)

\* parse_connect: the flags say which of the later fields are there.
ParseConnect(data) ==
    LET head == Fields(<<<<"name", "text">>, <<"level", "byte">>,
                         <<"flags", "byte">>, <<"keepalive", "u16">>>>, data, 0,
                       [name |-> None, level |-> 0, flags |-> 0, keepalive |-> 0])
        Record(level, flags, keepalive) ==
            [level |-> level, clean |-> Bit(flags, 2), keepalive |-> keepalive,
             cid |-> None, props |-> <<>>,
             willTopic |-> None, willPayload |-> None, willProps |-> <<>>,
             willQos |-> (flags \div 8) % 4, willRetain |-> Bit(flags, 32),
             username |-> None, password |-> None]
        Will(level) == PropsField("willProps", level)
                           \o <<<<"willTopic", "text">>, <<"willPayload", "text">>>>
        Rest(level, flags) ==
            PropsField("props", level) \o <<<<"cid", "text">>>>
                \o When(Bit(flags, 4), Will(level)) \o Credentials(flags)
    IN  Then(head, LAMBDA h :
            Fields(Rest(h.val.level, h.val.flags), data, h.at,
                   Record(h.val.level, h.val.flags, h.val.keepalive)))

\* encode_connack: before MQTT 5.0 the code is translated, unknown ones to 5.
EncodeConnack(present, rc, level, props) ==
    LET rc311 == CASE rc = 0 -> 0 [] rc = 132 -> 1 [] rc = 133 -> 2
                   [] rc = 134 -> 4 [] rc = 136 -> 3 [] OTHER -> 5
    IN  BuildPacket(PacketType.CONNACK, 0,
            <<IF present THEN 1 ELSE 0, IF level = 5 THEN rc ELSE rc311>>
                \o PropsBytes(props, level))

\* parse_publish.
ParsePublish(flags, data, level) ==
    LET qos == (flags \div 2) % 4
    IN  Fields(<<<<"topic", "text">>>> \o When(qos > 0, <<<<"id", "u16">>>>)
                   \o PropsField("props", level) \o <<<<"payload", "rest">>>>,
               data, 0,
               [topic |-> None, id |-> None, props |-> <<>>, payload |-> None,
                qos |-> qos, retain |-> Bit(flags, 1), dup |-> Bit(flags, 8)])

\* Fault: a packet identifier is written for QoS 0 too.
PublishIdAlways(pub) == Word(IF pub.id = None THEN 0 ELSE pub.id)

PublishId(pub) ==
    When(pub.qos > 0, Word(IF pub.id = None THEN 0 ELSE pub.id))

\* encode_publish: what a receiver of a given protocol level gets.
EncodePublish(pub, level) ==
    LET Flag(b) == IF b THEN 1 ELSE 0
    IN  BuildPacket(PacketType.PUBLISH,
            8 * Flag(pub.dup) + 2 * pub.qos + Flag(pub.retain),
            EncodeText(pub.topic) \o PublishId(pub)
                \o PropsBytes(pub.props, level) \o pub.payload)

\* _encode_qos_ack: PUBACK, PUBREC, PUBREL (whose flags are 2) and PUBCOMP.
EncodeAck(type, id, rc, level) ==
    BuildPacket(type, IF type = PacketType.PUBREL THEN 2 ELSE 0,
                Word(id) \o When(level = 5, <<rc>>) \o PropsBytes(<<>>, level))

ParsePacketId(data) == DecodeWord(data, 0)

\* The options of a filter; before MQTT 5.0 only the QoS counts.
SubscribeOptions(opts, level) ==
    [qos |-> opts % 4,
     noLocal |-> level = 5 /\ Bit(opts, 4),
     asPublished |-> level = 5 /\ Bit(opts, 8),
     handling |-> IF level = 5 THEN (opts \div 16) % 4 ELSE 0]

\* parse_subscribe and parse_unsubscribe: filters up to the end of the body.
ParseFilters(kind, data, level) ==
    Fields(<<<<"id", "u16">>>> \o PropsField("props", level) \o <<<<"filters", kind>>>>,
           data, 0, [id |-> None, props |-> <<>>, filters |-> <<>>])

ParseSubscribe(data, level) ==
    Then(ParseFilters("subscription", data, level), LAMBDA r :
        Got([r.val EXCEPT !.filters =
                [i \in DOMAIN @ |-> <<@[i][1], SubscribeOptions(@[i][2], level)>>]], r.at))

ParseUnsubscribe(data, level) == ParseFilters("filter", data, level)

\* Fault: the properties come before the packet identifier.
SubackPropsFirst(id, codes, level) ==
    BuildPacket(PacketType.SUBACK, 0, PropsBytes(<<>>, level) \o Word(id) \o codes)

EncodeSuback(id, codes, level) ==
    BuildPacket(PacketType.SUBACK, 0, Word(id) \o PropsBytes(<<>>, level) \o codes)

\* Before MQTT 5.0 an UNSUBACK carries no codes.
EncodeUnsuback(id, codes, level) ==
    BuildPacket(PacketType.UNSUBACK, 0,
                Word(id) \o PropsBytes(<<>>, level) \o When(level = 5, codes))

Pingresp == BuildPacket(PacketType.PINGRESP, 0, <<>>)

EncodeDisconnect(rc, level) ==
    BuildPacket(PacketType.DISCONNECT, 0, When(level = 5, <<rc>> \o EncodeProps(<<>>)))

\* parse_disconnect: an empty body is a normal disconnection.
ParseDisconnect(data, level) ==
    IF data = <<>> \/ level < 5 THEN Got([rc |-> 0, props |-> <<>>], 0)
    ELSE Fields(<<<<"rc", "byte">>>> \o When(Len(data) > 1, <<<<"props", "props">>>>),
                data, 0, [rc |-> 0, props |-> <<>>])

=============================================================================
