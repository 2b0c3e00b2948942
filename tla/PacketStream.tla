---------------------------- MODULE PacketStream ----------------------------
(***************************************************************************)
(* One connection from its bytes to the handlers: _read_packet, which cuts *)
(* the stream into packets, the CONNECT that comes first, the parsers, and *)
(* the topic aliases of _handle_publish.  The shared state the handlers    *)
(* work on is left out; what reaches them is the history `handled`.  One   *)
(* fact about that state shows in the stream: a SUBSCRIBE that meets a     *)
(* retained entry without a message ends the connection (Tombstoned).      *)
(*                                                                         *)
(* The client, which is external, writes the packets of a script, each as  *)
(* a whole.  It may break off at any byte, and it may be slow: a read that *)
(* waits for bytes may time out.                                           *)
(***************************************************************************)
EXTENDS Codec

CONSTANTS Scripts,         \* the packets a client may write, sequences of them
          MaxPacket,       \* limits.max_packet_size
          AuthEnabled, AllowAnonymous,
          Users,           \* passwords by user name
          Hashed,          \* the users whose password is stored as "sha256:<hex>"
          Tombstoned       \* valid filters that match a topic for which retained
                           \* may hold None in place of a message

ASSUME StreamAssumption ==
    /\ MaxPacket \in Nat
    /\ AuthEnabled \in BOOLEAN /\ AllowAnonymous \in BOOLEAN

VARIABLES
    script,   \* what the client is going to write
    sent,     \* history: the packets it wrote, what each of them means,
              \* whether the broker may handle it and then end the connection
    broken,   \* its end of the connection is gone
    stream,   \* bytes that arrived and were not read
    reading,  \* what _read_packet waits for, or "closed"
    frame,    \* its local variables
    level,    \* protocol_level; 0 until CONNECT is accepted
    aliases,  \* _topic_aliases
    handled,  \* history: the packets read, as the handlers got them; the value
              \* is None when there was nothing to parse or it was malformed
    answers   \* what the handlers sent, but for the retained messages that
              \* precede a SUBACK

client == <<script, sent, broken>>
broker == <<reading, frame, level, aliases, handled, answers>>
vars == <<client, stream, broker>>

NoFrame == [type |-> 0, flags |-> 0, remaining |-> 0, multiplier |-> 1]

Init ==
    /\ script \in Scripts
    /\ sent = <<>>
    /\ broken = FALSE
    /\ stream = <<>>
    /\ reading = "header"
    /\ frame = NoFrame
    /\ level = 0
    /\ aliases = <<>>
    /\ handled = <<>>
    /\ answers = <<>>

-----------------------------------------------------------------------------
(***************************************************************************)
(* The client.  A packet has a type and, as value, the record its parser   *)
(* is to return; without a value it is sent with an empty body, which is   *)
(* malformed for most types.                                               *)
(***************************************************************************)
ConnectBytes(c) ==
    LET Flag(b, n) == IF b THEN n ELSE 0
        Text(t) == When(t # None, EncodeText(t))
        flags == Flag(c.username # None, 128) + Flag(c.password # None, 64)
                 + Flag(c.willRetain, 32) + 8 * c.willQos
                 + Flag(c.willTopic # None, 4) + Flag(c.clean, 2)
        will == PropsBytes(c.willProps, c.level)
                    \o (EncodeText(c.willTopic) \o EncodeText(c.willPayload))
    IN  (EncodeText(<<>>) \o <<c.level>> \o <<flags>> \o Word(c.keepalive))
            \o (PropsBytes(c.props, c.level) \o EncodeText(c.cid)
                    \o When(c.willTopic # None, will)
                    \o (Text(c.username) \o Text(c.password)))

FilterBytes(s) ==
    LET Flag(b, n) == IF b THEN n ELSE 0
    IN  EncodeText(s[1]) \o <<s[2].qos + Flag(s[2].noLocal, 4)
            + Flag(s[2].asPublished, 8) + 16 * s[2].handling>>

FiltersBytes(val, l, One(_)) ==
    Word(val.id) \o PropsBytes(val.props, l)
        \o FlattenSeq([i \in DOMAIN val.filters |-> One(val.filters[i])])

PacketBytes(p, l) ==
    IF p.val = None THEN BuildPacket(p.type, 0, <<>>)
    ELSE CASE p.type = PacketType.CONNECT -> BuildPacket(p.type, 0, ConnectBytes(p.val))
           [] p.type = PacketType.PUBLISH -> EncodePublish(p.val, l)
           [] p.type = PacketType.SUBSCRIBE ->
                 BuildPacket(p.type, 2, FiltersBytes(p.val, l, FilterBytes))
           [] p.type = PacketType.UNSUBSCRIBE ->
                 BuildPacket(p.type, 2, FiltersBytes(p.val, l, EncodeText))
           [] p.type = PacketType.DISCONNECT -> EncodeDisconnect(p.val.rc, l)
           [] p.type \in 4..7 -> EncodeAck(p.type, p.val, 0, l)

\* The protocol level the client speaks.
Greets(seq) == seq[1].type = PacketType.CONNECT /\ seq[1].val # None
ClientLevel(seq) == IF Greets(seq) THEN seq[1].val.level ELSE 4

\* The bytes are a header, the size of the body and the body.
Framed(bytes, size) ==
    /\ bytes \in Seq(Nat) /\ bytes # <<>> /\ bytes[1] < 256
    /\ size \in 0..Len(bytes)
    /\ bytes = BuildPacket(bytes[1] \div 16, bytes[1] % 16,
                           SubSeq(bytes, Len(bytes) - size + 1, Len(bytes)))

\* A client frames its packets.
ASSUME ScriptAssumption ==
    \A seq \in Scripts :
        /\ Len(seq) \in Nat
        /\ \A k \in 1..Len(seq) :
              LET bytes == PacketBytes(seq[k], ClientLevel(seq))
              IN  \E size \in 0..Len(bytes) : Framed(bytes, size)

(***************************************************************************)
(* The packets of a client are what their formats can say: text up to the  *)
(* length its prefix can give, numbers of the width of their type, and     *)
(* before MQTT 5.0 neither properties nor options.  Text is valid UTF-8,   *)
(* byte for byte: what the parsers put in place of other bytes is left out.*)
(***************************************************************************)
IsText(s) == s \in Seq(0..255) /\ Len(s) < Radix * Radix

IsValue(type, val) ==
    CASE type = "byte" -> val \in 0..255
      [] type = "u16" -> val \in Nat /\ val < Radix * Radix
      [] type = "u32" -> val \in Nat /\ val < Radix * Radix * Radix * Radix
      [] type = "varint" -> val \in Nat /\ Len(EncodeVarint[val]) <= 4
      [] type = "text" -> IsText(val)
      [] type = "pair" -> val = <<val[1], val[2]>> /\ IsText(val[1]) /\ IsText(val[2])

IsProps(props) ==
    /\ DOMAIN props \subseteq 1..255
    /\ props = [id \in DOMAIN props |-> props[id]]
    /\ \A id \in DOMAIN props :
          IF PropType(id) = "pair"
          THEN /\ Len(props[id]) \in Nat \ {0}
               /\ props[id] = [i \in 1..Len(props[id]) |-> props[id][i]]
               /\ \A i \in 1..Len(props[id]) : IsValue("pair", props[id][i])
          ELSE IsValue(PropType(id), props[id])

IsConnect(c) ==
    /\ c = [level |-> c.level, clean |-> c.clean, keepalive |-> c.keepalive,
            cid |-> c.cid, props |-> c.props, willTopic |-> c.willTopic,
            willPayload |-> c.willPayload, willProps |-> c.willProps,
            willQos |-> c.willQos, willRetain |-> c.willRetain,
            username |-> c.username, password |-> c.password]
    /\ c.level \in 0..255 /\ c.clean \in BOOLEAN
    /\ IsValue("u16", c.keepalive) /\ IsText(c.cid)
    /\ c.willQos \in 0..3 /\ c.willRetain \in BOOLEAN
    /\ IsProps(c.props) /\ IsProps(c.willProps)
    /\ c.level # 5 => c.props = <<>> /\ c.willProps = <<>>
    /\ IF c.willTopic = None THEN c.willPayload = None /\ c.willProps = <<>>
       ELSE IsText(c.willTopic) /\ IsText(c.willPayload)
    /\ c.username = None \/ IsText(c.username)
    /\ c.password = None \/ IsText(c.password)

IsPublish(pub) ==
    /\ pub = [topic |-> pub.topic, id |-> pub.id, props |-> pub.props,
              payload |-> pub.payload, qos |-> pub.qos, retain |-> pub.retain,
              dup |-> pub.dup]
    /\ IsText(pub.topic) /\ pub.payload \in Seq(0..255)
    /\ pub.qos \in 0..3 /\ pub.retain \in BOOLEAN /\ pub.dup \in BOOLEAN
    /\ IF pub.qos > 0 THEN IsValue("u16", pub.id) /\ pub.id # None ELSE pub.id = None
    /\ IsProps(pub.props)

IsFilter(s, l) ==
    /\ s = <<s[1], [qos |-> s[2].qos, noLocal |-> s[2].noLocal,
                    asPublished |-> s[2].asPublished, handling |-> s[2].handling]>>
    /\ IsText(s[1])
    /\ s[2].qos \in 0..3 /\ s[2].handling \in 0..3
    /\ s[2].noLocal \in BOOLEAN /\ s[2].asPublished \in BOOLEAN
    /\ l # 5 => ~s[2].noLocal /\ ~s[2].asPublished /\ s[2].handling = 0

IsRequest(val, l, One(_)) ==
    /\ val = [id |-> val.id, props |-> val.props, filters |-> val.filters]
    /\ IsValue("u16", val.id)
    /\ IsProps(val.props) /\ (l # 5 => val.props = <<>>)
    /\ Len(val.filters) \in Nat
    /\ val.filters = [i \in 1..Len(val.filters) |-> val.filters[i]]
    /\ \A i \in 1..Len(val.filters) : One(val.filters[i])

IsPacket(p, l) ==
    /\ p = [type |-> p.type, val |-> p.val] /\ p.type \in 0..15
    /\ \/ p.val = None /\ p.type # PacketType.DISCONNECT
       \/ /\ p.val # None
          /\ \/ p.type = PacketType.CONNECT /\ IsConnect(p.val)
             \/ /\ p.type = PacketType.PUBLISH /\ IsPublish(p.val)
                /\ l # 5 => p.val.props = <<>>
             \/ p.type \in 4..7 /\ IsValue("u16", p.val)
             \/ /\ p.type = PacketType.SUBSCRIBE
                /\ IsRequest(p.val, l, LAMBDA s : IsFilter(s, l))
             \/ p.type = PacketType.UNSUBSCRIBE /\ IsRequest(p.val, l, IsText)
             \/ /\ p.type = PacketType.DISCONNECT
                /\ p.val = [rc |-> p.val.rc, props |-> <<>>]
                /\ p.val.rc \in 0..255 /\ (l < 5 => p.val.rc = 0)

\* A client sends such packets, and one CONNECT.
ASSUME PacketAssumption ==
    \A seq \in Scripts : \A k \in 1..Len(seq) :
        /\ IsPacket(seq[k], ClientLevel(seq))
        /\ Greets(seq) /\ k > 1 /\ seq[k].type = PacketType.CONNECT => seq[k].val = None

IsMessage(p) == p.type = PacketType.PUBLISH /\ p.val # None

\* None is no message, whatever its topic.
ASSUME NoneAssumption ==
    \A seq \in Scripts : \A j, k \in 1..Len(seq) :
        IsMessage(seq[j]) /\ IsMessage(seq[k]) =>
            [seq[k].val EXCEPT !.topic = seq[j].val.topic] # None

\* Users have names and passwords.
ASSUME UsersAssumption ==
    \A u \in DOMAIN Users : u # <<>> /\ Users[u] # <<>> /\ Users[u] # None

\* No topic matches the empty filter, which is not valid.
ASSUME TombstoneAssumption == <<>> \notin Tombstoned

\* The alias of a PUBLISH; before MQTT 5.0 there are no properties.
AliasOf(pub) == IF 35 \in DOMAIN pub.props THEN pub.props[35] ELSE None

\* is_valid_topic.
ValidTopic(t) == t # <<>> /\ ToSet(t) \cap {35, 43} = {}

(***************************************************************************)
(* What a client means by its packets, and expects of the broker.          *)
(***************************************************************************)
\* The topic the k-th packet names: by itself, or by the last packet before
\* it that gave its alias a topic.
Binders(seq, k) ==
    {j \in 1..(k - 1) :
        /\ IsMessage(seq[j]) /\ seq[j].val.topic # <<>>
        /\ AliasOf(seq[j].val) # None /\ AliasOf(seq[j].val) = AliasOf(seq[k].val)}

TopicOf(seq, k) ==
    IF seq[k].val.topic = <<>> /\ Binders(seq, k) # {}
    THEN seq[Max(Binders(seq, k))].val.topic ELSE seq[k].val.topic

Meaning(seq, k) ==
    IF IsMessage(seq[k])
    THEN [seq[k] EXCEPT !.val.topic = TopicOf(seq, k)] ELSE seq[k]

IsAscii(s) == \A i \in DOMAIN s : s[i] < 128

\* The client may connect: its level is known, it is entitled, and a session
\* that is to be kept has a name or, in MQTT 5.0, gets one.  A password that
\* is stored as text entitles nobody unless it is ASCII: compare_digest takes
\* no other.
Entitled(c) ==
    /\ c.level \in {3, 4, 5}
    /\ \/ ~AuthEnabled
       \/ c.username \in {None, <<>>} /\ AllowAnonymous
       \/ \E u \in DOMAIN Users : /\ c.username = u /\ c.password = Users[u]
                                  /\ u \in Hashed \/ IsAscii(Users[u])
    /\ c.cid # <<>> \/ c.clean \/ c.level = 5

\* The k-th packet may be handled: it is not too large, and comes between an
\* entitled CONNECT and DISCONNECT; a PUBLISH has a proper topic.
Accepted(seq, k) ==
    LET size == Len(PacketBytes(seq[k], ClientLevel(seq))) - 1
    IN  /\ \E n \in 1..4 : size - n \in 0..MaxPacket /\ Len(EncodeVarint[size - n]) = n
        /\ Greets(seq) /\ Entitled(seq[1].val)
        /\ \A j \in 1..(k - 1) : seq[j].type # PacketType.DISCONNECT
        /\ IsMessage(seq[k]) => ValidTopic(TopicOf(seq, k))

MeetsTombstone(sub) == \E i \in DOMAIN sub.filters : sub.filters[i][1] \in Tombstoned

\* The packets that may be the last one: DISCONNECT, and a SUBSCRIBE for which
\* there may be a retained entry that is no message.
Stumbles(p) == p.type = PacketType.SUBSCRIBE /\ p.val # None /\ MeetsTombstone(p.val)
MayEnd(p) == p.type = PacketType.DISCONNECT \/ Stumbles(p)

Write ==
    /\ ~broken /\ Len(sent) < Len(script)
    /\ LET k == Len(sent) + 1
       IN  /\ sent' = Append(sent, [meaning |-> Meaning(script, k),
                                    acceptable |-> Accepted(script, k),
                                    final |-> MayEnd(script[k])])
           /\ stream' = stream \o PacketBytes(script[k], ClientLevel(script))
    /\ UNCHANGED <<script, broken, broker>>

\* The connection breaks: of what is under way some bytes still arrive.
Break(n) ==
    /\ ~broken
    /\ broken' = TRUE
    /\ stream' = SubSeq(stream, 1, n)
    /\ UNCHANGED <<script, sent, broker>>

-----------------------------------------------------------------------------
(***************************************************************************)
(* _read_packet.                                                           *)
(***************************************************************************)
ReadHeader ==
    /\ reading = "header" /\ stream # <<>>
    /\ frame' = [NoFrame EXCEPT !.type = Head(stream) \div 16,
                                !.flags = Head(stream) % 16]
    /\ stream' = Tail(stream)
    /\ reading' = "length"
    /\ UNCHANGED <<client, level, aliases, handled, answers>>

\* Another digit would be the fifth.
TooLong(multiplier) == multiplier > Base * Base * Base

\* Fault: the limit is only tested for lengths of one digit.
TooLargeIfShort(remaining) == remaining > MaxPacket /\ remaining < Base

TooLarge(remaining) == remaining > MaxPacket

ReadLength ==
    LET b == Head(stream)
        remaining == frame.remaining + (b % Base) * frame.multiplier
        multiplier == frame.multiplier * Base
    IN  /\ reading = "length" /\ stream # <<>>
        /\ frame' = [frame EXCEPT !.remaining = remaining, !.multiplier = multiplier]
        /\ stream' = Tail(stream)
        /\ reading' = CASE b >= Base /\ TooLong(multiplier) -> "closed"
                        [] b >= Base /\ ~TooLong(multiplier) -> "length"
                        [] b < Base /\ TooLarge(remaining) -> "closed"
                        [] OTHER -> "payload"
        /\ UNCHANGED <<client, level, aliases, handled, answers>>

Needed == IF reading = "payload" THEN frame.remaining ELSE 1

\* A read ends without its bytes: a timeout, or the end of the stream.
GiveUp ==
    /\ reading # "closed" /\ Len(stream) < Needed
    /\ reading' = "closed"
    /\ UNCHANGED <<client, stream, frame, level, aliases, handled, answers>>

-----------------------------------------------------------------------------
(***************************************************************************)
(* _handle_connect and _dispatch, up to the shared state.                  *)
(***************************************************************************)
Handled(val) == handled' = Append(handled, [type |-> frame.type, val |-> val])

\* The packet reaches its handler, which sends `out`, and the next one is
\* read, unless sending fails: then the connection counts as closed.
Accept(val, out) ==
    /\ Handled(val)
    /\ answers' = answers \o out
    /\ reading' \in {"header"} \cup (IF broken /\ out # <<>> THEN {"closed"} ELSE {})

\* The connection is closed after `out`.
Refuse(out) ==
    /\ answers' = answers \o out
    /\ reading' = "closed"
    /\ UNCHANGED handled

Given(password) == IF password = None THEN <<>> ELSE password

\* compare_digest raises a TypeError for text beyond ASCII.  Digests are ASCII;
\* one stands for its password.
Comparable(u, password) == u \in Hashed \/ (IsAscii(Users[u]) /\ IsAscii(password))

\* Authenticator.check returns True,
Admitted(username, password) ==
    \/ ~AuthEnabled
    \/ username \in {None, <<>>} /\ AllowAnonymous
    \/ /\ username # <<>> /\ username \in DOMAIN Users
       /\ Comparable(username, Given(password)) /\ Users[username] = Given(password)

\* or raises.
CheckRaises(username, password) ==
    /\ AuthEnabled /\ username \notin {None, <<>>}
    /\ username \in DOMAIN Users /\ ~Comparable(username, Given(password))

ConnackProps(l, cid) ==
    LET ids == {33, 34, 36, 37, 40, 41, 42} \cup (IF cid = <<>> THEN {18} ELSE {})
    IN  [id \in IF l = 5 THEN ids ELSE {} |->
            CASE id \in {33, 34} -> Radix * Radix - 1
              [] id = 18 -> <<0>>
              [] id = 36 -> 2
              [] id = 42 -> 0
              [] OTHER -> 1]

\* The reason to refuse a CONNECT, or 0.
RefusalCode(c) ==
    CASE c.level \notin {3, 4, 5} -> 132
      [] c.level \in {3, 4, 5} /\ ~Admitted(c.username, c.password) -> 134
      [] /\ c.level \in {3, 4} /\ Admitted(c.username, c.password)
         /\ c.cid = <<>> /\ ~c.clean -> 133
      [] OTHER -> 0

\* The level is known, and the check that follows raises.
ConnectRaises(c) == c.level \in {3, 4, 5} /\ CheckRaises(c.username, c.password)

HandleConnect(r) ==
    /\ UNCHANGED aliases
    /\ \/ /\ frame.type # PacketType.CONNECT \/ ~r.ok \/ (r.ok /\ ConnectRaises(r.val))
          /\ Refuse(<<>>)
          /\ UNCHANGED level
       \/ /\ frame.type = PacketType.CONNECT /\ r.ok /\ ~ConnectRaises(r.val)
          /\ RefusalCode(r.val) # 0
          /\ Refuse(<<EncodeConnack(FALSE, RefusalCode(r.val), r.val.level, <<>>)>>)
          /\ UNCHANGED level
       \/ /\ frame.type = PacketType.CONNECT /\ r.ok /\ RefusalCode(r.val) = 0
          /\ level' = r.val.level
          /\ reading' = "header"
          /\ Handled(r.val)
          /\ \E present \in BOOLEAN, props \in {ConnackProps(r.val.level, r.val.cid)} :
                answers' = Append(answers, EncodeConnack(present, 0, r.val.level, props))

\* Fault: an alias that is bound already keeps its topic.
BoundOnce(alias, topic) ==
    IF alias \in DOMAIN aliases THEN aliases ELSE (alias :> topic) @@ aliases

\* The alias is bound, or bound anew.
Bound(alias, topic) ==
    [a \in DOMAIN aliases \cup {alias} |-> IF a = alias THEN topic ELSE aliases[a]]

Ack(type, id) == <<EncodeAck(type, id, 0, level)>>

HandlePublish(pub) ==
    LET alias == AliasOf(pub)
        unbound == pub.topic = <<>> /\ alias # None /\ alias \notin DOMAIN aliases
        topic == IF pub.topic = <<>> /\ alias \in DOMAIN aliases
                 THEN aliases[alias] ELSE pub.topic
        Closing(rc) == When(level = 5, <<EncodeDisconnect(rc, 5)>>)
    IN  /\ aliases' = IF alias # None /\ pub.topic # <<>>
                      THEN Bound(alias, pub.topic) ELSE aliases
        /\ CASE unbound -> Refuse(Closing(148))
             [] ~unbound /\ ~ValidTopic(topic) -> Refuse(Closing(144))
             [] OTHER ->
                  Accept([pub EXCEPT !.topic = topic],
                         When(pub.qos = 1, Ack(PacketType.PUBACK, pub.id))
                             \o When(pub.qos = 2, Ack(PacketType.PUBREC, pub.id)))

\* PUBACK, PUBREC, PUBREL, PUBCOMP; two of them are answered.
HandleAck(id) ==
    Accept(id, When(frame.type = PacketType.PUBREC, Ack(PacketType.PUBREL, id))
                   \o When(frame.type = PacketType.PUBREL, Ack(PacketType.PUBCOMP, id)))

\* Where wildcards may stand in a filter is TopicMatch's business.  The handler
\* raises in front of the SUBACK if the message retained for a topic is None.
HandleSubscribe(sub) ==
    LET Code(f) == IF f[1] = <<>> THEN 143 ELSE Min({f[2].qos, 2})
    IN  \/ Accept(sub, <<EncodeSuback(sub.id, [i \in DOMAIN sub.filters |->
                                                  Code(sub.filters[i])], level)>>)
        \/ /\ MeetsTombstone(sub)
           /\ Handled(sub)
           /\ reading' = "closed"
           /\ UNCHANGED answers

\* Whether a filter was there is the business of Subscriptions.
HandleUnsubscribe(unsub) ==
    \E codes \in [DOMAIN unsub.filters -> {0, 17}] :
        Accept(unsub, <<EncodeUnsuback(unsub.id, codes, level)>>)

HandleDisconnect(disconnect) ==
    /\ Handled(disconnect)
    /\ reading' = "closed"
    /\ UNCHANGED answers

\* What the parser of the packet's type returns; some types have none.
Parse(data) ==
    CASE level = 0 -> ParseConnect(data)
      [] level # 0 /\ frame.type = PacketType.PUBLISH ->
            ParsePublish(frame.flags, data, level)
      [] level # 0 /\ frame.type \in 4..7 -> ParsePacketId(data)
      [] level # 0 /\ frame.type = PacketType.SUBSCRIBE -> ParseSubscribe(data, level)
      [] level # 0 /\ frame.type = PacketType.UNSUBSCRIBE -> ParseUnsubscribe(data, level)
      [] level # 0 /\ frame.type = PacketType.DISCONNECT -> ParseDisconnect(data, level)
      [] OTHER -> Got(None, 0)

\* A malformed packet is logged and dropped, but a malformed DISCONNECT ends
\* the task.
Dispatch(r) ==
    /\ UNCHANGED level
    /\ frame.type # PacketType.PUBLISH \/ ~r.ok => UNCHANGED aliases
    /\ CASE ~r.ok /\ frame.type = PacketType.DISCONNECT -> Refuse(<<>>)
         [] ~r.ok /\ frame.type # PacketType.DISCONNECT -> Accept(None, <<>>)
         [] r.ok /\ frame.type = PacketType.PUBLISH -> HandlePublish(r.val)
         [] r.ok /\ frame.type \in 4..7 -> HandleAck(r.val)
         [] r.ok /\ frame.type = PacketType.SUBSCRIBE -> HandleSubscribe(r.val)
         [] r.ok /\ frame.type = PacketType.UNSUBSCRIBE -> HandleUnsubscribe(r.val)
         [] r.ok /\ frame.type = PacketType.DISCONNECT -> HandleDisconnect(r.val)
         [] r.ok /\ frame.type = PacketType.PINGREQ -> Accept(None, <<Pingresp>>)
         [] OTHER -> Accept(None, <<>>)

\* The rest of the packet is there: run hands it on.
ReadPayload ==
    /\ reading = "payload" /\ Len(stream) >= Needed
    /\ stream' = SubSeq(stream, frame.remaining + 1, Len(stream))
    /\ \E r \in {Parse(SubSeq(stream, 1, frame.remaining))} :
          IF level = 0 THEN HandleConnect(r) ELSE Dispatch(r)
    /\ UNCHANGED <<client, frame>>

Read == ReadHeader \/ ReadLength \/ ReadPayload \/ GiveUp

Next ==
    \/ Write
    \/ \E n \in 0..Len(stream) : Break(n)
    \/ Read

\* Every read has a timeout, so the reader always goes on.
Spec == Init /\ [][Next]_vars /\ WF_vars(Read)

Channel == INSTANCE PacketChannel WITH
    got <- handled, open <- reading # "closed"

\* The bytes on the wire are a channel for packets: whatever the sizes, the
\* aliases and the place where the connection breaks, handlers get what the
\* client meant, in order, and the broker does not give up on it too early:
\* while there is a packet that may be handled, only DISCONNECT, or a SUBSCRIBE
\* that may meet a retained entry without a message, is the last one.
ImplementsChannel == Channel!Spec

\* Types; a payload is only read within the limit.
StreamTypeOK ==
    /\ Len(sent) <= Len(script)
    /\ broken \in BOOLEAN
    /\ stream \in Seq(Nat)
    /\ reading \in {"header", "length", "payload", "closed"}
    /\ frame \in [type: 0..15, flags: 0..15, remaining: Nat, multiplier: Nat]
    /\ reading = "payload" => frame.remaining <= MaxPacket
    /\ level \in {0, 3, 4, 5}
    /\ \A a \in DOMAIN aliases : aliases[a] # <<>>
    /\ Len(handled) <= Len(sent)
    /\ Len(answers) <= Len(handled) + 1

\* What a client reads in a packet sent to it: type and packet identifier.
Heading(bytes) ==
    LET len == DecodeVarint(bytes, 1)
        type == bytes[1] \div 16
        id == ParsePacketId(SubSeq(bytes, len.at + 1, Len(bytes)))
    IN  IF len.ok /\ len.at + len.val = Len(bytes)
        THEN <<type, IF type \in {4, 5, 6, 7, 9, 11} THEN id.val ELSE None>>
        ELSE <<None, None>>

AnswerTo(p) ==
    IF p.val = None
    THEN When(p.type = PacketType.PINGREQ, <<<<PacketType.PINGRESP, None>>>>)
    ELSE CASE p.type = PacketType.CONNECT -> <<<<PacketType.CONNACK, None>>>>
           [] p.type = PacketType.PUBLISH ->
                 When(p.val.qos = 1, <<<<PacketType.PUBACK, p.val.id>>>>)
                     \o When(p.val.qos = 2, <<<<PacketType.PUBREC, p.val.id>>>>)
           [] p.type = PacketType.PUBREC -> <<<<PacketType.PUBREL, p.val>>>>
           [] p.type = PacketType.PUBREL -> <<<<PacketType.PUBCOMP, p.val>>>>
           [] p.type = PacketType.SUBSCRIBE -> <<<<PacketType.SUBACK, p.val.id>>>>
           [] p.type = PacketType.UNSUBSCRIBE -> <<<<PacketType.UNSUBACK, p.val.id>>>>
           [] OTHER -> <<>>

\* The answers can be read by the client and match its first n requests one to
\* one, in order; a refusal may follow them.
AnswersTo(n) ==
    LET expected == FlattenSeq([i \in 1..n |-> AnswerTo(sent[i].meaning)])
    IN  /\ Len(answers) \in Len(expected)..(Len(expected) + 1)
        /\ \A i \in 1..Len(answers) :
              IF i <= Len(expected) THEN Heading(answers[i]) = expected[i]
              ELSE reading = "closed" /\ Heading(answers[i])[1] \in
                       {PacketType.CONNACK, PacketType.DISCONNECT}

\* Every request that was handled has its answer, in order and readable.  Only
\* a SUBSCRIBE that may meet a retained entry without a message can go
\* unanswered, and then it is the last packet of the connection.
RequestsAnswered ==
    \/ AnswersTo(Len(handled))
    \/ /\ reading = "closed" /\ handled # <<>>
       /\ Stumbles(sent[Len(handled)].meaning)
       /\ AnswersTo(Len(handled) - 1)

\* A CONNECT that can be parsed is answered, by success or by a refusal.  The
\* code breaks this where compare_digest raises.
ConnectIsAnswered ==
    [][ReadPayload /\ level = 0 /\ Greets(script) => answers' # answers]_vars

\* A packet of the largest size has room for a property length and the topic
\* of another message, in what a length can count.
RoomForTopics ==
    \A seq \in Scripts : \A k \in 1..Len(seq) :
        IsMessage(seq[k]) =>
            MaxPacket + 1 + Len(seq[k].val.topic) < Base * Base * Base * Base

\* A message that is passed on to a receiver of another protocol level can be
\* read there and is the same message, but for the properties that MQTT 3
\* does not have.
PassedOnIntact ==
    \A i \in 1..Len(handled), l \in 3..5 :
        LET pub == handled[i].val
            bytes == EncodePublish(pub, l)
            len == DecodeVarint(bytes, 1)
            r == ParsePublish(bytes[1] % 16, SubSeq(bytes, len.at + 1, Len(bytes)), l)
        IN  IsMessage(handled[i]) =>
                /\ len.ok /\ len.at + len.val = Len(bytes)
                /\ r.ok
                /\ r.val = IF l = 5 THEN pub ELSE [pub EXCEPT !.props = <<>>]

=============================================================================
