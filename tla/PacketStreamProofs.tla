------------------------- MODULE PacketStreamProofs -------------------------
(***************************************************************************)
(* A connection for every script of packets that fit their formats, every  *)
(* base of the lengths and every limit: parsers get whole packets, one by  *)
(* one; handlers get what the client means; every request is answered; and *)
(* a message can be passed on to a receiver of any protocol level.         *)
(*                                                                         *)
(* The reader works byte by byte while the client writes packet by packet. *)
(* The framing invariant therefore lays out all the bytes the client       *)
(* wrote, says which of them arrived and were not read, and how much of    *)
(* the next packet the reader has behind it.  Then a parser gets the bytes *)
(* of one packet, and CodecProofs says what it reads in them.              *)
(***************************************************************************)
EXTENDS CodecProofs

-----------------------------------------------------------------------------
(***************************************************************************)
(* The bytes of a connection.                                              *)
(***************************************************************************)
\* The k-th packet of a script.
Written(s, k) == PacketBytes(s[k], ClientLevel(s))

\* A sequence of whatever.
IsSeq(q) == \E S : q \in Seq(S)

\* total is the first n packets of a script, the k-th of them ends at off[k].
Laid(s, total, off, n) ==
    /\ total \in Seq(Nat)
    /\ off \in [0..n -> Nat]
    /\ off[0] = 0
    /\ Len(total) = off[n]
    /\ \A k \in 0..n : off[k] <= off[n]
    /\ \A k \in 1..n :
          /\ off[k] = off[k - 1] + Len(Written(s, k))
          /\ \A i \in 1..Len(Written(s, k)) : total[off[k - 1] + i] = Written(s, k)[i]

\* Of total, st follows the byte pos, to the end unless the connection broke.
UnderWay(st, br, total, pos) ==
    /\ pos \in Nat /\ st \in Seq(Nat)
    /\ pos + Len(st) <= Len(total)
    /\ ~br => pos + Len(st) = Len(total)
    /\ \A i \in 1..Len(st) : st[i] = total[pos + i]

\* The frame has the header of a packet.
Titled(fr, bytes) == fr.type = bytes[1] \div 16 /\ fr.flags = bytes[1] % 16

\* at bytes of a packet were read, the next ones are digits of its length, and
\* what they stand for is missing in the frame.
InLength(fr, bytes, at) ==
    \E size \in Nat, m \in Nat :
        /\ Framed(bytes, size)
        /\ size = fr.remaining + m * fr.multiplier
        /\ Len(bytes) = at + Len(EncodeVarint[m]) + size
        /\ \A i \in 1..Len(EncodeVarint[m]) : bytes[at + i] = EncodeVarint[m][i]

\* at bytes of a packet were read, the rest is its body.
InPayload(fr, bytes, at) ==
    Framed(bytes, fr.remaining) /\ at + fr.remaining = Len(bytes)

\* What arrived is the packet from there on.
Follows(st, bytes, at) ==
    \A i \in 1..Len(st) : at + i <= Len(bytes) => st[i] = bytes[at + i]

\* Facts on sequences.
LEMMA IsSeqAppend ==
    ASSUME NEW q, IsSeq(q), NEW x
    PROVE  /\ IsSeq(Append(q, x)) /\ Len(q) \in Nat /\ Len(Append(q, x)) = Len(q) + 1
<1>1. PICK S : q \in Seq(S)
    BY DEF IsSeq
<1>2. q \in Seq(S \cup {x})
    BY <1>1
<1>3. Append(q, x) \in Seq(S \cup {x}) /\ Len(Append(q, x)) = Len(q) + 1
      /\ Len(q) \in Nat
    BY <1>2
<1> QED
    BY <1>3 DEF IsSeq

LEMMA Appended ==
    ASSUME NEW q, IsSeq(q), NEW x
    PROVE  /\ SubSeq(Append(q, x), 1, Len(q)) = q
           /\ \A k \in 1..Len(q) : Append(q, x)[k] = q[k]
           /\ Append(q, x)[Len(q) + 1] = x
<1>1. PICK S : q \in Seq(S)
    BY DEF IsSeq
<1>2. PICK T : T = S \cup {x}
    OBVIOUS
<1>3. PICK p : p = Append(q, x)
    OBVIOUS
<1>4. /\ q \in Seq(T) /\ p \in Seq(T) /\ Len(q) \in Nat /\ Len(p) = Len(q) + 1
      /\ \A k \in 1..Len(q) : p[k] = q[k]
      /\ p[Len(q) + 1] = x
    BY <1>1, <1>2, <1>3
<1>5. PICK f : f = SubSeq(p, 1, Len(q))
    OBVIOUS
<1>6. f \in Seq(T) /\ Len(f) = Len(q) /\ \A k \in 1..Len(q) : f[k] = p[k]
    BY <1>4, <1>5
<1>7. f = q
    <2>1. \A k \in 1..Len(q) : f[k] = q[k]
        BY <1>4, <1>6
    <2>2. f \in Seq(T) /\ q \in Seq(T) /\ Len(f) = Len(q)
        BY <1>4, <1>6
    <2> QED
        BY <2>1, <2>2
<1> QED
    BY <1>3, <1>4, <1>5, <1>7

LEMMA IsSeqConcat ==
    ASSUME NEW q, IsSeq(q), NEW r, IsSeq(r)
    PROVE  /\ IsSeq(q \o r) /\ Len(q) \in Nat /\ Len(r) \in Nat /\ Len(q \o r) = Len(q) + Len(r)
<1>1. PICK S, T : q \in Seq(S) /\ r \in Seq(T)
    BY DEF IsSeq
<1>2. q \in Seq(S \cup T) /\ r \in Seq(S \cup T)
    BY <1>1
<1>3. q \o r \in Seq(S \cup T) /\ Len(q \o r) = Len(q) + Len(r)
      /\ Len(q) \in Nat /\ Len(r) \in Nat
    BY <1>2
<1> QED
    BY <1>3 DEF IsSeq

LEMMA IsSeqShort ==
    ASSUME NEW x
    PROVE  /\ IsSeq(<<>>) /\ Len(<<>>) = 0
           /\ IsSeq(<<x>>) /\ Len(<<x>>) = 1
<1>1. <<>> \in Seq({}) /\ <<x>> \in Seq({x})
    OBVIOUS
<1> QED
    BY <1>1 DEF IsSeq

\* One more packet is written.
LEMMA LaidExtends ==
    ASSUME NEW s, NEW n \in Nat, NEW total, NEW off, Laid(s, total, off, n),
           Written(s, n + 1) \in Seq(Nat)
    PROVE  \E off2 : /\ Laid(s, total \o Written(s, n + 1), off2, n + 1)
                     /\ \A k \in 0..n : off2[k] = off[k]
<1> DEFINE p == Written(s, n + 1)
           off2 == [k \in 0..(n + 1) |-> IF k = n + 1 THEN off[n] + Len(p) ELSE off[k]]
           all == total \o p
<1>1. /\ all \in Seq(Nat)
      /\ Len(all) = Len(total) + Len(p)
      /\ Len(total) \in Nat /\ Len(p) \in Nat
      /\ \A i \in 1..Len(total) : all[i] = total[i]
      /\ \A i \in 1..Len(p) : all[Len(total) + i] = p[i]
    <2>1. total \in Seq(Nat) /\ p \in Seq(Nat)
        BY DEF Laid
    <2> HIDE DEF p
    <2> QED
        BY <2>1
<1> HIDE DEF p, all
<1>2. off \in [0..n -> Nat] /\ off[0] = 0 /\ Len(total) = off[n] /\ off[n] \in Nat
    BY DEF Laid
<1>3. off2 \in [0..(n + 1) -> Nat]
    BY <1>1, <1>2
<1>4. off2[0] = 0 /\ Len(all) = off2[n + 1] /\ \A k \in 0..n : off2[k] = off[k]
    BY <1>1, <1>2
<1>7. \A k \in 0..(n + 1) : off2[k] <= off2[n + 1]
    <2>1. \A k \in 0..n : off[k] <= off[n] /\ off[k] \in Nat
        BY DEF Laid
    <2> QED
        BY <2>1, <1>1, <1>2
<1>5. ASSUME NEW k \in 1..(n + 1)
      PROVE  /\ off2[k] = off2[k - 1] + Len(Written(s, k))
             /\ \A i \in 1..Len(Written(s, k)) : all[off2[k - 1] + i] = Written(s, k)[i]
    <2>1. CASE k = n + 1
        BY <2>1, <1>1, <1>2 DEF p
    <2>2. CASE k \in 1..n
        <3>1. /\ off[k] = off[k - 1] + Len(Written(s, k))
              /\ \A i \in 1..Len(Written(s, k)) : total[off[k - 1] + i] = Written(s, k)[i]
            BY <2>2 DEF Laid
        <3>2. k - 1 \in 0..n /\ k \in 0..n /\ off[k] <= off[n]
              /\ off[k - 1] \in Nat /\ off[k] \in Nat
            BY <2>2 DEF Laid
        <3>3. off2[k] = off[k] /\ off2[k - 1] = off[k - 1]
            BY <3>2, <2>2
        <3>4. Len(Written(s, k)) = off[k] - off[k - 1]
            BY <3>1, <3>2
        <3>5. ASSUME NEW i \in 1..Len(Written(s, k))
              PROVE  all[off[k - 1] + i] = Written(s, k)[i]
            <4>1. off[k - 1] + i \in 1..Len(total)
                BY <3>2, <3>4, <1>2
            <4> QED
                BY <4>1, <3>1, <1>1
        <3> HIDE DEF off2
        <3> QED
            BY <3>1, <3>3, <3>5
    <2>3. k = n + 1 \/ k \in 1..n
        OBVIOUS
    <2> HIDE DEF off2
    <2> QED
        BY <2>1, <2>2, <2>3
<1>6. Laid(s, all, off2, n + 1)
    <2> HIDE DEF off2
    <2> QED
        BY <1>1, <1>3, <1>4, <1>5, <1>7 DEF Laid
<1> QED
    BY <1>4, <1>6 DEF all, p

\* The parts of a sequence at its start and at its end.
LEMMA FirstPart ==
    ASSUME NEW s \in Seq(Nat), NEW n \in Nat, n <= Len(s)
    PROVE  /\ SubSeq(s, 1, n) \in Seq(Nat)
           /\ Len(SubSeq(s, 1, n)) = n
           /\ \A i \in 1..n : SubSeq(s, 1, n)[i] = s[i]
OBVIOUS

LEMMA LastPart ==
    ASSUME NEW s \in Seq(Nat), NEW c \in Nat, c <= Len(s)
    PROVE  /\ SubSeq(s, c + 1, Len(s)) \in Seq(Nat)
           /\ Len(SubSeq(s, c + 1, Len(s))) = Len(s) - c
           /\ \A i \in 1..(Len(s) - c) :
                 /\ SubSeq(s, c + 1, Len(s))[i] = s[c + i]
                 /\ c + i \in 1..Len(s)
OBVIOUS

\* Types of the layout.
LEMMA LaidTypes ==
    ASSUME NEW s, NEW n \in Nat, NEW total, NEW off, Laid(s, total, off, n)
    PROVE  /\ total \in Seq(Nat) /\ Len(total) = off[n]
           /\ \A k \in 0..n : off[k] \in Nat
<1>1. total \in Seq(Nat) /\ Len(total) = off[n] /\ off \in [0..n -> Nat]
    BY DEF Laid
<1> QED
    BY <1>1

LEMMA UnderWayTypes ==
    ASSUME NEW st, NEW br, NEW total, NEW pos, UnderWay(st, br, total, pos)
    PROVE  /\ st \in Seq(Nat) /\ Len(st) \in Nat /\ pos \in Nat
           /\ pos + Len(st) <= Len(total)
<1>1. st \in Seq(Nat) /\ pos \in Nat /\ pos + Len(st) <= Len(total)
    BY Zenon DEF UnderWay
<1>2. Len(st) \in Nat
    BY <1>1
<1> QED
    BY <1>1, <1>2, Zenon

\* What of the next packet is to come.
LEMMA NextPacketIsAhead ==
    ASSUME NEW s, NEW n \in Nat, NEW total, NEW off, Laid(s, total, off, n),
           NEW st, NEW br, NEW k \in 0..n, NEW at \in Nat,
           NEW pos, pos = off[k] + at, UnderWay(st, br, total, pos)
    PROVE  /\ at = 0 /\ st # <<>> => k < n
           /\ k < n => Follows(st, Written(s, k + 1), at)
<1>1. off[k] \in Nat /\ Len(total) = off[n] /\ off[n] \in Nat
    BY LaidTypes
<1>2. /\ st \in Seq(Nat) /\ Len(st) \in Nat
      /\ pos + Len(st) <= Len(total)
      /\ \A i \in 1..Len(st) : st[i] = total[pos + i]
    <2>1. st \in Seq(Nat) /\ Len(st) \in Nat /\ pos + Len(st) <= Len(total)
        BY UnderWayTypes
    <2>2. \A i \in 1..Len(st) : st[i] = total[pos + i]
        BY Zenon DEF UnderWay
    <2> QED
        BY <2>1, <2>2, Zenon
<1>3. at = 0 /\ st # <<>> => k < n
    <2>1. st # <<>> => Len(st) > 0
        BY <1>2
    <2> QED
        BY <2>1, <1>1, <1>2
<1>4. ASSUME k < n, NEW i \in 1..Len(st), at + i <= Len(Written(s, k + 1))
      PROVE  st[i] = Written(s, k + 1)[at + i]
    <2>1. k + 1 \in 1..n /\ (k + 1) - 1 = k
        BY <1>4
    <2>2. \A j \in 1..Len(Written(s, k + 1)) : total[off[k] + j] = Written(s, k + 1)[j]
        BY <2>1 DEF Laid
    <2>3. off[k + 1] = off[k] + Len(Written(s, k + 1)) /\ off[k + 1] \in Nat
        BY <2>1 DEF Laid
    <2>4. at + i \in 1..Len(Written(s, k + 1))
        BY <1>2, <1>4
    <2>5. pos + i = off[k] + (at + i)
        BY <1>1, <1>2
    <2> QED
        BY <1>2, <2>2, <2>4, <2>5
<1> QED
    BY <1>3, <1>4, Zenon DEF Follows

\* Reading some bytes.
LEMMA Consumed ==
    ASSUME NEW st, NEW br, NEW total \in Seq(Nat), NEW pos, UnderWay(st, br, total, pos),
           NEW c \in 0..Len(st)
    PROVE  /\ UnderWay(SubSeq(st, c + 1, Len(st)), br, total, pos + c)
           /\ SubSeq(st, c + 1, Len(st)) \in Seq(Nat)
<1> DEFINE rest == SubSeq(st, c + 1, Len(st))
<1>1. /\ st \in Seq(Nat) /\ Len(st) \in Nat /\ pos \in Nat /\ Len(total) \in Nat
      /\ pos + Len(st) <= Len(total)
      /\ \A i \in 1..Len(st) : st[i] = total[pos + i]
    <2>1. Len(total) \in Nat
        OBVIOUS
    <2>2. st \in Seq(Nat) /\ Len(st) \in Nat /\ pos \in Nat
          /\ pos + Len(st) <= Len(total)
        BY UnderWayTypes
    <2>3. \A i \in 1..Len(st) : st[i] = total[pos + i]
        BY Zenon DEF UnderWay
    <2> QED
        BY <2>1, <2>2, <2>3, Zenon
<1>2. ~br => pos + Len(st) = Len(total)
    BY DEF UnderWay
<1>8. c \in Nat /\ c <= Len(st)
    BY <1>1
<1>3. /\ rest \in Seq(Nat) /\ Len(rest) = Len(st) - c
      /\ \A i \in 1..(Len(st) - c) : rest[i] = st[c + i] /\ c + i \in 1..Len(st)
    BY <1>1, <1>8, LastPart
<1> HIDE DEF rest
<1>4. Len(rest) = Len(st) - c
    BY <1>3
<1>5. \A i \in 1..Len(rest) : rest[i] = total[pos + c + i]
    <2> TAKE i \in 1..Len(rest)
    <2>1. rest[i] = st[c + i] /\ c + i \in 1..Len(st)
        BY <1>3, Zenon
    <2>2. pos + (c + i) = pos + c + i
        BY <1>1, <1>4, <1>8
    <2>3. st[c + i] = total[pos + (c + i)]
        BY <1>1, <2>1, Zenon
    <2> QED
        BY <2>1, <2>2, <2>3
<1>6. /\ pos + c \in Nat
      /\ pos + c + Len(rest) <= Len(total)
      /\ ~br => pos + c + Len(rest) = Len(total)
    <2>1. pos \in Nat /\ Len(st) \in Nat /\ c \in Nat /\ pos + Len(st) <= Len(total)
        BY <1>1
    <2>2. pos + c + Len(rest) = pos + Len(st)
        BY <2>1, <1>4
    <2> QED
        BY <2>1, <2>2, <1>2
<1>7. UnderWay(rest, br, total, pos + c)
    BY <1>3, <1>5, <1>6, Zenon DEF UnderWay
<1> QED
    BY <1>3, <1>7 DEF rest

\* More is written.
LEMMA Lengthened ==
    ASSUME NEW st, NEW total \in Seq(Nat), NEW pos, UnderWay(st, FALSE, total, pos),
           NEW p \in Seq(Nat)
    PROVE  UnderWay(st \o p, FALSE, total \o p, pos)
<1>1. /\ st \in Seq(Nat) /\ Len(st) \in Nat /\ pos \in Nat /\ Len(total) \in Nat
      /\ pos + Len(st) = Len(total)
      /\ \A i \in 1..Len(st) : st[i] = total[pos + i]
    <2>1. Len(total) \in Nat
        OBVIOUS
    <2>2. pos + Len(st) = Len(total)
        BY Zenon DEF UnderWay
    <2>3. st \in Seq(Nat) /\ Len(st) \in Nat /\ pos \in Nat
          /\ pos + Len(st) <= Len(total)
        BY UnderWayTypes
    <2>4. \A i \in 1..Len(st) : st[i] = total[pos + i]
        BY Zenon DEF UnderWay
    <2> QED
        BY <2>1, <2>2, <2>3, <2>4, Zenon
<1>2. /\ st \o p \in Seq(Nat) /\ Len(st \o p) = Len(st) + Len(p)
      /\ total \o p \in Seq(Nat) /\ Len(total \o p) = Len(total) + Len(p)
      /\ Len(p) \in Nat
    BY <1>1
<1>3. ASSUME NEW i \in 1..(Len(st) + Len(p)) PROVE (st \o p)[i] = (total \o p)[pos + i]
    <2>1. CASE i <= Len(st)
        BY <2>1, <1>1, <1>2
    <2>2. CASE ~(i <= Len(st))
        BY <2>2, <1>1, <1>2
    <2> QED
        BY <2>1, <2>2
<1>4. /\ pos + Len(st \o p) = Len(total \o p)
      /\ pos + Len(st \o p) <= Len(total \o p)
      /\ \A i \in 1..Len(st \o p) : (st \o p)[i] = (total \o p)[pos + i]
    <2>3. /\ pos \in Nat /\ Len(st) \in Nat /\ Len(p) \in Nat
          /\ pos + Len(st) = Len(total)
        BY <1>1, <1>2
    <2>4. pos + (Len(st) + Len(p)) = (pos + Len(st)) + Len(p)
        BY <2>3
    <2>5. pos + Len(st \o p) = Len(total \o p)
        BY <2>3, <2>4, <1>2
    <2>6. Len(total \o p) \in Nat
        BY <2>3, <1>2
    <2>7. pos + Len(st \o p) <= Len(total \o p)
        BY <2>5, <2>6
    <2>2. \A i \in 1..Len(st \o p) : (st \o p)[i] = (total \o p)[pos + i]
        BY <1>2, <1>3, Zenon
    <2> QED
        BY <2>5, <2>7, <2>2, Zenon
<1> QED
    BY <1>1, <1>2, <1>4, Zenon DEF UnderWay

\* The connection breaks.
LEMMA CutOff ==
    ASSUME NEW st, NEW br, NEW total \in Seq(Nat), NEW pos, UnderWay(st, br, total, pos),
           NEW n \in 0..Len(st)
    PROVE  UnderWay(SubSeq(st, 1, n), TRUE, total, pos)
<1> DEFINE front == SubSeq(st, 1, n)
<1>1. /\ st \in Seq(Nat) /\ Len(st) \in Nat /\ pos \in Nat /\ Len(total) \in Nat
      /\ pos + Len(st) <= Len(total)
      /\ \A i \in 1..Len(st) : st[i] = total[pos + i]
    <2>1. Len(total) \in Nat
        OBVIOUS
    <2>2. st \in Seq(Nat) /\ Len(st) \in Nat /\ pos \in Nat
          /\ pos + Len(st) <= Len(total)
        BY UnderWayTypes
    <2>3. \A i \in 1..Len(st) : st[i] = total[pos + i]
        BY Zenon DEF UnderWay
    <2> QED
        BY <2>1, <2>2, <2>3, Zenon
<1>2. n \in Nat /\ n <= Len(st)
    BY <1>1
<1>3. front \in Seq(Nat) /\ Len(front) = n /\ \A i \in 1..n : front[i] = st[i]
    <2>1. st \in Seq(Nat)
        BY <1>1
    <2> QED
        BY <1>2, <2>1, FirstPart, Zenon
<1> HIDE DEF front
<1>4. Len(front) = n /\ n <= Len(st) /\ \A i \in 1..n : front[i] = st[i]
    BY <1>2, <1>3
<1>6. /\ pos + Len(front) <= Len(total)
      /\ \A i \in 1..Len(front) : front[i] = total[pos + i]
    <2>1. pos \in Nat /\ Len(st) \in Nat /\ n \in Nat /\ n <= Len(st)
          /\ pos + Len(st) <= Len(total) /\ Len(total) \in Nat
        BY <1>1
    <2>2. pos + Len(front) <= Len(total)
        BY <2>1, <1>4
    <2>3. \A i \in 1..n : i \in 1..Len(st)
        BY <2>1
    <2>4. \A i \in 1..Len(front) : front[i] = total[pos + i]
        BY <2>3, <1>1, <1>4, Zenon
    <2> QED
        BY <2>2, <2>4
<1>5. UnderWay(front, TRUE, total, pos)
    BY <1>1, <1>3, <1>6 DEF UnderWay
<1> QED
    BY <1>5 DEF front

\* The parts of a packet.
LEMMA Parts ==
    ASSUME NEW bytes, NEW size \in Nat, Framed(bytes, size)
    PROVE  /\ bytes \in Seq(Nat) /\ bytes # <<>>
           /\ Len(EncodeVarint[size]) \in Nat
           /\ Len(bytes) = 1 + Len(EncodeVarint[size]) + size
           /\ \A i \in 1..Len(EncodeVarint[size]) : bytes[1 + i] = EncodeVarint[size][i]
           /\ bytes[1] \div 16 \in 0..15 /\ bytes[1] % 16 \in 0..15
<1> DEFINE body == SubSeq(bytes, Len(bytes) - size + 1, Len(bytes))
           len == EncodeVarint[size]
<1>1. /\ bytes \in Seq(Nat) /\ bytes # <<>> /\ bytes[1] < 256 /\ size \in 0..Len(bytes)
      /\ bytes = BuildPacket(bytes[1] \div 16, bytes[1] % 16, body)
    BY DEF Framed
<1>2. len \in Seq(Nat) /\ Len(len) \in Nat
    BY Encoding
<1>3. Len(bytes) \in Nat /\ Len(bytes) > 0 /\ bytes[1] \in 0..255
    <2>1. bytes \in Seq(Nat) /\ bytes # <<>>
        BY <1>1
    <2>2. Len(bytes) \in Nat /\ Len(bytes) > 0
        BY <2>1
    <2>3. bytes[1] \in Nat
        BY <2>1, <2>2
    <2>4. bytes[1] < 256
        BY <1>1
    <2>5. bytes[1] \in 0..255
        BY <2>3, <2>4
    <2> QED
        BY <2>2, <2>5
<1>4. body \in Seq(Nat) /\ Len(body) = size
    <2>1. PICK c \in Nat : c = Len(bytes) - size /\ c <= Len(bytes)
        <3>1. size \in 0..Len(bytes)
            BY <1>1
        <3>2. Len(bytes) - size \in Nat /\ Len(bytes) - size <= Len(bytes)
            BY <1>3, <3>1
        <3> QED
            BY <3>2
    <2>2. Len(bytes) - c = size
        BY <1>3, <2>1
    <2>3. body = SubSeq(bytes, c + 1, Len(bytes))
        BY <2>1
    <2> HIDE DEF body
    <2> QED
        BY <1>1, <2>1, <2>2, <2>3, LastPart
<1> HIDE DEF body
<1>5. PICK h : h = 16 * (bytes[1] \div 16) + (bytes[1] % 16)
    OBVIOUS
<1>6. bytes[1] \div 16 \in 0..15 /\ bytes[1] % 16 \in 0..15 /\ h \in Nat
    <2>1. PICK b \in 0..255 : b = bytes[1]
        BY <1>3
    <2>2. b \div 16 \in 0..15 /\ b % 16 \in 0..15
        BY SMTT(30)
    <2>3. PICK t, f : t = bytes[1] \div 16 /\ f = bytes[1] % 16
        OBVIOUS
    <2>4. t \in 0..15 /\ f \in 0..15
        BY <2>1, <2>2, <2>3
    <2>5. 16 * t + f \in Nat
        BY <2>4
    <2> QED
        BY <1>5, <2>3, <2>4, <2>5, Zenon
<1>7. bytes = <<h>> \o EncodeVarint[size] \o body
    BY <1>1, <1>4, <1>5 DEF BuildPacket
<1>8. /\ Len(bytes) = 1 + Len(len) + size
      /\ \A i \in 1..Len(len) : bytes[1 + i] = len[i]
    <2>1. bytes = <<h>> \o len \o body
        BY <1>7
    <2> HIDE DEF len
    <2>2. /\ <<h>> \o len \in Seq(Nat) /\ Len(<<h>> \o len) = 1 + Len(len)
          /\ \A i \in 1..Len(len) : (<<h>> \o len)[1 + i] = len[i]
        BY <1>2, <1>6
    <2> DEFINE a == <<h>> \o len
    <2>5. /\ a \in Seq(Nat) /\ Len(a) = 1 + Len(len)
          /\ \A i \in 1..Len(len) : a[1 + i] = len[i]
        BY <2>2
    <2>3. bytes = a \o body
        BY <2>1
    <2> HIDE DEF a
    <2>6. /\ Len(a \o body) = Len(a) + Len(body)
          /\ \A i \in 1..Len(a) : (a \o body)[i] = a[i]
        <3>1. a \in Seq(Nat) /\ body \in Seq(Nat)
            BY <2>5, <1>4
        <3> QED
            BY <3>1
    <2>4. /\ Len(bytes) = Len(a) + Len(body)
          /\ \A i \in 1..Len(a) : bytes[i] = a[i]
        BY <2>6, <2>3, Zenon
    <2> QED
        BY <2>5, <2>4, <1>2, <1>4
<1> QED
    BY <1>1, <1>2, <1>6, <1>8

\* After the header the length is ahead.
LEMMA LengthAhead ==
    ASSUME NEW bytes, NEW size \in Nat, Framed(bytes, size),
           NEW fr, fr.remaining = 0, fr.multiplier = 1
    PROVE  InLength(fr, bytes, 1)
<1>1. /\ Len(bytes) = 1 + Len(EncodeVarint[size]) + size
      /\ \A i \in 1..Len(EncodeVarint[size]) : bytes[1 + i] = EncodeVarint[size][i]
    BY Parts
<1>2. size = fr.remaining + size * fr.multiplier
    OBVIOUS
<1> QED
    BY <1>1, <1>2, Zenon DEF InLength

\* A digit moves from what is missing into the frame.
LEMMA Regrouped ==
    ASSUME NEW a \in Nat, NEW q \in Nat, NEW r \in Nat, NEW u \in Nat, NEW m \in Nat,
           NEW b \in Nat, m = b * q + r
    PROVE  (a + r * u) + q * (u * b) = a + m * u
BY SMTT(30)

\* The next digit of the length, and what is ahead after it.
LEMMA DigitAhead ==
    ASSUME NEW fr, NEW bytes, NEW at \in Nat, InLength(fr, bytes, at),
           fr.remaining \in Nat, fr.multiplier \in Nat,
           NEW b, b = bytes[at + 1],
           NEW fr2, fr2.remaining = fr.remaining + (b % Base) * fr.multiplier,
           fr2.multiplier = fr.multiplier * Base
    PROVE  /\ at + 1 <= Len(bytes)
           /\ b \in Nat /\ fr2.remaining \in Nat /\ fr2.multiplier \in Nat
           /\ b >= Base => InLength(fr2, bytes, at + 1)
           /\ b < Base => InPayload(fr2, bytes, at + 1)
<1>1. PICK size \in Nat, m \in Nat :
        /\ Framed(bytes, size)
        /\ size = fr.remaining + m * fr.multiplier
        /\ Len(bytes) = at + Len(EncodeVarint[m]) + size
        /\ \A i \in 1..Len(EncodeVarint[m]) : bytes[at + i] = EncodeVarint[m][i]
    BY Zenon DEF InLength
<1>2. PICK q \in Nat, r \in 0..(Base - 1) :
              /\ q = m \div Base /\ r = m % Base
              /\ m = Base * q + r
              /\ m >= Base => q < m
              /\ m < Base => r = m
              /\ (Base + r) % Base = r
    BY Division
<1>3. Base \in Nat /\ Base > 1
    BY BaseAssumption
<1>4. fr2.multiplier \in Nat
    BY <1>3
<1>5. CASE m < Base
    <2>1. EncodeVarint[m] = <<m>>
        BY <1>5, Encoding DEF Digits
    <2>2. Len(EncodeVarint[m]) = 1 /\ EncodeVarint[m][1] = m
        BY <2>1
    <2>3. b = m /\ Len(bytes) = at + 1 + size
        BY <2>2, <1>1
    <2>4. m % Base = m
        BY <1>2, <1>5
    <2>5. fr2.remaining = size
        BY <2>3, <2>4, <1>1
    <2>6. at + 1 + size = Len(bytes) /\ at + 1 <= Len(bytes)
        BY <2>3
    <2>7. InPayload(fr2, bytes, at + 1)
        BY <2>5, <2>6, <1>1, Zenon DEF InPayload
    <2>8. ~(b >= Base) /\ b \in Nat
        BY <2>3, <1>3, <1>5
    <2> QED
        BY <2>5, <2>6, <2>7, <2>8, <1>1, <1>4
<1>6. CASE ~(m < Base)
    <2>1. EncodeVarint[m] = <<Base + r>> \o EncodeVarint[q]
        BY <1>2, <1>6, Encoding DEF Digits
    <2>2. EncodeVarint[q] \in Seq(Nat) /\ Base + r \in Nat
        BY <1>2, <1>3, Encoding
    <2> DEFINE e == EncodeVarint[q]
    <2>3. /\ Len(EncodeVarint[m]) = 1 + Len(e) /\ Len(e) \in Nat
          /\ EncodeVarint[m][1] = Base + r
          /\ \A i \in 1..Len(e) : EncodeVarint[m][1 + i] = e[i]
        <3> HIDE DEF e
        <3>1. e \in Seq(Nat) /\ Base + r \in Nat /\ EncodeVarint[m] = <<Base + r>> \o e
            BY <2>1, <2>2 DEF e
        <3> QED
            BY <3>1
    <2> HIDE DEF e
    <2>4. b = Base + r /\ b >= Base /\ b \in Nat
        <3>1. 1 \in 1..Len(EncodeVarint[m])
            BY <2>3
        <3>2. b = Base + r
            BY <3>1, <2>3, <1>1
        <3> QED
            BY <3>2, <1>2, <1>3
    <2>5. b % Base = r
        BY <2>4, <1>2
    <2>6. /\ size = fr2.remaining + q * fr2.multiplier
          /\ fr2.remaining \in Nat
        <3>1. PICK u : u = fr.multiplier
            OBVIOUS
        <3>2. PICK a : a = fr.remaining
            OBVIOUS
        <3>3. fr2.remaining = a + r * u /\ fr2.multiplier = u * Base
            BY <2>5, <3>1, <3>2
        <3>4. size = a + m * u /\ a \in Nat /\ u \in Nat
            BY <3>1, <3>2, <1>1
        <3>5. (a + r * u) + q * (u * Base) = a + m * u
            <4>1. r \in Nat /\ m = Base * q + r
                BY <1>2, <1>3
            <4> QED
                BY <3>4, <4>1, <1>3, Regrouped
        <3>6. a + r * u \in Nat
            BY <3>4, <1>2
        <3> QED
            BY <3>3, <3>4, <3>5, <3>6
    <2>7. Len(bytes) = (at + 1) + Len(e) + size
        BY <2>3, <1>1
    <2>8. ASSUME NEW i \in 1..Len(e) PROVE bytes[(at + 1) + i] = e[i]
        <3>1. Len(e) \in Nat /\ Len(EncodeVarint[m]) = 1 + Len(e)
            BY <2>3
        <3>2. 1 + i \in 1..Len(EncodeVarint[m])
            BY <3>1
        <3>3. (at + 1) + i = at + (1 + i)
            BY <3>1
        <3> QED
            BY <3>2, <3>3, <2>3, <1>1
    <2>9. InLength(fr2, bytes, at + 1)
        BY <2>6, <2>7, <2>8, <1>1 DEF InLength, e
    <2> QED
        BY <2>3, <2>4, <2>6, <2>7, <2>9, <1>3, <1>4
<1> QED
    BY <1>5, <1>6

\* The whole packet is there.
LEMMA BodyIsWhole ==
    ASSUME NEW fr, NEW bytes, NEW at \in Nat, InPayload(fr, bytes, at),
           fr.remaining \in Nat, Titled(fr, bytes),
           NEW st \in Seq(Nat), Len(st) >= fr.remaining,
           Follows(st, bytes, at)
    PROVE  BuildPacket(fr.type, fr.flags, SubSeq(st, 1, fr.remaining)) = bytes
<1> DEFINE n == fr.remaining
           got == SubSeq(st, 1, n)
           body == SubSeq(bytes, Len(bytes) - n + 1, Len(bytes))
<1>1. /\ bytes \in Seq(Nat) /\ n \in 0..Len(bytes) /\ at + n = Len(bytes)
      /\ bytes = BuildPacket(bytes[1] \div 16, bytes[1] % 16, body)
    BY DEF InPayload, Framed
<1>2. Len(bytes) \in Nat /\ Len(st) \in Nat /\ n \in Nat /\ n <= Len(st)
      /\ n <= Len(bytes)
    <2>1. bytes \in Seq(Nat) /\ n \in 0..Len(bytes)
        BY <1>1
    <2> QED
        BY <2>1
<1>3. Len(bytes) - n = at /\ at <= Len(bytes) /\ Len(bytes) - at = n
    <2>1. at + n = Len(bytes)
        BY <1>1
    <2> HIDE DEF n
    <2> QED
        BY <1>2, <2>1
<1>4. body = SubSeq(bytes, at + 1, Len(bytes))
    BY <1>3
<1> HIDE DEF n, got, body
<1>5. got \in Seq(Nat) /\ Len(got) = n /\ \A i \in 1..n : got[i] = st[i]
    BY <1>2, FirstPart, Zenon DEF got
<1>8. /\ body \in Seq(Nat) /\ Len(body) = n
      /\ \A i \in 1..n : body[i] = bytes[at + i] /\ at + i \in 1..Len(bytes)
    <2>1. bytes \in Seq(Nat)
        BY <1>1
    <2>2. /\ SubSeq(bytes, at + 1, Len(bytes)) \in Seq(Nat)
          /\ Len(SubSeq(bytes, at + 1, Len(bytes))) = Len(bytes) - at
          /\ \A i \in 1..(Len(bytes) - at) :
                /\ SubSeq(bytes, at + 1, Len(bytes))[i] = bytes[at + i]
                /\ at + i \in 1..Len(bytes)
        BY <1>3, <2>1, LastPart, Zenon
    <2>3. Len(bytes) - at = n
        BY <1>3
    <2> QED
        BY <1>4, <2>2, <2>3, Zenon
<1>6. ASSUME NEW i \in 1..n PROVE got[i] = body[i]
    <2>1. got[i] = st[i] /\ body[i] = bytes[at + i] /\ at + i \in 1..Len(bytes)
        BY <1>5, <1>8, Zenon
    <2>2. i \in 1..Len(st) /\ at + i <= Len(bytes)
        BY <1>2, <2>1
    <2>3. st[i] = bytes[at + i]
        BY <2>2, Zenon DEF Follows
    <2> QED
        BY <2>1, <2>3
<1>7. got = body
    <2>1. got \in Seq(Nat) /\ body \in Seq(Nat) /\ Len(got) = n /\ Len(body) = n
        BY <1>5, <1>8
    <2> QED
        BY <1>2, <1>6, <2>1
<1> QED
    BY <1>1, <1>7, Zenon DEF Titled, got, n

-----------------------------------------------------------------------------
(***************************************************************************)
(* The invariant.                                                          *)
(***************************************************************************)
StreamTypes ==
    /\ script \in Scripts
    /\ broken \in BOOLEAN
    /\ stream \in Seq(Nat)
    /\ reading \in {"header", "length", "payload", "closed"}
    /\ frame \in [type: 0..15, flags: 0..15, remaining: Nat, multiplier: Nat]
    /\ reading = "payload" => frame.remaining <= MaxPacket
    /\ level \in {0, 3, 4, 5}
    /\ \A a \in DOMAIN aliases : aliases[a] # <<>>

\* No more is handled than was written, and no more is answered than handled,
\* but for a refusal.
Counts ==
    /\ IsSeq(sent) /\ IsSeq(handled) /\ IsSeq(answers)
    /\ Len(sent) <= Len(script)
    /\ Len(handled) <= Len(sent)
    /\ Len(answers) <= Len(handled) + 1
    /\ reading # "closed" => Len(answers) <= Len(handled)

\* The multiplier after the header and some digits.
Scaled(fr, at) ==
    \/ at = 1 /\ fr.multiplier = 1
    \/ at = 2 /\ fr.multiplier = Base
    \/ at = 3 /\ fr.multiplier = Base * Base
    \/ at = 4 /\ fr.multiplier = Base * Base * Base

\* What the reader has done of its packet when it read at bytes of it.
InPacket(bytes, at) ==
    /\ reading = "header" => at = 0
    /\ reading # "header" => Len(handled) < Len(sent) /\ Titled(frame, bytes)
    /\ reading = "length" => InLength(frame, bytes, at) /\ Scaled(frame, at)
    /\ reading = "payload" => InPayload(frame, bytes, at) /\ at <= 5

\* The reader stands at bytes into the packet after those that were handled.
InStep ==
    reading # "closed" =>
        \E total, off : \E at \in Nat :
            /\ Laid(script, total, off, Len(sent))
            /\ UnderWay(stream, broken, total, off[Len(handled)] + at)
            /\ InPacket(Written(script, Len(handled) + 1), at)

\* What each packet the client wrote means, and what it may expect for it.
Judged ==
    \A k \in 1..Len(sent) :
        /\ sent[k].acceptable = Accepted(script, k)
        /\ sent[k].meaning = Meaning(script, k)
        /\ sent[k].final = MayEnd(script[k])

\* The invariant as a whole.
FramingInv == StreamTypes /\ Counts /\ Judged /\ InStep

-----------------------------------------------------------------------------
(***************************************************************************)
(* What handlers do to the histories, whatever the parsers return.         *)
(***************************************************************************)
\* A packet more.
Passes ==
    /\ IsSeq(handled') /\ Len(handled') = Len(handled) + 1
    /\ reading' \in {"header", "closed"}
    /\ IsSeq(answers') /\ Len(answers') \in {Len(answers), Len(answers) + 1}

\* The end of the connection.
Drops ==
    /\ handled' = handled
    /\ reading' = "closed"
    /\ IsSeq(answers') /\ Len(answers') \in {Len(answers), Len(answers) + 1}

\* Aliases stand for topics.
Topics == \A a \in DOMAIN aliases : aliases[a] # <<>>

\* At most one answer.
Short(out) == IsSeq(out) /\ Len(out) \in {0, 1}

LEMMA ShortLists ==
    /\ Short(<<>>)
    /\ \A x : Short(<<x>>)
    /\ \A x : \A test \in BOOLEAN : Short(When(test, <<x>>))
BY IsSeqShort, Zenon DEF Short, When

LEMMA EmptyConcat ==
    ASSUME NEW x
    PROVE  /\ <<>> \o <<x>> = <<x>> /\ <<x>> \o <<>> = <<x>>
<1>1. <<>> \in Seq({x}) /\ <<x>> \in Seq({x})
    OBVIOUS
<1> QED
    BY <1>1, ConcatEmptySeq

LEMMA OneOfTwo ==
    ASSUME NEW x, NEW y, NEW a, NEW b, ~(a /\ b)
    PROVE  Short(When(a, <<x>>) \o When(b, <<y>>))
<1>1. <<>> \o <<>> = <<>>
    OBVIOUS
<1>2. CASE a
    BY <1>2, EmptyConcat, ShortLists, Zenon DEF When
<1>3. CASE ~a /\ b
    BY <1>3, EmptyConcat, ShortLists, Zenon DEF When
<1>4. CASE ~a /\ ~b
    BY <1>1, <1>4, ShortLists, Zenon DEF When
<1> QED
    BY <1>2, <1>3, <1>4

LEMMA Answered ==
    ASSUME NEW q, IsSeq(q), NEW out, Short(out)
    PROVE  IsSeq(q \o out) /\ Len(q \o out) \in {Len(q), Len(q) + 1}
<1>1. IsSeq(q \o out) /\ Len(q) \in Nat /\ Len(q \o out) = Len(q) + Len(out)
    BY IsSeqConcat DEF Short
<1>2. Len(out) \in {0, 1}
    BY DEF Short
<1>3. Len(q \o out) \in {Len(q), Len(q) + 1}
    <2>1. Len(q) \in Nat /\ Len(q \o out) = Len(q) + Len(out)
        BY <1>1
    <2>2. CASE Len(out) = 0
        BY <2>1, <2>2
    <2>3. CASE Len(out) = 1
        <3>1. Len(q \o out) = Len(q) + 1
            BY <2>1, <2>3, Zenon
        <3> QED
            BY <3>1, Zenon
    <2> QED
        BY <1>2, <2>2, <2>3
<1> QED
    BY <1>1, <1>3

LEMMA AcceptPasses ==
    ASSUME IsSeq(handled), IsSeq(answers), NEW val, NEW out, Short(out), Accept(val, out)
    PROVE  Passes
<1>1. IsSeq(handled') /\ Len(handled') = Len(handled) + 1
    BY IsSeqAppend, Zenon DEF Accept, Handled
<1>2. reading' \in {"header", "closed"}
    BY DEF Accept
<1>3. IsSeq(answers') /\ Len(answers') \in {Len(answers), Len(answers) + 1}
    BY Answered, Zenon DEF Accept
<1> QED
    BY <1>1, <1>2, <1>3 DEF Passes

LEMMA RefuseDrops ==
    ASSUME IsSeq(answers), NEW out, Short(out), Refuse(out)
    PROVE  Drops
<1>1. IsSeq(answers') /\ Len(answers') \in {Len(answers), Len(answers) + 1}
    BY Answered, Zenon DEF Refuse
<1> QED
    BY <1>1, Zenon DEF Drops, Refuse

LEMMA BoundTopics ==
    ASSUME Topics, NEW alias, NEW topic, topic # <<>>
    PROVE  \A a \in DOMAIN Bound(alias, topic) : Bound(alias, topic)[a] # <<>>
BY DEF Bound, Topics

LEMMA ConnectEffect ==
    ASSUME IsSeq(handled), IsSeq(answers), Topics, level \in {0, 3, 4, 5},
           NEW r, HandleConnect(r)
    PROVE  /\ Passes \/ Drops
           /\ Topics' /\ level' \in {0, 3, 4, 5}
<1>1. Topics'
    BY DEF HandleConnect, Topics
<1>2. CASE Refuse(<<>>) /\ UNCHANGED level
    BY <1>1, <1>2, ShortLists, RefuseDrops
<1>3. CASE /\ Refuse(<<EncodeConnack(FALSE, RefusalCode(r.val), r.val.level, <<>>)>>)
           /\ UNCHANGED level
    <2>1. Short(<<EncodeConnack(FALSE, RefusalCode(r.val), r.val.level, <<>>)>>)
        BY ShortLists, Zenon
    <2> QED
        BY <1>1, <1>3, <2>1, RefuseDrops, Zenon
<1>4. CASE /\ RefusalCode(r.val) = 0
           /\ level' = r.val.level
           /\ reading' = "header"
           /\ Handled(r.val)
           /\ \E present \in BOOLEAN :
                answers' = Append(answers,
                    EncodeConnack(present, 0, r.val.level,
                                  ConnackProps(r.val.level, r.val.cid)))
    <2>1. r.val.level \in {3, 4, 5}
        BY <1>4 DEF RefusalCode
    <2>2. IsSeq(handled') /\ Len(handled') = Len(handled) + 1
        BY <1>4, IsSeqAppend, Zenon DEF Handled
    <2>3. PICK x : answers' = Append(answers, x)
        BY <1>4, Zenon
    <2>4. IsSeq(answers') /\ Len(answers') = Len(answers) + 1
        BY <2>3, IsSeqAppend, Zenon
    <2>5. Passes
        BY <1>4, <2>2, <2>4 DEF Passes
    <2> QED
        BY <1>1, <1>4, <2>1, <2>5
<1> QED
    BY <1>2, <1>3, <1>4, Zenon DEF HandleConnect

LEMMA PublishEffect ==
    ASSUME IsSeq(handled), IsSeq(answers), Topics, NEW pub, HandlePublish(pub)
    PROVE  /\ Passes \/ Drops
           /\ Topics'
<1> DEFINE alias == AliasOf(pub)
           topic == IF pub.topic = <<>> /\ alias \in DOMAIN aliases
                    THEN aliases[alias] ELSE pub.topic
           out == When(pub.qos = 1, Ack(PacketType.PUBACK, pub.id))
                      \o When(pub.qos = 2, Ack(PacketType.PUBREC, pub.id))
           Closing(rc) == When(level = 5, <<EncodeDisconnect(rc, 5)>>)
<1>1. aliases' = IF alias # None /\ pub.topic # <<>>
                 THEN Bound(alias, pub.topic) ELSE aliases
    BY DEF HandlePublish
<1>2. Topics'
    <2>1. CASE alias # None /\ pub.topic # <<>>
        BY <1>1, <2>1, BoundTopics DEF Topics
    <2>2. CASE ~(alias # None /\ pub.topic # <<>>)
        BY <1>1, <2>2 DEF Topics
    <2> QED
        BY <2>1, <2>2
<1>3. \/ Refuse(Closing(148)) \/ Refuse(Closing(144))
      \/ Accept([pub EXCEPT !.topic = topic], out)
    BY Zenon DEF HandlePublish
<1>4. Short(out)
    <2>1. ~(pub.qos = 1 /\ pub.qos = 2)
        OBVIOUS
    <2> QED
        BY <2>1, OneOfTwo, Zenon DEF Ack
<1>5. \A rc : Short(Closing(rc))
    BY ShortLists, Zenon
<1> HIDE DEF out, Closing
<1>6. Passes \/ Drops
    BY <1>3, <1>4, <1>5, AcceptPasses, RefuseDrops, Zenon
<1> QED
    BY <1>2, <1>6

LEMMA DispatchEffect ==
    ASSUME IsSeq(handled), IsSeq(answers), Topics, level \in {0, 3, 4, 5},
           NEW r, Dispatch(r)
    PROVE  /\ Passes \/ Drops
           /\ Topics' /\ level' \in {0, 3, 4, 5}
<1>1. level' \in {0, 3, 4, 5}
    BY DEF Dispatch
<1>2. CASE HandlePublish(r.val)
    BY <1>1, <1>2, PublishEffect
<1>3. CASE ~HandlePublish(r.val)
    <2>1. \/ Refuse(<<>>) \/ Accept(None, <<>>) \/ HandleAck(r.val)
          \/ HandleSubscribe(r.val) \/ HandleUnsubscribe(r.val)
          \/ HandleDisconnect(r.val) \/ Accept(None, <<Pingresp>>)
        BY <1>3, Zenon DEF Dispatch
    <2>2. UNCHANGED aliases
        <3>1. frame.type # PacketType.PUBLISH \/ ~r.ok
            <4> SUFFICES ASSUME frame.type = 3, r.ok PROVE HandlePublish(r.val)
                BY <1>3 DEF PacketType
            <4>1. /\ frame.type = PacketType.PUBLISH /\ frame.type \notin 4..7
                  /\ frame.type # PacketType.SUBSCRIBE
                  /\ frame.type # PacketType.UNSUBSCRIBE
                  /\ frame.type # PacketType.DISCONNECT
                  /\ frame.type # PacketType.PINGREQ
                BY DEF PacketType
            <4> QED
                BY <4>1 DEF Dispatch
        <3> QED
            BY <3>1, Zenon DEF Dispatch
    <2>3. Topics'
        BY <2>2 DEF Topics
    <2>4. ASSUME Refuse(<<>>) PROVE Passes \/ Drops
        BY <2>4, ShortLists, RefuseDrops
    <2>5. ASSUME Accept(None, <<>>) PROVE Passes \/ Drops
        BY <2>5, ShortLists, AcceptPasses
    <2>6. ASSUME HandleAck(r.val) PROVE Passes \/ Drops
        <3> DEFINE out == When(frame.type = PacketType.PUBREC, Ack(PacketType.PUBREL, r.val))
                   \o When(frame.type = PacketType.PUBREL, Ack(PacketType.PUBCOMP, r.val))
        <3>1. ~(frame.type = PacketType.PUBREC /\ frame.type = PacketType.PUBREL)
            BY DEF PacketType
        <3>3. Short(out)
            BY <3>1, OneOfTwo, Zenon DEF Ack
        <3>2. Accept(r.val, out)
            BY <2>6 DEF HandleAck
        <3> HIDE DEF out
        <3> QED
            BY <3>2, <3>3, AcceptPasses
    <2>7. ASSUME HandleSubscribe(r.val) PROVE Passes \/ Drops
        <3>1. ASSUME NEW x, Accept(r.val, <<x>>) PROVE Passes \/ Drops
            BY <3>1, ShortLists, AcceptPasses, Zenon
        <3>2. ASSUME Handled(r.val), reading' = "closed", UNCHANGED answers
              PROVE  Passes
            <4>1. IsSeq(handled') /\ Len(handled') = Len(handled) + 1
                BY <3>2, IsSeqAppend, Zenon DEF Handled
            <4> QED
                BY <3>2, <4>1 DEF Passes
        <3> QED
            BY <2>7, <3>1, <3>2, Zenon DEF HandleSubscribe
    <2>8. ASSUME HandleUnsubscribe(r.val) PROVE Passes \/ Drops
        <3>1. PICK x : Accept(r.val, <<x>>)
            BY <2>8 DEF HandleUnsubscribe
        <3> QED
            BY <3>1, ShortLists, AcceptPasses, Zenon
    <2>9. ASSUME HandleDisconnect(r.val) PROVE Passes \/ Drops
        <3>1. IsSeq(handled') /\ Len(handled') = Len(handled) + 1
            BY <2>9, IsSeqAppend, Zenon DEF HandleDisconnect, Handled
        <3> QED
            BY <2>9, <3>1 DEF HandleDisconnect, Passes
    <2>10. ASSUME Accept(None, <<Pingresp>>) PROVE Passes \/ Drops
        BY <2>10, ShortLists, AcceptPasses, Zenon
    <2> QED
        BY <1>1, <2>1, <2>3, <2>4, <2>5, <2>6, <2>7, <2>8, <2>9, <2>10
<1> QED
    BY <1>2, <1>3

-----------------------------------------------------------------------------
(***************************************************************************)
(* The steps.                                                              *)
(***************************************************************************)
\* The next packet of the script is well framed.
LEMMA ScriptFrames ==
    ASSUME script \in Scripts, NEW k \in Nat, k < Len(script)
    PROVE  /\ Len(script) \in Nat
           /\ \E size \in Nat : Framed(Written(script, k + 1), size)
<1>1. Len(script) \in Nat
    BY ScriptAssumption
<1>2. k + 1 \in 1..Len(script)
    BY <1>1
<1>3. PICK bytes : bytes = Written(script, k + 1)
    OBVIOUS
<1>4. \E size \in 0..Len(bytes) : Framed(bytes, size)
    BY <1>2, <1>3, ScriptAssumption, Zenon DEF Written
<1>5. PICK size \in 0..Len(bytes) : Framed(bytes, size)
    BY <1>4
<1>6. size \in Nat
    OBVIOUS
<1> QED
    BY <1>1, <1>3, <1>5, <1>6

LEMMA Numbers ==
    ASSUME Counts
    PROVE  Len(sent) \in Nat /\ Len(handled) \in Nat /\ Len(answers) \in Nat
BY IsSeqAppend, Zenon DEF Counts

LEMMA InitKeeps == ASSUME Init PROVE FramingInv
<1>1. StreamTypes
    <2>1. frame \in [type: 0..15, flags: 0..15, remaining: Nat, multiplier: Nat]
        BY DEF Init, NoFrame
    <2>2. \A a \in DOMAIN aliases : aliases[a] # <<>>
        BY DEF Init
    <2>3. stream \in Seq(Nat)
        BY DEF Init
    <2> QED
        BY <2>1, <2>2, <2>3 DEF Init, StreamTypes
<1>2. Counts
    <2>1. Len(script) \in Nat
        BY ScriptAssumption DEF Init
    <2>2. IsSeq(<<>>) /\ Len(<<>>) = 0
        BY IsSeqShort
    <2> QED
        BY <2>1, <2>2 DEF Init, Counts
<1>3. InStep
    <2> DEFINE off == [k \in 0..0 |-> 0]
    <2>1. Laid(script, <<>>, off, 0)
        BY DEF Laid
    <2>2. UnderWay(<<>>, FALSE, <<>>, off[0] + 0)
        BY DEF UnderWay
    <2> HIDE DEF off
    <2>3. reading = "header" /\ sent = <<>> /\ handled = <<>>
          /\ stream = <<>> /\ broken = FALSE
        BY DEF Init
    <2>4. Len(sent) = 0 /\ Len(handled) = 0
        BY <2>3
    <2>5. Laid(script, <<>>, off, Len(sent))
          /\ UnderWay(stream, broken, <<>>, off[Len(handled)] + 0)
        BY <2>1, <2>2, <2>3, <2>4
    <2>6. InPacket(Written(script, Len(handled) + 1), 0)
        BY <2>3 DEF InPacket
    <2> QED
        BY <2>5, <2>6 DEF InStep
<1>4. Judged
    <2>1. Len(sent) = 0
        BY IsSeqShort DEF Init
    <2> QED
        BY <2>1 DEF Judged
<1> QED
    BY <1>1, <1>2, <1>3, <1>4 DEF FramingInv

\* Where the reader stands in what the client wrote.
At(total, off, at) ==
    /\ Laid(script, total, off, Len(sent))
    /\ UnderWay(stream, broken, total, off[Len(handled)] + at)
    /\ InPacket(Written(script, Len(handled) + 1), at)

\* The invariant, and what of the packet has arrived.
LEMMA Ahead ==
    ASSUME FramingInv, reading # "closed"
    PROVE  \E total, off : \E at \in Nat :
              /\ At(total, off, at)
              /\ total \in Seq(Nat)
              /\ off[Len(handled)] \in Nat
              /\ at = 0 /\ stream # <<>> => Len(handled) < Len(sent)
              /\ Len(handled) < Len(sent) =>
                    Follows(stream, Written(script, Len(handled) + 1), at)
<1>1. PICK total, off : \E at \in Nat : At(total, off, at)
    BY Zenon DEF FramingInv, InStep, At
<1>2. PICK at \in Nat : At(total, off, at)
    BY <1>1
<1>3. Len(sent) \in Nat /\ Len(handled) \in 0..Len(sent)
    BY Numbers DEF FramingInv, Counts
<1>4. Laid(script, total, off, Len(sent))
      /\ UnderWay(stream, broken, total, off[Len(handled)] + at)
    BY <1>2, Zenon DEF At
<1>5. total \in Seq(Nat) /\ off[Len(handled)] \in Nat
    BY <1>3, <1>4, LaidTypes
<1>6. PICK n \in Nat : n = Len(sent)
    BY <1>3
<1>7. PICK k \in 0..n : k = Len(handled)
    BY <1>3, <1>6
<1>10. PICK pos : pos = off[k] + at
    OBVIOUS
<1>8. Laid(script, total, off, n) /\ UnderWay(stream, broken, total, pos)
    BY <1>4, <1>6, <1>7, <1>10
<1>9. /\ at = 0 /\ stream # <<>> => k < n
      /\ k < n => Follows(stream, Written(script, k + 1), at)
    BY <1>8, <1>10, NextPacketIsAhead
<1> QED
    BY <1>2, <1>5, <1>6, <1>7, <1>9, Zenon

LEMMA WriteKeeps == ASSUME FramingInv, Write PROVE FramingInv'
<1> USE DEF FramingInv
<1>1. /\ ~broken /\ Len(sent) < Len(script)
      /\ UNCHANGED <<script, broken, reading, frame, level, aliases, handled, answers>>
      /\ stream' = stream \o Written(script, Len(sent) + 1)
      /\ \E x : /\ sent' = Append(sent, x)
                /\ x.acceptable = Accepted(script, Len(sent) + 1)
                /\ x.meaning = Meaning(script, Len(sent) + 1)
                /\ x.final = MayEnd(script[Len(sent) + 1])
    <2>1. PICK x : /\ sent' = Append(sent, x)
                   /\ x = [meaning |-> Meaning(script, Len(sent) + 1),
                           acceptable |-> Accepted(script, Len(sent) + 1),
                           final |-> MayEnd(script[Len(sent) + 1])]
        BY Zenon DEF Write
    <2>2. /\ x.acceptable = Accepted(script, Len(sent) + 1)
          /\ x.meaning = Meaning(script, Len(sent) + 1)
          /\ x.final = MayEnd(script[Len(sent) + 1])
        BY <2>1
    <2> QED
        BY <2>1, <2>2, Zenon DEF Write, broker, Written
<1>2. Len(sent) \in Nat /\ Len(handled) \in Nat /\ Len(answers) \in Nat
    BY Numbers
<1>3. /\ Len(script) \in Nat
      /\ \E size \in Nat : Framed(Written(script, Len(sent) + 1), size)
    BY <1>1, <1>2, ScriptFrames DEF StreamTypes
<1> DEFINE p == Written(script, Len(sent) + 1)
<1>4. p \in Seq(Nat)
    BY <1>3, Parts
<1>5. IsSeq(sent') /\ Len(sent') = Len(sent) + 1
    BY <1>1, IsSeqAppend, Zenon DEF Counts
<1> HIDE DEF p
<1>6. stream' = stream \o p
    BY <1>1 DEF p
<1>7. StreamTypes'
    <2>1. stream' \in Seq(Nat)
        BY <1>4, <1>6 DEF StreamTypes
    <2> QED
        BY <1>1, <2>1, Zenon DEF StreamTypes
<1>8. Counts'
    <2>1. Len(sent') <= Len(script) /\ Len(handled) <= Len(sent')
        BY <1>1, <1>2, <1>3, <1>5 DEF Counts
    <2> QED
        BY <1>1, <1>5, <2>1, Zenon DEF Counts
<1>9. InStep'
    <2> SUFFICES ASSUME reading # "closed"
                 PROVE  \E total, off : \E at \in Nat : At(total, off, at)'
        BY <1>1, Zenon DEF InStep, At
    <2>1. PICK total, off : \E at \in Nat :
              At(total, off, at) /\ total \in Seq(Nat)
        BY Ahead, Zenon
    <2>2. PICK at \in Nat : At(total, off, at) /\ total \in Seq(Nat)
        BY <2>1
    <2>3. PICK off2 : /\ Laid(script, total \o p, off2, Len(sent) + 1)
                      /\ \A k \in 0..Len(sent) : off2[k] = off[k]
        <3>1. Laid(script, total, off, Len(sent))
            BY <2>2, Zenon DEF At
        <3> DEFINE n == Len(sent)
        <3> HIDE DEF n
        <3>2. n \in Nat /\ Laid(script, total, off, n)
              /\ Written(script, n + 1) \in Seq(Nat)
            BY <3>1, <1>2, <1>4 DEF n, p
        <3>3. \E off2 : /\ Laid(script, total \o Written(script, n + 1), off2, n + 1)
                        /\ \A k \in 0..n : off2[k] = off[k]
            BY <3>2, LaidExtends
        <3> QED
            BY <3>3 DEF n, p
    <2>4. Len(handled) \in 0..Len(sent)
        BY <1>2 DEF Counts
    <2>5. broken = FALSE
        BY <1>1 DEF StreamTypes
    <2>6. UnderWay(stream, FALSE, total, off[Len(handled)] + at)
        BY <2>2, <2>5, Zenon DEF At
    <2>7. UnderWay(stream \o p, FALSE, total \o p, off[Len(handled)] + at)
        BY <2>2, <2>6, <1>4, Lengthened, Zenon
    <2>8. UnderWay(stream', broken', total \o p, off2[Len(handled')] + at)
        BY <1>1, <1>6, <2>3, <2>4, <2>5, <2>7, Zenon
    <2>9. Laid(script', total \o p, off2, Len(sent'))
        BY <1>1, <1>5, <2>3, Zenon
    <2>10. InPacket(Written(script, Len(handled) + 1), at)'
        <3>1. InPacket(Written(script, Len(handled) + 1), at)
            BY <2>2 DEF At
        <3>2. Len(handled) < Len(sent) => Len(handled) < Len(sent')
            BY <1>2, <1>5
        <3> QED
            BY <1>1, <3>1, <3>2, Zenon DEF InPacket, Written
    <2> QED
        BY <2>8, <2>9, <2>10, Zenon DEF At
<1>10. Judged'
    <2>1. PICK x : sent' = Append(sent, x)
                   /\ x.acceptable = Accepted(script, Len(sent) + 1)
                   /\ x.meaning = Meaning(script, Len(sent) + 1)
                   /\ x.final = MayEnd(script[Len(sent) + 1])
        BY <1>1
    <2>4. sent' = Append(sent, x) /\ IsSeq(sent)
        BY <2>1 DEF Counts
    <2>2. /\ \A k \in 1..Len(sent) : sent'[k] = sent[k]
          /\ sent'[Len(sent) + 1] = x
        BY <2>4, Appended, Zenon
    <2>3. ASSUME NEW k \in 1..Len(sent')
          PROVE  /\ sent'[k].acceptable = Accepted(script, k)
                 /\ sent'[k].meaning = Meaning(script, k)
                 /\ sent'[k].final = MayEnd(script[k])
        <3>1. CASE k \in 1..Len(sent)
            BY <2>2, <3>1, Zenon DEF Judged
        <3>2. CASE k = Len(sent) + 1
            BY <2>1, <2>2, <3>2, Zenon
        <3> QED
            BY <1>2, <1>5, <3>1, <3>2
    <2> QED
        BY <1>1, <2>3, Zenon DEF Judged
<1> QED
    BY <1>7, <1>8, <1>9, <1>10

LEMMA BreakKeeps ==
    ASSUME FramingInv, NEW n \in 0..Len(stream), Break(n)
    PROVE FramingInv'
<1> USE DEF FramingInv
<1>1. /\ ~broken /\ broken' = TRUE
      /\ stream' = SubSeq(stream, 1, n)
      /\ UNCHANGED <<script, sent, reading, frame, level, aliases, handled, answers>>
    BY DEF Break, broker
<1>2. stream \in Seq(Nat)
    BY DEF StreamTypes
<1>3. stream' \in Seq(Nat)
    <2>1. n \in Nat /\ n <= Len(stream)
        BY <1>2
    <2> QED
        BY <1>1, <1>2, <2>1, FirstPart, Zenon
<1>4. StreamTypes'
    BY <1>1, <1>3, Zenon DEF StreamTypes
<1>5. Counts'
    BY <1>1, Zenon DEF Counts
<1>6. InStep'
    <2> SUFFICES ASSUME reading # "closed"
                 PROVE  \E total, off : \E at \in Nat : At(total, off, at)'
        BY <1>1, Zenon DEF InStep, At
    <2>1. PICK total, off : \E at \in Nat :
              At(total, off, at) /\ total \in Seq(Nat)
        BY Ahead, Zenon
    <2>2. PICK at \in Nat : At(total, off, at) /\ total \in Seq(Nat)
        BY <2>1
    <2>3. UnderWay(stream', TRUE, total, off[Len(handled)] + at)
        BY <1>1, <2>2, CutOff, Zenon DEF At
    <2>4. InPacket(Written(script, Len(handled) + 1), at)'
        BY <1>1, <2>2, Zenon DEF At, InPacket, Written
    <2> QED
        BY <1>1, <2>2, <2>3, <2>4, Zenon DEF At
<1>20. Judged'
    BY <1>1, Zenon DEF Judged
<1> QED
    BY <1>20, <1>4, <1>5, <1>6

LEMMA GiveUpKeeps == ASSUME FramingInv, GiveUp PROVE FramingInv'
BY Zenon DEF FramingInv, GiveUp, client, StreamTypes, Counts, Judged, InStep

LEMMA FirstByte ==
    ASSUME NEW st \in Seq(Nat), st # <<>>
    PROVE  /\ Head(st) = st[1] /\ Head(st) \in Nat
           /\ Len(st) \in Nat /\ Len(st) >= 1
           /\ Tail(st) = SubSeq(st, 1 + 1, Len(st))
           /\ Tail(st) \in Seq(Nat)
<1>1. /\ Head(st) = st[1] /\ Head(st) \in Nat
      /\ Len(st) \in Nat /\ Len(st) >= 1 /\ Tail(st) \in Seq(Nat)
    OBVIOUS
<1>2. Tail(st) = SubSeq(st, 1 + 1, Len(st))
    <2>1. Tail(st) = SubSeq(st, 2, Len(st))
        BY TailIsSubSeq
    <2>2. 1 + 1 = 2
        OBVIOUS
    <2> QED
        BY <2>1, <2>2
<1> QED
    BY <1>1, <1>2

\* Bytes are read.
LEMMA Advanced ==
    ASSUME NEW total \in Seq(Nat), NEW off, NEW at \in Nat, At(total, off, at),
           off[Len(handled)] \in Nat, NEW c \in 0..Len(stream),
           stream' = SubSeq(stream, c + 1, Len(stream)),
           UNCHANGED <<script, sent, broken>>
    PROVE  /\ Laid(script', total, off, Len(sent'))
           /\ UnderWay(stream', broken', total, off[Len(handled)] + (at + c))
<1>1. PICK pos : pos = off[Len(handled)] + at
    OBVIOUS
<1>2. Laid(script, total, off, Len(sent)) /\ UnderWay(stream, broken, total, pos)
    BY <1>1, Zenon DEF At
<1>3. UnderWay(stream', broken, total, pos + c)
    BY <1>2, Consumed
<1>4. pos + c = off[Len(handled)] + (at + c)
    <2>1. c \in Nat
        BY <1>2, UnderWayTypes
    <2> QED
        BY <1>1, <2>1
<1> QED
    BY <1>2, <1>3, <1>4

\* The multipliers.
LEMMA Growing ==
    ASSUME NEW x \in Nat, NEW b \in Nat, x >= 1, b >= 2
    PROVE  x * b \in Nat /\ x * b > x
<1>1. PICK c \in Nat : b = c + 2
    <2>1. b - 2 \in Nat /\ b = (b - 2) + 2
        OBVIOUS
    <2> QED
        BY <2>1
<1>2. x * c \in Nat
    OBVIOUS
<1>3. x * b = x * c + 2 * x
    BY <1>1, SMTT(30)
<1>4. x * b \in Nat
    OBVIOUS
<1> QED
    BY <1>2, <1>3, <1>4

LEMMA Powers ==
    /\ 1 * Base = Base
    /\ Base <= Base * Base * Base
    /\ Base * Base <= Base * Base * Base
    /\ (Base * Base * Base) * Base > Base * Base * Base
    /\ Base * Base \in Nat /\ Base * Base * Base \in Nat
<1>1. ASSUME NEW x \in Nat, x >= 1
      PROVE x * Base \in Nat /\ x * Base > x /\ x * Base >= 1
    <2>1. Base \in Nat /\ Base >= 2
        BY BaseAssumption
    <2>2. PICK y : y = x * Base
        OBVIOUS
    <2>3. y \in Nat /\ y > x
        BY <1>1, <2>1, <2>2, Growing
    <2>4. y >= 1
        BY <1>1, <2>3
    <2> QED
        BY <2>2, <2>3, <2>4
<1>2. Base \in Nat /\ Base >= 1
    BY BaseAssumption
<1>3. PICK y : y = Base * Base
    OBVIOUS
<1>4. y \in Nat /\ y > Base /\ y >= 1
    BY <1>1, <1>2, <1>3
<1>5. PICK z : z = y * Base
    OBVIOUS
<1>6. z \in Nat /\ z > y /\ z >= 1
    BY <1>1, <1>4, <1>5
<1>7. z * Base > z
    BY <1>1, <1>6
<1>8. z = Base * Base * Base
    BY <1>3, <1>5
<1>9. 1 * Base = Base
    BY <1>2
<1>10. Base <= z /\ y <= z
    BY <1>2, <1>4, <1>6
<1> QED
    BY <1>3, <1>4, <1>6, <1>7, <1>8, <1>9, <1>10

\* The multiplier tells a fifth digit.
LEMMA FourDigits ==
    ASSUME NEW fr, NEW at, Scaled(fr, at), NEW fr2, fr2.multiplier = fr.multiplier * Base
    PROVE  /\ TooLong(fr2.multiplier) <=> at = 4
           /\ ~TooLong(fr2.multiplier) => Scaled(fr2, at + 1)
<1>1. CASE at = 1 /\ fr.multiplier = 1
    <2>1. fr2.multiplier = Base
        BY <1>1, Powers
    <2>2. ~(Base > Base * Base * Base)
        BY Powers, BaseAssumption
    <2>3. at + 1 = 2 /\ at # 4
        BY <1>1
    <2> QED
        BY <2>1, <2>2, <2>3, Zenon DEF TooLong, Scaled
<1>2. CASE at = 2 /\ fr.multiplier = Base
    <2>1. fr2.multiplier = Base * Base
        BY <1>2
    <2>2. ~(Base * Base > Base * Base * Base)
        BY Powers, BaseAssumption
    <2>3. at + 1 = 3 /\ at # 4
        BY <1>2
    <2> QED
        BY <2>1, <2>2, <2>3, Zenon DEF TooLong, Scaled
<1>3. CASE at = 3 /\ fr.multiplier = Base * Base
    <2>1. fr2.multiplier = Base * Base * Base
        BY <1>3
    <2>2. ~(Base * Base * Base > Base * Base * Base)
        BY Powers
    <2>3. at + 1 = 4 /\ at # 4
        BY <1>3
    <2> QED
        BY <2>1, <2>2, <2>3, Zenon DEF TooLong, Scaled
<1>4. CASE at = 4 /\ fr.multiplier = Base * Base * Base
    <2>1. TooLong(fr2.multiplier)
        BY <1>4, Powers, Zenon DEF TooLong
    <2> QED
        BY <1>4, <2>1
<1> QED
    BY <1>1, <1>2, <1>3, <1>4, Zenon DEF Scaled

LEMMA ReadHeaderKeeps == ASSUME FramingInv, ReadHeader PROVE FramingInv'
<1> USE DEF FramingInv
<1>1. /\ reading = "header" /\ stream # <<>>
      /\ frame' = [NoFrame EXCEPT !.type = Head(stream) \div 16,
                                  !.flags = Head(stream) % 16]
      /\ stream' = Tail(stream)
      /\ reading' = "length"
      /\ UNCHANGED <<script, sent, broken, level, aliases, handled, answers>>
    BY DEF ReadHeader, client
<1>2. stream \in Seq(Nat)
    BY DEF StreamTypes
<1>3. /\ Head(stream) = stream[1] /\ Len(stream) \in Nat /\ Len(stream) >= 1
      /\ Tail(stream) = SubSeq(stream, 1 + 1, Len(stream)) /\ Tail(stream) \in Seq(Nat)
    BY <1>1, <1>2, FirstByte
<1>4. reading # "closed"
    BY <1>1
<1>5. PICK total, off : \E at \in Nat :
              /\ At(total, off, at)
              /\ total \in Seq(Nat)
              /\ off[Len(handled)] \in Nat
              /\ at = 0 /\ stream # <<>> => Len(handled) < Len(sent)
              /\ Len(handled) < Len(sent) =>
                    Follows(stream, Written(script, Len(handled) + 1), at)
    BY <1>4, Ahead, Zenon
<1> DEFINE bytes == Written(script, Len(handled) + 1)
<1>6. /\ At(total, off, 0) /\ total \in Seq(Nat) /\ off[Len(handled)] \in Nat
      /\ Len(handled) < Len(sent) /\ Follows(stream, bytes, 0)
    BY <1>1, <1>5 DEF At, InPacket
<1>7. PICK size \in Nat : Framed(bytes, size)
    <2>1. Len(handled) \in Nat /\ Len(sent) \in Nat
        BY Numbers
    <2>2. Len(script) \in Nat /\ script \in Scripts
        BY ScriptAssumption DEF StreamTypes
    <2>3. Len(handled) < Len(script)
        BY <1>6, <2>1, <2>2 DEF Counts
    <2> QED
        BY <2>1, <2>2, <2>3, ScriptFrames
<1>8. /\ bytes \in Seq(Nat) /\ bytes # <<>>
      /\ bytes[1] \div 16 \in 0..15 /\ bytes[1] % 16 \in 0..15
    BY <1>7, Parts
<1> HIDE DEF bytes
<1>9. stream[1] = bytes[1]
    <2>1. 1 \in 1..Len(stream) /\ 0 + 1 = 1 /\ 1 <= Len(bytes)
        BY <1>3, <1>8
    <2> QED
        BY <2>1, <1>6 DEF Follows
<1>10. frame' = [type |-> bytes[1] \div 16, flags |-> bytes[1] % 16,
                 remaining |-> 0, multiplier |-> 1]
    BY <1>1, <1>3, <1>9 DEF NoFrame
<1>11. StreamTypes'
    <2>1. frame' \in [type: 0..15, flags: 0..15, remaining: Nat, multiplier: Nat]
        BY <1>8, <1>10
    <2> QED
        BY <1>1, <1>3, <2>1 DEF StreamTypes
<1>12. Counts'
    BY <1>1, <1>4, Zenon DEF Counts
<1>13. InStep'
    <2>1. /\ Laid(script', total, off, Len(sent'))
          /\ UnderWay(stream', broken', total, off[Len(handled)] + (0 + 1))
        <3>1. 1 \in 0..Len(stream) /\ 0 \in Nat
            BY <1>3
        <3>2. UNCHANGED <<script, sent, broken>>
              /\ stream' = SubSeq(stream, 1 + 1, Len(stream))
            BY <1>1, <1>3
        <3> QED
            BY <1>6, <3>1, <3>2, Advanced
    <2>2. InLength(frame', bytes, 1)
        BY <1>7, <1>10, LengthAhead
    <2>3. Titled(frame', bytes) /\ Scaled(frame', 1)
        BY <1>10 DEF Titled, Scaled
    <2>4. Written(script, Len(handled) + 1)' = bytes
        BY <1>1 DEF bytes, Written
    <2>5. InPacket(Written(script, Len(handled) + 1), 1)'
        BY <1>1, <1>6, <2>2, <2>3, <2>4 DEF InPacket
    <2>6. UnderWay(stream', broken', total, off[Len(handled')] + 1)
        BY <1>1, <2>1
    <2> QED
        BY <2>1, <2>5, <2>6 DEF InStep
<1>20. Judged'
    BY <1>1, Zenon DEF Judged
<1> QED
    BY <1>20, <1>11, <1>12, <1>13

\* The packet is too large, or its length has too many digits.
Oversized(bytes) ==
    \E size \in Nat : /\ Framed(bytes, size)
                      /\ size > MaxPacket \/ Len(EncodeVarint[size]) > 4

\* A fifth digit is one too many.
LEMMA FifthDigit ==
    ASSUME NEW fr, NEW bytes, InLength(fr, bytes, 4), NEW d, d = bytes[4 + 1], d >= Base
    PROVE  Oversized(bytes)
<1>1. PICK size \in Nat, m \in Nat :
        /\ Framed(bytes, size)
        /\ Len(bytes) = 4 + Len(EncodeVarint[m]) + size
        /\ \A i \in 1..Len(EncodeVarint[m]) : bytes[4 + i] = EncodeVarint[m][i]
    BY Zenon DEF InLength
<1>2. CASE m < Base
    <2>1. EncodeVarint[m] = <<m>>
        BY <1>2, Encoding DEF Digits
    <2>2. Len(EncodeVarint[m]) = 1 /\ EncodeVarint[m][1] = m
        BY <2>1
    <2>3. d = m
        BY <1>1, <2>2
    <2> QED
        BY <1>2, <2>3, BaseAssumption
<1>3. CASE ~(m < Base)
    <2>1. Len(EncodeVarint[m]) \in Nat /\ Len(EncodeVarint[m]) >= 2
        <3>1. PICK q \in Nat : Len(EncodeVarint[m]) = 1 + Len(EncodeVarint[q])
            BY <1>3, LengthOfDigits, BaseAssumption
        <3>2. Len(EncodeVarint[q]) \in Nat /\ Len(EncodeVarint[q]) >= 1
            BY LengthOfDigits
        <3> QED
            BY <3>1, <3>2
    <2>6. Len(bytes) = 1 + Len(EncodeVarint[size]) + size
          /\ Len(EncodeVarint[size]) \in Nat
        BY <1>1, Parts
    <2>7. Len(EncodeVarint[size]) > 4
        BY <1>1, <2>1, <2>6
    <2> QED
        BY <1>1, <2>7, Zenon DEF Oversized
<1> QED
    BY <1>2, <1>3

\* A length is refused only when the packet is too large.
LEMMA ReadLengthKeeps ==
    ASSUME FramingInv, ReadLength
    PROVE  /\ FramingInv'
           /\ Len(handled) < Len(sent)
           /\ reading' = "closed" => Oversized(Written(script, Len(handled) + 1))
<1> USE DEF FramingInv
<1> DEFINE b == Head(stream)
           remaining == frame.remaining + (b % Base) * frame.multiplier
           multiplier == frame.multiplier * Base
<1>1. /\ reading = "length" /\ stream # <<>>
      /\ frame' = [frame EXCEPT !.remaining = remaining, !.multiplier = multiplier]
      /\ stream' = Tail(stream)
      /\ reading' \in {"length", "payload", "closed"}
      /\ reading' = "length" => b >= Base /\ ~TooLong(multiplier)
      /\ reading' = "closed" => (b >= Base /\ TooLong(multiplier))
                                  \/ (b < Base /\ remaining > MaxPacket)
      /\ reading' = "payload" => ~(b >= Base) /\ ~(remaining > MaxPacket)
      /\ UNCHANGED <<script, sent, broken, level, aliases, handled, answers>>
    <2>1. b \in Nat /\ Base \in Nat
        <3>1. stream \in Seq(Nat) /\ stream # <<>>
            BY DEF StreamTypes, ReadLength
        <3> QED
            BY <3>1, BaseAssumption
    <2>2. /\ reading = "length" /\ stream # <<>>
          /\ frame' = [frame EXCEPT !.remaining = remaining, !.multiplier = multiplier]
          /\ stream' = Tail(stream)
          /\ UNCHANGED <<script, sent, broken, level, aliases, handled, answers>>
          /\ reading' = CASE b >= Base /\ TooLong(multiplier) -> "closed"
                          [] b >= Base /\ ~TooLong(multiplier) -> "length"
                          [] b < Base /\ TooLarge(remaining) -> "closed"
                          [] OTHER -> "payload"
        BY Zenon DEF ReadLength, client
    <2> HIDE DEF b, remaining, multiplier
    <2>3. CASE b >= Base
        <3>1. ~(b < Base)
            BY <2>1, <2>3
        <3>2. \/ reading' = "closed" /\ TooLong(multiplier)
              \/ reading' = "length" /\ ~TooLong(multiplier)
            BY <2>2, <2>3, <3>1
        <3>3. /\ reading' \in {"closed", "length"} /\ reading' # "payload"
              /\ reading' = "length" => ~TooLong(multiplier)
              /\ reading' = "closed" => TooLong(multiplier)
            BY <3>2
        <3>4. reading' = "closed" =>
                \/ b >= Base /\ TooLong(multiplier)
                \/ b < Base /\ remaining > MaxPacket
            BY <2>3, <3>3, Zenon
        <3>5. /\ reading' = "length" => b >= Base /\ ~TooLong(multiplier)
              /\ reading' = "payload" => ~(b >= Base) /\ ~(remaining > MaxPacket)
            BY <2>3, <3>3, Zenon
        <3> QED
            BY <2>2, <3>3, <3>4, <3>5, Zenon
    <2>4. CASE ~(b >= Base)
        <3>1. b < Base
            BY <2>1, <2>4
        <3>2. \/ reading' = "closed" /\ remaining > MaxPacket
              \/ reading' = "payload" /\ ~(remaining > MaxPacket)
            BY <2>2, <2>4, <3>1 DEF TooLarge
        <3>3. /\ reading' \in {"closed", "payload"}
              /\ reading' # "length"
              /\ reading' = "payload" => ~(remaining > MaxPacket)
              /\ reading' = "closed" => remaining > MaxPacket
            BY <3>2
        <3> QED
            BY <2>2, <2>4, <3>1, <3>3, Zenon
    <2> QED
        BY <2>3, <2>4
<1>2. stream \in Seq(Nat)
      /\ frame \in [type: 0..15, flags: 0..15, remaining: Nat, multiplier: Nat]
    BY DEF StreamTypes
<1>3. /\ Head(stream) = stream[1] /\ Len(stream) \in Nat /\ Len(stream) >= 1
      /\ Tail(stream) = SubSeq(stream, 1 + 1, Len(stream)) /\ Tail(stream) \in Seq(Nat)
    BY <1>1, <1>2, FirstByte
<1>4. reading # "closed"
    BY <1>1
<1> DEFINE bytes == Written(script, Len(handled) + 1)
<1>5. PICK total, off : \E at \in Nat :
              /\ At(total, off, at)
              /\ total \in Seq(Nat)
              /\ off[Len(handled)] \in Nat
              /\ Len(handled) < Len(sent) => Follows(stream, bytes, at)
    BY <1>4, Ahead, Zenon
<1>6. PICK at \in Nat :
              /\ At(total, off, at)
              /\ total \in Seq(Nat)
              /\ off[Len(handled)] \in Nat
              /\ Len(handled) < Len(sent) => Follows(stream, bytes, at)
    BY <1>5
<1>7. /\ Len(handled) < Len(sent) /\ Titled(frame, bytes)
      /\ InLength(frame, bytes, at) /\ Follows(stream, bytes, at)
      /\ Scaled(frame, at)
    BY <1>1, <1>6 DEF At, InPacket
<1> HIDE DEF bytes, remaining, multiplier
<1>8. /\ frame'.remaining = remaining /\ frame'.multiplier = multiplier
      /\ frame'.type = frame.type /\ frame'.flags = frame.flags
    BY <1>1, <1>2
<1>9. PICK d : d = bytes[at + 1]
    OBVIOUS
<1>10. at + 1 <= Len(bytes)
    <2>1. PICK f2 : f2 = [remaining |-> frame.remaining + (d % Base) * frame.multiplier,
                          multiplier |-> frame.multiplier * Base]
        OBVIOUS
    <2>2. /\ f2.remaining = frame.remaining + (d % Base) * frame.multiplier
          /\ f2.multiplier = frame.multiplier * Base
        BY <2>1
    <2>3. frame.remaining \in Nat /\ frame.multiplier \in Nat
        BY <1>2
    <2> QED
        BY <1>7, <1>9, <2>2, <2>3, DigitAhead, Zenon
<1>11. b = d
    <2>1. 1 \in 1..Len(stream)
        BY <1>3
    <2> QED
        BY <1>3, <1>7, <1>9, <1>10, <2>1 DEF Follows
<1>12. /\ d \in Nat /\ remaining \in Nat /\ multiplier \in Nat
       /\ d >= Base => InLength(frame', bytes, at + 1)
       /\ d < Base => InPayload(frame', bytes, at + 1)
    BY <1>2, <1>7, <1>8, <1>9, <1>11, DigitAhead DEF remaining, multiplier
<1>16. /\ TooLong(multiplier) <=> at = 4
       /\ ~TooLong(multiplier) => Scaled(frame', at + 1)
    <2>1. frame'.multiplier = frame.multiplier * Base /\ frame'.multiplier = multiplier
        BY <1>8 DEF multiplier
    <2> QED
        BY <1>7, <2>1, FourDigits
<1>13. StreamTypes'
    <2>1. frame' \in [type: 0..15, flags: 0..15, remaining: Nat, multiplier: Nat]
        BY <1>1, <1>2, <1>12
    <2>2. reading' = "payload" => frame'.remaining <= MaxPacket
        BY <1>1, <1>8, <1>12, StreamAssumption
    <2> QED
        BY <1>1, <1>3, <2>1, <2>2 DEF StreamTypes
<1>14. Counts'
    BY <1>1, <1>4, Zenon DEF Counts
<1>15. InStep'
    <2>1. /\ Laid(script', total, off, Len(sent'))
          /\ UnderWay(stream', broken', total, off[Len(handled)] + (at + 1))
        <3>1. 1 \in 0..Len(stream)
            BY <1>3
        <3>2. UNCHANGED <<script, sent, broken>>
              /\ stream' = SubSeq(stream, 1 + 1, Len(stream))
            BY <1>1, <1>3
        <3> QED
            BY <1>6, <3>1, <3>2, Advanced
    <2>2. Titled(frame', bytes)
        BY <1>7, <1>8 DEF Titled
    <2>3. Written(script, Len(handled) + 1)' = bytes
        BY <1>1 DEF bytes, Written
    <2>4. /\ reading' = "length" => InLength(frame', bytes, at + 1) /\ Scaled(frame', at + 1)
          /\ reading' = "payload" => InPayload(frame', bytes, at + 1) /\ at + 1 <= 5
        <3>1. at + 1 <= 5
            BY <1>7 DEF Scaled
        <3> QED
            BY <3>1, <1>1, <1>11, <1>12, <1>16, BaseAssumption
    <2>5. InPacket(Written(script, Len(handled) + 1), at + 1)'
        BY <1>1, <1>7, <2>2, <2>3, <2>4 DEF InPacket
    <2>6. UnderWay(stream', broken', total, off[Len(handled')] + (at + 1))
        BY <1>1, <2>1
    <2>7. at + 1 \in Nat
        OBVIOUS
    <2> QED
        BY <2>1, <2>5, <2>6, <2>7 DEF InStep
<1>17. ASSUME reading' = "closed" PROVE Oversized(bytes)
    <2>1. CASE d >= Base /\ TooLong(multiplier)
        <3>1. at = 4
            BY <2>1, <1>16
        <3> QED
            BY <2>1, <3>1, <1>7, <1>9, FifthDigit
    <2>2. CASE d < Base /\ remaining > MaxPacket
        <3>1. Framed(bytes, remaining)
            BY <2>2, <1>8, <1>12 DEF InPayload
        <3> QED
            BY <2>2, <3>1, <1>12, Zenon DEF Oversized
    <2> QED
        BY <2>1, <2>2, <1>1, <1>11, <1>17, Zenon
<1>20. Judged'
    BY <1>1, Zenon DEF Judged
<1> QED
    BY <1>20, <1>7, <1>13, <1>14, <1>15, <1>17 DEF bytes

LEMMA ReadPayloadKeeps == ASSUME FramingInv, ReadPayload PROVE FramingInv'
<1> USE DEF FramingInv
<1>1. /\ reading = "payload" /\ Len(stream) >= frame.remaining
      /\ stream' = SubSeq(stream, frame.remaining + 1, Len(stream))
      /\ UNCHANGED <<script, sent, broken, frame>>
    BY DEF ReadPayload, client, Needed
<1>2. PICK r : IF level = 0 THEN HandleConnect(r) ELSE Dispatch(r)
    BY Zenon DEF ReadPayload
<1>3. /\ stream \in Seq(Nat) /\ Len(stream) \in Nat
      /\ frame \in [type: 0..15, flags: 0..15, remaining: Nat, multiplier: Nat]
    <2>1. stream \in Seq(Nat)
        BY DEF StreamTypes
    <2> QED
        BY <2>1 DEF StreamTypes
<1>4. IsSeq(handled) /\ IsSeq(answers) /\ Topics /\ level \in {0, 3, 4, 5}
    BY Zenon DEF StreamTypes, Counts, Topics
<1>5. /\ Passes \/ Drops
      /\ Topics' /\ level' \in {0, 3, 4, 5}
    BY <1>2, <1>4, ConnectEffect, DispatchEffect, Zenon
<1>6. frame.remaining \in 0..Len(stream) /\ frame.remaining \in Nat
    BY <1>1, <1>3
<1>7. stream' \in Seq(Nat)
    <2>1. frame.remaining <= Len(stream)
        BY <1>3, <1>6
    <2> QED
        BY <1>1, <1>3, <1>6, <2>1, LastPart
<1>8. reading' \in {"header", "closed"}
    BY <1>5 DEF Passes, Drops
<1>9. StreamTypes'
    BY <1>1, <1>3, <1>5, <1>7, <1>8 DEF StreamTypes, Topics
<1>10. reading # "closed"
    BY <1>1
<1> DEFINE bytes == Written(script, Len(handled) + 1)
<1>11. PICK total, off : \E at \in Nat :
              /\ At(total, off, at)
              /\ total \in Seq(Nat)
              /\ off[Len(handled)] \in Nat
    BY <1>10, Ahead, Zenon
<1>12. PICK at \in Nat :
              /\ At(total, off, at)
              /\ total \in Seq(Nat)
              /\ off[Len(handled)] \in Nat
    BY <1>11
<1>13. Len(handled) < Len(sent) /\ InPayload(frame, bytes, at)
    BY <1>1, <1>12 DEF At, InPacket
<1>14. Len(sent) \in Nat /\ Len(handled) \in Nat /\ Len(answers) \in Nat
    BY Numbers
<1>15. Counts'
    <2>1. /\ IsSeq(sent) /\ Len(sent) <= Len(script) /\ Len(handled) < Len(sent)
          /\ Len(answers) <= Len(handled)
        BY <1>10, <1>13 DEF Counts
    <2>2. CASE Passes
        <3>1. /\ IsSeq(handled') /\ IsSeq(answers') /\ Len(handled') = Len(handled) + 1
              /\ Len(answers') \in {Len(answers), Len(answers) + 1}
            BY <2>2 DEF Passes
        <3>2. Len(answers') <= Len(handled') /\ Len(answers') <= Len(handled') + 1
              /\ Len(handled') <= Len(sent)
            BY <1>14, <2>1, <3>1
        <3> QED
            BY <1>1, <2>1, <3>1, <3>2, Zenon DEF Counts
    <2>3. CASE Drops
        <3>1. /\ handled' = handled /\ reading' = "closed" /\ IsSeq(answers')
              /\ Len(answers') \in {Len(answers), Len(answers) + 1}
            BY <2>3 DEF Drops
        <3>2. Len(answers') <= Len(handled) + 1 /\ Len(handled) <= Len(sent)
            BY <1>14, <2>1, <3>1
        <3> QED
            BY <1>1, <1>4, <2>1, <3>1, <3>2, Zenon DEF Counts
    <2> QED
        BY <1>5, <2>2, <2>3
<1>16. InStep'
    <2> SUFFICES ASSUME reading' # "closed"
                 PROVE  \E t, o : \E a \in Nat : At(t, o, a)'
        BY Zenon DEF InStep, At
    <2>1. Len(handled') = Len(handled) + 1 /\ reading' = "header"
        BY <1>5, <1>8 DEF Passes, Drops
    <2>2. /\ Laid(script', total, off, Len(sent'))
          /\ UnderWay(stream', broken', total, off[Len(handled)] + (at + frame.remaining))
        BY <1>1, <1>6, <1>12, Advanced
    <2>3. at + frame.remaining = Len(bytes)
        BY <1>13 DEF InPayload
    <2>4. off[Len(handled) + 1] = off[Len(handled)] + Len(bytes)
          /\ off[Len(handled) + 1] \in Nat
        <3>1. PICK n \in Nat : n = Len(sent)
            BY <1>14
        <3>2. PICK k \in 1..n : k = Len(handled) + 1 /\ k - 1 = Len(handled)
            BY <1>13, <1>14, <3>1
        <3>3. Laid(script, total, off, n)
            BY <1>12, <3>1 DEF At
        <3>4. off[k] = off[k - 1] + Len(Written(script, k))
            BY <3>3, Zenon DEF Laid
        <3>5. off[k] \in Nat
            BY <3>3, LaidTypes
        <3> QED
            BY <3>2, <3>4, <3>5
    <2> HIDE DEF bytes
    <2>5. UnderWay(stream', broken', total, off[Len(handled')] + 0)
        <3>1. off[Len(handled')] + 0 = off[Len(handled)] + (at + frame.remaining)
            BY <2>1, <2>3, <2>4
        <3> QED
            BY <2>2, <3>1
    <2>6. InPacket(Written(script, Len(handled) + 1), 0)'
        BY <2>1 DEF InPacket
    <2> QED
        BY <2>2, <2>5, <2>6, Zenon DEF At
<1>20. Judged'
    BY <1>1, Zenon DEF Judged
<1> QED
    BY <1>20, <1>9, <1>15, <1>16

(***************************************************************************)
(* Whole packets: when _read_packet has its payload and run hands it on,   *)
(* type, flags and payload are those of the next packet the client wrote,  *)
(* byte by byte.  No packet is skipped, cut, merged with its neighbour or  *)
(* read twice, wherever the bytes were divided on their way.               *)
(***************************************************************************)
WholePackets ==
    reading = "payload" /\ Len(stream) >= frame.remaining =>
        /\ Len(handled) < Len(sent)
        /\ BuildPacket(frame.type, frame.flags, SubSeq(stream, 1, frame.remaining))
               = PacketBytes(script[Len(handled) + 1], ClientLevel(script))

LEMMA HandedOnWhole == ASSUME FramingInv PROVE WholePackets
<1> USE DEF FramingInv
<1> SUFFICES ASSUME reading = "payload", Len(stream) >= frame.remaining
             PROVE  /\ Len(handled) < Len(sent)
                    /\ BuildPacket(frame.type, frame.flags, SubSeq(stream, 1, frame.remaining))
                           = Written(script, Len(handled) + 1)
    BY Zenon DEF WholePackets, Written
<1> DEFINE bytes == Written(script, Len(handled) + 1)
<1>1. PICK total, off : \E at \in Nat :
              /\ At(total, off, at)
              /\ Len(handled) < Len(sent) => Follows(stream, bytes, at)
    BY Ahead
<1>2. PICK at \in Nat :
              /\ At(total, off, at)
              /\ Len(handled) < Len(sent) => Follows(stream, bytes, at)
    BY <1>1
<1>3. /\ Len(handled) < Len(sent) /\ InPayload(frame, bytes, at)
      /\ Titled(frame, bytes) /\ Follows(stream, bytes, at)
    BY <1>2 DEF At, InPacket
<1>4. stream \in Seq(Nat) /\ frame.remaining \in Nat
    BY DEF StreamTypes
<1> HIDE DEF bytes
<1>5. BuildPacket(frame.type, frame.flags, SubSeq(stream, 1, frame.remaining)) = bytes
    BY <1>3, <1>4, BodyIsWhole
<1> QED
    BY <1>3, <1>5 DEF bytes

LEMMA StepKeeps == ASSUME FramingInv, [Next]_vars PROVE FramingInv'
<1>1. CASE UNCHANGED vars
    BY <1>1, Zenon
        DEF FramingInv, StreamTypes, Counts, Judged, InStep, InPacket, Written,
            vars, client, broker
<1>2. CASE Write
    BY <1>2, WriteKeeps
<1>3. CASE \E n \in 0..Len(stream) : Break(n)
    BY <1>3, BreakKeeps
<1>4. CASE ReadHeader
    BY <1>4, ReadHeaderKeeps
<1>5. CASE ReadLength
    BY <1>5, ReadLengthKeeps
<1>6. CASE ReadPayload
    BY <1>6, ReadPayloadKeeps
<1>7. CASE GiveUp
    BY <1>7, GiveUpKeeps
<1> QED
    BY <1>1, <1>2, <1>3, <1>4, <1>5, <1>6, <1>7, Zenon DEF Next, Read

-----------------------------------------------------------------------------
\* The framing invariant holds in every behaviour.
THEOREM FramingInvariance == Spec => []FramingInv
BY InitKeeps, StepKeeps, PTL DEF Spec

\* Types; no payload above max_packet_size is ever waited for, no packet is
\* handled that was not written, and no request is answered twice.
THEOREM StreamTypesHold == Spec => []StreamTypeOK
<1>1. FramingInv => StreamTypeOK
    BY Zenon DEF FramingInv, StreamTypes, Counts, StreamTypeOK
<1> QED
    BY <1>1, FramingInvariance, PTL

\* The parsers get the packets of the client, whole and one by one.
THEOREM PacketsAreWhole == Spec => []WholePackets
BY FramingInvariance, HandedOnWhole, PTL

-----------------------------------------------------------------------------
(***************************************************************************)
(* The reader as a part of PacketChannel.                                  *)
(***************************************************************************)
\* A packet refused for its size is not acceptable.
LEMMA OversizedIsUnacceptable ==
    ASSUME NEW s, NEW k, Oversized(Written(s, k))
    PROVE  ~Accepted(s, k)
<1> SUFFICES ASSUME Accepted(s, k) PROVE FALSE
    OBVIOUS
<1>1. PICK bytes : bytes = Written(s, k)
    OBVIOUS
<1>2. PICK size \in Nat : /\ Framed(bytes, size)
                          /\ size > MaxPacket \/ Len(EncodeVarint[size]) > 4
    BY <1>1, Zenon DEF Oversized
<1>3. Len(bytes) = 1 + Len(EncodeVarint[size]) + size /\ Len(EncodeVarint[size]) \in Nat
    BY <1>2, Parts
<1>4. PICK n \in 1..4 : /\ (Len(bytes) - 1) - n \in 0..MaxPacket
                        /\ Len(EncodeVarint[(Len(bytes) - 1) - n]) = n
    BY <1>1, Zenon DEF Accepted, Written
<1>5. PICK m : m = (Len(bytes) - 1) - n
    OBVIOUS
<1>6. m \in Nat /\ m <= MaxPacket /\ Len(EncodeVarint[m]) = n
    BY <1>4, <1>5, StreamAssumption
<1>7. Len(EncodeVarint[m]) + m = Len(EncodeVarint[size]) + size
    BY <1>3, <1>5, <1>6
<1>8. m = size
    BY <1>6, <1>7, OneSize
<1> QED
    BY <1>2, <1>4, <1>6, <1>8, StreamAssumption

\* Before the connection breaks all of the packet is there.
LEMMA RestIsThere ==
    ASSUME FramingInv, reading # "closed", ~broken, Len(handled) < Len(sent)
    PROVE  Len(stream) >= Needed
<1> USE DEF FramingInv
<1> DEFINE bytes == Written(script, Len(handled) + 1)
<1>1. PICK total, off : \E at \in Nat : At(total, off, at)
    BY Ahead
<1>2. PICK at \in Nat : At(total, off, at)
    BY <1>1
<1>3. PICK n \in Nat : n = Len(sent)
    BY Numbers
<1>4. PICK k \in 1..n : k = Len(handled) + 1 /\ k - 1 = Len(handled)
    BY <1>3, Numbers
<1>5. Laid(script, total, off, n) /\ UnderWay(stream, FALSE, total, off[k - 1] + at)
    BY <1>2, <1>3, <1>4 DEF At, StreamTypes
<1>6. /\ off[k] = off[k - 1] + Len(bytes) /\ off[k] <= off[n]
    <2>1. off[k] = off[k - 1] + Len(Written(script, k))
        BY <1>5, Zenon DEF Laid
    <2>2. k \in 0..n
        BY <1>4
    <2>3. off[k] <= off[n]
        BY <1>5, <2>2, Zenon DEF Laid
    <2> QED
        BY <1>4, <2>1, <2>3, Zenon
<1>7. /\ off[k] \in Nat /\ off[k - 1] \in Nat /\ off[n] \in Nat /\ Len(total) = off[n]
    BY <1>5, LaidTypes
<1>8. stream \in Seq(Nat) /\ Len(stream) \in Nat
    BY <1>5, UnderWayTypes
<1>9. off[k - 1] + at + Len(stream) = Len(total)
    BY <1>5 DEF UnderWay
<1>10. Len(bytes) = off[k] - off[k - 1]
    <2> HIDE DEF bytes
    <2>1. PICK size \in Nat : Framed(bytes, size)
        <3>1. Len(handled) \in Nat /\ Len(handled) < Len(script)
            <4>1. Len(script) \in Nat
                BY ScriptAssumption DEF StreamTypes
            <4> QED
                BY <4>1, Numbers DEF Counts
        <3> QED
            BY <3>1, ScriptFrames DEF StreamTypes, bytes
    <2>2. bytes \in Seq(Nat) /\ Len(bytes) \in Nat
        BY <2>1, Parts
    <2> QED
        BY <1>6, <1>7, <2>2
<1> HIDE DEF bytes
<1>11. at + Len(stream) >= Len(bytes)
    BY <1>6, <1>7, <1>8, <1>9, <1>10
<1>12. PICK len : len = Len(bytes) /\ len \in Nat
    BY <1>6, <1>7, <1>10
<1>13. InPacket(bytes, at)
    BY <1>2 DEF At, bytes
<1>14. CASE reading = "header"
    <2>1. at = 0
        BY <1>13, <1>14 DEF InPacket
    <2>2. PICK size \in Nat : Framed(bytes, size)
        <3>1. Len(handled) \in Nat /\ Len(handled) < Len(script)
            <4>1. Len(script) \in Nat
                BY ScriptAssumption DEF StreamTypes
            <4> QED
                BY <4>1, Numbers DEF Counts
        <3> QED
            BY <3>1, ScriptFrames DEF StreamTypes, bytes
    <2>3. Len(bytes) >= 1
        BY <2>2, Parts
    <2> QED
        BY <1>8, <1>11, <1>12, <1>14, <2>1, <2>3 DEF Needed
<1>15. CASE reading = "length"
    <2>1. InLength(frame, bytes, at)
        BY <1>13, <1>15 DEF InPacket
    <2>2. PICK m \in Nat, size \in Nat : Len(bytes) = at + Len(EncodeVarint[m]) + size
        BY <2>1, Zenon DEF InLength
    <2>3. Len(EncodeVarint[m]) \in Nat /\ Len(EncodeVarint[m]) >= 1
        BY LengthOfDigits
    <2> QED
        BY <1>8, <1>11, <1>15, <2>2, <2>3 DEF Needed
<1>16. CASE reading = "payload"
    <2>1. at + frame.remaining = Len(bytes)
        BY <1>13, <1>16 DEF InPacket, InPayload
    <2>2. frame.remaining \in Nat
        BY DEF StreamTypes
    <2> QED
        BY <1>8, <1>11, <1>16, <2>1, <2>2 DEF Needed
<1> QED
    BY <1>14, <1>15, <1>16 DEF StreamTypes

\* What is not the handing on of a packet is a step of the channel.
LEMMA ChannelStep ==
    ASSUME FramingInv, [Next]_vars, ~ReadPayload
    PROVE  [Channel!Next]_(Channel!vars)
<1> USE DEF FramingInv
<1>1. CASE UNCHANGED vars
    BY <1>1, Zenon DEF vars, client, broker, Channel!vars
<1>2. CASE Write
    <2>1. /\ ~broken /\ UNCHANGED <<broken, reading, handled>>
          /\ \E x : sent' = Append(sent, x)
        BY <1>2, Zenon DEF Write, broker
    <2>2. PICK x : sent' = Append(sent, x)
        BY <2>1
    <2>3. Len(sent') = Len(sent) + 1 /\ SubSeq(sent', 1, Len(sent)) = sent
        BY <2>2, Appended, IsSeqAppend, Zenon DEF Counts
    <2>4. Channel!Send
        BY <2>1, <2>3, Zenon DEF Channel!Send
    <2> QED
        BY <2>4, Zenon DEF Channel!Next
<1>3. CASE \E n \in 0..Len(stream) : Break(n)
    <2>1. broken' = TRUE /\ UNCHANGED <<sent, reading, handled>>
        BY <1>3, Zenon DEF Break, broker
    <2>2. Channel!Break
        BY <2>1, Zenon DEF Channel!Break
    <2> QED
        BY <2>2, Zenon DEF Channel!Next
<1>4. CASE ReadHeader
    <2>1. reading = "header" /\ reading' = "length"
          /\ UNCHANGED <<sent, broken, handled>>
        BY <1>4 DEF ReadHeader, client
    <2>2. reading # "closed" /\ reading' # "closed"
        BY <2>1
    <2>3. (reading # "closed")' = (reading # "closed")
        BY <2>2
    <2> QED
        BY <2>1, <2>3, Zenon DEF Channel!vars
<1>5. CASE ReadLength
    <2>1. reading = "length" /\ UNCHANGED <<sent, broken, handled>>
        BY <1>5 DEF ReadLength, client
    <2>2. /\ Len(handled) < Len(sent)
          /\ reading' = "closed" => Oversized(Written(script, Len(handled) + 1))
        BY <1>5, ReadLengthKeeps
    <2>3. CASE reading' # "closed"
        <3>1. (reading # "closed")' = (reading # "closed")
            BY <2>1, <2>3
        <3> QED
            BY <2>1, <3>1, Zenon DEF Channel!vars
    <2>4. CASE reading' = "closed"
        <3>1. ~Accepted(script, Len(handled) + 1)
            BY <2>2, <2>4, OversizedIsUnacceptable
        <3>2. Len(handled) + 1 \in 1..Len(sent)
            BY <2>2, Numbers
        <3>3. ~Channel!Acceptable
            BY <3>1, <3>2 DEF Judged, Channel!Acceptable, Channel!NextPacket
        <3>4. (reading # "closed") /\ (reading # "closed")' = FALSE
            BY <2>1, <2>4
        <3>5. Channel!Close
            BY <2>1, <3>3, <3>4, Zenon DEF Channel!Close
        <3> QED
            BY <3>5, Zenon DEF Channel!Next
    <2> QED
        BY <2>3, <2>4
<1>6. CASE GiveUp
    <2>1. /\ reading # "closed" /\ Len(stream) < Needed /\ reading' = "closed"
          /\ UNCHANGED <<sent, broken, handled>>
        BY <1>6 DEF GiveUp, client
    <2>2. broken \/ ~Channel!Acceptable
        <3> SUFFICES ASSUME ~broken PROVE ~Channel!Acceptable
            OBVIOUS
        <3>1. ~(Len(stream) >= Needed)
            <4>1. Len(stream) \in Nat /\ Needed \in Nat
                BY DEF StreamTypes, Needed
            <4> QED
                BY <2>1, <4>1
        <3>2. ~(Len(handled) < Len(sent))
            BY <2>1, <3>1, RestIsThere
        <3>3. ~(Len(handled) + 1 <= Len(sent))
            BY <3>2, Numbers
        <3> QED
            BY <3>3 DEF Channel!Acceptable, Channel!NextPacket
    <2>3. (reading # "closed")' = FALSE
        BY <2>1
    <2>4. Channel!Close
        BY <2>1, <2>2, <2>3, Zenon DEF Channel!Close
    <2> QED
        BY <2>4, Zenon DEF Channel!Next
<1> QED
    BY <1>1, <1>2, <1>3, <1>4, <1>5, <1>6, Zenon DEF Next, Read

(***************************************************************************)
(* Up to the parsers and handlers the connection implements PacketChannel: *)
(* _read_packet closes it only when the client's end is gone, when nothing *)
(* is under way, or when the next packet is one it may refuse.  A timeout  *)
(* never cuts off a packet that has arrived.                               *)
(***************************************************************************)
ReaderImplementsChannel ==
    /\ Channel!Init
    /\ [][~ReadPayload => [Channel!Next]_(Channel!vars)]_vars

\* The reader does not give up on an acceptable packet.
THEOREM NothingIsGivenUpEarly == Spec => ReaderImplementsChannel
<1>1. Init => Channel!Init
    BY Zenon DEF Init, Channel!Init
<1>2. ASSUME FramingInv, [Next]_vars
      PROVE [~ReadPayload => [Channel!Next]_(Channel!vars)]_vars
    BY <1>2, ChannelStep
<1> QED
    BY <1>1, <1>2, FramingInvariance, PTL DEF Spec, ReaderImplementsChannel

(***************************************************************************)
(* The packet whose payload has arrived.                                   *)
(***************************************************************************)
\* _read_packet lets its length pass.
LengthFits(s, k) ==
    \E n \in 1..4 : /\ (Len(Written(s, k)) - 1) - n \in 0..MaxPacket
                    /\ Len(EncodeVarint[(Len(Written(s, k)) - 1) - n]) = n

\* data is the body of the k-th packet, the next one to be handled.
Arrived(k, data) ==
    /\ k \in Nat /\ k = Len(handled) + 1 /\ k \in 1..Len(sent) /\ k \in 1..Len(script)
    /\ IsPacket(script[k], ClientLevel(script))
    /\ Greets(script) /\ k > 1 /\ script[k].type = 1 => script[k].val = None
    /\ Carries(script[k], ClientLevel(script), data)
    /\ LengthFits(script, k)

LEMMA PacketCarried ==
    ASSUME FramingInv, reading = "payload", Len(stream) >= frame.remaining
    PROVE  \E k \in Nat : Arrived(k, SubSeq(stream, 1, frame.remaining))
<1>1. StreamTypes /\ Counts
    BY Zenon DEF FramingInv
<1>2. /\ Len(handled) < Len(sent)
      /\ BuildPacket(frame.type, frame.flags, SubSeq(stream, 1, frame.remaining))
             = Written(script, Len(handled) + 1)
    BY HandedOnWhole, Zenon DEF WholePackets, Written
<1>3. Len(sent) \in Nat /\ Len(handled) \in Nat /\ Len(script) \in Nat
      /\ Len(sent) <= Len(script)
    BY <1>1, Numbers, ScriptAssumption DEF Counts, StreamTypes
<1>4. PICK k \in Nat : k = Len(handled) + 1
    BY <1>3
<1>5. k \in 1..Len(sent) /\ k \in 1..Len(script)
    BY <1>2, <1>3, <1>4
<1>6. /\ IsPacket(script[k], ClientLevel(script))
      /\ Greets(script) /\ k > 1 /\ script[k].type = 1 => script[k].val = None
    <2>1. script \in Scripts
        BY <1>1 DEF StreamTypes
    <2>2. PacketType.CONNECT = 1
        BY DEF PacketType
    <2> QED
        BY <1>5, <2>1, <2>2, PacketAssumption, Zenon
<1>7. PICK data : data = SubSeq(stream, 1, frame.remaining)
    OBVIOUS
<1>8. PICK size \in Nat : size = frame.remaining /\ size <= MaxPacket
    BY <1>1 DEF StreamTypes
<1>9. data \in Seq(Nat) /\ Len(data) = size
    <2>1. PICK s \in Seq(Nat) : s = stream
        BY <1>1 DEF StreamTypes
    <2>2. size <= Len(s) /\ 0 + size <= Len(s)
        BY <1>8, <2>1
    <2>3. SubSeq(s, 0 + 1, 0 + size) \in Seq(Nat) /\ Len(SubSeq(s, 0 + 1, 0 + size)) = size
        BY <2>2, Piece
    <2>4. data = SubSeq(s, 0 + 1, 0 + size)
        BY <1>7, <1>8, <2>1
    <2> QED
        BY <2>3, <2>4, Zenon
<1>10. PICK bytes : bytes = Written(script, k)
    OBVIOUS
<1>11. /\ Framed(bytes, size) /\ Len(bytes) <= 5 + size
    <2>1. reading # "closed"
        OBVIOUS
    <2>2. PICK total, off : \E at \in Nat : At(total, off, at)
        BY <2>1, Ahead, Zenon
    <2>3. PICK at \in Nat : At(total, off, at)
        BY <2>2
    <2>4. InPacket(bytes, at)
        BY <1>4, <1>10, <2>3, Zenon DEF At
    <2>5. InPayload(frame, bytes, at) /\ at <= 5
        BY <2>4 DEF InPacket
    <2>6. Framed(bytes, size) /\ at + size = Len(bytes)
        BY <1>8, <2>5, Zenon DEF InPayload
    <2> QED
        BY <2>5, <2>6
<1>12. PICK n \in Nat : n = Len(EncodeVarint[size]) /\ Len(bytes) = 1 + n + size
    BY <1>11, Parts
<1>13. n \in 1..4
    <2>1. n >= 1
        BY <1>12, LengthOfDigits
    <2>2. Len(bytes) = 1 + n + size
        BY <1>12
    <2>3. Len(bytes) <= 5 + size
        BY <1>11
    <2>4. 1 + n + size <= 5 + size
        BY <2>2, <2>3, Zenon
    <2>5. n <= 4
        BY <2>4
    <2> QED
        BY <2>1, <2>5
<1>14. Small(data)
    <2>1. Len(EncodeVarint[Len(data)]) = n
        BY <1>9, <1>12, Zenon
    <2>2. n <= 4
        BY <1>13
    <2> QED
        BY <2>1, <2>2, Zenon DEF Small
<1>15. LengthFits(script, k)
    <2>1. (Len(bytes) - 1) - n = size
        BY <1>12
    <2>2. size \in 0..MaxPacket
        BY <1>8, StreamAssumption
    <2>3. (Len(bytes) - 1) - n \in 0..MaxPacket
          /\ Len(EncodeVarint[(Len(bytes) - 1) - n]) = n
        BY <1>12, <2>1, <2>2, Zenon
    <2> QED
        BY <1>10, <1>13, <2>3, Zenon DEF LengthFits
<1>16. Carries(script[k], ClientLevel(script), data)
    <2>1. frame.type \in 0..15 /\ frame.flags \in 0..15
        BY <1>1 DEF StreamTypes
    <2>2. BuildPacket(frame.type, frame.flags, data)
             = PacketBytes(script[k], ClientLevel(script))
        BY <1>2, <1>4, <1>7, Zenon DEF Written
    <2> QED
        BY <1>9, <1>14, <2>1, <2>2, Zenon DEF Carries
<1>17. Arrived(k, data)
    BY <1>4, <1>5, <1>6, <1>15, <1>16, Zenon DEF Arrived
<1> QED
    BY <1>4, <1>7, <1>17, Zenon

(***************************************************************************)
(* The table of topic aliases is what the client bound with the packets    *)
(* so far.                                                                 *)
(***************************************************************************)
\* The j-th packet gives its alias a topic.
Binds(s, j) ==
    /\ IsMessage(s[j]) /\ s[j].val.topic # <<>>
    /\ AliasOf(s[j].val) # None

\* The packets up to the k-th that bind the alias a.
Bindings(s, a, k) == {j \in 1..k : Binds(s, j) /\ AliasOf(s[j].val) = a}

\* Each alias in the table stands for the topic it got last.
Agrees(s, table, k) ==
    /\ DOMAIN table = {AliasOf(s[j].val) : j \in {i \in 1..k : Binds(s, i)}}
    /\ \A a \in DOMAIN table : table[a] = s[Max(Bindings(s, a, k))].val.topic

LEMMA AgreesAtFirst ==
    ASSUME NEW s
    PROVE  Agrees(s, <<>>, 0)
<1>1. {i \in 1..0 : Binds(s, i)} = {}
    OBVIOUS
<1>2. DOMAIN <<>> = {}
    OBVIOUS
<1> QED
    BY <1>1, <1>2, Zenon DEF Agrees

\* The greatest of a set that got a greater one.
LEMMA LatestIsMax ==
    ASSUME NEW k \in Nat, NEW S \in SUBSET (1..k)
    PROVE  Max(S \cup {k + 1}) = k + 1
<1> DEFINE U == S \cup {k + 1}
<1>1. k + 1 \in U /\ \A y \in U : k + 1 >= y
    OBVIOUS
<1>2. \A x \in U : (\A y \in U : x >= y) => x = k + 1
    <2> SUFFICES ASSUME NEW x \in U, \A y \in U : x >= y PROVE x = k + 1
        OBVIOUS
    <2>1. x >= k + 1 /\ k + 1 >= x /\ x \in Int
        BY <1>1
    <2> QED
        BY <2>1
<1>3. Max(U) = CHOOSE x \in U : \A y \in U : x >= y
    BY Zenon DEF Max
<1> HIDE DEF U
<1>4. Max(U) = k + 1
    BY <1>1, <1>2, <1>3
<1> QED
    BY <1>4 DEF U

LEMMA NoBinding ==
    ASSUME NEW s, NEW table, NEW k \in Nat, Agrees(s, table, k), ~Binds(s, k + 1)
    PROVE  Agrees(s, table, k + 1)
<1>1. PICK n : n = k + 1
    OBVIOUS
<1>2. 1..n = (1..k) \cup {n} /\ ~Binds(s, n)
    BY <1>1
<1>3. {i \in 1..n : Binds(s, i)} = {i \in 1..k : Binds(s, i)}
    BY <1>2, Zenon
<1>4. \A a : Bindings(s, a, n) = Bindings(s, a, k)
    BY <1>2, Zenon DEF Bindings
<1>5. Agrees(s, table, n)
    BY <1>3, <1>4, Zenon DEF Agrees
<1> QED
    BY <1>1, <1>5, Zenon

LEMMA NewBinding ==
    ASSUME NEW s, NEW table, NEW k \in Nat, Agrees(s, table, k), Binds(s, k + 1),
           NEW alias, alias = AliasOf(s[k + 1].val),
           NEW topic, topic = s[k + 1].val.topic
    PROVE  Agrees(s, [a \in DOMAIN table \cup {alias} |->
                         IF a = alias THEN topic ELSE table[a]], k + 1)
<1>1. PICK n : n = k + 1
    OBVIOUS
<1>2. 1..n = (1..k) \cup {n} /\ Binds(s, n) /\ alias = AliasOf(s[n].val)
      /\ topic = s[n].val.topic
    BY <1>1
<1>3. PICK next : next = [a \in DOMAIN table \cup {alias} |->
                             IF a = alias THEN topic ELSE table[a]]
    OBVIOUS
<1>4. DOMAIN next = DOMAIN table \cup {alias}
    BY <1>3
<1>5. DOMAIN next = {AliasOf(s[j].val) : j \in {i \in 1..n : Binds(s, i)}}
    <2>1. DOMAIN table = {AliasOf(s[j].val) : j \in {i \in 1..k : Binds(s, i)}}
        BY Zenon DEF Agrees
    <2>2. {i \in 1..n : Binds(s, i)} = {i \in 1..k : Binds(s, i)} \cup {n}
        BY <1>2, Zenon
    <2> QED
        BY <1>2, <1>4, <2>1, <2>2, Zenon
<1>6. ASSUME NEW a \in DOMAIN next
      PROVE  next[a] = s[Max(Bindings(s, a, n))].val.topic
    <2>1. CASE a = alias
        <3>1. next[a] = topic
            BY <1>3, <1>4, <2>1
        <3>2. Bindings(s, a, n) = Bindings(s, a, k) \cup {n}
            BY <1>2, <2>1, Zenon DEF Bindings
        <3>3. PICK S : S = Bindings(s, a, k)
            OBVIOUS
        <3>4. S \in SUBSET (1..k)
            BY <3>3, Zenon DEF Bindings
        <3>5. Max(S \cup {k + 1}) = k + 1
            BY <3>4, LatestIsMax
        <3>6. Max(Bindings(s, a, n)) = n
            BY <1>1, <3>2, <3>3, <3>5, Zenon
        <3> QED
            BY <1>2, <3>1, <3>6, Zenon
    <2>2. CASE a # alias
        <3>1. next[a] = table[a] /\ a \in DOMAIN table
            BY <1>3, <1>4, <2>2
        <3>2. Bindings(s, a, n) = Bindings(s, a, k)
            BY <1>2, <2>2, Zenon DEF Bindings
        <3>3. table[a] = s[Max(Bindings(s, a, k))].val.topic
            BY <3>1, Zenon DEF Agrees
        <3> QED
            BY <3>1, <3>2, <3>3, Zenon
    <2> QED
        BY <2>1, <2>2
<1>7. Agrees(s, next, n)
    BY <1>5, <1>6, Zenon DEF Agrees
<1> QED
    BY <1>1, <1>3, <1>7, Zenon

\* The topic that _handle_publish finds is the one the client means.
LEMMA TopicFound ==
    ASSUME NEW s, NEW table, NEW k \in Nat, Agrees(s, table, k)
    PROVE  TopicOf(s, k + 1) =
               IF s[k + 1].val.topic = <<>> /\ AliasOf(s[k + 1].val) \in DOMAIN table
               THEN table[AliasOf(s[k + 1].val)] ELSE s[k + 1].val.topic
<1>1. PICK n : n = k + 1
    OBVIOUS
<1>2. PICK pub, alias : n - 1 = k /\ pub = s[n].val /\ alias = AliasOf(pub)
    BY <1>1
<1>3. Binders(s, n) = Bindings(s, alias, k)
    <2>1. 1..(n - 1) = 1..k
        BY <1>2
    <2>2. Binders(s, n) = {j \in 1..(n - 1) :
                             /\ IsMessage(s[j]) /\ s[j].val.topic # <<>>
                             /\ AliasOf(s[j].val) # None
                             /\ AliasOf(s[j].val) = AliasOf(s[n].val)}
        BY Zenon DEF Binders
    <2> QED
        BY <1>2, <2>1, <2>2, Zenon DEF Bindings, Binds
<1>4. alias \in DOMAIN table <=> Bindings(s, alias, k) # {}
    BY Zenon DEF Agrees, Bindings
<1>5. alias \in DOMAIN table => table[alias] = s[Max(Bindings(s, alias, k))].val.topic
    BY Zenon DEF Agrees
<1>6. TopicOf(s, n) = IF pub.topic = <<>> /\ Bindings(s, alias, k) # {}
                      THEN s[Max(Bindings(s, alias, k))].val.topic ELSE pub.topic
    BY <1>2, <1>3, Zenon DEF TopicOf
<1>7. TopicOf(s, n) = IF pub.topic = <<>> /\ alias \in DOMAIN table
                      THEN table[alias] ELSE pub.topic
    BY <1>4, <1>5, <1>6, Zenon
<1> QED
    BY <1>1, <1>2, <1>7, Zenon

(***************************************************************************)
(* What becomes of a packet: it is handled as the client meant it, or the  *)
(* connection ends and it was not acceptable.                              *)
(***************************************************************************)
\* What was sent is read by the client as what it waits for.
Replies(out, want) ==
    \/ out = <<>> /\ want = <<>>
    \/ \E b : out = <<b>> /\ want = <<Heading(b)>>

\* A refusal, or nothing.
Refuses(out) ==
    \/ out = <<>>
    \/ \E b : out = <<b>> /\ Heading(b)[1] \in {2, 14}

Advances(k) ==
    /\ handled' = Append(handled, Meaning(script, k))
    /\ Accepted(script, k)
    /\ Greets(script) /\ Entitled(script[1].val)
    /\ level' \in {3, 4, 5} /\ level' = ClientLevel(script)
    /\ reading' # "closed" => script[k].type # 14 /\ Agrees(script, aliases', k)
    /\ reading' = "closed" => broken \/ MayEnd(script[k])
    /\ \/ \E out : answers' = answers \o out /\ Replies(out, AnswerTo(Meaning(script, k)))
       \/ answers' = answers /\ reading' = "closed" /\ Stumbles(script[k])

Stops(k) ==
    /\ UNCHANGED <<handled, level>>
    /\ reading' = "closed"
    /\ ~Accepted(script, k)
    /\ \E out : answers' = answers \o out /\ Refuses(out)

\* After the CONNECT, the first j packets handled, the next one has arrived.
Ready(j, data) ==
    /\ j \in Nat /\ j >= 1
    /\ level \in {3, 4, 5} /\ level = ClientLevel(script)
    /\ Greets(script) /\ Entitled(script[1].val)
    /\ \A i \in 1..j : script[i].type # 14
    /\ Agrees(script, aliases, j)
    /\ LengthFits(script, j + 1)
    /\ IsPacket(script[j + 1], level)
    /\ script[j + 1].type = 1 => script[j + 1].val = None
    /\ Carries(script[j + 1], level, data)

LEMMA AcceptedIf ==
    ASSUME NEW j, NEW data, Ready(j, data)
    PROVE  Accepted(script, j + 1) <=>
               (IsMessage(script[j + 1]) => ValidTopic(TopicOf(script, j + 1)))
<1>1. PICK k : k = j + 1 /\ k - 1 = j
    BY DEF Ready
<1>2. /\ LengthFits(script, k) /\ Greets(script) /\ Entitled(script[1].val)
      /\ \A i \in 1..(k - 1) : script[i].type # PacketType.DISCONNECT
    <2>1. PacketType.DISCONNECT = 14
        BY DEF PacketType
    <2> QED
        BY <1>1, <2>1, Zenon DEF Ready
<1>3. Accepted(script, k) <=>
          /\ LengthFits(script, k)
          /\ Greets(script) /\ Entitled(script[1].val)
          /\ \A i \in 1..(k - 1) : script[i].type # PacketType.DISCONNECT
          /\ IsMessage(script[k]) => ValidTopic(TopicOf(script, k))
    BY Zenon DEF Accepted, LengthFits, Written
<1> QED
    BY <1>1, <1>2, <1>3, Zenon

\* What Accept does when the packet is acceptable and the answer is right.
LEMMA AcceptAdvances ==
    ASSUME NEW j, NEW data, Ready(j, data), Accepted(script, j + 1),
           NEW val, NEW out, Accept(val, out), UNCHANGED level,
           [type |-> frame.type, val |-> val] = Meaning(script, j + 1),
           script[j + 1].type # 14, Agrees(script, aliases', j + 1),
           Replies(out, AnswerTo(Meaning(script, j + 1)))
    PROVE  Advances(j + 1)
<1>1. handled' = Append(handled, Meaning(script, j + 1)) /\ answers' = answers \o out
    BY Zenon DEF Accept, Handled
<1>2. level' \in {3, 4, 5} /\ level' = ClientLevel(script)
      /\ Greets(script) /\ Entitled(script[1].val)
    BY Zenon DEF Ready
<1>3. reading' = "closed" => broken
    BY DEF Accept
<1> QED
    BY <1>1, <1>2, <1>3, Zenon DEF Advances

\* A packet that is no message means what it says.
LEMMA PlainMeaning ==
    ASSUME NEW p, NEW k, p = script[k], ~IsMessage(p), NEW l, IsPacket(p, l)
    PROVE  Meaning(script, k) = [type |-> p.type, val |-> p.val]
<1>1. Meaning(script, k) = p
    BY Zenon DEF Meaning
<1>2. p = [type |-> p.type, val |-> p.val]
    BY Zenon DEF IsPacket
<1> QED
    BY <1>1, <1>2, Zenon

\* Of a packet that is no message and not DISCONNECT.
LEMMA PlainAdvances ==
    ASSUME NEW j, NEW data, Ready(j, data), NEW p, p = script[j + 1],
           ~IsMessage(p), p.type # 14, frame.type = p.type,
           NEW out, Accept(p.val, out), UNCHANGED <<level, aliases>>,
           Replies(out, AnswerTo([type |-> p.type, val |-> p.val]))
    PROVE  Advances(j + 1)
<1>1. IsPacket(p, level) /\ j \in Nat /\ Agrees(script, aliases, j)
    BY Zenon DEF Ready
<1>2. PICK k : k = j + 1
    OBVIOUS
<1>3. p = script[k]
    BY <1>2, Zenon
<1>4. Meaning(script, k) = [type |-> p.type, val |-> p.val]
    BY <1>1, <1>3, PlainMeaning, Zenon
<1>5. ~Binds(script, j + 1)
    BY Zenon DEF Binds
<1>6. Agrees(script, aliases, j + 1)
    BY <1>1, <1>5, NoBinding
<1>7. Agrees(script, aliases', j + 1)
    BY <1>6, Zenon
<1>8. Accepted(script, j + 1)
    BY AcceptedIf, Zenon
<1>9. [type |-> frame.type, val |-> p.val] = Meaning(script, j + 1)
    BY <1>2, <1>4, Zenon
<1>10. Replies(out, AnswerTo(Meaning(script, j + 1)))
    BY <1>2, <1>4, Zenon
<1> QED
    BY <1>7, <1>8, <1>9, <1>10, AcceptAdvances, Zenon

\* Nothing is sent where nothing is expected.
LEMMA NoReply == Replies(<<>>, <<>>)
BY Zenon DEF Replies

LEMMA OneReply ==
    ASSUME NEW b, NEW h, Heading(b) = h
    PROVE  Replies(<<b>>, <<h>>)
BY Zenon DEF Replies

\* Two conditional answers, of which one is sent at most.
LEMMA OneReplyOfTwo ==
    ASSUME NEW a \in BOOLEAN, NEW c \in BOOLEAN, ~(a /\ c),
           NEW x, NEW y, NEW g, NEW h,
           a => Heading(x) = g, c => Heading(y) = h
    PROVE  Replies(When(a, <<x>>) \o When(c, <<y>>), When(a, <<g>>) \o When(c, <<h>>))
<1>1. <<>> \o <<>> = <<>>
    OBVIOUS
<1>2. CASE a
    <2>1. When(a, <<x>>) \o When(c, <<y>>) = <<x>>
        BY <1>2, EmptyConcat, Zenon DEF When
    <2>2. When(a, <<g>>) \o When(c, <<h>>) = <<g>>
        BY <1>2, EmptyConcat, Zenon DEF When
    <2> QED
        BY <1>2, <2>1, <2>2, OneReply, Zenon
<1>3. CASE ~a /\ c
    <2>1. When(a, <<x>>) \o When(c, <<y>>) = <<y>>
        BY <1>3, EmptyConcat, Zenon DEF When
    <2>2. When(a, <<g>>) \o When(c, <<h>>) = <<h>>
        BY <1>3, EmptyConcat, Zenon DEF When
    <2> QED
        BY <1>3, <2>1, <2>2, OneReply, Zenon
<1>4. CASE ~a /\ ~c
    <2>1. When(a, <<x>>) \o When(c, <<y>>) = <<>>
        BY <1>1, <1>4, Zenon DEF When
    <2>2. When(a, <<g>>) \o When(c, <<h>>) = <<>>
        BY <1>1, <1>4, Zenon DEF When
    <2> QED
        BY <2>1, <2>2, NoReply, Zenon
<1> QED
    BY <1>2, <1>3, <1>4

LEMMA TypeNumbers ==
    /\ PacketType.CONNECT = 1 /\ PacketType.CONNACK = 2 /\ PacketType.PUBLISH = 3
    /\ PacketType.PUBACK = 4 /\ PacketType.PUBREC = 5 /\ PacketType.PUBREL = 6
    /\ PacketType.PUBCOMP = 7 /\ PacketType.SUBSCRIBE = 8 /\ PacketType.SUBACK = 9
    /\ PacketType.UNSUBSCRIBE = 10 /\ PacketType.UNSUBACK = 11
    /\ PacketType.PINGREQ = 12 /\ PacketType.PINGRESP = 13
    /\ PacketType.DISCONNECT = 14
BY DEF PacketType

\* Packets without a value: nothing is answered but PINGREQ.
LEMMA EmptyAdvances ==
    ASSUME NEW j, NEW data, Ready(j, data), NEW p, p = script[j + 1],
           p.val = None, p.type # 14, p.type # 12, frame.type = p.type,
           Accept(None, <<>>), UNCHANGED <<level, aliases>>
    PROVE  Advances(j + 1)
<1>1. ~IsMessage(p)
    BY Zenon DEF IsMessage
<1>2. PICK q : q = [type |-> p.type, val |-> p.val]
    OBVIOUS
<1>3. AnswerTo(q) = <<>>
    <2>1. q.val = None /\ q.type # PacketType.PINGREQ
        BY <1>2, TypeNumbers
    <2> QED
        BY <2>1, Zenon DEF AnswerTo, When
<1>4. Replies(<<>>, AnswerTo(q))
    BY <1>3, NoReply, Zenon
<1>5. Accept(p.val, <<>>)
    BY Zenon
<1> QED
    BY <1>1, <1>2, <1>4, <1>5, PlainAdvances, Zenon

LEMMA PingAdvances ==
    ASSUME NEW j, NEW data, Ready(j, data), NEW p, p = script[j + 1],
           p.val = None, p.type = 12, frame.type = p.type,
           Accept(None, <<Pingresp>>), UNCHANGED <<level, aliases>>
    PROVE  Advances(j + 1)
<1>1. ~IsMessage(p) /\ p.type # 14
    <2>1. p.type # 14
        OBVIOUS
    <2> QED
        BY <2>1, Zenon DEF IsMessage
<1>2. PICK q : q = [type |-> p.type, val |-> p.val]
    OBVIOUS
<1>3. AnswerTo(q) = <<<<13, None>>>>
    <2>1. q.val = None /\ q.type = PacketType.PINGREQ
        BY <1>2, TypeNumbers
    <2> QED
        BY <2>1, TypeNumbers, Zenon DEF AnswerTo, When
<1>4. Replies(<<Pingresp>>, AnswerTo(q))
    BY <1>3, PingHeading, OneReply, Zenon
<1>5. Accept(p.val, <<Pingresp>>)
    BY Zenon
<1> QED
    BY <1>1, <1>2, <1>4, <1>5, PlainAdvances, Zenon

LEMMA AckAdvances ==
    ASSUME NEW j, NEW data, Ready(j, data), NEW p, p = script[j + 1],
           p.val # None, p.type \in 4..7, IsValue("u16", p.val), frame.type = p.type,
           HandleAck(p.val), UNCHANGED <<level, aliases>>
    PROVE  Advances(j + 1)
<1>1. ~IsMessage(p) /\ p.type # 14
    BY TypeNumbers DEF IsMessage
<1>2. PICK q : q = [type |-> p.type, val |-> p.val]
    OBVIOUS
<1>3. PICK id \in Nat : id = p.val
    BY DEF IsValue
<1>4. PICK t \in 4..7 : t = p.type
    OBVIOUS
<1>5. /\ (t = 5) \in BOOLEAN /\ (t = 6) \in BOOLEAN
      /\ ~(t = 5 /\ t = 6)
    OBVIOUS
<1>6. PICK x, y : x = EncodeAck(6, id, 0, level) /\ y = EncodeAck(7, id, 0, level)
    OBVIOUS
<1>7. Heading(x) = <<6, id>> /\ Heading(y) = <<7, id>>
    <2>1. PICK s \in 4..7, u \in 4..7 : s = 6 /\ u = 7
        OBVIOUS
    <2>2. /\ Heading(EncodeAck(s, id, 0, level)) = <<s, id>>
          /\ Heading(EncodeAck(u, id, 0, level)) = <<u, id>>
        BY <2>1, AckHeading
    <2> QED
        BY <1>6, <2>1, <2>2, Zenon
<1>8. PICK out : out = When(t = 5, <<x>>) \o When(t = 6, <<y>>)
    OBVIOUS
<1>9. Accept(p.val, out)
    BY <1>3, <1>4, <1>6, <1>8, TypeNumbers, Zenon DEF HandleAck, Ack
<1>10. AnswerTo(q) = When(t = 5, <<<<6, id>>>>) \o When(t = 6, <<<<7, id>>>>)
    <2>1. q.val = id /\ q.val # None /\ q.type = t
        BY <1>2, <1>3, <1>4
    <2>2. <<>> \o <<>> = <<>>
        OBVIOUS
    <2>3. CASE t = 5
        <3>1. AnswerTo(q) = <<<<6, id>>>>
            BY <2>1, <2>3, TypeNumbers DEF AnswerTo
        <3>2. t = 5 /\ ~(t = 6)
            BY <2>3
        <3> QED
            BY <3>1, <3>2, EmptyConcat, Zenon DEF When
    <2>4. CASE t = 6
        <3>1. AnswerTo(q) = <<<<7, id>>>>
            BY <2>1, <2>4, TypeNumbers DEF AnswerTo
        <3>2. ~(t = 5) /\ t = 6
            BY <2>4
        <3> QED
            BY <3>1, <3>2, EmptyConcat, Zenon DEF When
    <2>5. CASE t \in {4, 7}
        <3>1. AnswerTo(q) = <<>>
            BY <2>1, <2>5, TypeNumbers DEF AnswerTo
        <3>2. ~(t = 5) /\ ~(t = 6)
            BY <2>5
        <3> QED
            BY <2>2, <3>1, <3>2, Zenon DEF When
    <2>6. t = 5 \/ t = 6 \/ t \in {4, 7}
        BY <1>4
    <2> QED
        BY <2>3, <2>4, <2>5, <2>6, Zenon
<1>11. Replies(out, AnswerTo(q))
    <2>1. PICK a \in BOOLEAN, c \in BOOLEAN : (a <=> t = 5) /\ (c <=> t = 6)
        BY <1>5
    <2>2. PICK g, h : g = <<6, id>> /\ h = <<7, id>>
        OBVIOUS
    <2>3. ~(a /\ c)
        BY <1>5, <2>1, Zenon
    <2>4. Heading(x) = g /\ Heading(y) = h
        BY <1>7, <2>2, Zenon
    <2>5. Replies(When(a, <<x>>) \o When(c, <<y>>), When(a, <<g>>) \o When(c, <<h>>))
        BY <2>3, <2>4, OneReplyOfTwo, Zenon
    <2>6. (t = 5) = a /\ (t = 6) = c
        BY <2>1, Zenon
    <2> QED
        BY <1>8, <1>10, <2>2, <2>5, <2>6, Zenon
<1> QED
    BY <1>1, <1>2, <1>9, <1>11, PlainAdvances, Zenon

\* A SUBSCRIBE whose handler raises is the last packet.
LEMMA StumbleAdvances ==
    ASSUME NEW j, NEW data, Ready(j, data), NEW p, p = script[j + 1],
           p.val # None, p.type = 8, frame.type = p.type, MeetsTombstone(p.val),
           Handled(p.val), reading' = "closed", UNCHANGED <<level, aliases, answers>>
    PROVE  Advances(j + 1)
<1>1. ~IsMessage(p)
    BY TypeNumbers DEF IsMessage
<1>2. PICK k : k = j + 1
    OBVIOUS
<1>3. p = script[k] /\ IsPacket(p, level)
    BY <1>2, Zenon DEF Ready
<1>4. Meaning(script, k) = [type |-> p.type, val |-> p.val]
    BY <1>1, <1>3, PlainMeaning, Zenon
<1>5. handled' = Append(handled, Meaning(script, k)) /\ answers' = answers
    BY <1>4, Zenon DEF Handled
<1>6. Accepted(script, j + 1)
    BY <1>1, AcceptedIf, Zenon
<1>7. Stumbles(script[k]) /\ MayEnd(script[k])
    BY <1>3, TypeNumbers, Zenon DEF Stumbles, MayEnd
<1>8. level' \in {3, 4, 5} /\ level' = ClientLevel(script)
      /\ Greets(script) /\ Entitled(script[1].val)
    BY Zenon DEF Ready
<1> QED
    BY <1>2, <1>5, <1>6, <1>7, <1>8, Zenon DEF Advances

LEMMA SubscribeAdvances ==
    ASSUME NEW j, NEW data, Ready(j, data), NEW p, p = script[j + 1],
           p.val # None, p.type = 8, IsRequest(p.val, level, LAMBDA s : IsFilter(s, level)),
           frame.type = p.type, HandleSubscribe(p.val), UNCHANGED <<level, aliases>>
    PROVE  Advances(j + 1)
<1>1. ~IsMessage(p) /\ p.type # 14
    BY TypeNumbers DEF IsMessage
<1>2. PICK q : q = [type |-> p.type, val |-> p.val]
    OBVIOUS
<1>3. Carries(p, level, data)
    BY Zenon DEF Ready
<1>4. data = FiltersBytes(p.val, level, FilterBytes) /\ Small(data)
    BY <1>3, SubscribeWhole, Zenon
<1>5. PICK codes : codes = [i \in DOMAIN p.val.filters |->
                              IF p.val.filters[i][1] = <<>> THEN 143
                              ELSE Min({p.val.filters[i][2].qos, 2})]
    OBVIOUS
<1>6. PICK x : x = EncodeSuback(p.val.id, codes, level)
    OBVIOUS
<1>7. Heading(x) = <<9, p.val.id>>
    BY <1>4, <1>5, <1>6, SubackHeading, Zenon
<1>8. \/ Accept(p.val, <<x>>)
      \/ /\ MeetsTombstone(p.val) /\ Handled(p.val)
         /\ reading' = "closed" /\ UNCHANGED answers
    BY <1>5, <1>6, Zenon DEF HandleSubscribe
<1>9. AnswerTo(q) = <<<<9, p.val.id>>>>
    <2>1. q.val = p.val /\ q.type = p.type
        BY <1>2
    <2> QED
        BY <2>1, TypeNumbers DEF AnswerTo
<1>10. Replies(<<x>>, AnswerTo(q))
    BY <1>7, <1>9, OneReply, Zenon
<1>11. CASE Accept(p.val, <<x>>)
    BY <1>1, <1>2, <1>10, <1>11, PlainAdvances, Zenon
<1>12. CASE /\ MeetsTombstone(p.val) /\ Handled(p.val)
            /\ reading' = "closed" /\ UNCHANGED answers
    BY <1>12, StumbleAdvances, Zenon
<1> QED
    BY <1>8, <1>11, <1>12

LEMMA UnsubscribeAdvances ==
    ASSUME NEW j, NEW data, Ready(j, data), NEW p, p = script[j + 1],
           p.val # None, p.type = 10, IsRequest(p.val, level, IsText),
           frame.type = p.type, HandleUnsubscribe(p.val), UNCHANGED <<level, aliases>>
    PROVE  Advances(j + 1)
<1>1. ~IsMessage(p) /\ p.type # 14
    BY TypeNumbers DEF IsMessage
<1>2. PICK q : q = [type |-> p.type, val |-> p.val]
    OBVIOUS
<1>3. Carries(p, level, data)
    BY Zenon DEF Ready
<1>4. data = FiltersBytes(p.val, level, EncodeText) /\ Small(data)
    BY <1>3, UnsubscribeWhole, Zenon
<1>5. PICK codes \in [DOMAIN p.val.filters -> {0, 17}] :
          Accept(p.val, <<EncodeUnsuback(p.val.id, codes, level)>>)
    BY Zenon DEF HandleUnsubscribe
<1>6. PICK x : x = EncodeUnsuback(p.val.id, codes, level)
    OBVIOUS
<1>7. Heading(x) = <<11, p.val.id>>
    BY <1>4, <1>5, <1>6, UnsubackHeading, Zenon
<1>8. Accept(p.val, <<x>>)
    BY <1>5, <1>6, Zenon
<1>9. AnswerTo(q) = <<<<11, p.val.id>>>>
    <2>1. q.val = p.val /\ q.type = p.type
        BY <1>2
    <2> QED
        BY <2>1, TypeNumbers DEF AnswerTo
<1>10. Replies(<<x>>, AnswerTo(q))
    BY <1>7, <1>9, OneReply, Zenon
<1> QED
    BY <1>1, <1>2, <1>8, <1>10, PlainAdvances, Zenon

LEMMA DisconnectAdvances ==
    ASSUME NEW j, NEW data, Ready(j, data), NEW p, p = script[j + 1],
           p.val # None, p.type = 14, frame.type = p.type, IsSeq(answers),
           HandleDisconnect(p.val), UNCHANGED <<level, aliases>>
    PROVE  Advances(j + 1)
<1>1. ~IsMessage(p)
    BY TypeNumbers DEF IsMessage
<1>2. PICK q : q = [type |-> p.type, val |-> p.val]
    OBVIOUS
<1>3. PICK k : k = j + 1
    OBVIOUS
<1>4. p = script[k] /\ IsPacket(p, level)
    BY <1>3, Zenon DEF Ready
<1>5. Meaning(script, k) = q
    BY <1>1, <1>2, <1>4, PlainMeaning, Zenon
<1>6. handled' = Append(handled, q) /\ reading' = "closed" /\ answers' = answers
    BY <1>2, Zenon DEF HandleDisconnect, Handled
<1>7. Accepted(script, j + 1)
    BY <1>1, AcceptedIf, Zenon
<1>8. AnswerTo(q) = <<>>
    <2>1. q.val = p.val /\ q.type = p.type
        BY <1>2
    <2> QED
        BY <2>1, TypeNumbers DEF AnswerTo
<1>9. answers \o <<>> = answers
    BY ConcatEmptySeq DEF IsSeq
<1>10. Replies(<<>>, AnswerTo(q))
    BY <1>8, NoReply, Zenon
<1>11. \E out : answers' = answers \o out /\ Replies(out, AnswerTo(q))
    BY <1>6, <1>9, <1>10, Zenon
<1>12. level' \in {3, 4, 5} /\ level' = ClientLevel(script)
       /\ Greets(script) /\ Entitled(script[1].val)
    BY Zenon DEF Ready
<1>13. MayEnd(script[k])
    BY <1>4, TypeNumbers, Zenon DEF MayEnd
<1> QED
    BY <1>3, <1>5, <1>6, <1>7, <1>11, <1>12, <1>13, Zenon DEF Advances

\* The topic a client means is one that it wrote in a message.
LEMMA TopicIsWritten ==
    ASSUME NEW s, NEW k \in Nat, k >= 1, IsMessage(s[k])
    PROVE  \E i \in 1..k : IsMessage(s[i]) /\ TopicOf(s, k) = s[i].val.topic
<1>1. k \in 1..k /\ k - 1 \in Nat
    OBVIOUS
<1>2. CASE s[k].val.topic = <<>> /\ Binders(s, k) # {}
    <2>1. PICK S : S = Binders(s, k)
        OBVIOUS
    <2>2. S \in SUBSET (1..(k - 1)) /\ \A i \in S : IsMessage(s[i])
        BY <2>1, Zenon DEF Binders
    <2>3. S \in SUBSET (0..k) /\ S # {}
        BY <1>2, <2>1, <2>2
    <2>4. Max(S) \in S
        BY <2>3, Greatest
    <2>7. \A x \in S : x \in 1..k
        BY <2>2
    <2>5. PICK i \in 1..k : i = Max(S) /\ i \in S
        BY <2>4, <2>7, Zenon
    <2>6. TopicOf(s, k) = s[i].val.topic
        BY <1>2, <2>1, <2>5, Zenon DEF TopicOf
    <2> QED
        BY <2>2, <2>5, <2>6, Zenon
<1>3. CASE ~(s[k].val.topic = <<>> /\ Binders(s, k) # {})
    BY <1>1, <1>3, Zenon DEF TopicOf
<1> QED
    BY <1>2, <1>3

\* A message as it is meant.
LEMMA MessageMeaning ==
    ASSUME NEW s \in Scripts, Len(s) \in Nat, NEW k \in Nat, k \in 1..Len(s),
           IsMessage(s[k]), NEW l, IsPacket(s[k], l)
    PROVE  /\ Meaning(s, k)
                  = [type |-> 3, val |-> [s[k].val EXCEPT !.topic = TopicOf(s, k)]]
           /\ [s[k].val EXCEPT !.topic = TopicOf(s, k)] # None
<1>1. PICK p, topic : p = s[k] /\ topic = TopicOf(s, k)
    OBVIOUS
<1>2. p = [type |-> p.type, val |-> p.val] /\ p.type = 3
    BY <1>1, TypeNumbers, Zenon DEF IsPacket, IsMessage
<1>3. [p EXCEPT !.val.topic = topic] = [type |-> 3, val |-> [p.val EXCEPT !.topic = topic]]
    BY <1>2
<1>4. Meaning(s, k) = [p EXCEPT !.val.topic = topic]
    BY <1>1, Zenon DEF Meaning
<1>5. PICK i \in 1..k : IsMessage(s[i]) /\ topic = s[i].val.topic
    <2>1. k >= 1
        OBVIOUS
    <2>2. \E i \in 1..k : IsMessage(s[i]) /\ TopicOf(s, k) = s[i].val.topic
        BY <2>1, TopicIsWritten, Zenon
    <2> QED
        BY <1>1, <2>2, Zenon
<1>6. i \in 1..Len(s)
    OBVIOUS
<1>7. [s[k].val EXCEPT !.topic = s[i].val.topic] # None
    BY <1>5, <1>6, NoneAssumption
<1>8. [s[k].val EXCEPT !.topic = topic] # None
    BY <1>5, <1>7, Zenon
<1> QED
    BY <1>1, <1>3, <1>4, <1>8, Zenon

\* A message is acknowledged as its QoS demands.
LEMMA PublishReplies ==
    ASSUME NEW pub, IsPublish(pub), NEW m, m.type = 3, m.val # None,
           m.val.qos = pub.qos, m.val.id = pub.id,
           NEW out, out = When(pub.qos = 1, Ack(PacketType.PUBACK, pub.id))
                              \o When(pub.qos = 2, Ack(PacketType.PUBREC, pub.id))
    PROVE  Replies(out, AnswerTo(m))
<1>1. PICK q \in 0..3, id \in {pub.id} : q = pub.qos /\ id = pub.id
    BY Zenon DEF IsPublish
<1>2. q > 0 => id \in Nat
    <2>1. q > 0 => IsValue("u16", id)
        BY <1>1, Zenon DEF IsPublish
    <2> QED
        BY <2>1 DEF IsValue
<1>3. PICK x, y : x = EncodeAck(4, id, 0, level) /\ y = EncodeAck(5, id, 0, level)
    OBVIOUS
<1>4. PICK g, h : g = <<4, id>> /\ h = <<5, id>>
    OBVIOUS
<1>5. q > 0 => Heading(x) = g /\ Heading(y) = h
    <2> SUFFICES ASSUME q > 0 PROVE Heading(x) = g /\ Heading(y) = h
        OBVIOUS
    <2>1. PICK s \in 4..7, t \in 4..7 : s = 4 /\ t = 5
        OBVIOUS
    <2>2. /\ Heading(EncodeAck(s, id, 0, level)) = <<s, id>>
          /\ Heading(EncodeAck(t, id, 0, level)) = <<t, id>>
        BY <1>2, <2>1, AckHeading
    <2> QED
        BY <1>3, <1>4, <2>1, <2>2, Zenon
<1>6. PICK a \in BOOLEAN, c \in BOOLEAN : (a <=> q = 1) /\ (c <=> q = 2)
    <2>1. (q = 1) \in BOOLEAN /\ (q = 2) \in BOOLEAN
        OBVIOUS
    <2> QED
        BY <2>1, Zenon
<1>7. ~(q = 1 /\ q = 2) /\ (q = 1 => q > 0) /\ (q = 2 => q > 0)
    OBVIOUS
<1>8. ~(a /\ c) /\ (a => Heading(x) = g) /\ (c => Heading(y) = h)
    BY <1>5, <1>6, <1>7, Zenon
<1>9. Replies(When(a, <<x>>) \o When(c, <<y>>), When(a, <<g>>) \o When(c, <<h>>))
    BY <1>8, OneReplyOfTwo, Zenon
<1>10. (q = 1) = a /\ (q = 2) = c
    BY <1>6, Zenon
<1>11. out = When(a, <<x>>) \o When(c, <<y>>)
    BY <1>1, <1>3, <1>10, TypeNumbers, Zenon DEF Ack
<1>12. AnswerTo(m) = When(a, <<g>>) \o When(c, <<h>>)
    <2>1. AnswerTo(m) = When(m.val.qos = 1, <<<<PacketType.PUBACK, m.val.id>>>>)
                            \o When(m.val.qos = 2, <<<<PacketType.PUBREC, m.val.id>>>>)
        <3>1. m.type # 1
            OBVIOUS
        <3> QED
            BY <3>1, TypeNumbers DEF AnswerTo
    <2>2. m.val.qos = q /\ m.val.id = id
        BY <1>1, Zenon
    <2> QED
        BY <1>4, <1>10, <2>1, <2>2, TypeNumbers, Zenon
<1> QED
    BY <1>9, <1>11, <1>12, Zenon

\* The reason code of MQTT 5.0 closes the connection; before, nothing is sent.
LEMMA ClosingRefuses ==
    ASSUME NEW rc \in Nat
    PROVE  Refuses(When(level = 5, <<EncodeDisconnect(rc, 5)>>))
<1>1. PICK b : b = EncodeDisconnect(rc, 5)
    OBVIOUS
<1>2. Heading(b)[1] = 14
    BY <1>1, DisconnectHeading
<1>3. Heading(b)[1] \in {2, 14}
    BY <1>2
<1>4. CASE level = 5
    BY <1>1, <1>3, <1>4, Zenon DEF Refuses, When
<1>5. CASE level # 5
    BY <1>5, Zenon DEF Refuses, When
<1> QED
    BY <1>4, <1>5

LEMMA RefuseStops ==
    ASSUME NEW k, NEW out, Refuse(out), Refuses(out), UNCHANGED level, ~Accepted(script, k)
    PROVE  Stops(k)
BY Zenon DEF Refuse, Stops

LEMMA PublishAdvances ==
    ASSUME NEW j, NEW data, Ready(j, data), NEW p, p = script[j + 1],
           script \in Scripts, Len(script) \in Nat, j + 1 \in 1..Len(script),
           p.val # None, p.type = 3, IsPublish(p.val), frame.type = p.type,
           HandlePublish(p.val), UNCHANGED level
    PROVE  Advances(j + 1) \/ Stops(j + 1)
<1>1. IsMessage(p)
    BY TypeNumbers, Zenon DEF IsMessage
<1>2. PICK pub, alias : pub = p.val /\ alias = AliasOf(pub)
    OBVIOUS
<1>3. PICK topic : topic = IF pub.topic = <<>> /\ alias \in DOMAIN aliases
                           THEN aliases[alias] ELSE pub.topic
    OBVIOUS
<1>4. PICK k \in Nat : k = j + 1
    BY DEF Ready
<1>5. j \in Nat /\ Agrees(script, aliases, j) /\ IsPacket(script[k], level) /\ p = script[k]
    BY <1>4, Zenon DEF Ready
<1>6. topic = TopicOf(script, k)
    <2>2. TopicOf(script, j + 1) =
              IF /\ script[j + 1].val.topic = <<>>
                 /\ AliasOf(script[j + 1].val) \in DOMAIN aliases
              THEN aliases[AliasOf(script[j + 1].val)] ELSE script[j + 1].val.topic
        BY <1>5, TopicFound
    <2> QED
        BY <1>2, <1>3, <1>4, <2>2, Zenon
<1>7. PICK unbound : unbound <=> pub.topic = <<>> /\ alias # None /\ alias \notin DOMAIN aliases
    <2>1. (pub.topic = <<>> /\ alias # None /\ alias \notin DOMAIN aliases) \in BOOLEAN
        OBVIOUS
    <2> QED
        BY <2>1, Zenon
<1>8. unbound => ~ValidTopic(topic)
    BY <1>3, <1>7, Zenon DEF ValidTopic
<1>9. Accepted(script, k) <=> ValidTopic(topic)
    BY <1>1, <1>4, <1>5, <1>6, AcceptedIf, Zenon
<1>10. aliases' = IF alias # None /\ pub.topic # <<>>
                  THEN Bound(alias, pub.topic) ELSE aliases
    BY <1>2, Zenon DEF HandlePublish
<1>11. PICK out : out = When(pub.qos = 1, Ack(PacketType.PUBACK, pub.id))
                            \o When(pub.qos = 2, Ack(PacketType.PUBREC, pub.id))
    OBVIOUS
<1>12. \/ Refuse(When(level = 5, <<EncodeDisconnect(148, 5)>>)) /\ ~ValidTopic(topic)
       \/ Refuse(When(level = 5, <<EncodeDisconnect(144, 5)>>)) /\ ~ValidTopic(topic)
       \/ Accept([pub EXCEPT !.topic = topic], out) /\ ValidTopic(topic)
    BY <1>2, <1>3, <1>7, <1>8, <1>11, Zenon DEF HandlePublish
<1>13. CASE Refuse(When(level = 5, <<EncodeDisconnect(148, 5)>>)) /\ ~ValidTopic(topic)
    <2>1. PICK rc \in Nat : rc = 148
        OBVIOUS
    <2>2. Refuses(When(level = 5, <<EncodeDisconnect(rc, 5)>>))
        BY ClosingRefuses
    <2>3. Stops(k)
        BY <1>9, <1>13, <2>1, <2>2, RefuseStops, Zenon
    <2> QED
        BY <1>4, <2>3, Zenon
<1>14. CASE Refuse(When(level = 5, <<EncodeDisconnect(144, 5)>>)) /\ ~ValidTopic(topic)
    <2>1. PICK rc \in Nat : rc = 144
        OBVIOUS
    <2>2. Refuses(When(level = 5, <<EncodeDisconnect(rc, 5)>>))
        BY ClosingRefuses
    <2>3. Stops(k)
        BY <1>9, <1>14, <2>1, <2>2, RefuseStops, Zenon
    <2> QED
        BY <1>4, <2>3, Zenon
<1>15. CASE Accept([pub EXCEPT !.topic = topic], out) /\ ValidTopic(topic)
    <2>1. Agrees(script, aliases', j + 1)
        <3>1. CASE alias # None /\ pub.topic # <<>>
            <4>1. Binds(script, j + 1)
                BY <1>1, <1>2, <3>1, Zenon DEF Binds
            <4>2. PICK t : t = pub.topic
                OBVIOUS
            <4>3. alias = AliasOf(script[j + 1].val) /\ t = script[j + 1].val.topic
                BY <1>2, <4>2, Zenon
            <4>4. Agrees(script, [a \in DOMAIN aliases \cup {alias} |->
                                     IF a = alias THEN t ELSE aliases[a]], j + 1)
                BY <1>5, <4>1, <4>3, NewBinding
            <4>5. aliases' = [a \in DOMAIN aliases \cup {alias} |->
                                 IF a = alias THEN t ELSE aliases[a]]
                BY <1>10, <3>1, <4>2, Zenon DEF Bound
            <4> QED
                BY <4>4, <4>5, Zenon
        <3>2. CASE ~(alias # None /\ pub.topic # <<>>)
            <4>1. ~Binds(script, j + 1)
                BY <1>2, <3>2, Zenon DEF Binds
            <4>2. Agrees(script, aliases, j + 1)
                BY <1>5, <4>1, NoBinding
            <4>3. aliases' = aliases
                BY <1>10, <3>2, Zenon
            <4> QED
                BY <4>2, <4>3, Zenon
        <3> QED
            BY <3>1, <3>2
    <2>2. /\ Meaning(script, k) = [type |-> 3, val |-> [pub EXCEPT !.topic = topic]]
          /\ [pub EXCEPT !.topic = topic] # None
        <3>1. k \in 1..Len(script) /\ IsMessage(script[k])
            BY <1>1, <1>4, <1>5, Zenon
        <3>2. /\ Meaning(script, k) =
                    [type |-> 3, val |-> [script[k].val EXCEPT !.topic = TopicOf(script, k)]]
              /\ [script[k].val EXCEPT !.topic = TopicOf(script, k)] # None
            BY <1>5, <3>1, MessageMeaning
        <3> QED
            BY <1>2, <1>5, <1>6, <3>2, Zenon
    <2>3. PICK v : v = [pub EXCEPT !.topic = topic]
        OBVIOUS
    <2>4. v.qos = pub.qos /\ v.id = pub.id
        <3>1. pub = [topic |-> pub.topic, id |-> pub.id, props |-> pub.props,
                     payload |-> pub.payload, qos |-> pub.qos, retain |-> pub.retain,
                     dup |-> pub.dup]
            BY <1>2, Zenon DEF IsPublish
        <3> QED
            BY <2>3, <3>1
    <2>5. PICK m : m = [type |-> 3, val |-> v]
        OBVIOUS
    <2>6. m.type = 3 /\ m.val = v /\ Meaning(script, k) = m /\ v # None
        BY <2>2, <2>3, <2>5
    <2>7. Replies(out, AnswerTo(m))
        <3>1. m.val # None /\ m.val.qos = pub.qos /\ m.val.id = pub.id /\ IsPublish(pub)
            BY <1>2, <2>4, <2>6, Zenon
        <3> QED
            BY <1>11, <2>6, <3>1, PublishReplies, Zenon
    <2>8. Accepted(script, j + 1) /\ Accept(v, out)
        BY <1>4, <1>9, <1>15, <2>3, Zenon
    <2>9. [type |-> frame.type, val |-> v] = Meaning(script, j + 1)
        BY <1>4, <2>5, <2>6, Zenon
    <2>10. Replies(out, AnswerTo(Meaning(script, j + 1)))
        BY <1>4, <2>6, <2>7, Zenon
    <2>11. script[j + 1].type # 14
        <3>1. p.type # 14
            OBVIOUS
        <3> QED
            BY <3>1, Zenon
    <2>12. Advances(j + 1)
        BY <2>1, <2>8, <2>9, <2>10, <2>11, AcceptAdvances, Zenon
    <2> QED
        BY <2>12
<1> QED
    BY <1>12, <1>13, <1>14, <1>15, Zenon

\* Any packet after the CONNECT.
LEMMA DispatchAdvances ==
    ASSUME NEW j, NEW data, Ready(j, data), IsSeq(answers),
           script \in Scripts, Len(script) \in Nat, j + 1 \in 1..Len(script),
           Dispatch(Parse(data))
    PROVE  Advances(j + 1) \/ Stops(j + 1)
<1>1. PICK p, r : p = script[j + 1] /\ r = Parse(data)
    OBVIOUS
<1>2. /\ IsPacket(p, level) /\ level \in {3, 4, 5}
      /\ p.type = 1 => p.val = None
      /\ Carries(p, level, data)
    BY <1>1, Zenon DEF Ready
<1>3. frame.type = p.type /\ ReadAs(p, r)
    <2>1. frame.type = p.type /\ ReadAs(p, Parse(data))
        BY <1>2, ParsedAsWritten, Zenon
    <2> QED
        BY <1>1, <2>1, Zenon
<1>4. Dispatch(r)
    BY <1>1, Zenon
<1>5. UNCHANGED level
    BY <1>4, Zenon DEF Dispatch
<1>6. frame.type # 3 \/ ~r.ok => UNCHANGED aliases
    BY <1>4, TypeNumbers, Zenon DEF Dispatch
<1>7. PICK t \in 0..15 : t = p.type /\ t = frame.type
    BY <1>2, <1>3 DEF IsPacket
<1>8. CASE p.val = None
    <2>1. t # 14
        BY <1>2, <1>7, <1>8, TypeNumbers DEF IsPacket
    <2>2. UNCHANGED aliases
        <3>1. t = 3 => ~r.ok
            BY <1>3, <1>7, <1>8 DEF ReadAs
        <3> QED
            BY <1>6, <1>7, <3>1, Zenon
    <2>3. CASE t = 12
        <3>1. r.ok /\ t \notin 4..7 /\ t # 3 /\ t # 8 /\ t # 10
            BY <1>3, <1>7, <1>8, <2>3 DEF ReadAs
        <3>2. Accept(None, <<Pingresp>>)
            BY <1>4, <1>7, <2>1, <2>3, <3>1, TypeNumbers DEF Dispatch
        <3>3. p.type = 12 /\ frame.type = p.type
            BY <1>7, <2>3
        <3> QED
            BY <1>1, <1>5, <1>8, <2>2, <3>2, <3>3, PingAdvances, Zenon
    <2>4. CASE t # 12
        <3>1. r.ok => t \notin 4..7 /\ t # 3 /\ t # 8 /\ t # 10
            BY <1>3, <1>7, <1>8 DEF ReadAs
        <3>2. Accept(None, <<>>)
            BY <1>4, <1>7, <2>1, <2>4, <3>1, TypeNumbers DEF Dispatch
        <3>3. p.type # 12 /\ p.type # 14 /\ frame.type = p.type
            BY <1>7, <2>1, <2>4
        <3> QED
            BY <1>1, <1>5, <1>8, <2>2, <3>2, <3>3, EmptyAdvances, Zenon
    <2> QED
        BY <2>3, <2>4
<1>9. CASE p.val # None
    <2>1. r.ok /\ r.val = p.val
        BY <1>3, <1>9, Zenon DEF ReadAs
    <2>2. \/ t = 3 /\ IsPublish(p.val)
          \/ t \in 4..7 /\ IsValue("u16", p.val)
          \/ t = 8 /\ IsRequest(p.val, level, LAMBDA s : IsFilter(s, level))
          \/ t = 10 /\ IsRequest(p.val, level, IsText)
          \/ t = 14
        <3>1. t # 1
            BY <1>2, <1>7, <1>9
        <3> QED
            BY <1>2, <1>7, <1>9, <3>1, TypeNumbers, Zenon DEF IsPacket
    <2>3. frame.type = p.type
        BY <1>7
    <2>4. t # 3 => UNCHANGED aliases
        BY <1>6, <1>7, Zenon
    <2>5. CASE t = 3 /\ IsPublish(p.val)
        <3>1. HandlePublish(p.val)
            BY <1>4, <1>7, <2>1, <2>5, TypeNumbers DEF Dispatch
        <3>2. p.type = 3
            BY <1>7, <2>5
        <3> QED
            BY <1>1, <1>5, <1>9, <2>3, <2>5, <3>1, <3>2, PublishAdvances, Zenon
    <2>6. CASE t \in 4..7 /\ IsValue("u16", p.val)
        <3>1. HandleAck(p.val)
            BY <1>4, <1>7, <2>1, <2>6, TypeNumbers DEF Dispatch
        <3>2. p.type \in 4..7 /\ UNCHANGED aliases
            BY <1>7, <2>4, <2>6
        <3> QED
            BY <1>1, <1>5, <1>9, <2>3, <2>6, <3>1, <3>2, AckAdvances, Zenon
    <2>7. CASE t = 8 /\ IsRequest(p.val, level, LAMBDA s : IsFilter(s, level))
        <3>1. HandleSubscribe(p.val)
            BY <1>4, <1>7, <2>1, <2>7, TypeNumbers DEF Dispatch
        <3>2. p.type = 8 /\ UNCHANGED aliases
            BY <1>7, <2>4, <2>7
        <3> QED
            BY <1>1, <1>5, <1>9, <2>3, <2>7, <3>1, <3>2, SubscribeAdvances, Zenon
    <2>8. CASE t = 10 /\ IsRequest(p.val, level, IsText)
        <3>1. HandleUnsubscribe(p.val)
            BY <1>4, <1>7, <2>1, <2>8, TypeNumbers DEF Dispatch
        <3>2. p.type = 10 /\ UNCHANGED aliases
            BY <1>7, <2>4, <2>8
        <3> QED
            BY <1>1, <1>5, <1>9, <2>3, <2>8, <3>1, <3>2, UnsubscribeAdvances, Zenon
    <2>9. CASE t = 14
        <3>1. HandleDisconnect(p.val)
            BY <1>4, <1>7, <2>1, <2>9, TypeNumbers DEF Dispatch
        <3>2. p.type = 14 /\ UNCHANGED aliases
            BY <1>7, <2>4, <2>9
        <3> QED
            BY <1>1, <1>5, <1>9, <2>3, <3>1, <3>2, DisconnectAdvances, Zenon
    <2> QED
        BY <2>2, <2>5, <2>6, <2>7, <2>8, <2>9, Zenon
<1> QED
    BY <1>8, <1>9

\* Authenticator.check returns True for those who are entitled,
LEMMA AdmittedIsEntitled ==
    ASSUME NEW username, NEW password
    PROVE  Admitted(username, password) <=>
               \/ ~AuthEnabled
               \/ username \in {None, <<>>} /\ AllowAnonymous
               \/ \E u \in DOMAIN Users : /\ username = u /\ password = Users[u]
                                          /\ u \in Hashed \/ IsAscii(Users[u])
<1>1. \A u \in DOMAIN Users : u # <<>> /\ Users[u] # <<>> /\ Users[u] # None
    BY UsersAssumption
<1>2. Admitted(username, password) <=>
          \/ ~AuthEnabled
          \/ username \in {None, <<>>} /\ AllowAnonymous
          \/ /\ username # <<>> /\ username \in DOMAIN Users
             /\ Comparable(username, Given(password)) /\ Users[username] = Given(password)
    BY Zenon DEF Admitted
<1>3. (/\ username # <<>> /\ username \in DOMAIN Users
       /\ Comparable(username, Given(password)) /\ Users[username] = Given(password))
      <=> \E u \in DOMAIN Users : /\ username = u /\ password = Users[u]
                                  /\ u \in Hashed \/ IsAscii(Users[u])
    <2>1. CASE password = None
        <3>1. Given(password) = <<>>
            BY <2>1, Zenon DEF Given
        <3> QED
            BY <1>1, <2>1, <3>1, Zenon
    <2>2. CASE password # None
        <3>1. Given(password) = password
            BY <2>2, Zenon DEF Given
        <3>2. Users[username] = password =>
                  (Comparable(username, password) <=>
                       username \in Hashed \/ IsAscii(Users[username]))
            BY Zenon DEF Comparable
        <3> QED
            BY <1>1, <2>2, <3>1, <3>2, Zenon
    <2> QED
        BY <2>1, <2>2
<1> QED
    BY <1>2, <1>3, Zenon

\* and raises only for others.
LEMMA RaisesOnlyForOthers ==
    ASSUME NEW username, NEW password, CheckRaises(username, password)
    PROVE  ~Admitted(username, password)
BY Zenon DEF CheckRaises, Admitted

\* A CONNECT is refused if and only if the client is not entitled.
LEMMA RefusalIsRight ==
    ASSUME NEW c
    PROVE  /\ RefusalCode(c) = 0 <=> Entitled(c)
           /\ RefusalCode(c) \in {0, 132, 133, 134}
           /\ ConnectRaises(c) => RefusalCode(c) # 0
<1>1. PICK l, admitted : l = c.level /\ admitted = Admitted(c.username, c.password)
    OBVIOUS
<1>2. Entitled(c) <=> /\ l \in {3, 4, 5} /\ admitted
                      /\ c.cid # <<>> \/ c.clean \/ l = 5
    BY <1>1, AdmittedIsEntitled, Zenon DEF Entitled
<1>3. RefusalCode(c) =
        CASE l \notin {3, 4, 5} -> 132
          [] l \in {3, 4, 5} /\ ~admitted -> 134
          [] l \in {3, 4} /\ admitted /\ c.cid = <<>> /\ ~c.clean -> 133
          [] OTHER -> 0
    BY <1>1, Zenon DEF RefusalCode
<1>4. ConnectRaises(c) => l \in {3, 4, 5} /\ ~admitted
    BY <1>1, RaisesOnlyForOthers, Zenon DEF ConnectRaises
<1>5. CASE l \notin {3, 4, 5}
    <2>1. RefusalCode(c) = 132
        BY <1>3, <1>5
    <2> QED
        BY <1>2, <1>5, <2>1
<1>6. CASE l \in {3, 4, 5} /\ ~admitted
    <2>1. RefusalCode(c) = 134
        BY <1>3, <1>6
    <2> QED
        BY <1>2, <1>6, <2>1
<1>7. CASE l \in {3, 4} /\ admitted /\ c.cid = <<>> /\ ~c.clean
    <2>1. RefusalCode(c) = 133
        BY <1>3, <1>7
    <2>2. l # 5
        BY <1>7
    <2> QED
        BY <1>2, <1>7, <2>1, <2>2
<1>8. CASE l \in {3, 4, 5} /\ admitted /\ ~(l \in {3, 4} /\ c.cid = <<>> /\ ~c.clean)
    <2>1. RefusalCode(c) = 0
        BY <1>3, <1>8
    <2>2. c.cid # <<>> \/ c.clean \/ l = 5
        BY <1>8
    <2> QED
        BY <1>2, <1>4, <1>8, <2>1, <2>2
<1> QED
    BY <1>5, <1>6, <1>7, <1>8

LEMMA ConnackReply ==
    ASSUME NEW present \in BOOLEAN, NEW l, NEW cid
    PROVE  Heading(EncodeConnack(present, 0, l, ConnackProps(l, cid))) = <<2, None>>
<1>1. PICK rc \in Nat : rc = 0
    OBVIOUS
<1>2. PICK props : props = ConnackProps(l, cid)
    OBVIOUS
<1>3. PropsBytes(props, l) \in Seq(Nat) /\ Len(PropsBytes(props, l)) <= 40
    BY <1>2, ConnackSize, Zenon
<1>4. Heading(EncodeConnack(present, rc, l, props)) = <<2, None>>
    BY <1>3, ConnackHeading, Zenon
<1> QED
    BY <1>1, <1>2, <1>4, Zenon

LEMMA RefusingConnack ==
    ASSUME NEW rc \in Nat, NEW l
    PROVE  Refuses(<<EncodeConnack(FALSE, rc, l, <<>>)>>)
<1>1. PICK props : props = <<>>
    OBVIOUS
<1>2. PropsBytes(props, l) \in Seq(Nat) /\ Len(PropsBytes(props, l)) <= 40
    <2>1. <<0>> \in Seq(Nat) /\ <<>> \in Seq(Nat) /\ Len(<<0>>) <= 40 /\ Len(<<>>) <= 40
        OBVIOUS
    <2>2. PropsBytes(<<>>, l) = <<0>> \/ PropsBytes(<<>>, l) = <<>>
        BY NoProps, Zenon DEF PropsBytes, When
    <2> QED
        BY <1>1, <2>1, <2>2, Zenon
<1>3. FALSE \in BOOLEAN
    OBVIOUS
<1>4. Heading(EncodeConnack(FALSE, rc, l, props)) = <<2, None>>
    BY <1>2, <1>3, ConnackHeading, Zenon
<1>5. PICK b : b = EncodeConnack(FALSE, rc, l, <<>>)
    OBVIOUS
<1>6. Heading(b) = <<2, None>>
    BY <1>1, <1>4, <1>5, Zenon
<1>7. Heading(b)[1] \in {2, 14}
    BY <1>6
<1> QED
    BY <1>5, <1>7, Zenon DEF Refuses

LEMMA AddedAtEnd ==
    ASSUME NEW s, IsSeq(s), NEW x
    PROVE  Append(s, x) = s \o <<x>>
<1>1. PICK S : s \in Seq(S)
    BY DEF IsSeq
<1> QED
    BY <1>1

\* The first packet.
LEMMA ConnectAdvances ==
    ASSUME NEW data, level = 0, Arrived(1, data), Agrees(script, aliases, 0),
           IsSeq(answers), HandleConnect(Parse(data))
    PROVE  Advances(1) \/ Stops(1)
<1>1. PICK p, l, r : p = script[1] /\ l = ClientLevel(script) /\ r = Parse(data)
    OBVIOUS
<1>2. IsPacket(p, l) /\ Carries(p, l, data) /\ LengthFits(script, 1)
    BY <1>1, Zenon DEF Arrived
<1>3. p.type # 1 => l \in {3, 4, 5}
    <2>1. p.type # 1 => ~Greets(script)
        BY <1>1, TypeNumbers, Zenon DEF Greets
    <2>2. ~Greets(script) => l = 4
        BY <1>1, Zenon DEF ClientLevel
    <2>3. 4 \in {3, 4, 5}
        OBVIOUS
    <2> QED
        BY <2>1, <2>2, <2>3, Zenon
<1>4. /\ frame.type = p.type
      /\ p.type = 1 => /\ r.ok <=> p.val # None
                       /\ p.val # None => r.val = p.val
    <2>1. /\ frame.type = p.type
          /\ p.type = 1 => /\ Parse(data).ok <=> p.val # None
                           /\ p.val # None => Parse(data).val = p.val
        BY <1>2, <1>3, ConnectParsed, Zenon
    <2> QED
        BY <1>1, <2>1, Zenon
<1>5. HandleConnect(r)
    BY <1>1, Zenon
<1>6. CASE ~Greets(script)
    <2>1. p.type # 1 \/ p.val = None
        BY <1>1, <1>6, TypeNumbers, Zenon DEF Greets
    <2>2. frame.type # 1 \/ ~r.ok
        BY <1>4, <2>1, Zenon
    <2>3. Refuse(<<>>) /\ UNCHANGED level
        BY <1>5, <2>2, TypeNumbers, Zenon DEF HandleConnect
    <2>4. ~Accepted(script, 1)
        BY <1>6, Zenon DEF Accepted
    <2>5. Refuses(<<>>)
        BY Zenon DEF Refuses
    <2> QED
        BY <2>3, <2>4, <2>5, RefuseStops, Zenon
<1>7. CASE Greets(script)
    <2>1. p.type = 1 /\ p.val # None
        BY <1>1, <1>7, TypeNumbers, Zenon DEF Greets
    <2>2. PICK c : c = p.val /\ r.val = c /\ l = c.level
        <3>1. l = p.val.level
            BY <1>1, <1>7, Zenon DEF ClientLevel
        <3> QED
            BY <1>4, <2>1, <3>1, Zenon
    <2>3. frame.type = 1 /\ r.ok
        BY <1>4, <2>1, Zenon
    <2>4. /\ UNCHANGED aliases
          /\ \/ ConnectRaises(c) /\ Refuse(<<>>) /\ UNCHANGED level
             \/ /\ RefusalCode(c) # 0
                /\ Refuse(<<EncodeConnack(FALSE, RefusalCode(c), l, <<>>)>>)
                /\ UNCHANGED level
             \/ /\ RefusalCode(c) = 0 /\ level' = l /\ reading' = "header" /\ Handled(c)
                /\ \E present \in BOOLEAN, props \in {ConnackProps(l, c.cid)} :
                      answers' = Append(answers, EncodeConnack(present, 0, l, props))
        <3>1. PacketType.CONNECT = 1
            BY TypeNumbers
        <3> QED
            BY <1>5, <2>2, <2>3, <3>1, Zenon DEF HandleConnect
    <2>5. /\ Entitled(c) <=> RefusalCode(c) = 0
          /\ ConnectRaises(c) => RefusalCode(c) # 0
        BY RefusalIsRight, Zenon
    <2>6. c = script[1].val
        BY <1>1, <2>2, Zenon
    <2>7. CASE RefusalCode(c) # 0
        <3>1. RefusalCode(c) \in Nat
            BY RefusalIsRight
        <3>2. Refuses(<<EncodeConnack(FALSE, RefusalCode(c), l, <<>>)>>)
            BY <3>1, RefusingConnack
        <3>3. ~Accepted(script, 1)
            BY <2>5, <2>6, <2>7, Zenon DEF Accepted
        <3>4. Refuses(<<>>)
            BY Zenon DEF Refuses
        <3> QED
            BY <2>4, <2>7, <3>2, <3>3, <3>4, RefuseStops, Zenon
    <2>8. CASE RefusalCode(c) = 0
        <3>1. PICK present \in BOOLEAN :
                /\ level' = l /\ reading' = "header" /\ Handled(c)
                /\ answers' = Append(answers,
                                EncodeConnack(present, 0, l, ConnackProps(l, c.cid)))
            BY <2>4, <2>5, <2>8, Zenon
        <3>2. ~IsMessage(p)
            BY <2>1, TypeNumbers DEF IsMessage
        <3>3. Accepted(script, 1)
            <4>1. \A i \in 1..(1 - 1) : script[i].type # PacketType.DISCONNECT
                OBVIOUS
            <4>2. ~IsMessage(script[1])
                BY <1>1, <3>2, Zenon
            <4> QED
                BY <1>2, <1>7, <2>5, <2>6, <2>8, <4>1, <4>2, Zenon
                    DEF Accepted, LengthFits, Written
        <3>4. l \in {3, 4, 5}
            BY <2>2, <2>5, <2>8, Zenon DEF Entitled
        <3>5. Meaning(script, 1) = [type |-> 1, val |-> c]
            <4>1. Meaning(script, 1) = [type |-> p.type, val |-> p.val]
                BY <1>1, <1>2, <3>2, PlainMeaning, Zenon
            <4> QED
                BY <2>1, <2>2, <4>1, Zenon
        <3>6. handled' = Append(handled, Meaning(script, 1))
            BY <2>3, <3>1, <3>5, Zenon DEF Handled
        <3>7. Agrees(script, aliases', 1)
            <4>1. PICK z \in Nat : z = 0 /\ z + 1 = 1
                OBVIOUS
            <4>2. ~Binds(script, 1)
                BY <1>1, <3>2, Zenon DEF Binds
            <4>3. Agrees(script, aliases, z) /\ ~Binds(script, z + 1)
                BY <4>1, <4>2
            <4>4. Agrees(script, aliases, z + 1)
                BY <4>3, NoBinding
            <4> QED
                BY <2>4, <4>1, <4>4, Zenon
        <3>8. script[1].type # 14
            <4>1. p.type # 14
                BY <2>1
            <4> QED
                BY <1>1, <4>1, Zenon
        <3>9. PICK x : x = EncodeConnack(present, 0, l, ConnackProps(l, c.cid))
            OBVIOUS
        <3>10. answers' = answers \o <<x>>
            <4>1. Append(answers, x) = answers \o <<x>>
                BY AddedAtEnd
            <4>2. answers' = Append(answers, x)
                BY <3>1, <3>9, Zenon
            <4> QED
                BY <4>1, <4>2, Zenon
        <3>11. Heading(x) = <<2, None>>
            BY <3>9, ConnackReply
        <3>12. AnswerTo(Meaning(script, 1)) = <<<<2, None>>>>
            <4>1. PICK q : q = [type |-> 1, val |-> c]
                OBVIOUS
            <4>2. q.type = 1 /\ q.val # None
                BY <2>1, <2>2, <4>1
            <4>3. AnswerTo(q) = <<<<2, None>>>>
                BY <4>2, TypeNumbers DEF AnswerTo
            <4> QED
                BY <3>5, <4>1, <4>3, Zenon
        <3>13. Replies(<<x>>, AnswerTo(Meaning(script, 1)))
            BY <3>11, <3>12, OneReply, Zenon
        <3>14. level' \in {3, 4, 5} /\ level' = ClientLevel(script)
               /\ Greets(script) /\ Entitled(script[1].val)
            BY <1>1, <1>7, <2>5, <2>6, <2>8, <3>1, <3>4, Zenon
        <3>15. reading' # "closed"
            BY <3>1
        <3> QED
            BY <3>3, <3>6, <3>7, <3>8, <3>10, <3>13, <3>14, <3>15, Zenon DEF Advances
    <2> QED
        BY <2>7, <2>8
<1> QED
    BY <1>6, <1>7

(***************************************************************************)
(* The handlers' side of a connection.                                     *)
(***************************************************************************)
\* What was handled is what the client meant; CONNECT came first, from a
\* client that may connect; the aliases are those it bound.
HistoryInv ==
    /\ \A i \in 1..Len(handled) : handled[i] = Meaning(script, i)
    /\ level = 0 <=> Len(handled) = 0
    /\ level # 0 => /\ Greets(script) /\ Entitled(script[1].val)
                    /\ level = ClientLevel(script)
    /\ reading # "closed" => /\ \A i \in 1..Len(handled) : script[i].type # 14
                             /\ Agrees(script, aliases, Len(handled))

LEMMA PayloadOutcome ==
    ASSUME FramingInv, HistoryInv, ReadPayload
    PROVE  \E k \in Nat : /\ k = Len(handled) + 1 /\ k \in 1..Len(sent)
                          /\ Advances(k) \/ Stops(k)
<1>1. /\ reading = "payload" /\ Len(stream) >= frame.remaining
      /\ LET r == Parse(SubSeq(stream, 1, frame.remaining))
         IN  IF level = 0 THEN HandleConnect(r) ELSE Dispatch(r)
    <2>1. reading = "payload" /\ Len(stream) >= Needed
          /\ \E r \in {Parse(SubSeq(stream, 1, frame.remaining))} :
                IF level = 0 THEN HandleConnect(r) ELSE Dispatch(r)
        BY Zenon DEF ReadPayload
    <2>2. Needed = frame.remaining
        BY <2>1, Zenon DEF Needed
    <2> QED
        BY <2>1, <2>2, Zenon
<1>2. PICK data : data = SubSeq(stream, 1, frame.remaining)
    OBVIOUS
<1>3. IF level = 0 THEN HandleConnect(Parse(data)) ELSE Dispatch(Parse(data))
    BY <1>1, <1>2, Zenon
<1>4. PICK k \in Nat : Arrived(k, data)
    BY <1>1, <1>2, PacketCarried, Zenon
<1>5. k = Len(handled) + 1 /\ k \in 1..Len(sent) /\ k \in 1..Len(script)
    BY <1>4, Zenon DEF Arrived
<1>6. /\ Len(handled) \in Nat /\ Len(script) \in Nat /\ script \in Scripts
      /\ IsSeq(answers) /\ level \in {0, 3, 4, 5}
    <2>1. Counts /\ StreamTypes
        BY Zenon DEF FramingInv
    <2>2. script \in Scripts /\ level \in {0, 3, 4, 5}
        BY <2>1, Zenon DEF StreamTypes
    <2>3. Len(handled) \in Nat
        BY <2>1, Numbers
    <2>4. IsSeq(answers)
        BY <2>1, Zenon DEF Counts
    <2> QED
        BY <2>2, <2>3, <2>4, ScriptAssumption, Zenon
<1>7. reading # "closed"
    BY <1>1
<1>8. /\ \A i \in 1..Len(handled) : script[i].type # 14
      /\ Agrees(script, aliases, Len(handled))
    BY <1>7, Zenon DEF HistoryInv
<1>9. CASE level = 0
    <2>1. Len(handled) = 0
        BY <1>9, Zenon DEF HistoryInv
    <2>2. k = 1
        BY <1>5, <2>1
    <2>3. Arrived(1, data)
        BY <1>4, <2>2, Zenon
    <2>4. Agrees(script, aliases, 0)
        BY <1>8, <2>1, Zenon
    <2>5. HandleConnect(Parse(data))
        BY <1>3, <1>9, Zenon
    <2>6. Advances(1) \/ Stops(1)
        BY <1>6, <1>9, <2>3, <2>4, <2>5, ConnectAdvances, Zenon
    <2> QED
        BY <1>5, <2>2, <2>6, Zenon
<1>10. CASE level # 0
    <2>1. PICK j \in Nat : j = Len(handled) /\ j >= 1 /\ k = j + 1
        <3>1. Len(handled) # 0
            BY <1>10, Zenon DEF HistoryInv
        <3> QED
            BY <1>5, <1>6, <3>1
    <2>2. /\ Greets(script) /\ Entitled(script[1].val) /\ level = ClientLevel(script)
        BY <1>10, Zenon DEF HistoryInv
    <2>3. level \in {3, 4, 5}
        BY <1>6, <1>10
    <2>4. /\ LengthFits(script, k) /\ IsPacket(script[k], level)
          /\ Carries(script[k], level, data)
        BY <1>4, <2>2, Zenon DEF Arrived
    <2>5. script[k].type = 1 => script[k].val = None
        <3>1. k > 1
            BY <2>1
        <3> QED
            BY <1>4, <2>2, <3>1, Zenon DEF Arrived
    <2>6. Ready(j, data)
        BY <1>8, <2>1, <2>2, <2>3, <2>4, <2>5, Zenon DEF Ready
    <2>7. Dispatch(Parse(data))
        BY <1>3, <1>10, Zenon
    <2>8. j + 1 \in 1..Len(script)
        BY <1>5, <2>1, Zenon
    <2>9. Advances(j + 1) \/ Stops(j + 1)
        BY <1>6, <2>6, <2>7, <2>8, DispatchAdvances, Zenon
    <2> QED
        BY <1>5, <2>1, <2>9, Zenon
<1> QED
    BY <1>9, <1>10

LEMMA HistoryInit == ASSUME Init PROVE HistoryInv
<1>1. /\ handled = <<>> /\ level = 0 /\ aliases = <<>> /\ reading = "header"
    BY Zenon DEF Init
<1>2. Len(handled) = 0 /\ 1..Len(handled) = {}
    BY <1>1
<1>3. Agrees(script, aliases, Len(handled))
    BY <1>1, <1>2, AgreesAtFirst, Zenon
<1> QED
    BY <1>1, <1>2, <1>3, Zenon DEF HistoryInv

\* No other step touches what the handlers have.
LEMMA HistoryUntouched ==
    ASSUME [Next]_vars, ~ReadPayload
    PROVE  /\ UNCHANGED <<script, level, aliases, handled, answers>>
           /\ reading = "closed" => reading' = "closed"
<1>1. CASE UNCHANGED vars
    BY <1>1, Zenon DEF vars, client, broker
<1>2. CASE Write
    BY <1>2, Zenon DEF Write, broker
<1>3. CASE \E n \in 0..Len(stream) : Break(n)
    BY <1>3, Zenon DEF Break, broker
<1>4. CASE ReadHeader
    <2>1. "header" # "closed"
        OBVIOUS
    <2> QED
        BY <1>4, <2>1, Zenon DEF ReadHeader, client
<1>5. CASE ReadLength
    <2>1. "length" # "closed"
        OBVIOUS
    <2>2. reading = "length" /\ UNCHANGED <<client, level, aliases, handled, answers>>
        BY <1>5, Zenon DEF ReadLength
    <2> QED
        BY <2>1, <2>2, Zenon DEF client
<1>6. CASE GiveUp
    BY <1>6, Zenon DEF GiveUp, client
<1> QED
    BY <1>1, <1>2, <1>3, <1>4, <1>5, <1>6, Zenon DEF Next, Read

LEMMA HistoryKept ==
    ASSUME HistoryInv, [Next]_vars, ~ReadPayload
    PROVE  HistoryInv'
<1>1. /\ UNCHANGED <<script, level, aliases, handled>>
      /\ reading' # "closed" => reading # "closed"
    BY HistoryUntouched, Zenon
<1> QED
    BY <1>1, Zenon DEF HistoryInv

LEMMA HistoryGrows ==
    ASSUME FramingInv, HistoryInv, ReadPayload
    PROVE  HistoryInv'
<1>1. PICK k \in Nat : k = Len(handled) + 1 /\ (Advances(k) \/ Stops(k))
    BY PayloadOutcome, Zenon
<1>2. script' = script /\ reading # "closed"
    <2>1. reading = "payload" /\ UNCHANGED client
        BY Zenon DEF ReadPayload
    <2>2. reading # "closed"
        BY <2>1
    <2> QED
        BY <2>1, <2>2, Zenon DEF client
<1>3. IsSeq(handled) /\ Len(handled) \in Nat
    BY Numbers, Zenon DEF FramingInv, Counts
<1>4. CASE Advances(k)
    <2>1. PICK m : m = Meaning(script, k) /\ handled' = Append(handled, m)
        BY <1>4, Zenon DEF Advances
    <2>2. /\ Len(handled') = Len(handled) + 1
          /\ \A i \in 1..Len(handled) : handled'[i] = handled[i]
          /\ handled'[Len(handled) + 1] = m
        <3>1. Len(Append(handled, m)) = Len(handled) + 1
            BY <1>3, IsSeqAppend
        <3>2. /\ \A i \in 1..Len(handled) : Append(handled, m)[i] = handled[i]
              /\ Append(handled, m)[Len(handled) + 1] = m
            BY <1>3, Appended
        <3> QED
            BY <2>1, <3>1, <3>2, Zenon
    <2>3. 1..k = 1..Len(handled) \cup {k} /\ Len(handled') = k /\ k # 0
        BY <1>1, <1>3, <2>2
    <2>4. \A i \in 1..Len(handled') : handled'[i] = Meaning(script, i)
        <3>1. \A i \in 1..Len(handled) : handled'[i] = Meaning(script, i)
            BY <2>2, Zenon DEF HistoryInv
        <3>2. handled'[k] = Meaning(script, k)
            BY <1>1, <2>1, <2>2, Zenon
        <3> QED
            BY <2>3, <3>1, <3>2, Zenon
    <2>5. /\ Greets(script) /\ Entitled(script[1].val)
          /\ level' \in {3, 4, 5} /\ level' = ClientLevel(script)
          /\ reading' # "closed" => script[k].type # 14 /\ Agrees(script, aliases', k)
        BY <1>4, Zenon DEF Advances
    <2>6. level' # 0
        BY <2>5
    <2>7. reading' # "closed" =>
              /\ \A i \in 1..Len(handled') : script[i].type # 14
              /\ Agrees(script, aliases', Len(handled'))
        BY <1>2, <2>3, <2>5, Zenon DEF HistoryInv
    <2> QED
        BY <1>2, <2>3, <2>4, <2>5, <2>6, <2>7, Zenon DEF HistoryInv
<1>5. CASE Stops(k)
    <2>1. handled' = handled /\ level' = level /\ reading' = "closed"
        BY <1>5, Zenon DEF Stops
    <2> QED
        BY <1>2, <2>1, Zenon DEF HistoryInv
<1> QED
    BY <1>1, <1>4, <1>5

\* What the connection does with a packet is a step of the channel.
LEMMA PayloadIsChannelStep ==
    ASSUME FramingInv, HistoryInv, ReadPayload
    PROVE  Channel!Pass \/ Channel!Close
<1>1. PICK k \in Nat : /\ k = Len(handled) + 1 /\ k \in 1..Len(sent)
                       /\ Advances(k) \/ Stops(k)
    BY PayloadOutcome, Zenon
<1>2. (reading # "closed") /\ UNCHANGED <<sent, broken>>
    <2>1. reading = "payload" /\ UNCHANGED client
        BY Zenon DEF ReadPayload
    <2>2. reading # "closed"
        BY <2>1
    <2> QED
        BY <2>1, <2>2, Zenon DEF client
<1>3. /\ sent[k].acceptable = Accepted(script, k)
      /\ sent[k].meaning = Meaning(script, k) /\ sent[k].final = MayEnd(script[k])
    BY <1>1, Zenon DEF FramingInv, Judged
<1>4. Channel!NextPacket = k /\ k <= Len(sent)
    <2>1. Len(sent) \in Nat
        BY Numbers, Zenon DEF FramingInv
    <2>2. k <= Len(sent)
        BY <1>1, <2>1
    <2> QED
        BY <1>1, <2>2, Zenon DEF Channel!NextPacket
<1>5. CASE Advances(k)
    <2>1. Channel!Acceptable
        BY <1>3, <1>4, <1>5, Zenon DEF Channel!Acceptable, Advances
    <2>2. handled' = Append(handled, sent[Channel!NextPacket].meaning)
        BY <1>3, <1>4, <1>5, Zenon DEF Advances
    <2>3. (reading' # "closed") \in BOOLEAN
        OBVIOUS
    <2>4. ~(reading' # "closed") => broken \/ sent[Channel!NextPacket].final
        BY <1>3, <1>4, <1>5, Zenon DEF Advances
    <2>5. Channel!Pass
        BY <1>2, <2>1, <2>2, <2>3, <2>4, Zenon DEF Channel!Pass
    <2> QED
        BY <2>5
<1>6. CASE Stops(k)
    <2>1. ~Channel!Acceptable
        BY <1>3, <1>4, <1>6, Zenon DEF Channel!Acceptable, Stops
    <2>2. (reading' # "closed") = FALSE /\ handled' = handled
        BY <1>6, Zenon DEF Stops
    <2>3. Channel!Close
        BY <1>2, <2>1, <2>2, Zenon DEF Channel!Close
    <2> QED
        BY <2>3
<1> QED
    BY <1>1, <1>5, <1>6

\* What handlers got is what the client meant, packet by packet.
THEOREM HistoryInvariance == Spec => []HistoryInv
<1>1. FramingInv /\ HistoryInv /\ [Next]_vars => HistoryInv'
    BY HistoryKept, HistoryGrows
<1> QED
    BY <1>1, HistoryInit, FramingInvariance, PTL DEF Spec

(***************************************************************************)
(* The whole connection, bytes, parsers and handlers, implements           *)
(* PacketChannel but for its fairness: whatever the sizes, the aliases and *)
(* the place where the connection breaks, the handlers get what the client *)
(* meant, in order, and the broker gives up only where it may.             *)
(***************************************************************************)
ChannelSafety == Channel!Init /\ [][Channel!Next]_(Channel!vars)

\* ImplementsChannel without its liveness, for every table of users: a client
\* whose stored password cannot be compared counts as not entitled, and the
\* packets that may end the connection are those PacketStream calls final.
THEOREM ConnectionIsChannel == Spec => ChannelSafety
<1>1. Init => Channel!Init
    BY Zenon DEF Init, Channel!Init
<1>2. FramingInv /\ HistoryInv /\ [Next]_vars => [Channel!Next]_(Channel!vars)
    <2>1. ASSUME FramingInv, HistoryInv, ReadPayload PROVE Channel!Next
        BY <2>1, PayloadIsChannelStep, Zenon DEF Channel!Next
    <2> QED
        BY <2>1, ChannelStep
<1> QED
    BY <1>1, <1>2, FramingInvariance, HistoryInvariance, PTL DEF Spec, ChannelSafety

(***************************************************************************)
(* The answers.                                                            *)
(***************************************************************************)
\* What the client waits for after its first k packets.
Expected(s, k) == FlattenSeq([i \in 1..k |-> AnswerTo(Meaning(s, i))])

\* Answers are read as what they are expected to be.
Match(out, want) ==
    /\ Len(out) = Len(want)
    /\ \A i \in 1..Len(out) : Heading(out[i]) = want[i]

\* The client was told what it waited for and then that it is refused.
Refused(out, want) ==
    /\ Len(out) = Len(want) + 1
    /\ \A i \in 1..Len(want) : Heading(out[i]) = want[i]
    /\ Heading(out[Len(want) + 1])[1] \in {2, 14}

\* All that is expected was sent; after it, a refusal at most.  Of the last
\* packet, if its handler may have raised, the answer may be missing.
AnswersInv ==
    \/ Match(answers, Expected(script, Len(handled)))
    \/ reading = "closed" /\ Refused(answers, Expected(script, Len(handled)))
    \/ /\ reading = "closed" /\ Len(handled) > 0
       /\ Stumbles(script[Len(handled)])
       /\ Match(answers, Expected(script, Len(handled) - 1))

\* A packet gets one answer at most.
LEMMA SingleAnswer ==
    ASSUME NEW p
    PROVE  AnswerTo(p) = <<>> \/ \E h : AnswerTo(p) = <<h>>
<1> DEFINE Single(out) == out = <<>> \/ \E h : out = <<h>>
<1>1. Single(<<>>) /\ \A h : Single(<<h>>)
    OBVIOUS
<1>2. <<>> \o <<>> = <<>>
    OBVIOUS
<1>3. CASE p.val = None
    <2>1. AnswerTo(p) = When(p.type = PacketType.PINGREQ, <<<<PacketType.PINGRESP, None>>>>)
        BY <1>3, Zenon DEF AnswerTo
    <2> QED
        BY <1>1, <2>1, Zenon DEF When
<1>4. CASE p.val # None /\ p.type = 3
    <2>1. PICK a, c : a = <<PacketType.PUBACK, p.val.id>> /\ c = <<PacketType.PUBREC, p.val.id>>
        OBVIOUS
    <2>2. AnswerTo(p) = When(p.val.qos = 1, <<a>>) \o When(p.val.qos = 2, <<c>>)
        BY <1>4, <2>1, TypeNumbers DEF AnswerTo
    <2>3. ~(p.val.qos = 1 /\ p.val.qos = 2)
        OBVIOUS
    <2>4. CASE p.val.qos = 1
        <3>1. AnswerTo(p) = <<a>> \o <<>>
            BY <2>2, <2>3, <2>4, Zenon DEF When
        <3> QED
            BY <3>1, EmptyConcat, Zenon
    <2>5. CASE p.val.qos # 1 /\ p.val.qos = 2
        <3>1. AnswerTo(p) = <<>> \o <<c>>
            BY <2>2, <2>5, Zenon DEF When
        <3> QED
            BY <3>1, EmptyConcat, Zenon
    <2>6. CASE p.val.qos # 1 /\ p.val.qos # 2
        <3>1. AnswerTo(p) = <<>> \o <<>>
            BY <2>2, <2>6, Zenon DEF When
        <3> QED
            BY <1>2, <3>1, Zenon
    <2> QED
        BY <2>4, <2>5, <2>6
<1>5. CASE p.val # None /\ p.type # 3
    <2>1. \/ AnswerTo(p) = <<>>
          \/ AnswerTo(p) = <<<<PacketType.CONNACK, None>>>>
          \/ AnswerTo(p) = <<<<PacketType.PUBREL, p.val>>>>
          \/ AnswerTo(p) = <<<<PacketType.PUBCOMP, p.val>>>>
          \/ AnswerTo(p) = <<<<PacketType.SUBACK, p.val.id>>>>
          \/ AnswerTo(p) = <<<<PacketType.UNSUBACK, p.val.id>>>>
        BY <1>5, TypeNumbers DEF AnswerTo
    <2> QED
        BY <2>1, Zenon
<1> QED
    BY <1>3, <1>4, <1>5

\* The answers to one packet more.
LEMMA ExpectedGrows ==
    ASSUME NEW s, NEW k \in Nat
    PROVE  /\ Expected(s, k + 1) = Expected(s, k) \o AnswerTo(Meaning(s, k + 1))
           /\ IsSeq(Expected(s, k))
<1> DEFINE A(i) == AnswerTo(Meaning(s, i))
           S == {A(i)[1] : i \in 1..(k + 1)}
           b == [i \in 1..k |-> A(i)]
           c == [i \in 1..(k + 1) |-> A(i)]
<1>1. ASSUME NEW i \in 1..(k + 1) PROVE A(i) \in Seq(S)
    <2>1. CASE A(i) = <<>>
        BY <2>1
    <2>2. CASE \E h : A(i) = <<h>>
        <3>1. PICK h : A(i) = <<h>>
            BY <2>2
        <3>2. A(i)[1] = h
            BY <3>1
        <3>3. h \in S
            BY <3>2, Zenon
        <3>4. <<h>> \in Seq(S)
            <4> HIDE DEF S
            <4> QED
                BY <3>3
        <3> QED
            BY <3>1, <3>4, Zenon
    <2> QED
        BY <2>1, <2>2, SingleAnswer, Zenon
<1> HIDE DEF S, A
<1>2. PICK x \in Seq(S) : x = A(k + 1)
    <2>1. k + 1 \in 1..(k + 1)
        OBVIOUS
    <2> QED
        BY <1>1, <2>1
<1>3. b \in Seq(Seq(S))
    BY <1>1
<1>4. c = Append(b, x)
    BY <1>1, <1>2
<1>5. FlattenSeq(Append(b, x)) = FlattenSeq(b) \o x /\ FlattenSeq(b) \in Seq(S)
    <2> HIDE DEF b
    <2> QED
        BY <1>2, <1>3, FlattenAppend
<1>6. Expected(s, k) = FlattenSeq(b) /\ Expected(s, k + 1) = FlattenSeq(c)
    BY Zenon DEF Expected, A
<1>7. x = AnswerTo(Meaning(s, k + 1))
    BY <1>2 DEF A
<1> HIDE DEF b, c
<1> QED
    BY <1>4, <1>5, <1>6, <1>7, Zenon DEF IsSeq

LEMMA ExpectedAtFirst == ASSUME NEW s PROVE Expected(s, 0) = <<>>
<1>1. [i \in 1..0 |-> AnswerTo(Meaning(s, i))] = <<>>
    OBVIOUS
<1> QED
    BY <1>1, FlattenEmpty, Zenon DEF Expected

\* Something more of a sequence.
LEMMA NothingAdded ==
    ASSUME NEW q, IsSeq(q)
    PROVE  q \o <<>> = q /\ Len(q) \in Nat
<1>1. PICK S : q \in Seq(S)
    BY DEF IsSeq
<1> QED
    BY <1>1, ConcatEmptySeq

LEMMA LastAdded ==
    ASSUME NEW q, IsSeq(q), NEW x
    PROVE  /\ Len(q \o <<x>>) = Len(q) + 1
           /\ \A i \in 1..Len(q) : (q \o <<x>>)[i] = q[i]
           /\ (q \o <<x>>)[Len(q) + 1] = x
<1>1. Append(q, x) = q \o <<x>>
    BY AddedAtEnd
<1>3. Len(Append(q, x)) = Len(q) + 1
    BY IsSeqAppend
<1>4. /\ \A k \in 1..Len(q) : Append(q, x)[k] = q[k]
      /\ Append(q, x)[Len(q) + 1] = x
    BY Appended, Zenon
<1> QED
    BY <1>1, <1>3, <1>4, Zenon

LEMMA MatchGrows ==
    ASSUME NEW a, IsSeq(a), NEW want, IsSeq(want), Match(a, want),
           NEW out, NEW reply, Replies(out, reply)
    PROVE  Match(a \o out, want \o reply)
<1>1. CASE out = <<>> /\ reply = <<>>
    <2>1. a \o <<>> = a /\ want \o <<>> = want
        BY NothingAdded, Zenon
    <2> QED
        BY <1>1, <2>1, Zenon
<1>2. CASE \E b : out = <<b>> /\ reply = <<Heading(b)>>
    <2>1. PICK b, h : out = <<b>> /\ h = Heading(b) /\ reply = <<h>>
        BY <1>2, Zenon
    <2>2. PICK n \in Nat : n = Len(a) /\ n = Len(want)
        BY NothingAdded, Zenon DEF Match
    <2>3. /\ Len(a \o <<b>>) = n + 1 /\ (a \o <<b>>)[n + 1] = b
          /\ \A i \in 1..n : (a \o <<b>>)[i] = a[i]
        <3>1. /\ Len(a \o <<b>>) = Len(a) + 1 /\ (a \o <<b>>)[Len(a) + 1] = b
              /\ \A i \in 1..Len(a) : (a \o <<b>>)[i] = a[i]
            BY LastAdded
        <3> QED
            BY <2>2, <3>1, Zenon
    <2>4. /\ Len(want \o <<h>>) = n + 1 /\ (want \o <<h>>)[n + 1] = h
          /\ \A i \in 1..n : (want \o <<h>>)[i] = want[i]
        <3>1. /\ Len(want \o <<h>>) = Len(want) + 1 /\ (want \o <<h>>)[Len(want) + 1] = h
              /\ \A i \in 1..Len(want) : (want \o <<h>>)[i] = want[i]
            BY LastAdded
        <3> QED
            BY <2>2, <3>1, Zenon
    <2>5. 1..(n + 1) = 1..n \cup {n + 1}
        BY <2>2
    <2>6. \A i \in 1..n : Heading(a[i]) = want[i]
        BY <2>2, Zenon DEF Match
    <2> QED
        BY <2>1, <2>3, <2>4, <2>5, <2>6, Zenon DEF Match
<1> QED
    BY <1>1, <1>2, Zenon DEF Replies

LEMMA AnswersInit == ASSUME Init PROVE AnswersInv
<1>1. handled = <<>> /\ answers = <<>>
    BY Zenon DEF Init
<1>2. Len(handled) = 0 /\ Len(answers) = 0 /\ 1..Len(answers) = {}
    BY <1>1
<1>3. Expected(script, Len(handled)) = <<>>
    BY <1>2, ExpectedAtFirst, Zenon
<1>4. Match(answers, Expected(script, Len(handled)))
    BY <1>1, <1>2, <1>3, Zenon DEF Match
<1> QED
    BY <1>4, Zenon DEF AnswersInv

LEMMA AnswersKept ==
    ASSUME AnswersInv, [Next]_vars, ~ReadPayload
    PROVE  AnswersInv'
<1>1. /\ UNCHANGED <<script, handled, answers>>
      /\ reading = "closed" => reading' = "closed"
    BY HistoryUntouched, Zenon
<1> QED
    BY <1>1, Zenon DEF AnswersInv

LEMMA AnswersGrow ==
    ASSUME FramingInv, HistoryInv, AnswersInv, ReadPayload
    PROVE  AnswersInv'
<1>1. PICK k \in Nat : k = Len(handled) + 1 /\ (Advances(k) \/ Stops(k))
    BY PayloadOutcome, Zenon
<1>2. script' = script /\ reading # "closed"
    <2>1. reading = "payload" /\ UNCHANGED client
        BY Zenon DEF ReadPayload
    <2>2. reading # "closed"
        BY <2>1
    <2> QED
        BY <2>1, <2>2, Zenon DEF client
<1>3. IsSeq(handled) /\ IsSeq(answers) /\ Len(handled) \in Nat
    BY Numbers, Zenon DEF FramingInv, Counts
<1>4. PICK want : want = Expected(script, Len(handled))
    OBVIOUS
<1>5. IsSeq(want)
    BY <1>3, <1>4, ExpectedGrows, Zenon
<1>6. Match(answers, want)
    BY <1>2, <1>4, Zenon DEF AnswersInv
<1>7. CASE Advances(k)
    <2>1. handled' = Append(handled, Meaning(script, k))
        BY <1>7, Zenon DEF Advances
    <2>2. Len(handled') = Len(handled) + 1
        <3>1. \A x : Len(Append(handled, x)) = Len(handled) + 1
            BY <1>3, IsSeqAppend, Zenon
        <3> QED
            BY <2>1, <3>1, Zenon
    <2>3. CASE \E out : answers' = answers \o out /\ Replies(out, AnswerTo(Meaning(script, k)))
        <3>1. PICK out : answers' = answers \o out /\ Replies(out, AnswerTo(Meaning(script, k)))
            BY <2>3
        <3>2. Expected(script, Len(handled')) = want \o AnswerTo(Meaning(script, k))
            BY <1>1, <1>3, <1>4, <2>2, ExpectedGrows, Zenon
        <3>3. Match(answers', Expected(script, Len(handled')))
            BY <1>3, <1>5, <1>6, <3>1, <3>2, MatchGrows, Zenon
        <3> QED
            BY <1>2, <3>3, Zenon DEF AnswersInv
    <2>4. CASE answers' = answers /\ reading' = "closed" /\ Stumbles(script[k])
        <3>1. Len(handled') = k /\ k > 0 /\ k - 1 = Len(handled)
            BY <1>1, <1>3, <2>2
        <3>2. Match(answers', Expected(script, Len(handled') - 1))
            BY <1>4, <1>6, <2>4, <3>1, Zenon
        <3> QED
            BY <1>2, <2>4, <3>1, <3>2, Zenon DEF AnswersInv
    <2> QED
        BY <1>7, <2>3, <2>4, Zenon DEF Advances
<1>8. CASE Stops(k)
    <2>1. handled' = handled /\ reading' = "closed"
        BY <1>8, Zenon DEF Stops
    <2>2. PICK out : answers' = answers \o out /\ Refuses(out)
        BY <1>8, Zenon DEF Stops
    <2>3. CASE out = <<>>
        <3>1. answers' = answers
            BY <1>3, <2>2, <2>3, NothingAdded, Zenon
        <3> QED
            BY <1>2, <1>4, <1>6, <2>1, <3>1, Zenon DEF AnswersInv
    <2>4. CASE \E b : out = <<b>> /\ Heading(b)[1] \in {2, 14}
        <3>1. PICK b : out = <<b>> /\ Heading(b)[1] \in {2, 14}
            BY <2>4
        <3>2. /\ Len(answers') = Len(answers) + 1
              /\ \A i \in 1..Len(answers) : answers'[i] = answers[i]
              /\ answers'[Len(answers) + 1] = b
            <4>1. /\ Len(answers \o <<b>>) = Len(answers) + 1
                  /\ \A i \in 1..Len(answers) : (answers \o <<b>>)[i] = answers[i]
                  /\ (answers \o <<b>>)[Len(answers) + 1] = b
                BY <1>3, LastAdded, Zenon
            <4> QED
                BY <2>2, <3>1, <4>1, Zenon
        <3>3. Refused(answers', want)
            BY <1>6, <3>1, <3>2, Zenon DEF Match, Refused
        <3> QED
            BY <1>2, <1>4, <2>1, <3>3, Zenon DEF AnswersInv
    <2> QED
        BY <2>2, <2>3, <2>4, Zenon DEF Refuses
<1> QED
    BY <1>1, <1>7, <1>8

\* What RequestsAnswered says of the first m packets, from what was expected.
LEMMA AnswersSuffice ==
    ASSUME FramingInv, NEW m \in Nat, m <= Len(handled),
           \/ Match(answers, Expected(script, m))
           \/ reading = "closed" /\ Refused(answers, Expected(script, m))
    PROVE  AnswersTo(m)
<1>1. PICK want : want = FlattenSeq([i \in 1..m |-> AnswerTo(sent[i].meaning)])
    OBVIOUS
<1>2. want = Expected(script, m)
    <2>1. Len(handled) \in Nat /\ Len(sent) \in Nat /\ Len(handled) <= Len(sent)
        BY Numbers, Zenon DEF FramingInv, Counts
    <2>2. 1..m \subseteq 1..Len(sent)
        BY <2>1
    <2>3. \A i \in 1..m : sent[i].meaning = Meaning(script, i)
        BY <2>2, Zenon DEF FramingInv, Judged
    <2>4. [i \in 1..m |-> AnswerTo(sent[i].meaning)]
              = [i \in 1..m |-> AnswerTo(Meaning(script, i))]
        BY <2>3, Zenon
    <2> QED
        BY <1>1, <2>4, Zenon DEF Expected
<1>3. PICK n \in Nat : n = Len(want)
    <2>1. IsSeq(want)
        BY <1>2, ExpectedGrows, Zenon
    <2> QED
        BY <2>1, NothingAdded, Zenon
<1>4. Match(answers, want) \/ (reading = "closed" /\ Refused(answers, want))
    BY <1>2, Zenon
<1>5. /\ Len(answers) \in n..(n + 1)
      /\ \A i \in 1..Len(answers) :
            IF i <= n THEN Heading(answers[i]) = want[i]
            ELSE reading = "closed" /\ Heading(answers[i])[1] \in {2, 14}
    <2>1. CASE Match(answers, want)
        BY <1>3, <2>1 DEF Match
    <2>2. CASE reading = "closed" /\ Refused(answers, want)
        <3>1. \A i \in 1..(n + 1) : i <= n \/ i = n + 1
            BY <1>3
        <3>2. ~(n + 1 <= n) /\ 1..n \subseteq 1..(n + 1) /\ n + 1 \in n..(n + 1)
            BY <1>3
        <3>3. \A i \in 1..(n + 1) : i <= n => i \in 1..n
            BY <1>3
        <3> QED
            BY <1>3, <2>2, <3>1, <3>2, <3>3, Zenon DEF Refused
    <2> QED
        BY <1>4, <2>1, <2>2
<1>6. {PacketType.CONNACK, PacketType.DISCONNECT} = {2, 14}
    BY TypeNumbers, Zenon
<1> QED
    BY <1>1, <1>3, <1>5, <1>6, Zenon DEF AnswersTo

LEMMA AnswersInvSuffices ==
    ASSUME FramingInv, AnswersInv
    PROVE  RequestsAnswered
<1>1. /\ Len(handled) \in Nat /\ Len(sent) \in Nat /\ Len(handled) <= Len(sent)
      /\ Len(handled) <= Len(handled)
    BY Numbers DEF FramingInv, Counts
<1>2. CASE \/ Match(answers, Expected(script, Len(handled)))
           \/ reading = "closed" /\ Refused(answers, Expected(script, Len(handled)))
    BY <1>1, <1>2, AnswersSuffice, Zenon DEF RequestsAnswered
<1>3. CASE /\ reading = "closed" /\ Len(handled) > 0
           /\ Stumbles(script[Len(handled)])
           /\ Match(answers, Expected(script, Len(handled) - 1))
    <2>1. PICK m \in Nat : m = Len(handled) - 1 /\ m <= Len(handled)
        BY <1>1, <1>3
    <2>2. AnswersTo(m)
        BY <1>3, <2>1, AnswersSuffice, Zenon
    <2>3. handled # <<>>
        BY <1>3
    <2>4. Len(handled) \in 1..Len(sent)
        BY <1>1, <1>3
    <2>5. sent[Len(handled)].meaning = Meaning(script, Len(handled))
        BY <2>4, Zenon DEF FramingInv, Judged
    <2>6. script[Len(handled)].type = 8
        BY <1>3, TypeNumbers, Zenon DEF Stumbles
    <2>7. script[Len(handled)].type # 3
        BY <2>6
    <2>8. Meaning(script, Len(handled)) = script[Len(handled)]
        BY <2>7, TypeNumbers, Zenon DEF Meaning, IsMessage
    <2> QED
        BY <1>3, <2>1, <2>2, <2>3, <2>5, <2>8, Zenon DEF RequestsAnswered
<1> QED
    BY <1>2, <1>3, Zenon DEF AnswersInv

\* Every request that was handled is answered, in order, with what the client
\* can read.  The one exception is the last packet of a connection, if it is a
\* SUBSCRIBE with a filter for a topic whose retained entry may be None.
THEOREM EveryRequestAnswered == Spec => []RequestsAnswered
<1>1. FramingInv /\ HistoryInv /\ AnswersInv /\ [Next]_vars => AnswersInv'
    BY AnswersKept, AnswersGrow
<1>2. FramingInv /\ AnswersInv => RequestsAnswered
    BY AnswersInvSuffices
<1> QED
    BY <1>1, <1>2, AnswersInit, FramingInvariance, HistoryInvariance, PTL DEF Spec

(***************************************************************************)
(* Messages passed on.                                                     *)
(***************************************************************************)
LEMMA QuotientBelow ==
    ASSUME NEW n \in Nat, NEW m \in Nat, n < Base * m
    PROVE  n \div Base \in Nat /\ n \div Base < m
<1>1. PICK q \in Nat, r \in 0..(Base - 1) : q = n \div Base /\ n = Base * q + r
    BY Division
<1>2. PICK b \in Nat : b = Base
    BY BaseAssumption
<1>3. ASSUME q >= m PROVE FALSE
    <2>1. PICK d \in Nat : q = m + d
        <3>1. q - m \in Nat /\ q = m + (q - m)
            BY <1>3
        <3> QED
            BY <3>1
    <2>2. b * q = b * m + b * d
        BY <2>1, SMTT(30)
    <2>3. PICK x \in Nat, y \in Nat : x = b * m /\ y = b * d
        OBVIOUS
    <2> QED
        BY <1>1, <1>2, <2>2, <2>3
<1> QED
    BY <1>1, <1>3

\* Four digits count up to the fourth power of the base.
LEMMA FourDigitsSuffice ==
    ASSUME NEW n \in Nat, n < Base * Base * Base * Base
    PROVE  Len(EncodeVarint[n]) <= 4
<1> DEFINE L(k) == Len(EncodeVarint[k])
<1>1. PICK b \in Nat : b = Base /\ b >= 3
    BY BaseAssumption
<1>2. PICK b2 \in Nat, b3 \in Nat : b2 = b * b /\ b3 = b * b2
    OBVIOUS
<1>3. n < b * b3
    <2>1. b * b * b * b = b * b3
        BY <1>2
    <2> QED
        BY <1>1, <2>1
<1>4. ASSUME NEW k \in Nat
      PROVE  /\ L(k) \in Nat
             /\ k < b => L(k) = 1
             /\ k >= b => L(k) = 1 + L(k \div Base)
             /\ \A m \in Nat : k < b * m => k \div Base \in Nat /\ k \div Base < m
    <2>1. /\ L(k) \in Nat /\ L(k) >= 1
          /\ k < Base => L(k) = 1
          /\ k >= Base => /\ k \div Base \in Nat /\ k \div Base < k
                          /\ L(k) = 1 + L(k \div Base)
        BY LengthOfDigits
    <2>2. \A m \in Nat : k < Base * m => k \div Base \in Nat /\ k \div Base < m
        BY QuotientBelow, Zenon
    <2> QED
        BY <1>1, <2>1, <2>2
<1> HIDE DEF L
<1>5. ASSUME NEW k \in Nat, k < b2 PROVE L(k) <= 2
    <2>1. k \div Base \in Nat /\ k \div Base < b
        BY <1>2, <1>4, <1>5
    <2>2. L(k \div Base) = 1
        BY <1>4, <2>1
    <2> QED
        BY <1>4, <2>2
<1>6. ASSUME NEW k \in Nat, k < b3 PROVE L(k) <= 3
    <2>1. k \div Base \in Nat /\ k \div Base < b2
        BY <1>2, <1>4, <1>6
    <2>2. L(k \div Base) <= 2 /\ L(k \div Base) \in Nat
        BY <1>4, <1>5, <2>1
    <2> QED
        BY <1>4, <2>2
<1>7. L(n) <= 4
    <2>1. n \div Base \in Nat /\ n \div Base < b3
        BY <1>3, <1>4
    <2>2. L(n \div Base) <= 3 /\ L(n \div Base) \in Nat
        BY <1>4, <1>6, <2>1
    <2> QED
        BY <1>4, <2>2
<1> QED
    BY <1>7 DEF L

\* The parts of a message.
LEMMA PublishSize ==
    ASSUME NEW pub, IsPublish(pub), NEW l
    PROVE  /\ Len(pub.topic) \in Nat /\ Len(PublishId(pub)) \in Nat
           /\ Len(PropsBytes(pub.props, l)) \in Nat /\ Len(pub.payload) \in Nat
           /\ Len(PublishBody(pub, l)) =
                 (2 + Len(pub.topic)) + Len(PublishId(pub))
                     + Len(PropsBytes(pub.props, l)) + Len(pub.payload)
<1>1. PICK t \in Seq(Nat), d \in Seq(Nat) : t = pub.topic /\ d = pub.payload
    <2>1. pub.topic \in Seq(0..255) /\ pub.payload \in Seq(0..255)
        BY Zenon DEF IsPublish, IsText
    <2> QED
        BY <2>1, NumbersOfBytes, Zenon
<1>2. PICK id \in Seq(Nat) : id = PublishId(pub)
    <2>1. <<>> \in Seq(Nat)
        OBVIOUS
    <2>2. pub.qos > 0 => pub.id \in Nat /\ pub.id # None
        <3>1. pub.qos > 0 => IsValue("u16", pub.id) /\ pub.id # None
            BY Zenon DEF IsPublish
        <3> QED
            BY <3>1 DEF IsValue
    <2>3. pub.qos > 0 => PublishId(pub) = Word(pub.id)
        BY <2>2, Zenon DEF PublishId, When
    <2>4. pub.qos > 0 => Word(pub.id) \in Seq(Nat)
        BY <2>2, WordBytes
    <2>5. ~(pub.qos > 0) => PublishId(pub) = <<>>
        BY Zenon DEF PublishId, When
    <2> QED
        BY <2>1, <2>3, <2>4, <2>5, Zenon
<1>3. PICK props \in Seq(Nat) : props = PropsBytes(pub.props, l)
    <2>1. <<>> \in Seq(Nat)
        OBVIOUS
    <2>2. IsProps(pub.props)
        BY Zenon DEF IsPublish
    <2>3. EncodeProps(pub.props) \in Seq(Nat)
        BY <2>2, PropsSize, Zenon
    <2> QED
        BY <2>1, <2>3, Zenon DEF PropsBytes, When
<1>4. PICK e \in Seq(Nat) : e = EncodeText(t) /\ Len(e) = 2 + Len(t)
    BY TextBytes
<1>5. PublishBody(pub, l) = e \o id \o props \o d
    BY <1>1, <1>2, <1>3, <1>4, Zenon DEF PublishBody
<1>6. PICK x \in Seq(Nat) : x = e \o id /\ Len(x) = Len(e) + Len(id)
    BY Joined
<1>7. PICK y \in Seq(Nat) : y = x \o props /\ Len(y) = Len(x) + Len(props)
    BY Joined
<1>8. Len(y \o d) = Len(y) + Len(d)
    BY Joined
<1>9. Len(PublishBody(pub, l)) = Len(y \o d)
    BY <1>5, <1>6, <1>7, Zenon
<1>10. Len(t) \in Nat /\ Len(id) \in Nat /\ Len(props) \in Nat /\ Len(d) \in Nat
    OBVIOUS
<1>11. Len(PublishBody(pub, l)) = (2 + Len(t)) + Len(id) + Len(props) + Len(d)
    BY <1>4, <1>6, <1>7, <1>8, <1>9, <1>10
<1> QED
    BY <1>1, <1>2, <1>3, <1>10, <1>11, Zenon

\* The properties of a message in another protocol level.
LEMMA OtherLevel ==
    ASSUME NEW props, IsProps(props), NEW c, c # 5 => props = <<>>, NEW l
    PROVE  Len(PropsBytes(props, l)) <= Len(PropsBytes(props, c)) + 1
<1>1. PICK n \in Nat : n = Len(EncodeProps(props))
    BY PropsSize
<1>2. Len(<<>>) = 0 /\ Len(<<0>>) = 1
    OBVIOUS
<1>3. \A m : PropsBytes(props, m) = IF m = 5 THEN EncodeProps(props) ELSE <<>>
    BY Zenon DEF PropsBytes, When
<1>4. c # 5 => n = 1
    BY <1>1, <1>2, NoProps, Zenon
<1>5. \A m : Len(PropsBytes(props, m)) = IF m = 5 THEN n ELSE 0
    BY <1>1, <1>2, <1>3, Zenon
<1> QED
    BY <1>4, <1>5

\* With another topic, in another protocol level, a message grows by that
\* topic and one byte at most.
LEMMA PassedOnSize ==
    ASSUME NEW pub, IsPublish(pub), NEW c, c # 5 => pub.props = <<>>, NEW l,
           NEW topic, IsText(topic), NEW new, new = [pub EXCEPT !.topic = topic]
    PROVE  /\ IsPublish(new)
           /\ Len(PublishBody(new, l)) <= Len(PublishBody(pub, c)) + 1 + Len(topic)
<1>1. pub = [topic |-> pub.topic, id |-> pub.id, props |-> pub.props,
             payload |-> pub.payload, qos |-> pub.qos, retain |-> pub.retain,
             dup |-> pub.dup]
    BY Zenon DEF IsPublish
<1>2. /\ new = [topic |-> topic, id |-> pub.id, props |-> pub.props,
                payload |-> pub.payload, qos |-> pub.qos, retain |-> pub.retain,
                dup |-> pub.dup]
      /\ new.topic = topic /\ new.id = pub.id /\ new.props = pub.props
      /\ new.payload = pub.payload /\ new.qos = pub.qos /\ new.retain = pub.retain
      /\ new.dup = pub.dup
    BY <1>1
<1>3. IsPublish(new)
    BY <1>2, Zenon DEF IsPublish
<1>4. PublishId(new) = PublishId(pub)
    BY <1>2, Zenon DEF PublishId
<1>5. PICK i \in Nat, d \in Nat, t \in Nat, u \in Nat :
        /\ i = Len(PublishId(pub)) /\ d = Len(pub.payload)
        /\ t = Len(pub.topic) /\ u = Len(topic)
    BY <1>2, <1>3, PublishSize, Zenon
<1>6. PICK x \in Nat, y \in Nat :
        x = Len(PropsBytes(pub.props, c)) /\ y = Len(PropsBytes(pub.props, l))
    BY PublishSize, Zenon
<1>7. y <= x + 1
    <2>1. IsProps(pub.props)
        BY Zenon DEF IsPublish
    <2>2. Len(PropsBytes(pub.props, l)) <= Len(PropsBytes(pub.props, c)) + 1
        BY <2>1, OtherLevel, Zenon
    <2> QED
        BY <1>6, <2>2, Zenon
<1>8. Len(PublishBody(pub, c)) = (2 + t) + i + x + d
    <2>1. Len(PublishBody(pub, c)) =
              (2 + Len(pub.topic)) + Len(PublishId(pub))
                  + Len(PropsBytes(pub.props, c)) + Len(pub.payload)
        BY PublishSize, Zenon
    <2> QED
        BY <1>5, <1>6, <2>1, Zenon
<1>9. Len(PublishBody(new, l)) = (2 + u) + i + y + d
    <2>1. Len(PublishBody(new, l)) =
              (2 + Len(new.topic)) + Len(PublishId(new))
                  + Len(PropsBytes(new.props, l)) + Len(new.payload)
        BY <1>3, PublishSize, Zenon
    <2> QED
        BY <1>2, <1>4, <1>5, <1>6, <2>1, Zenon
<1>10. Len(PublishBody(new, l)) <= Len(PublishBody(pub, c)) + 1 + Len(topic)
    <2>1. PICK v, w : v = Len(PublishBody(new, l)) /\ w = Len(PublishBody(pub, c))
        OBVIOUS
    <2>2. v = (2 + u) + i + y + d /\ w = (2 + t) + i + x + d
        BY <1>8, <1>9, <2>1, Zenon
    <2>3. v <= w + 1 + u
        BY <1>7, <2>2
    <2> QED
        BY <1>5, <2>1, <2>3, Zenon
<1> QED
    BY <1>3, <1>10

\* The body of a message that _read_packet lets pass.
LEMMA BodyWithinLimit ==
    ASSUME NEW s, NEW k, LengthFits(s, k), IsMessage(s[k]), IsPublish(s[k].val)
    PROVE  /\ PublishBody(s[k].val, ClientLevel(s)) \in Seq(Nat)
           /\ Len(PublishBody(s[k].val, ClientLevel(s))) \in Nat
           /\ Len(PublishBody(s[k].val, ClientLevel(s))) <= MaxPacket
<1>1. PICK pub, l, p : pub = s[k].val /\ l = ClientLevel(s) /\ p = s[k]
    OBVIOUS
<1>2. PICK body \in Seq(Nat) : body = PublishBody(pub, l)
    BY <1>1, PublishRead, Zenon
<1>3. PICK flags \in Nat : flags = PublishFlags(pub)
    <2>1. pub.qos \in 0..3 /\ pub.retain \in BOOLEAN /\ pub.dup \in BOOLEAN
        BY <1>1, Zenon DEF IsPublish
    <2>2. PublishFlags(pub) \in 0..15
        BY <2>1, PublishFlagsRead, Zenon
    <2> QED
        BY <2>2
<1>4. PICK bytes : bytes = Written(s, k)
    OBVIOUS
<1>5. PICK type \in Nat : type = 3
    OBVIOUS
<1>6. bytes = BuildPacket(type, flags, body)
    <2>1. p.type = 3 /\ p.val # None /\ p.val = pub
        BY <1>1, TypeNumbers, Zenon DEF IsMessage
    <2>2. PacketBytes(p, l) = EncodePublish(p.val, l)
        BY <2>1, TypeNumbers DEF PacketBytes
    <2>3. EncodePublish(pub, l) = BuildPacket(3, PublishFlags(pub), PublishBody(pub, l))
        BY PublishPacket, Zenon
    <2> QED
        BY <1>1, <1>2, <1>3, <1>4, <1>5, <2>1, <2>2, <2>3, Zenon DEF Written
<1>7. PICK code \in Seq(Nat) : code = EncodeVarint[Len(body)]
    BY CodeOfLength
<1>8. Built(bytes, 16 * type + flags, code, body)
    BY <1>6, <1>7, BuiltParts, Zenon
<1>9. /\ Len(body) \in Nat /\ Len(code) \in Nat
      /\ Len(bytes) = (1 + Len(code)) + Len(body)
    BY <1>8, Zenon DEF Built
<1>10. PICK n \in 1..4 : /\ (Len(bytes) - 1) - n \in 0..MaxPacket
                         /\ Len(EncodeVarint[(Len(bytes) - 1) - n]) = n
    BY <1>4, Zenon DEF LengthFits
<1>16. PICK m \in 0..MaxPacket : m = (Len(bytes) - 1) - n
    BY <1>10, Zenon
<1>11. m \in Nat /\ m = (Len(bytes) - 1) - n /\ m <= MaxPacket
    BY <1>16, StreamAssumption
<1>12. PICK size \in Nat : size = Len(body)
    BY <1>9
<1>13. Len(EncodeVarint[m]) = n /\ Len(EncodeVarint[size]) = Len(code)
    BY <1>7, <1>10, <1>11, <1>12, Zenon
<1>14. Len(EncodeVarint[m]) + m = Len(EncodeVarint[size]) + size
    BY <1>9, <1>11, <1>12, <1>13
<1>15. m = size
    BY <1>14, OneSize
<1> QED
    BY <1>1, <1>2, <1>11, <1>12, <1>15, Zenon

\* What was handled was within the limit.
WithinLimit == \A i \in 1..Len(handled) : LengthFits(script, i)

LEMMA LimitInit == ASSUME Init PROVE WithinLimit
<1>1. handled = <<>>
    BY Zenon DEF Init
<1>2. 1..Len(handled) = {}
    BY <1>1
<1> QED
    BY <1>2, Zenon DEF WithinLimit

LEMMA LimitKept ==
    ASSUME FramingInv, HistoryInv, WithinLimit, [Next]_vars
    PROVE  WithinLimit'
<1>1. CASE ~ReadPayload
    <2>1. UNCHANGED <<script, handled>>
        BY <1>1, HistoryUntouched, Zenon
    <2> QED
        BY <2>1, Zenon DEF WithinLimit
<1>2. CASE ReadPayload
    <2>1. PICK k \in Nat : k = Len(handled) + 1 /\ (Advances(k) \/ Stops(k))
        BY <1>2, PayloadOutcome, Zenon
    <2>2. script' = script
        BY <1>2, Zenon DEF ReadPayload, client
    <2>3. IsSeq(handled) /\ Len(handled) \in Nat
        BY Numbers, Zenon DEF FramingInv, Counts
    <2>4. CASE Advances(k)
        <3>1. PICK m : handled' = Append(handled, m)
            BY <2>4, Zenon DEF Advances
        <3>2. Len(Append(handled, m)) = Len(handled) + 1
            BY <2>3, IsSeqAppend
        <3>3. 1..Len(handled') = 1..Len(handled) \cup {k}
            BY <2>1, <2>3, <3>1, <3>2
        <3>4. LengthFits(script, k)
            BY <2>4, Zenon DEF Advances, Accepted, LengthFits, Written
        <3> QED
            BY <2>2, <3>3, <3>4, Zenon DEF WithinLimit
    <2>5. CASE Stops(k)
        <3>1. handled' = handled
            BY <2>5, Zenon DEF Stops
        <3> QED
            BY <2>2, <3>1, Zenon DEF WithinLimit
    <2> QED
        BY <2>1, <2>4, <2>5
<1> QED
    BY <1>1, <1>2

\* A message is read as it is written, whatever the level, if its length can
\* be written.
LEMMA ReadAsWritten ==
    ASSUME NEW pub, IsPublish(pub), NEW l, Small(PublishBody(pub, l)),
           NEW bytes, bytes = EncodePublish(pub, l),
           NEW len, len = DecodeVarint(bytes, 1),
           NEW r, r = ParsePublish(bytes[1] % 16, SubSeq(bytes, len.at + 1, Len(bytes)), l)
    PROVE  /\ len.ok /\ len.at + len.val = Len(bytes)
           /\ r.ok
           /\ r.val = IF l = 5 THEN pub ELSE [pub EXCEPT !.props = <<>>]
<1>1. PICK body \in Seq(Nat) : body = PublishBody(pub, l)
    BY PublishRead, Zenon
<1>2. PICK type \in 0..15 : type = 3
    OBVIOUS
<1>3. PICK flags \in 0..15 : flags = PublishFlags(pub)
    <2>1. pub.qos \in 0..3 /\ pub.retain \in BOOLEAN /\ pub.dup \in BOOLEAN
        BY Zenon DEF IsPublish
    <2> QED
        BY <2>1, PublishFlagsRead, Zenon
<1>4. bytes = BuildPacket(type, flags, body)
    BY <1>1, <1>2, <1>3, PublishPacket, Zenon
<1>5. PICK at \in Nat : OpensTo(bytes, type, flags, body, at)
    BY <1>1, <1>4, Opened, Zenon
<1>6. /\ len = Got(Len(body), at) /\ at + Len(body) = Len(bytes)
      /\ SubSeq(bytes, at + 1, Len(bytes)) = body /\ bytes[1] % 16 = flags
    BY <1>5, Zenon DEF OpensTo
<1>7. len.ok /\ len.val = Len(body) /\ len.at = at
    BY <1>6 DEF Got
<1>8. PICK last : last = IF l = 5 THEN pub ELSE [pub EXCEPT !.props = <<>>]
    OBVIOUS
<1>9. ParsePublish(PublishFlags(pub), PublishBody(pub, l), l)
          = Got(IF l = 5 THEN pub ELSE [pub EXCEPT !.props = <<>>],
                Len(PublishBody(pub, l)))
    BY PublishRead, Zenon
<1>10. r = Got(last, Len(body))
    BY <1>1, <1>3, <1>6, <1>7, <1>8, <1>9, Zenon
<1>11. r.ok /\ r.val = last
    BY <1>10 DEF Got
<1> QED
    BY <1>6, <1>7, <1>8, <1>11, Zenon

\* What is meant by a message within the limit can be written.
LEMMA MeaningFits ==
    ASSUME RoomForTopics, NEW s \in Scripts, NEW k \in Nat, k \in 1..Len(s),
           LengthFits(s, k), IsMessage(s[k]), NEW l
    PROVE  \E pub : /\ Meaning(s, k) = [type |-> 3, val |-> pub]
                    /\ IsPublish(pub) /\ Small(PublishBody(pub, l))
<1>1. /\ \A j \in 1..Len(s) : IsPacket(s[j], ClientLevel(s))
      /\ Len(s) \in Nat
    BY PacketAssumption, ScriptAssumption, Zenon
<1>2. ASSUME NEW j \in 1..Len(s), IsMessage(s[j])
      PROVE  /\ IsPublish(s[j].val)
             /\ ClientLevel(s) # 5 => s[j].val.props = <<>>
    <2>1. PICK p, c : p = s[j] /\ c = ClientLevel(s)
        OBVIOUS
    <2>2. p.type = 3 /\ p.val # None /\ IsPacket(p, c)
        BY <1>1, <1>2, <2>1, TypeNumbers, Zenon DEF IsMessage
    <2>3. /\ p.type # 1 /\ p.type \notin 4..7 /\ p.type # 8 /\ p.type # 10
          /\ p.type # 14
        BY <2>2
    <2>4. IsPublish(p.val) /\ (c # 5 => p.val.props = <<>>)
        BY <2>2, <2>3, TypeNumbers, Zenon DEF IsPacket
    <2> QED
        BY <2>1, <2>4, Zenon
<1>3. PICK old, topic, new : /\ old = s[k].val /\ topic = TopicOf(s, k)
                             /\ new = [old EXCEPT !.topic = topic]
    OBVIOUS
<1>4. Meaning(s, k) = [type |-> 3, val |-> new]
    <2>1. IsPacket(s[k], ClientLevel(s))
        BY <1>1
    <2>2. Meaning(s, k) = [type |-> 3, val |-> [s[k].val EXCEPT !.topic = TopicOf(s, k)]]
        BY <1>1, <2>1, MessageMeaning, Zenon
    <2> QED
        BY <1>3, <2>2, Zenon
<1>5. PICK i \in 1..Len(s) : IsMessage(s[i]) /\ topic = s[i].val.topic
    <2>1. k >= 1 /\ 1..k \subseteq 1..Len(s)
        BY <1>1
    <2>2. \E i \in 1..k : IsMessage(s[i]) /\ TopicOf(s, k) = s[i].val.topic
        BY <2>1, TopicIsWritten, Zenon
    <2> QED
        BY <1>3, <2>1, <2>2, Zenon
<1>6. IsText(topic)
    BY <1>2, <1>5, Zenon DEF IsPublish
<1>7. IsPublish(old) /\ (ClientLevel(s) # 5 => old.props = <<>>)
    BY <1>2, <1>3, Zenon
<1>8. PICK c : c = ClientLevel(s)
    OBVIOUS
<1>9. /\ IsPublish(new)
      /\ Len(PublishBody(new, l)) <= Len(PublishBody(old, c)) + 1 + Len(topic)
    <2>1. c # 5 => old.props = <<>>
        BY <1>7, <1>8, Zenon
    <2> QED
        BY <1>3, <1>6, <1>7, <2>1, PassedOnSize
<1>10. PICK x \in Nat : x = Len(PublishBody(old, c)) /\ x <= MaxPacket
    BY <1>3, <1>7, <1>8, BodyWithinLimit, Zenon
<1>11. PICK u \in Nat : u = Len(topic)
    <2>1. topic \in Seq(0..255)
        BY <1>6, Zenon DEF IsText
    <2>2. Len(topic) \in Nat
        BY <2>1
    <2> QED
        BY <2>2
<1>12. PICK n \in Nat : n = Len(PublishBody(new, l))
    <2>1. PublishBody(new, l) \in Seq(Nat)
        BY <1>9, PublishRead, Zenon
    <2> QED
        BY <2>1
<1>13. MaxPacket + 1 + u < Base * Base * Base * Base
    BY <1>5, <1>11, Zenon DEF RoomForTopics
<1>14. n <= x + 1 + u
    BY <1>9, <1>10, <1>11, <1>12, Zenon
<1>15. n < Base * Base * Base * Base
    <2>1. PICK limit : limit = Base * Base * Base * Base /\ limit \in Nat
        BY BaseAssumption
    <2>2. MaxPacket + 1 + u < limit /\ MaxPacket \in Nat
        BY <1>13, <2>1, StreamAssumption
    <2>3. n < limit
        BY <1>10, <1>14, <2>1, <2>2
    <2> QED
        BY <2>1, <2>3, Zenon
<1>16. Small(PublishBody(new, l))
    BY <1>12, <1>15, FourDigitsSuffice, Zenon DEF Small
<1> QED
    BY <1>4, <1>9, <1>16, Zenon

LEMMA LimitSuffices ==
    ASSUME RoomForTopics, FramingInv, HistoryInv, WithinLimit
    PROVE  PassedOnIntact
<1>1. /\ script \in Scripts /\ Len(handled) \in Nat /\ Len(script) \in Nat
      /\ Len(handled) <= Len(script)
    <2>1. script \in Scripts
        BY Zenon DEF FramingInv, StreamTypes
    <2>2. Len(script) \in Nat
        BY <2>1, ScriptAssumption
    <2>3. /\ Len(handled) \in Nat /\ Len(sent) \in Nat
          /\ Len(handled) <= Len(sent) /\ Len(sent) <= Len(script)
        BY Numbers, Zenon DEF FramingInv, Counts
    <2> QED
        BY <2>1, <2>2, <2>3
<1>2. ASSUME NEW i \in 1..Len(handled), NEW l \in 3..5, IsMessage(handled[i])
      PROVE  \E pub : /\ handled[i].val = pub
                      /\ IsPublish(pub) /\ Small(PublishBody(pub, l))
    <2>1. handled[i] = Meaning(script, i) /\ LengthFits(script, i)
        BY Zenon DEF HistoryInv, WithinLimit
    <2>2. IsMessage(script[i])
        BY <1>2, <2>1, Zenon DEF Meaning
    <2>3. i \in Nat /\ i \in 1..Len(script)
        BY <1>1
    <2>4. PICK pub : /\ Meaning(script, i) = [type |-> 3, val |-> pub]
                     /\ IsPublish(pub) /\ Small(PublishBody(pub, l))
        BY <1>1, <2>1, <2>2, <2>3, MeaningFits, Zenon
    <2>5. handled[i].val = pub
        BY <2>1, <2>4
    <2> QED
        BY <2>4, <2>5, Zenon
<1>3. ASSUME NEW i \in 1..Len(handled), NEW l \in 3..5, IsMessage(handled[i])
      PROVE  LET pub == handled[i].val
                 bytes == EncodePublish(pub, l)
                 len == DecodeVarint(bytes, 1)
                 r == ParsePublish(bytes[1] % 16, SubSeq(bytes, len.at + 1, Len(bytes)), l)
             IN  /\ len.ok /\ len.at + len.val = Len(bytes)
                 /\ r.ok
                 /\ r.val = IF l = 5 THEN pub ELSE [pub EXCEPT !.props = <<>>]
    <2>1. IsPublish(handled[i].val) /\ Small(PublishBody(handled[i].val, l))
        BY <1>2, <1>3, Zenon
    <2>2. PICK pub, bytes : pub = handled[i].val /\ bytes = EncodePublish(pub, l)
        OBVIOUS
    <2>3. PICK len : len = DecodeVarint(bytes, 1)
        OBVIOUS
    <2>4. PICK r : r = ParsePublish(bytes[1] % 16, SubSeq(bytes, len.at + 1, Len(bytes)), l)
        OBVIOUS
    <2>5. IsPublish(pub) /\ Small(PublishBody(pub, l))
        BY <2>1, <2>2, Zenon
    <2>6. /\ len.ok /\ len.at + len.val = Len(bytes)
          /\ r.ok
          /\ r.val = IF l = 5 THEN pub ELSE [pub EXCEPT !.props = <<>>]
        BY <2>2, <2>3, <2>4, <2>5, ReadAsWritten
    <2> QED
        BY <2>2, <2>3, <2>4, <2>6, Zenon
<1> QED
    BY <1>3, Zenon DEF PassedOnIntact

\* Messages can be passed on to receivers of any level, if the limit of
\* packets leaves room for a topic in place of an alias.
THEOREM MessagesPassOn ==
    ASSUME RoomForTopics
    PROVE  Spec => []PassedOnIntact
<1>1. FramingInv /\ HistoryInv /\ WithinLimit /\ [Next]_vars => WithinLimit'
    BY LimitKept
<1>2. FramingInv /\ HistoryInv /\ WithinLimit => PassedOnIntact
    BY LimitSuffices
<1> QED
    BY <1>1, <1>2, LimitInit, FramingInvariance, HistoryInvariance, PTL DEF Spec

=============================================================================
